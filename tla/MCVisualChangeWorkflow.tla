----------------------- MODULE MCVisualChangeWorkflow -----------------------
(* Small instances of VisualChangeWorkflow for TLC.                        *)
EXTENDS VisualChangeWorkflow, TLC

CONSTANTS b1, c1, c2, r1, r2,          \* artifacts, as model values
          h1, h2,                      \* request handlers
          baseline, current            \* aliases

ActualScope == [mode |-> "actual-frontend", baselineContract |-> b1,
                target |-> c1, observation |-> 0]
ReferenceScope == [mode |-> "reference", baselineContract |-> b1,
                   target |-> r1, observation |-> 0]

ActualOnly == {ActualScope}
ReferenceOnly == {ReferenceScope}
BothModes == {ActualScope, ReferenceScope}

ClientSymmetry == Permutations(Client)
=============================================================================
