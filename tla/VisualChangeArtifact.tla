------------------------ MODULE VisualChangeArtifact ------------------------
(***************************************************************************)
(* The data of a visual-change workflow: the frozen scope, the project     *)
(* configuration's acceptance selection, and the immutable revision        *)
(* artifact with its attempts, activation record and governance results    *)
(* (src/domain/visualChangeWorkflow.ts, src/domain/visualChangeCycle.ts).  *)
(*                                                                         *)
(* A revision is named by its position in the history of persisted         *)
(* revisions; 0 is "no revision".  The code draws a fresh random identity  *)
(* per persistence, so two revisions never share a name either way.        *)
(* Observations are numbered in the order they were captured.  An attempt  *)
(* identity is a hash of the request and the candidate observation, so     *)
(* inside one workflow the candidate number stands for it, and the         *)
(* "prior attempt" link is the preceding position in the sequence.         *)
(***************************************************************************)
EXTENDS Integers, Sequences

CONSTANTS
    Baseline,         \* persistent baseline-contract artifacts
    Contract,         \* per-change contract artifacts
    Reference,        \* external-reference artifacts
    Approved,         \* those whose lifecycle state is approved
    Scope,            \* the frozen scopes a workflow may be created for
    None,             \* an absent optional field
    ProjectBindings,  \* a bindings file authored by the project itself
    MaxAttempts       \* MAX_VISUAL_CHANGE_ATTEMPTS (20 in the code)

Modes == {"actual-frontend", "reference"}

ASSUME ScopeAssumption ==
    /\ Approved \subseteq Reference
    /\ Scope \subseteq [mode: Modes, baselineContract: Baseline \cup {None},
                        target: Contract \cup Reference, observation: Nat]
    /\ \A s \in Scope : /\ s.mode = "actual-frontend" => s.target \in Contract
                        /\ s.mode = "reference" => s.target \in Reference

ASSUME MaxAttemptsAssumption == MaxAttempts \in Nat \ {0}

-----------------------------------------------------------------------------
(* The project configuration, and the part of it a workflow may switch.    *)

\* A bindings path is absent, the project's own file, or <revision>/bindings.json.
BindingsFile == {None, ProjectBindings} \cup (Nat \ {0})

Selection == [change: Contract \cup {None}, reference: Reference \cup {None},
              bindings: BindingsFile]

\* The baseline is the field of frontend-observer.json no workflow owns.
Config == [baseline: Baseline \cup {None}, change: Contract \cup {None},
           reference: Reference \cup {None}, bindings: BindingsFile]

\* acceptance.contract has both artifacts or is absent, and a bindings file
\* exists only inside acceptance.reference.
ValidConfig(c) == /\ (c.baseline = None) <=> (c.change = None)
                  /\ c.reference = None => c.bindings = None

Selected(c) == [change |-> c.change, reference |-> c.reference, bindings |-> c.bindings]

-----------------------------------------------------------------------------
(* The artifact.                                                           *)

Status == {"PASS", "FAIL", "REVIEW_REQUIRED", "BLOCKED"}
ReviewState == {"pending", "correction-requested", "accepted", "abandoned"}

\* What one recorded check says, with the inputs it was really computed from:
\* `baseline`, `contract` and `reference` are what checkProject read.
Attempt == [candidate: Nat, baseline: Nat, status: Status,
            contract: Contract \cup {None}, reference: Reference \cup {None},
            review: ReviewState]

ActivationRecord == [before: Selection, after: Selection, restored: BOOLEAN]

\* An absent field is none of the values the field can have.
ASSUME NoneAssumption ==
    /\ None \notin Baseline \cup Contract \cup Reference \cup Nat \cup ActivationRecord
    /\ ProjectBindings \notin Nat \cup {None}

GovernanceResults == [baseline: Nat \cup {None}, reference: BOOLEAN]
NoGovernance == [baseline |-> None, reference |-> FALSE]

Artifact == [scope: Scope, supersedes: Nat, attempts: Seq(Attempt),
             activation: ActivationRecord \cup {None}, governance: GovernanceResults]

\* The artifact a fresh workflow persists for a scope.
Root(s) == [scope |-> s, supersedes |-> 0, attempts |-> << >>,
            activation |-> None, governance |-> NoGovernance]

LatestAttempt(a) == a.attempts[Len(a.attempts)]

\* deriveVisualChangeCycleState
Cycle(a) == IF a.attempts = << >> THEN "initial"
            ELSE IF LatestAttempt(a).review = "pending" THEN "review-required"
                 ELSE LatestAttempt(a).review

\* Activated and not restored: the only artifacts a check may run against.
Active(a) == a.activation # None /\ ~a.activation.restored

-----------------------------------------------------------------------------
(* The lifecycle: how one revision a may follow the revision p it          *)
(* supersedes.  These are the promises of docs/CONTRACTS.md about one      *)
(* history step, stated without saying which request makes it.             *)

\* a is p with only the named field, and the parent link, replaced.
OnlyActivationOf(p, a) == a = [p EXCEPT !.supersedes = a.supersedes, !.activation = a.activation]
OnlyAttemptsOf(p, a)   == a = [p EXCEPT !.supersedes = a.supersedes, !.attempts = a.attempts]
OnlyGovernanceOf(p, a) == a = [p EXCEPT !.supersedes = a.supersedes, !.governance = a.governance]

\* An activation replaces a target the project had selected by the scope's
\* own, and moves nothing of the other mode's selection.
Confined(s, activation) ==
    IF s.mode = "actual-frontend"
    THEN /\ activation.before.change # None
         /\ activation.after.change = s.target
         /\ activation.after.reference = activation.before.reference
         /\ activation.after.bindings = activation.before.bindings
    ELSE /\ activation.before.reference # None
         /\ activation.after.reference = s.target
         /\ activation.after.change = activation.before.change

ActivatedFrom(p, a) == /\ p.activation = None
                       /\ a.activation \in ActivationRecord
                       /\ ~a.activation.restored
                       /\ Confined(p.scope, a.activation)
                       /\ OnlyActivationOf(p, a)

RestoredFrom(p, a) == /\ Active(p)
                      /\ a.activation = [p.activation EXCEPT !.restored = TRUE]
                      /\ OnlyActivationOf(p, a)

\* A check adds one pending attempt, with a candidate this history does not
\* hold, to an active workflow that is waiting for one.
RecordedFrom(p, a) == /\ Active(p)
                      /\ Cycle(p) \in {"initial", "correction-requested"}
                      /\ Len(p.attempts) < MaxAttempts
                      /\ Len(a.attempts) = Len(p.attempts) + 1
                      /\ LatestAttempt(a) \in Attempt
                      /\ LatestAttempt(a).review = "pending"
                      /\ LatestAttempt(a).baseline = p.scope.observation
                      /\ \A i \in DOMAIN p.attempts :
                            p.attempts[i].candidate # LatestAttempt(a).candidate
                      /\ a.attempts = Append(p.attempts, LatestAttempt(a))
                      /\ OnlyAttemptsOf(p, a)

\* A decision changes the latest attempt's review and nothing else.
ReviewedFrom(p, a) ==
    /\ p.attempts # << >>
    /\ Len(a.attempts) = Len(p.attempts)
    /\ LET decision == LatestAttempt(a).review
       IN /\ \/ /\ LatestAttempt(p).review = "pending"
                /\ decision \in {"correction-requested", "accepted", "abandoned"}
             \/ /\ LatestAttempt(p).review = "correction-requested"
                /\ decision = "abandoned"
          /\ decision = "accepted" => LatestAttempt(p).status = "PASS"
          /\ decision # "abandoned" => Active(p)
          /\ a.attempts = [p.attempts EXCEPT ![Len(p.attempts)].review = decision]
    /\ OnlyAttemptsOf(p, a)

\* A governance result is recorded once, for the accepted candidate.
GovernedFrom(p, a) ==
    /\ Cycle(p) = "accepted"
    /\ \/ /\ p.governance.baseline = None
          /\ a.governance = [p.governance EXCEPT !.baseline = LatestAttempt(p).candidate]
       \/ /\ ~p.governance.reference
          /\ p.scope.mode = "reference"
          /\ a.governance = [p.governance EXCEPT !.reference = TRUE]
    /\ OnlyGovernanceOf(p, a)

DerivedFrom(p, a) == \/ ActivatedFrom(p, a)
                     \/ RestoredFrom(p, a)
                     \/ RecordedFrom(p, a)
                     \/ ReviewedFrom(p, a)
                     \/ GovernedFrom(p, a)

\* What may be added to a history: a fresh workflow, or the next revision of
\* any revision the history holds.  Nothing makes it the only next one.
Legal(history, a) ==
    \/ a.scope \in Scope /\ a = Root(a.scope)
    \/ a.supersedes \in DOMAIN history /\ DerivedFrom(history[a.supersedes], a)

-----------------------------------------------------------------------------
(* What the lifecycle guarantees of every single revision.                 *)

\* Only the latest attempt can be open or final: every earlier one was
\* explicitly sent back for correction before the next check was recorded.
EarlierAttemptsCorrected(a) ==
    \A i \in DOMAIN a.attempts :
        i < Len(a.attempts) => a.attempts[i].review = "correction-requested"

\* Human acceptance exists only on a canonical PASS.
AcceptedPassed(a) ==
    \A i \in DOMAIN a.attempts :
        a.attempts[i].review = "accepted" => a.attempts[i].status = "PASS"

\* Governance results hang on the accepted candidate and outlive nothing else.
GovernanceFollowsAcceptance(a) ==
    /\ a.governance.baseline # None =>
          Cycle(a) = "accepted" /\ LatestAttempt(a).candidate = a.governance.baseline
    /\ a.governance.reference => Cycle(a) = "accepted" /\ a.scope.mode = "reference"

\* Attempts exist only after an activation, are about the frozen baseline,
\* and no candidate is recorded twice.
AttemptsGrounded(a) ==
    /\ a.attempts # << >> => a.activation # None
    /\ \A i \in DOMAIN a.attempts : a.attempts[i].baseline = a.scope.observation
    /\ \A i, j \in DOMAIN a.attempts :
          a.attempts[i].candidate = a.attempts[j].candidate => i = j
    /\ Len(a.attempts) <= MaxAttempts

ActivationConfined(a) == a.activation # None => Confined(a.scope, a.activation)

Disciplined(a) == /\ EarlierAttemptsCorrected(a)
                  /\ AcceptedPassed(a)
                  /\ GovernanceFollowsAcceptance(a)
                  /\ AttemptsGrounded(a)
                  /\ ActivationConfined(a)
=============================================================================
