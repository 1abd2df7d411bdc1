----------------------------- MODULE EvidenceLog -----------------------------
(***************************************************************************)
(* What the evidence root promises whoever reads it: artifacts appear one  *)
(* at a time, whole, and are never changed or removed; each new one rests  *)
(* on artifacts that are already there; and no annotation is revised       *)
(* twice, so the revisions of an annotation form a line.                   *)
(***************************************************************************)
EXTENDS EvidenceArtifact

VARIABLE log   \* the readable artifacts, by directory

Init == log = [i \in DOMAIN AlreadyThere |-> AlreadyThere[i]]

\* One artifact is added, and it is grounded in what was there before.
Next == \E i \in DOMAIN log' \ DOMAIN log :
            /\ DOMAIN log' = DOMAIN log \cup {i}
            /\ \A j \in DOMAIN log : log'[j] = log[j]
            /\ Grounded(log, log'[i])

Spec == Init /\ [][Next]_log
=============================================================================
