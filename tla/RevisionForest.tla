--------------------------- MODULE RevisionForest ---------------------------
(***************************************************************************)
(* What the visual-change evidence promises its readers, whoever writes    *)
(* it and in whatever order: a history of immutable revisions that only    *)
(* grows, in which every revision either opens a workflow or is exactly    *)
(* one legal lifecycle step away from the revision it names as its parent. *)
(* The parents form a forest, not a list: nothing in the code makes a      *)
(* revision the only child of its parent.                                  *)
(***************************************************************************)
EXTENDS VisualChangeArtifact

VARIABLE store   \* Seq(Artifact): the persisted revisions, oldest first

Init == store = << >>

\* Exactly one revision is added, at the end, and it is a legal one.
Next == /\ Len(store') = Len(store) + 1
        /\ LET new == store'[Len(store) + 1]
           IN store' = Append(store, new) /\ Legal(store, new)

Spec == Init /\ [][Next]_store
=============================================================================
