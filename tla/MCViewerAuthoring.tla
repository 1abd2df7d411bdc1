------------------------- MODULE MCViewerAuthoring -------------------------
(* Small instances of ViewerAuthoring for TLC.                             *)
EXTENDS ViewerAuthoring, TLC

CONSTANTS v1, v2     \* viewer processes

SessionSymmetry == Permutations(Session)
=============================================================================
