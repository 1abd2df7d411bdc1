---------------------------- MODULE ScrollEvidence ----------------------------
(***************************************************************************)
(* The scroll scenario of an observation: the window and the resolved      *)
(* targets are measured, one scroll action is performed, they are measured *)
(* again, and who scrolled is concluded from the two measurements alone.   *)
(*                                                                         *)
(* A scenario is [initial, final], two snapshots [window, targets]: the    *)
(* position of the window, and per configured target Unavailable when it   *)
(* did not resolve, or                                                     *)
(*   offset    how far its own content is scrolled                         *)
(*   rect      [x, y, width, height], in the frame of the viewport         *)
(*   visible   whether it was rendered                                     *)
(***************************************************************************)
EXTENDS Integers

CONSTANT Unavailable   \* evidence that is not there

ASSUME UnavailableIsNoRelation == Unavailable \notin {"above", "below", "intersecting"}

Right(r) == r.x + r.width
Bottom(r) == r.y + r.height

\* deriveViewportRelation, of the vertical axis.
VerticalRelation(r, viewport) ==
    CASE Bottom(r) <= 0 -> "above"
      [] Bottom(r) > 0 /\ r.y >= viewport.height -> "below"
      [] OTHER -> "intersecting"

\* captureTargetScrollRuntimeState: of what is not rendered the offset and the
\* rectangle are measured all the same, but where it lies says nothing.
ViewportRelationOf(snapshot, t, viewport) ==
    IF \/ t \notin DOMAIN snapshot.targets \/ snapshot.targets[t] = Unavailable
       \/ ~ snapshot.targets[t].visible
    THEN Unavailable
    ELSE VerticalRelation(snapshot.targets[t].rect, viewport)

WindowMoved(scroll) == scroll.initial.window # scroll.final.window

\* deriveTargetScrollTransition: followed through the scenario only if nothing
\* is missing of it in either snapshot, where it lies included.
Followed(scroll, viewport) ==
    {t \in DOMAIN scroll.initial.targets \cap DOMAIN scroll.final.targets :
       /\ ViewportRelationOf(scroll.initial, t, viewport) # Unavailable
       /\ ViewportRelationOf(scroll.final, t, viewport) # Unavailable}

\* deriveScrollScenarioTransition, the targets whose own content moved.
MovedTargets(scroll, viewport) ==
    {t \in Followed(scroll, viewport) : scroll.initial.targets[t].offset # scroll.final.targets[t].offset}

Owner(kind, t) == [kind |-> kind, target |-> t]

\* deriveScrollOwner.
ScrollOwner(scroll, viewport) ==
    LET moved == MovedTargets(scroll, viewport)
    IN CASE ~ WindowMoved(scroll) /\ moved = {} -> Owner("none", Unavailable)
         [] WindowMoved(scroll) /\ moved = {} -> Owner("document", Unavailable)
         [] ~ WindowMoved(scroll) /\ \E t \in moved : moved = {t} -> Owner("target", CHOOSE t \in moved : TRUE)
         [] OTHER -> Owner("indeterminate", Unavailable)
=============================================================================
