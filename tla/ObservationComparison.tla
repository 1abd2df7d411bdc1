------------------------ MODULE ObservationComparison ------------------------
(***************************************************************************)
(* What one observation says of its page's layout, and how two            *)
(* observations of it differ.  Both are pure functions of the artifacts:   *)
(* deriveLayoutRelationships and compareObservations.                      *)
(*                                                                         *)
(* An observation is a record of                                           *)
(*   context   what was asked of the page and in which state it was shown: *)
(*             [request, viewport, engine, state]                          *)
(*   targets   the configured target names, in their configured order      *)
(*   of        target -> its evidence                                      *)
(*   page      [width, height, viewport], or Unavailable                   *)
(*   scroll    [initial, final], its scroll scenario, or Unavailable       *)
(* A target's evidence has its selection ("matched", "not-found",          *)
(* "ambiguous", "unavailable"); that of a matched target also says         *)
(*   rect      [x, y, width, height]                                       *)
(*   visible   whether it was visible                                      *)
(*   overflow  the axes on which its content exceeds it                    *)
(*   clips     the axes on which its style hides what exceeds it           *)
(*   inside    the targets that contain it in the document                 *)
(* Names are written as their authors spelled them, in each observation    *)
(* its own way, and Lower is what toLowerCase makes of one.                *)
(***************************************************************************)
EXTENDS ScrollEvidence, Sequences, FiniteSets

CONSTANTS
    GeometryTolerance,   \* pixels by which geometry may differ unnoticed
    Lower(_)             \* a name in lower case

ASSUME ToleranceInPixels == GeometryTolerance \in Nat

Axes == {"horizontal", "vertical"}
Properties == {"x", "y", "width", "height"}

SameName(m, n) == Lower(m) = Lower(n)

Configured(o) == {o.targets[i] : i \in DOMAIN o.targets}
Precedes(o, s, r) == \E i, j \in DOMAIN o.targets : i < j /\ o.targets[i] = s /\ o.targets[j] = r

\* normalizeRequest: no two targets of one name.
NamesDiffer(o) == \A s, t \in Configured(o) : SameName(s, t) => s = t

\* targetPresence: a target nobody configured is unavailable.
Presence(o, t) == IF t \in Configured(o) THEN o.of[t].selection ELSE "unavailable"
Matched(o, t) == Presence(o, t) = "matched"
Rect(o, t) == o.of[t].rect

\* A rectangle as the browser measures it; what is visible has an extent.
IsRect(r) == r.x \in Int /\ r.y \in Int /\ r.width \in Nat /\ r.height \in Nat
IsMeasured(evidence) ==
    /\ IsRect(evidence.rect) /\ evidence.visible \in BOOLEAN
    /\ evidence.visible => evidence.rect.width > 0 /\ evidence.rect.height > 0

\* What every observation is: configured names are told apart, and what was
\* measured was measured of what is configured.
IsObservation(o) ==
    /\ DOMAIN o.targets \subseteq Nat
    /\ \A i, j \in DOMAIN o.targets : o.targets[i] = o.targets[j] => i = j
    /\ \A t \in Configured(o) : Matched(o, t) => IsMeasured(o.of[t])
    /\ o.context.viewport # Unavailable /\ o.context.viewport.height \in Nat
    /\ o.page # Unavailable => o.page.width \in Nat /\ o.page.height \in Nat /\ o.page.viewport \in Nat
    /\ o.scroll # Unavailable =>
          \A s \in {o.scroll.initial, o.scroll.final} :
              /\ DOMAIN s.targets \subseteq Configured(o)
              /\ \A t \in DOMAIN s.targets : s.targets[t] # Unavailable => IsMeasured(s.targets[t])

Apart(p, q) == p - q > GeometryTolerance \/ q - p > GeometryTolerance

-----------------------------------------------------------------------------
(* Layout relationships of one observation                                 *)

\* The families of kinds: a pair of targets has at most one of each.
Families ==
    [horizontal |-> {"left-of", "right-of", "horizontally-overlapping"},
     vertical   |-> {"above", "below", "vertically-overlapping"},
     area       |-> {"overlaps", "does-not-overlap"},
     relWidth   |-> {"wider-than", "narrower-than", "equal-width-within-tolerance"},
     fit        |-> {"fits-inside", "does-not-fit-inside"},
     sequence   |-> {"follows-vertically"},
     pageWidth  |-> {"document-width-fits-viewport", "document-width-exceeds-viewport"}]

ASSUME UnavailableIsNoKind == \A f \in DOMAIN Families : Unavailable \notin Families[f]

PairwiseFamilies == DOMAIN Families \ {"pageWidth"}
RelativePosition == Families["horizontal"] \cup Families["vertical"] \cup Families["area"]

FamilyOf(kind) == CHOOSE f \in DOMAIN Families : kind \in Families[f]

HorizontalOrderOf(a, b) ==
    IF Right(a) <= b.x + GeometryTolerance THEN "left-of"
    ELSE IF Right(b) <= a.x + GeometryTolerance THEN "right-of"
    ELSE "horizontally-overlapping"

VerticalOrderOf(a, b) ==
    IF Bottom(a) <= b.y + GeometryTolerance THEN "above"
    ELSE IF Bottom(b) <= a.y + GeometryTolerance THEN "below"
    ELSE "vertically-overlapping"

\* Mutant: what overlaps on one axis overlaps.
OverlapOnEitherAxis(a, b) ==
    IF \/ \A far \in {Right(a), Right(b)}, near \in {a.x, b.x} : far - near > GeometryTolerance
       \/ \A far \in {Bottom(a), Bottom(b)}, near \in {a.y, b.y} : far - near > GeometryTolerance
    THEN "overlaps" ELSE "does-not-overlap"

\* The smaller far edge is beyond the larger near edge, on both axes.
AreaOverlapOf(a, b) ==
    IF /\ \A far \in {Right(a), Right(b)}, near \in {a.x, b.x} : far - near > GeometryTolerance
       /\ \A far \in {Bottom(a), Bottom(b)}, near \in {a.y, b.y} : far - near > GeometryTolerance
    THEN "overlaps" ELSE "does-not-overlap"

RelativeWidthOf(a, b) ==
    IF a.width > b.width + GeometryTolerance THEN "wider-than"
    ELSE IF a.width < b.width - GeometryTolerance THEN "narrower-than"
    ELSE "equal-width-within-tolerance"

GeometricFitOf(a, b) ==
    IF /\ a.x >= b.x - GeometryTolerance /\ Right(a) <= Right(b) + GeometryTolerance
       /\ a.y >= b.y - GeometryTolerance /\ Bottom(a) <= Bottom(b) + GeometryTolerance
    THEN "fits-inside" ELSE "does-not-fit-inside"

Relationship(kind, s, r) == [kind |-> kind, subject |-> s, related |-> r]

\* Whichever of the two follows is the subject, whatever their configured order.
VerticalSequenceOf(o, s, r) ==
    IF Bottom(Rect(o, s)) <= Rect(o, r).y + GeometryTolerance THEN {Relationship("follows-vertically", r, s)}
    ELSE IF Bottom(Rect(o, r)) <= Rect(o, s).y + GeometryTolerance THEN {Relationship("follows-vertically", s, r)}
    ELSE {}

\* Targets that can honestly carry a relationship: measured and not hidden.
Eligible(o) == {t \in Configured(o) : Matched(o, t) /\ o.of[t].visible}

\* deriveLayoutRelationships: the earlier configured target is the subject.
PairwiseRelationships(o) ==
    UNION {LET a == Rect(o, p[1])
               b == Rect(o, p[2])
           IN {Relationship(kind, p[1], p[2]) :
                 kind \in {HorizontalOrderOf(a, b), VerticalOrderOf(a, b), AreaOverlapOf(a, b),
                           RelativeWidthOf(a, b), GeometricFitOf(a, b)}}
              \cup VerticalSequenceOf(o, p[1], p[2])
           : p \in {p \in Eligible(o) \X Eligible(o) : Precedes(o, p[1], p[2])}}

PageRelationship(o) ==
    CASE o.page = Unavailable -> Unavailable
      [] o.page # Unavailable /\ o.page.width <= o.page.viewport + GeometryTolerance
           -> "document-width-fits-viewport"
      [] OTHER -> "document-width-exceeds-viewport"

\* findPairwiseKind, findPairwiseInFamily: undefined when there is no such record.
KindBetween(graph, family, s, r) ==
    LET found == {k \in Families[family] : Relationship(k, s, r) \in graph}
    IN IF found = {} THEN Unavailable ELSE CHOOSE k \in found : TRUE

\* deriveTargetClipping: hidden content, on an axis where there is some.
ClippedAxes(evidence) == evidence.overflow \cap evidence.clips

-----------------------------------------------------------------------------
(* Comparison                                                              *)

\* What a project may declare of the state in which a page is shown.
StateDimensions == {"theme", "authenticatedState", "applicationState"}

\* assessOptionalComparabilityDimension: what one side leaves out is not assessed.
Mismatched(p, q) == Unavailable \notin {p, q} /\ p # q

\* evaluateComparability, without the warnings that change nothing; request is
\* the artifact's kind, its schema version, the address and the scroll scenario.
Comparable(before, after) ==
    LET was == before.context
        is  == after.context
    IN /\ was.request = is.request /\ was.viewport = is.viewport
       /\ ~ Mismatched(was.engine, is.engine)
       /\ \A d \in StateDimensions : ~ Mismatched(was.state[d], is.state[d])

Difference(kind, subject, relationship) ==
    [kind |-> kind, subject |-> subject, relationship |-> relationship]

TargetKinds == {"appeared", "disappeared", "moved", "resized", "visibility-changed",
                "clipping-changed", "horizontal-overflow-changed", "vertical-overflow-changed"}

OverflowChanged(was, is, axis) == (axis \in was.overflow) # (axis \in is.overflow)

\* compareOneTarget, both sides matched.
RenderedChange(kind, was, is) ==
    \/ kind = "moved" /\ \E p \in {"x", "y"} : Apart(is.rect[p], was.rect[p])
    \/ kind = "resized" /\ \E p \in {"width", "height"} : Apart(is.rect[p], was.rect[p])
    \/ kind = "visibility-changed" /\ was.visible # is.visible
    \/ kind = "clipping-changed" /\ ClippedAxes(was) # ClippedAxes(is)
    \/ kind = "horizontal-overflow-changed" /\ OverflowChanged(was, is, "horizontal")
    \/ kind = "vertical-overflow-changed" /\ OverflowChanged(was, is, "vertical")

\* normalizedTargetMap: a target of the other observation, as this one spells it.
Counterpart(o, t) == CHOOSE s \in Configured(o) : SameName(s, t)

\* Mutant: a target is looked up under the other observation's spelling.
SpelledAlike(before, after) == Configured(before) \cap Configured(after)

\* commonTargets: a target is spoken of as before spells it.
CommonTargets(before, after) ==
    {t \in Configured(before) : \E s \in Configured(after) : SameName(s, t)}

\* compareOneTarget: what is ambiguous or unavailable on a side is no difference.
TargetDifferences(before, after, t) ==
    LET was == before.of[t]
        is  == after.of[Counterpart(after, t)]
        Changed(kind) ==
            \/ kind = "appeared" /\ was.selection = "not-found" /\ is.selection = "matched"
            \/ kind = "disappeared" /\ was.selection = "matched" /\ is.selection = "not-found"
            \/ was.selection = "matched" /\ is.selection = "matched" /\ RenderedChange(kind, was, is)
    IN {Difference(kind, << t >>, Unavailable) : kind \in {kind \in TargetKinds : Changed(kind)}}

\* Matched on both sides: only between these is anything compared pairwise.
MatchedTargets(before, after) ==
    {t \in CommonTargets(before, after) : Matched(before, t) /\ Matched(after, Counterpart(after, t))}

ContainmentDifferences(before, after) ==
    {Difference("containment-changed", << t >>, Unavailable) :
       t \in {t \in MatchedTargets(before, after) :
                \E other \in MatchedTargets(before, after) \ {t} :
                    (other \in before.of[t].inside)
                        # (Counterpart(after, other) \in after.of[Counterpart(after, t)].inside)}}

PageDifferences(before, after) ==
    IF /\ before.page # Unavailable /\ after.page # Unavailable
       /\ \E side \in {"width", "height"} : Apart(before.page[side], after.page[side])
    THEN {Difference("page-size-changed", << >>, Unavailable)} ELSE {}

\* scrollOwnerOf.
ScrollOwnerOf(o) == ScrollOwner(o.scroll, o.context.viewport)

ScrollDifferences(before, after) ==
    IF /\ before.scroll # Unavailable /\ after.scroll # Unavailable
       /\ ScrollOwnerOf(before) # ScrollOwnerOf(after)
    THEN {Difference("scroll-owner-changed", << >>, Unavailable)} ELSE {}

\* Mutant: a relationship that was not there before is no change.
OnlyWhatWasRelated(before, after) ==
    LET both == MatchedTargets(before, after)
        Kind(o, f, x, y) == KindBetween(PairwiseRelationships(o), f, x, y)
        Is(t) == Counterpart(after, t)
    IN {c \in {[subject |-> << x, y >>, before |-> Kind(before, f, x, y), after |-> Kind(after, f, Is(x), Is(y))] :
                  f \in PairwiseFamilies, x \in both, y \in both} :
          /\ Precedes(before, c.subject[1], c.subject[2])
          /\ c.before # c.after /\ c.before # Unavailable}

\* deriveRelationshipChanges: each family of each pair, in the order of before.
PairwiseChanges(before, after) ==
    LET graphBefore == PairwiseRelationships(before)
        graphAfter  == PairwiseRelationships(after)
        both == MatchedTargets(before, after)
        Change(f, x, y) == [subject |-> << x, y >>,
                            before |-> KindBetween(graphBefore, f, x, y),
                            after |-> KindBetween(graphAfter, f, Counterpart(after, x), Counterpart(after, y))]
        all == {Change(f, x, y) : f \in PairwiseFamilies, x \in both, y \in both}
    IN {c \in all : Precedes(before, c.subject[1], c.subject[2]) /\ c.before # c.after}

PageChanges(before, after) ==
    IF PageRelationship(before) = PageRelationship(after) THEN {}
    ELSE {[subject |-> << >>, before |-> PageRelationship(before), after |-> PageRelationship(after)]}

RelationshipChanges(before, after) == PairwiseChanges(before, after) \cup PageChanges(before, after)

\* The kind a change is filed under: what was, or what is when nothing was.
ChangedKind(change) == IF change.before # Unavailable THEN change.before ELSE change.after

RelationshipDifference(change) ==
    Difference(IF ChangedKind(change) \in RelativePosition THEN "relative-position-changed"
                                                            ELSE "relationship-changed",
               change.subject, ChangedKind(change))

\* compareObservations.
Compare(before, after) ==
    IF ~ Comparable(before, after)
    THEN [comparable |-> FALSE, changes |-> {}, differences |-> {}]
    ELSE [comparable |-> TRUE,
          changes |-> RelationshipChanges(before, after),
          differences |->
              (UNION {TargetDifferences(before, after, t) : t \in CommonTargets(before, after)})
              \cup ContainmentDifferences(before, after)
              \cup PageDifferences(before, after)
              \cup ScrollDifferences(before, after)
              \cup {RelationshipDifference(change) : change \in RelationshipChanges(before, after)}]
=============================================================================
