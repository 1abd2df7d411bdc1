---------------------- MODULE FrontendContractEvaluation ----------------------
(***************************************************************************)
(* evaluateFrontendContract: the verdict of a baseline contract and a      *)
(* change contract on two compared observations, a pure function.          *)
(*                                                                         *)
(* A clause is [id, primitive]; a clause of a change contract also has its *)
(* mode (clauseMode of its category and its expected-dependent mode) and   *)
(* the baseline clauses it supersedes.  A primitive is a record with its   *)
(* kind and what the kind takes: targets, axes, a bound, a relationship, a *)
(* property with a tolerance or a minimum.                                 *)
(***************************************************************************)
EXTENDS ObservationComparison

Modes == {"default", "required", "permitted", "preserved"}
Statuses == {"pass", "fail", "unavailable", "conflict"}

PassIf(condition) == IF condition THEN "pass" ELSE "fail"
JudgedIf(known, condition) == IF known THEN PassIf(condition) ELSE "unavailable"

-----------------------------------------------------------------------------
(* Primitives about one observation                                        *)

StateKinds == {"target-visible", "target-not-clipped", "target-width-within-bound",
               "targets-do-not-overlap", "target-wider-than", "target-follows-vertically",
               "target-fits-inside", "document-width-fits-viewport", "scroll-owner-is-document",
               "target-does-not-own-scroll", "target-begins-below-initial-viewport"}

IsStatePrimitive(p) == p.kind \in StateKinds

\* The relationship of a pair, read from either of its directions.
KindEitherWay(graph, family, a, b) ==
    LET direct == KindBetween(graph, family, a, b)
    IN IF direct # Unavailable THEN direct ELSE KindBetween(graph, family, b, a)

\* initialViewportRelation.
InitialRelation(o, t) ==
    IF o.scroll = Unavailable THEN Unavailable
    ELSE ViewportRelationOf(o.scroll.initial, t, o.context.viewport)

\* evaluateStatePrimitive.
StateStatus(p, o) ==
    LET graph == PairwiseRelationships(o)
        area == KindEitherWay(graph, "area", p.a, p.b)
        direct == KindBetween(graph, "relWidth", p.a, p.b)
        reversed == KindBetween(graph, "relWidth", p.b, p.a)
        follows == KindBetween(graph, "sequence", p.a, p.b)
        fit == KindBetween(graph, "fit", p.a, p.b)
    IN CASE p.kind = "target-visible" ->
              JudgedIf(Matched(o, p.a), o.of[p.a].visible)
         [] p.kind = "target-not-clipped" ->
              JudgedIf(Matched(o, p.a), ClippedAxes(o.of[p.a]) \cap p.axes = {})
         [] p.kind = "target-width-within-bound" ->
              JudgedIf(Matched(o, p.a), Rect(o, p.a).width \in p.min .. p.max)
         [] p.kind = "targets-do-not-overlap" ->
              JudgedIf(area # Unavailable, area = "does-not-overlap")
         [] p.kind = "target-wider-than" ->
              JudgedIf(direct # Unavailable \/ reversed # Unavailable,
                       direct = "wider-than" \/ (direct = Unavailable /\ reversed = "narrower-than"))
         [] p.kind = "target-follows-vertically" ->
              JudgedIf(follows # Unavailable \/ (Matched(o, p.a) /\ Matched(o, p.b)),
                       follows # Unavailable)
         [] p.kind = "target-fits-inside" ->
              JudgedIf(fit # Unavailable, fit = "fits-inside")
         [] p.kind = "document-width-fits-viewport" ->
              JudgedIf(PageRelationship(o) # Unavailable,
                       PageRelationship(o) = "document-width-fits-viewport")
         [] p.kind = "scroll-owner-is-document" ->
              JudgedIf(o.scroll # Unavailable, ScrollOwnerOf(o).kind = "document")
         [] p.kind = "target-does-not-own-scroll" ->
              JudgedIf(o.scroll # Unavailable, ScrollOwnerOf(o).target # p.a)
         [] p.kind = "target-begins-below-initial-viewport" ->
              JudgedIf(InitialRelation(o, p.a) # Unavailable, InitialRelation(o, p.a) = "below")

-----------------------------------------------------------------------------
(* Primitives about a change                                               *)

\* sameFamily, of a recorded change's kind and a clause's.
InFamily(change, kind) == ChangedKind(change) \in Families[FamilyOf(kind)]

Directional == {"property-unchanged", "property-increases", "property-decreases"}
ChangeKinds == Directional \cup {"relationship-unchanged"}

PageKinds == {"document-width-fits-viewport", "scroll-owner-is-document"}
PairKinds == {"targets-do-not-overlap", "target-wider-than", "target-follows-vertically", "target-fits-inside"}

\* isValidContractPrimitive, of what tells the evaluation apart.
IsPrimitive(p) ==
    /\ p.kind \in StateKinds \cup ChangeKinds
    /\ p.kind \notin PageKinds \cup {"relationship-unchanged"} => p.a # Unavailable
    /\ p.kind \in PairKinds => p.b # Unavailable /\ p.a # p.b
    /\ p.kind = "relationship-unchanged" => \E f \in DOMAIN Families : p.relationship \in Families[f]
    /\ p.kind \in Directional => p.property \in Properties

\* isValidContractPrimitive, of the numbers: a bound, a tolerance, a minimum.
HasNumbers(p) ==
    /\ p.kind = "target-width-within-bound" => p.min \in Int /\ p.max \in Int /\ p.min <= p.max
    /\ p.kind = "property-unchanged" =>
          /\ p.tolerance.kind \in {"exact", "absolute-px", "percent"}
          /\ p.tolerance.kind # "exact" => p.tolerance.amount \in 0 .. 100
    /\ p.kind \in {"property-increases", "property-decreases"} => p.minimum \in Nat

\* evaluateRelationshipUnchanged.
RelationshipStatus(p, after, comparison) ==
    LET pageLevel == p.relationship \in Families["pageWidth"]
        changed == \E c \in comparison.changes :
                      IF pageLevel THEN c.subject = << >>
                      ELSE c.subject = << p.a, p.b >> /\ InFamily(c, p.relationship)
        now == IF pageLevel THEN PageRelationship(after)
               ELSE KindBetween(PairwiseRelationships(after), FamilyOf(p.relationship), p.a, p.b)
    IN CASE changed -> "fail"
         [] ~ changed /\ now = p.relationship -> "pass"
         [] OTHER -> "unavailable"

\* toleranceToPx; a percentage is of the value before.
WithinTolerance(tolerance, was, is) ==
    LET moved == IF is >= was THEN is - was ELSE was - is
        size == IF was >= 0 THEN was ELSE - was
    IN CASE tolerance.kind = "exact" -> moved = 0
         [] tolerance.kind = "absolute-px" -> moved <= tolerance.amount
         [] tolerance.kind = "percent" -> 100 * moved <= tolerance.amount * size

\* evaluatePropertyDirectional: how far a value went the way the clause names.
Advance(p, was, is) == IF p.kind = "property-increases" THEN is - was ELSE was - is

DirectionHolds(p, mode, was, is) ==
    \/ Advance(p, was, is) > p.minimum
    \/ mode = "permitted" /\ Advance(p, was, is) >= 0

\* evaluatePropertyUnchanged, evaluatePropertyDirectional.
PropertyStatus(p, mode, before, after) ==
    LET was == Rect(before, p.a)[p.property]
        is  == Rect(after, p.a)[p.property]
    IN JudgedIf(Matched(before, p.a) /\ Matched(after, p.a),
                IF p.kind = "property-unchanged" THEN WithinTolerance(p.tolerance, was, is)
                ELSE DirectionHolds(p, mode, was, is))

\* evaluatePrimitiveResult.
PrimitiveStatus(p, mode, before, after, comparison) ==
    CASE IsStatePrimitive(p) -> StateStatus(p, after)
      [] p.kind = "relationship-unchanged" -> RelationshipStatus(p, after, comparison)
      [] OTHER -> PropertyStatus(p, mode, before, after)

\* Mutant: what is to be preserved need not have been there.
HoldsAfterwards(p, mode, before, after, comparison) == PrimitiveStatus(p, mode, before, after, comparison)

\* evaluateClause: what did not hold before cannot be preserved; what could not
\* be told before is judged by what is there after.
ClauseStatus(p, mode, before, after, comparison) ==
    IF mode = "preserved" /\ IsStatePrimitive(p) /\ StateStatus(p, before) = "fail"
    THEN "unavailable"
    ELSE PrimitiveStatus(p, mode, before, after, comparison)
-----------------------------------------------------------------------------
(* Contradictions and scope                                                *)

\* primitivesConflict: only what is provable from the structure of the two.
Contradict(p, q) ==
    /\ p.kind \in Directional /\ q.kind \in Directional
    /\ p.a = q.a /\ p.property = q.property
    /\ p.kind # q.kind

\* Mutant: any relationship of the pair will do.
IsAnyPairDifference(d, family, a, b) ==
    d.relationship # Unavailable /\ d.subject \in {<< a, b >>, << b, a >>}

\* relationshipDiffMatchesPair.
IsPairDifference(d, family, a, b) ==
    d.relationship \in Families[family] /\ d.subject \in {<< a, b >>, << b, a >>}

\* primitiveAccountsForDifference.
AccountsFor(p, d) ==
    \/ /\ d.subject = << p.a >>
       /\ \/ p.kind = "target-visible" /\ d.kind \in {"visibility-changed", "appeared", "disappeared"}
          \/ /\ p.kind = "target-not-clipped"
             /\ d.kind \in {"clipping-changed", "horizontal-overflow-changed", "vertical-overflow-changed"}
          \/ p.kind = "target-width-within-bound" /\ d.kind = "resized"
          \/ /\ p.kind \in Directional
             /\ d.kind = IF p.property \in {"x", "y"} THEN "moved" ELSE "resized"
    \/ p.kind = "targets-do-not-overlap" /\ IsPairDifference(d, "area", p.a, p.b)
    \/ p.kind = "target-wider-than" /\ IsPairDifference(d, "relWidth", p.a, p.b)
    \/ p.kind = "target-follows-vertically" /\ IsPairDifference(d, "sequence", p.a, p.b)
    \/ p.kind = "target-fits-inside" /\ IsPairDifference(d, "fit", p.a, p.b)
    \/ /\ p.kind = "relationship-unchanged"
       /\ d.relationship \in Families[FamilyOf(p.relationship)]
       /\ p.a = Unavailable \/ (d.subject # << >> /\ d.subject[1] = p.a)
       /\ p.b = Unavailable \/ (d.subject # << >> /\ d.subject[2] = p.b)
    \/ /\ p.kind = "document-width-fits-viewport"
       /\ d.kind = "page-size-changed" \/ d.relationship \in Families["pageWidth"]
    \/ p.kind \in {"scroll-owner-is-document", "target-does-not-own-scroll"} /\ d.kind = "scroll-owner-changed"

-----------------------------------------------------------------------------
(* The evaluation                                                          *)

BaselineIds(contract) == {c.id : c \in contract.baseline}
Superseded(contract) == BaselineIds(contract) \cap UNION {c.supersedes : c \in contract.change}
ActiveBaseline(contract) == {c \in contract.baseline : c.id \notin Superseded(contract)}

UnknownReferences(contract, c) == c.supersedes \ BaselineIds(contract)

\* Two clauses demand opposite things and the change does not say it supersedes.
Clash(b, c) == b.id \notin c.supersedes /\ Contradict(b.primitive, c.primitive)

BaselineStatus(contract, b, before, after, comparison) ==
    IF \E c \in contract.change : Clash(b, c) THEN "conflict"
    ELSE ClauseStatus(b.primitive, "preserved", before, after, comparison)

\* Mutant: a clause another change superseded still conflicts.
ChangeAgainstEveryBaseline(contract, c, before, after, comparison) ==
    IF UnknownReferences(contract, c) # {} \/ \E b \in contract.baseline : Clash(b, c)
    THEN "conflict"
    ELSE ClauseStatus(c.primitive, c.mode, before, after, comparison)

ChangeStatus(contract, c, before, after, comparison) ==
    IF UnknownReferences(contract, c) # {} \/ \E b \in ActiveBaseline(contract) : Clash(b, c)
    THEN "conflict"
    ELSE ClauseStatus(c.primitive, c.mode, before, after, comparison)

Result(source, c, status) == [source |-> source, clause |-> c, status |-> status]

\* An incomparable comparison judges nothing.
StatusOr(comparison, status) == IF comparison.comparable THEN status ELSE "unavailable"

ClauseResults(contract, before, after, comparison) ==
    {Result("baseline", b, StatusOr(comparison, BaselineStatus(contract, b, before, after, comparison))) :
       b \in ActiveBaseline(contract)}
    \cup
    {Result("change", c, StatusOr(comparison, ChangeStatus(contract, c, before, after, comparison))) :
       c \in contract.change}

\* Mutant: a superseded clause still authorises.
EveryPrimitive(contract) == {c.primitive : c \in contract.baseline \cup contract.change}

AuthoredPrimitives(contract) ==
    {c.primitive : c \in ActiveBaseline(contract)} \cup {c.primitive : c \in contract.change}

\* Mutant: a kind of change that some clause authorises is expected of every target.
UnexpectedKinds(contract, comparison) ==
    {d \in comparison.differences :
       ~ \E p \in AuthoredPrimitives(contract), t \in comparison.differences : t.kind = d.kind /\ AccountsFor(p, t)}

UnexpectedChanges(contract, comparison) ==
    {d \in comparison.differences : ~ \E p \in AuthoredPrimitives(contract) : AccountsFor(p, d)}

\* evaluateFrontendContract.
Evaluate(contract, before, after, comparison) ==
    LET results == ClauseResults(contract, before, after, comparison)
        unexpected == UnexpectedChanges(contract, comparison)
        passes == /\ comparison.comparable
                  /\ \A r \in results : r.status = "pass"
                  /\ unexpected = {}
    IN [verdict |-> IF passes THEN "PASS" ELSE "FAIL", results |-> results, unexpected |-> unexpected]
=============================================================================
