-------------------------- MODULE ReferenceFidelity --------------------------
(***************************************************************************)
(* Whether a candidate observation is faithful to an approved external     *)
(* reference: evaluateReferenceCandidateFidelity and all it rests on, a    *)
(* pure function.                                                          *)
(*                                                                         *)
(* A reference is a record of                                              *)
(*   image          [width, height]                                        *)
(*   applicability  [viewport, state], either or both Unavailable          *)
(*   regions        region id -> its rectangle in the image                *)
(*   requirements   a set of [id, category, mode, subject, tolerance]      *)
(* A subject is [kind, a, property], or [kind, a, b, relationship] or      *)
(* [kind, a, b, measurement] with a and b regions.  Bindings are a set of  *)
(* declarations [region, target].                                          *)
(*                                                                         *)
(* Geometry is in whole pixels, and what is compared across the scale of   *)
(* image and viewport is multiplied out, so nothing is rounded; the code's *)
(* floating point is exact wherever the scale is a dyadic fraction.        *)
(***************************************************************************)
EXTENDS ObservationComparison

CONSTANTS
    MaxRegions,          \* MAX_REFERENCE_REGIONS, MAX_REFERENCE_RUNTIME_BINDINGS
    MaxRequirements      \* MAX_REFERENCE_REQUIREMENTS

ASSUME ReferenceBounds == MaxRegions \in Nat /\ MaxRequirements \in Nat

ASSUME UnavailableIsNoNumber == Unavailable \notin Int

\* What is drawn has a size and whole coordinates; a viewport has a size.
IsDesign(reference) ==
    /\ reference.image.width \in Nat /\ reference.image.height \in Nat
    /\ \A n \in DOMAIN reference.regions : IsRect(reference.regions[n])
    /\ reference.applicability.viewport # Unavailable =>
          /\ reference.applicability.viewport.width \in Nat \ {0}
          /\ reference.applicability.viewport.height \in Nat \ {0}

-----------------------------------------------------------------------------
(* Regions                                                                 *)

HorizontalProperties == {"x", "width", "right", "centerX"}
VerticalProperties == {"y", "height", "bottom", "centerY"}
RegionProperties == HorizontalProperties \cup VerticalProperties

\* deriveReferenceRegionGeometry, in half pixels.
Twice(r, property) ==
    CASE property \in Properties -> 2 * r[property]
      [] property = "right" -> 2 * Right(r)
      [] property = "bottom" -> 2 * Bottom(r)
      [] property = "centerX" -> 2 * r.x + r.width
      [] property = "centerY" -> 2 * r.y + r.height

\* isValidReferenceRegions: each inside the image, no two of one name.
ValidRegions(regions, image) ==
    /\ Cardinality(DOMAIN regions) <= MaxRegions
    /\ \A m, n \in DOMAIN regions : SameName(m, n) => m = n
    /\ \A n \in DOMAIN regions :
          LET r == regions[n]
          IN /\ r.x >= 0 /\ r.y >= 0 /\ r.width > 0 /\ r.height > 0
             /\ Right(r) <= image.width /\ Bottom(r) <= image.height

\* The one region an authored name stands for, however it is spelled.
Known(regions, name) == \E n \in DOMAIN regions : SameName(n, name)
RegionOf(regions, name) == CHOOSE n \in DOMAIN regions : SameName(n, name)

\* deriveReferenceRegionRelationships of two regions: those of an observation
\* that sees just these two, the first of them configured first.
AsSeen(rect) == [selection |-> "matched", visible |-> TRUE, rect |-> rect]
RegionRelationships(regions, m, n) ==
    PairwiseRelationships([targets |-> << m, n >>, of |-> [t \in {m, n} |-> AsSeen(regions[t])]])

-----------------------------------------------------------------------------
(* Measurements and tolerances                                             *)

Gaps == {"vertical-gap", "horizontal-gap"}
Deltas == {"center-x-delta", "center-y-delta", "left-edge-delta", "right-edge-delta"}
Measurements == Gaps \cup Deltas

HorizontalMeasurements == {"horizontal-gap", "center-x-delta", "left-edge-delta", "right-edge-delta"}

Magnitude(n) == IF n >= 0 THEN n ELSE - n

\* A gap is Unavailable where the two overlap on its axis.
Gap(nearA, farA, nearB, farB) ==
    IF farA <= nearB THEN 2 * (nearB - farA)
    ELSE IF farB <= nearA THEN 2 * (nearA - farB)
    ELSE Unavailable

\* deriveReferenceRequirementMeasurement, in half pixels.
Measure(kind, a, b) ==
    LET Delta(property) == Magnitude(Twice(a, property) - Twice(b, property))
    IN CASE kind = "vertical-gap" -> Gap(a.y, Bottom(a), b.y, Bottom(b))
         [] kind = "horizontal-gap" -> Gap(a.x, Right(a), b.x, Right(b))
         [] kind = "center-x-delta" -> Delta("centerX")
         [] kind = "center-y-delta" -> Delta("centerY")
         [] kind = "left-edge-delta" -> Delta("x")
         [] kind = "right-edge-delta" -> Delta("right")

\* isValidReferenceRequirementTolerance.
ToleranceKinds == {"exact", "absolute-reference-px", "percent"}
ValidTolerance(tolerance) ==
    /\ tolerance.kind \in ToleranceKinds
    /\ tolerance.kind # "exact" => tolerance.amount \in 0 .. 100

\* referenceToleranceAmountPx: a percentage is of the reference's value.  Values
\* are in half pixels of the reference, each divided into unit parts.
WithinReference(tolerance, unit, expected, found) ==
    LET delta == Magnitude(found - expected)
    IN CASE tolerance.kind = "exact" -> delta = 0
         [] tolerance.kind = "absolute-reference-px" -> delta <= 2 * tolerance.amount * unit
         [] tolerance.kind = "percent" -> 100 * delta <= tolerance.amount * Magnitude(expected)

-----------------------------------------------------------------------------
(* Requirements                                                            *)

Categories == {"requested", "expected-dependent", "protected", "preserved"}
DependentModes == {"required", "permitted"}

PairwiseKinds == UNION {Families[f] : f \in PairwiseFamilies}

RegionsNamed(subject) ==
    IF subject.kind = "region-property" THEN {subject.a} ELSE {subject.a, subject.b}

\* isValidReferenceRequirementSubjectShape: the two regions are spelled differently.
ValidSubject(subject) ==
    \/ subject.kind = "region-property" /\ subject.property \in RegionProperties
    \/ subject.kind = "region-relationship" /\ subject.a # subject.b /\ subject.relationship \in PairwiseKinds
    \/ subject.kind = "region-measurement" /\ subject.a # subject.b /\ subject.measurement \in Measurements

\* validateAuthoredRequirementFields: a fact has no tolerance, a number has one.
ValidRequirement(r) ==
    /\ r.category \in Categories
    /\ IF r.category = "expected-dependent" THEN r.mode \in DependentModes ELSE r.mode = Unavailable
    /\ ValidSubject(r.subject)
    /\ IF r.subject.kind = "region-relationship" THEN r.tolerance = Unavailable
       ELSE r.tolerance # Unavailable /\ ValidTolerance(r.tolerance)

\* sameSubject: in either order, but only if spelled alike.
SameSubject(s, t) ==
    /\ s.kind = t.kind /\ RegionsNamed(s) = RegionsNamed(t)
    /\ s.kind = "region-property" => s.property = t.property
    /\ s.kind = "region-relationship" => s.relationship = t.relationship
    /\ s.kind = "region-measurement" => s.measurement = t.measurement

\* isValidReferenceRequirements.
ValidRequirements(requirements, regions) ==
    /\ Cardinality(requirements) <= MaxRequirements
    /\ \A r \in requirements :
          ValidRequirement(r) /\ \A name \in RegionsNamed(r.subject) : Known(regions, name)
    /\ \A r, s \in requirements :
          r.id = s.id \/ SameSubject(r.subject, s.subject) => r = s

\* deriveReferenceRequirementExpectation: what the reference itself shows of a
\* subject.  A relationship is read in the order and the spelling of the subject.
Expectation(subject, regions) ==
    LET a == regions[RegionOf(regions, subject.a)]
        b == regions[RegionOf(regions, subject.b)]
        graph == RegionRelationships(regions, RegionOf(regions, subject.a), RegionOf(regions, subject.b))
    IN CASE subject.kind = "region-property" -> Twice(a, subject.property)
         [] subject.kind = "region-measurement" -> Measure(subject.measurement, a, b)
         [] subject.kind = "region-relationship" ->
              KindBetween(graph, FamilyOf(subject.relationship), subject.a, subject.b)

\* The reference shows what the requirement is about.
Exhibits(regions, subject) ==
    LET shown == Expectation(subject, regions)
    IN IF subject.kind = "region-relationship" THEN shown = subject.relationship ELSE shown # Unavailable

\* deriveReferenceRequirementAdequacy: "inadequate" is what stops an evaluation.
Adequacy(reference) ==
    LET evaluable == {r \in reference.requirements : Exhibits(reference.regions, r.subject)}
    IN CASE evaluable = {} -> "inadequate"
         [] evaluable # {} /\ evaluable # reference.requirements -> "partial"
         [] evaluable # {} /\ evaluable = reference.requirements -> "adequate"

-----------------------------------------------------------------------------
(* The candidate                                                           *)

\* evaluateReferenceCandidateCompatibility.
Compatible(reference, candidate) ==
    /\ ~ Mismatched(reference.applicability.viewport, candidate.context.viewport)
    /\ \A d \in StateDimensions :
          ~ Mismatched(reference.applicability.state[d], candidate.context.state[d])

\* isValidReferenceRuntimeBindingDeclarations: one target for a region, though
\* several regions may share one.
ValidBindings(bindings, reference) ==
    /\ Cardinality(bindings) <= MaxRegions
    /\ \A b \in bindings : Known(reference.regions, b.region)
    /\ \A b, c \in bindings : SameName(b.region, c.region) => b = c

\* findConfiguredTargetName, resolveConfiguredTargetName.
TargetNamed(candidate, name) ==
    IF \E t \in Configured(candidate) : SameName(t, name)
    THEN Counterpart(candidate, name)
    ELSE Unavailable

\* evaluateOneBinding: what a declaration says of this candidate.
BindingStatus(candidate, b) ==
    LET t == TargetNamed(candidate, b.target)
    IN CASE t = Unavailable -> "unavailable"
         [] t # Unavailable /\ Matched(candidate, t) -> "bound"
         [] t # Unavailable /\ Presence(candidate, t) = "ambiguous" -> "ambiguous"
         [] OTHER -> "unavailable"

\* The target of the declaration for a region, when it is bound.
BoundTarget(candidate, bindings, region) ==
    LET declared == {b \in bindings : SameName(b.region, region) /\ BindingStatus(candidate, b) = "bound"}
    IN IF declared = {} THEN Unavailable ELSE TargetNamed(candidate, (CHOOSE b \in declared : TRUE).target)

\* deriveCoordinateScale: the image shows the whole viewport, in its proportions
\* to one hundredth.
ScaleKnown(reference) ==
    LET image == reference.image
        viewport == reference.applicability.viewport
    IN /\ viewport # Unavailable
       /\ LET across == image.width * viewport.height
              down == image.height * viewport.width
          IN 100 * Magnitude(across - down) <= (IF across >= down THEN across ELSE down)

\* A rectangle with each axis multiplied.
Stretched(r, size) ==
    [x |-> r.x * size.width, width |-> r.width * size.width,
     y |-> r.y * size.height, height |-> r.height * size.height]

\* Mutant: the candidate's own pixels are taken for the image's.
Unscaled(r, reference) == Stretched(r, reference.applicability.viewport)

\* scaleGeometryToReferenceSpace: an image pixel is divided into as many parts
\* as the viewport has pixels on that axis.
InReferenceSpace(r, reference) == Stretched(r, reference.image)

Parts(reference, isHorizontal) ==
    IF isHorizontal THEN reference.applicability.viewport.width ELSE reference.applicability.viewport.height

-----------------------------------------------------------------------------
(* The evaluation                                                          *)

Pass(condition) == IF condition THEN "pass" ELSE "fail"

\* Why a requirement could not be judged.
UnavailableReasons ==
    {"reference-evidence-unavailable", "reference-relationship-not-exhibited", "binding-unavailable",
     "candidate-evidence-unavailable", "coordinate-mapping-unavailable"}

\* evaluateRegionPropertyRequirement.
PropertyFidelity(r, reference, candidate, t) ==
    LET property == r.subject.property
        parts == Parts(reference, property \in HorizontalProperties)
    IN IF t \notin Eligible(candidate) THEN "candidate-evidence-unavailable"
       ELSE IF ~ ScaleKnown(reference) THEN "coordinate-mapping-unavailable"
       ELSE Pass(WithinReference(r.tolerance, parts, parts * Expectation(r.subject, reference.regions),
                                 Twice(InReferenceSpace(Rect(candidate, t), reference), property)))

\* evaluateRegionMeasurementRequirement.
MeasurementFidelity(r, reference, candidate, s, t) ==
    LET parts == Parts(reference, r.subject.measurement \in HorizontalMeasurements)
        found == Measure(r.subject.measurement, InReferenceSpace(Rect(candidate, s), reference),
                                                InReferenceSpace(Rect(candidate, t), reference))
    IN IF {s, t} \ Eligible(candidate) # {} THEN "candidate-evidence-unavailable"
       ELSE IF ~ ScaleKnown(reference) THEN "coordinate-mapping-unavailable"
       ELSE IF found = Unavailable THEN "candidate-evidence-unavailable"
       ELSE Pass(WithinReference(r.tolerance, parts, parts * Expectation(r.subject, reference.regions), found))

\* evaluateRegionRelationshipRequirement: only a record in the subject's own
\* order counts, whichever target is configured first.
RelationshipFidelity(r, candidate, s, t) ==
    LET found == KindBetween(PairwiseRelationships(candidate), FamilyOf(r.subject.relationship), s, t)
    IN IF {s, t} \ Eligible(candidate) # {} \/ found = Unavailable THEN "candidate-evidence-unavailable"
       ELSE Pass(found = r.subject.relationship)

\* evaluateOneRequirement.
RequirementStatus(r, reference, candidate, bindings) ==
    LET subject == r.subject
        s == BoundTarget(candidate, bindings, subject.a)
        t == BoundTarget(candidate, bindings, subject.b)
    IN IF Expectation(subject, reference.regions) = Unavailable THEN "reference-evidence-unavailable"
       ELSE IF ~ Exhibits(reference.regions, subject) THEN "reference-relationship-not-exhibited"
       ELSE IF s = Unavailable \/ (subject.kind # "region-property" /\ t = Unavailable) THEN "binding-unavailable"
       ELSE CASE subject.kind = "region-property" -> PropertyFidelity(r, reference, candidate, s)
              [] subject.kind = "region-measurement" -> MeasurementFidelity(r, reference, candidate, s, t)
              [] subject.kind = "region-relationship" -> RelationshipFidelity(r, candidate, s, t)

\* The gates before any binding is looked at.
NotEvaluable(reference, candidate) ==
    Adequacy(reference) = "inadequate" \/ ~ Compatible(reference, candidate)

Fidelity(state, results) == [state |-> state, results |-> results]

\* Mutant: what the reference does not show is left out.
JudgeWhatIsShown(reference, candidate, bindings) ==
    LET results == {[requirement |-> r, status |-> RequirementStatus(r, reference, candidate, bindings)] :
                      r \in {r \in reference.requirements : Exhibits(reference.regions, r.subject)}}
    IN IF NotEvaluable(reference, candidate) THEN Fidelity("not-evaluated", {})
       ELSE Fidelity(Pass(\A e \in results : e.status = "pass"), results)

\* evaluateReferenceCandidateFidelity, of valid bindings: an earlier gate leaves
\* no result, and one requirement that is not met or not known fails the whole.
EvaluateFidelity(reference, candidate, bindings) ==
    LET results == {[requirement |-> r, status |-> RequirementStatus(r, reference, candidate, bindings)] :
                      r \in reference.requirements}
    IN IF NotEvaluable(reference, candidate) THEN Fidelity("not-evaluated", {})
       ELSE Fidelity(Pass(\A e \in results : e.status = "pass"), results)
=============================================================================
