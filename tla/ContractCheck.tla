---------------------------- MODULE ContractCheck ----------------------------
(***************************************************************************)
(* checkProject, from the baseline observation it resolved to the status   *)
(* it reports: the acceptance is prepared, a candidate is captured and     *)
(* compared, the contract and the reference are evaluated, and their       *)
(* results and the blockers are rolled up.                                 *)
(***************************************************************************)
EXTENDS FrontendContractEvaluation, ReferenceFidelity

CONSTANTS
    Baselines,     \* observations the baseline alias may name
    Candidates,    \* observations a capture may yield
    Acceptances,   \* what may be configured: [contract, reference]
    NotConfigured, \* no contract, or no reference, is
    None           \* nothing yet

\* A contract is [baseline, change], two sets of clauses; a reference is
\* [artifact, bindings], the approved reference and what the bindings file says.
ASSUME AcceptancesAreWellFormed ==
    \A a \in Acceptances :
        /\ a.reference # NotConfigured =>
              /\ IsDesign(a.reference.artifact)
              /\ ValidRegions(a.reference.artifact.regions, a.reference.artifact.image)
              /\ ValidRequirements(a.reference.artifact.requirements, a.reference.artifact.regions)
        /\ a.contract # NotConfigured =>
              /\ \A c \in a.contract.baseline \cup a.contract.change :
                    IsPrimitive(c.primitive) /\ HasNumbers(c.primitive)
              /\ \A c \in a.contract.change :
                    {"id", "primitive", "mode", "supersedes"} \subseteq DOMAIN c /\ c.mode \in Modes

ASSUME ObservationsAreWellFormed == \A o \in Baselines \cup Candidates : IsObservation(o)
ASSUME NamesAreToldApart == \A o \in Baselines \cup Candidates : NamesDiffer(o)
ASSUME UnavailableIsNoTarget == \A o \in Baselines \cup Candidates : Unavailable \notin Configured(o)

VARIABLES
    step,        \* what checkProject does next
    before,      \* the baseline observation
    after,       \* the candidate
    acceptance,  \* as prepared
    comparison,  \* of the two
    evaluation,  \* of the contract
    fidelity,    \* of the candidate to the reference
    contract,    \* result.contract.state
    reference,   \* result.reference.state
    blockers,    \* result.blockers is not empty
    status       \* result.status

inputs == << before, after, acceptance >>
vars == << step, inputs, comparison, evaluation, fidelity, contract, reference, blockers, status >>

States == {"NOT_CONFIGURED", "NOT_RUN", "PASS", "FAIL", "BLOCKED"}

-----------------------------------------------------------------------------
(* Projections of what was evaluated                                       *)

Unjudged(results) == {r \in results : r.status \notin {"pass", "fail"}}

\* Mutant: only failures and unexpected changes count.
FailuresDecide(e) ==
    IF e.unexpected # {} \/ \E r \in e.results : r.status = "fail" THEN "FAIL" ELSE "PASS"

\* projectContractResult: a clause that could not be judged outweighs the verdict.
ContractState(e) == IF Unjudged(e.results) # {} THEN "BLOCKED" ELSE e.verdict

\* projectReferenceResult: so does a requirement.
ReferenceState(f) ==
    IF f.state = "not-evaluated" \/ Unjudged(f.results) # {} THEN "BLOCKED"
    ELSE IF f.state = "pass" THEN "PASS" ELSE "FAIL"

\* Mutant: a failure is reported although something is blocked.
FailureFirst ==
    IF "FAIL" \in {contract, reference} THEN "FAIL"
    ELSE IF blockers \/ "BLOCKED" \in {contract, reference} THEN "BLOCKED"
    ELSE IF {contract, reference} = {"NOT_CONFIGURED"} THEN "REVIEW_REQUIRED"
    ELSE "PASS"

\* finalizeCheckStatus.
FinalStatus ==
    IF blockers \/ "BLOCKED" \in {contract, reference} THEN "BLOCKED"
    ELSE IF "FAIL" \in {contract, reference} THEN "FAIL"
    ELSE IF {contract, reference} = {"NOT_CONFIGURED"} THEN "REVIEW_REQUIRED"
    ELSE "PASS"

-----------------------------------------------------------------------------
Init ==
    /\ step = "prepare" /\ before \in Baselines
    /\ after = None /\ acceptance = None /\ comparison = None /\ evaluation = None /\ fidelity = None
    /\ contract = "NOT_CONFIGURED" /\ reference = "NOT_CONFIGURED"
    /\ blockers = FALSE /\ status = "BLOCKED"

\* What is configured has not run until it does.
PrepareAcceptance ==
    /\ step = "prepare"
    /\ acceptance' \in Acceptances
    /\ contract' = IF acceptance'.contract = NotConfigured THEN "NOT_CONFIGURED" ELSE "NOT_RUN"
    /\ reference' = IF acceptance'.reference = NotConfigured THEN "NOT_CONFIGURED" ELSE "NOT_RUN"
    /\ step' = "capture"
    /\ UNCHANGED << before, after, comparison, evaluation, fidelity, blockers, status >>

\* The reference was never approved: the check ends before it captures.
AcceptanceRefused ==
    /\ step = "capture" /\ acceptance.reference # NotConfigured
    /\ reference' = "BLOCKED" /\ blockers' = TRUE /\ step' = "finalize"
    /\ UNCHANGED << inputs, comparison, evaluation, fidelity, contract, status >>

CaptureCandidate ==
    /\ step = "capture"
    /\ after' \in Candidates /\ step' = "compare"
    /\ UNCHANGED << before, acceptance, comparison, evaluation, fidelity, contract, reference, blockers, status >>

CaptureFails ==
    /\ step = "capture"
    /\ blockers' = TRUE /\ step' = "finalize"
    /\ UNCHANGED << inputs, comparison, evaluation, fidelity, contract, reference, status >>

\* With no comparison, or an incomparable one, the contract is not evaluated.
CompareObservations ==
    /\ step = "compare"
    /\ comparison' = Compare(before, after)
    /\ blockers' = ~ comparison'.comparable
    /\ step' = IF comparison'.comparable /\ acceptance.contract # NotConfigured THEN "contract"
               ELSE "reference"
    /\ UNCHANGED << inputs, evaluation, fidelity, contract, reference, status >>

ComparisonFails ==
    /\ step = "compare"
    /\ blockers' = TRUE /\ step' = "reference"
    /\ UNCHANGED << inputs, comparison, evaluation, fidelity, contract, reference, status >>

EvaluateContract ==
    /\ step = "contract"
    /\ evaluation' = Evaluate(acceptance.contract, before, after, comparison)
    /\ contract' = ContractState(evaluation')
    /\ blockers' = (contract' = "BLOCKED")
    /\ step' = "reference"
    /\ UNCHANGED << inputs, comparison, fidelity, reference, status >>

\* It was not written, or what was written does not read back.
EvaluationFails ==
    /\ step = "contract"
    /\ contract' = "BLOCKED" /\ blockers' = TRUE /\ step' = "reference"
    /\ UNCHANGED << inputs, comparison, evaluation, fidelity, reference, status >>

SkipReference ==
    /\ step = "reference" /\ acceptance.reference = NotConfigured
    /\ step' = "finalize"
    /\ UNCHANGED << inputs, comparison, evaluation, fidelity, contract, reference, blockers, status >>

EvaluateReference ==
    LET configured == acceptance.reference
    IN /\ step = "reference" /\ configured # NotConfigured
       /\ NotEvaluable(configured.artifact, after) \/ ValidBindings(configured.bindings, configured.artifact)
       /\ fidelity' = EvaluateFidelity(configured.artifact, after, configured.bindings)
       /\ reference' = ReferenceState(fidelity')
       /\ blockers' = (blockers \/ reference' = "BLOCKED")
       /\ step' = "finalize"
       /\ UNCHANGED << inputs, comparison, evaluation, contract, status >>

\* The reference or the candidate does not read back, or the bindings are invalid.
ReferenceFails ==
    /\ step = "reference" /\ acceptance.reference # NotConfigured
    /\ reference' = "BLOCKED" /\ blockers' = TRUE /\ step' = "finalize"
    /\ UNCHANGED << inputs, comparison, evaluation, fidelity, contract, status >>

Finalize ==
    /\ step = "finalize"
    /\ status' = FinalStatus /\ step' = "done"
    /\ UNCHANGED << inputs, comparison, evaluation, fidelity, contract, reference, blockers >>

Next ==
    \/ PrepareAcceptance \/ AcceptanceRefused
    \/ CaptureCandidate \/ CaptureFails
    \/ CompareObservations \/ ComparisonFails
    \/ EvaluateContract \/ EvaluationFails
    \/ SkipReference \/ EvaluateReference \/ ReferenceFails
    \/ Finalize

Spec == Init /\ [][Next]_vars

-----------------------------------------------------------------------------
(* What a clause means, told by the pixels and not by the engine           *)

Columns(r) == r.x .. Right(r) - 1
Rows(r) == r.y .. Bottom(r) - 1
Shown(o, t) == Matched(o, t) /\ o.of[t].visible

\* One lies above the other, give or take the tolerance; of two so thin that each
\* lies above the other, what is configured later counts as the one below.
Above(a, b) == \A i \in Rows(a), j \in Rows(b) : i < j + GeometryTolerance

\* Every member of S is within tolerance of one of T.
Covered(S, T) == \A i \in S : \E j \in T : ~ Apart(i, j)

Overlapping(a, b) ==
    /\ Cardinality(Columns(a) \cap Columns(b)) > GeometryTolerance
    /\ Cardinality(Rows(a) \cap Rows(b)) > GeometryTolerance

Inside(a, b) == Covered(Columns(a), Columns(b)) /\ Covered(Rows(a), Rows(b))

\* Seen when it was measured.
Rendered(snapshot, t) ==
    t \in DOMAIN snapshot.targets /\ snapshot.targets[t] # Unavailable /\ snapshot.targets[t].visible

\* Its own content moved, as both measurements show.
Scrolls(o, t) ==
    /\ Rendered(o.scroll.initial, t) /\ Rendered(o.scroll.final, t)
    /\ o.scroll.initial.targets[t].offset # o.scroll.final.targets[t].offset

\* The evidence a primitive about one observation speaks of is there.
Measured(p, o) ==
    CASE p.kind \in {"target-visible", "target-not-clipped", "target-width-within-bound"} -> Matched(o, p.a)
      [] p.kind \in {"targets-do-not-overlap", "target-wider-than"} -> Shown(o, p.a) /\ Shown(o, p.b)
      [] p.kind = "target-follows-vertically" -> Matched(o, p.a) /\ Matched(o, p.b)
      [] p.kind = "target-fits-inside" -> Shown(o, p.a) /\ Shown(o, p.b) /\ Precedes(o, p.a, p.b)
      [] p.kind = "document-width-fits-viewport" -> o.page # Unavailable
      [] p.kind \in {"scroll-owner-is-document", "target-does-not-own-scroll"} -> o.scroll # Unavailable
      [] p.kind = "target-begins-below-initial-viewport" -> o.scroll # Unavailable /\ Rendered(o.scroll.initial, p.a)

\* What is measured is as the primitive says.
Holds(p, o) ==
    LET a == Rect(o, p.a)
        b == Rect(o, p.b)
    IN CASE p.kind = "target-visible" -> o.of[p.a].visible
         [] p.kind = "target-not-clipped" ->
              \A axis \in p.axes : ~ (axis \in o.of[p.a].overflow /\ axis \in o.of[p.a].clips)
         [] p.kind = "target-width-within-bound" -> p.min <= a.width /\ a.width <= p.max
         [] p.kind = "targets-do-not-overlap" -> ~ Overlapping(a, b)
         [] p.kind = "target-wider-than" ->
              Cardinality(Columns(a)) > Cardinality(Columns(b)) + GeometryTolerance
         [] p.kind = "target-follows-vertically" ->
              /\ Shown(o, p.a) /\ Shown(o, p.b)
              /\ Above(b, a)
              /\ Above(a, b) => ~ Precedes(o, p.a, p.b)
         [] p.kind = "target-fits-inside" -> Inside(a, b)
         [] p.kind = "document-width-fits-viewport" -> o.page.width <= o.page.viewport + GeometryTolerance
         [] p.kind = "scroll-owner-is-document" ->
              o.scroll.initial.window # o.scroll.final.window /\ \A t \in Configured(o) : ~ Scrolls(o, t)
         [] p.kind = "target-does-not-own-scroll" -> Scrolls(o, p.a) =>
              o.scroll.initial.window # o.scroll.final.window \/ \E t \in Configured(o) \ {p.a} : Scrolls(o, t)
         [] p.kind = "target-begins-below-initial-viewport" ->
              \A i \in Rows(o.scroll.initial.targets[p.a].rect) : i > o.context.viewport.height - 1

Preserves(r) == r.source = "baseline" \/ r.clause.mode = "preserved"

\* What can be said of a state clause, whatever was not measured before.
Judgement(r) ==
    LET p == r.clause.primitive
    IN CASE Preserves(r) /\ Measured(p, before) /\ ~ Holds(p, before) -> "unavailable"
         [] ~ Measured(p, after) -> "unavailable"
         [] OTHER -> PassIf(Holds(p, after))

-----------------------------------------------------------------------------
(* What a requirement means, told by the pixels of the two pictures        *)

Design == acceptance.reference.artifact

\* The elements of the candidate that a region of the design stands for.
StandsFor(region) ==
    {t \in Configured(after) :
       \E b \in acceptance.reference.bindings : SameName(b.region, region) /\ SameName(b.target, t)}

\* The pixels strictly between two sets of them.
Least(S) == CHOOSE m \in S : \A n \in S : m <= n
Greatest(S) == CHOOSE m \in S : \A n \in S : n <= m
Between(S, T) ==
    {i \in Least(S \cup T) .. Greatest(S \cup T) :
       \/ (\A m \in S : m < i) /\ (\A n \in T : i < n)
       \/ (\A m \in T : m < i) /\ (\A n \in S : i < n)}

GapBetween(S, T) == IF S \cap T # {} THEN Unavailable ELSE 2 * Cardinality(Between(S, T))

\* What a picture shows of a numeric subject, in half pixels of that picture.
Reading(subject, a, b) ==
    LET what == IF subject.kind = "region-property" THEN subject.property ELSE subject.measurement
    IN CASE what = "x" -> 2 * a.x
         [] what = "y" -> 2 * a.y
         [] what = "width" -> 2 * Cardinality(Columns(a))
         [] what = "height" -> 2 * Cardinality(Rows(a))
         [] what = "right" -> 2 * (a.x + Cardinality(Columns(a)))
         [] what = "bottom" -> 2 * (a.y + Cardinality(Rows(a)))
         [] what = "centerX" -> a.x + Right(a)
         [] what = "centerY" -> a.y + Bottom(a)
         [] what = "horizontal-gap" -> GapBetween(Columns(a), Columns(b))
         [] what = "vertical-gap" -> GapBetween(Rows(a), Rows(b))
         [] what = "left-edge-delta" -> 2 * Magnitude(a.x - b.x)
         [] what = "right-edge-delta" -> 2 * Magnitude(Right(a) - Right(b))
         [] what = "center-x-delta" -> Magnitude((a.x + Right(a)) - (b.x + Right(b)))
         [] what = "center-y-delta" -> Magnitude((a.y + Bottom(a)) - (b.y + Bottom(b)))

Across(subject) ==
    \/ subject.kind = "region-property" /\ subject.property \in {"x", "width", "right", "centerX"}
    \/ /\ subject.kind = "region-measurement"
       /\ subject.measurement \in {"horizontal-gap", "left-edge-delta", "right-edge-delta", "center-x-delta"}

\* What is read of the candidate, as a share of the viewport, is what is read of
\* the design, as a share of the image, give or take the tolerance.
Agree(r, designed, found) ==
    LET viewport == Design.applicability.viewport
        image == IF Across(r.subject) THEN Design.image.width ELSE Design.image.height
        window == IF Across(r.subject) THEN viewport.width ELSE viewport.height
        allowed == CASE r.tolerance.kind = "exact" -> 0
                     [] r.tolerance.kind = "absolute-reference-px" -> 200 * r.tolerance.amount
                     [] r.tolerance.kind = "percent" -> r.tolerance.amount * designed
    IN 100 * found * image \in 100 * designed * window - allowed * window
                                .. 100 * designed * window + allowed * window

\* One lies to the left of the other, give or take the tolerance.
Beside(a, b) == \A i \in Columns(a), j \in Columns(b) : i < j + GeometryTolerance

\* Two rectangles lie as a kind of relationship says.  Of two so thin that each
\* lies before the other, the first is the one on the left, or above; and it is
\* the one that is followed if inOrder, the order they are configured in.
LieAs(kind, a, b, inOrder) ==
    CASE kind = "left-of" -> Beside(a, b)
      [] kind = "right-of" -> Beside(b, a) /\ ~ Beside(a, b)
      [] kind = "horizontally-overlapping" -> ~ Beside(a, b) /\ ~ Beside(b, a)
      [] kind = "above" -> Above(a, b)
      [] kind = "below" -> Above(b, a) /\ ~ Above(a, b)
      [] kind = "vertically-overlapping" -> ~ Above(a, b) /\ ~ Above(b, a)
      [] kind = "overlaps" -> Overlapping(a, b)
      [] kind = "does-not-overlap" -> ~ Overlapping(a, b)
      [] kind = "wider-than" -> Cardinality(Columns(a)) > Cardinality(Columns(b)) + GeometryTolerance
      [] kind = "narrower-than" -> Cardinality(Columns(a)) + GeometryTolerance < Cardinality(Columns(b))
      [] kind = "equal-width-within-tolerance" -> ~ Apart(Cardinality(Columns(a)), Cardinality(Columns(b)))
      [] kind = "fits-inside" -> Inside(a, b)
      [] kind = "does-not-fit-inside" -> ~ Inside(a, b)
      [] kind = "follows-vertically" -> Above(b, a) /\ (Above(a, b) => ~ inOrder)

\* What can be said of a requirement: nothing unless the design shows it, each
\* of its regions stands for one element that is shown, and, of a number, the
\* image has the viewport's proportions; of a relationship, nothing unless it
\* spells the regions as the design does and the elements are configured in the
\* order of the regions (of which follows, only if one does).
Faithful(r) ==
    LET subject == r.subject
        pair == subject.kind # "region-property"
        region == [n \in {subject.a} \cup (IF pair THEN {subject.b} ELSE {}) |->
                     Design.regions[CHOOSE m \in DOMAIN Design.regions : SameName(m, n)]]
        stands == \A n \in DOMAIN region : \E t \in StandsFor(n) : Shown(after, t)
        drawn == [n \in DOMAIN region |-> CHOOSE t \in StandsFor(n) : TRUE]
        rect == [n \in DOMAIN region |-> Rect(after, drawn[n])]
        a == subject.a
        b == IF pair THEN subject.b ELSE subject.a
        told == {a, b} \subseteq DOMAIN Design.regions /\ drawn[a] # drawn[b]
        inOrder == Precedes(after, drawn[a], drawn[b])
    IN IF ~ stands THEN "unavailable"
       ELSE IF subject.kind = "region-relationship"
       THEN IF ~ told \/ ~ LieAs(subject.relationship, region[a], region[b], TRUE) THEN "unavailable"
            ELSE IF subject.relationship = "follows-vertically"
            THEN IF LieAs(subject.relationship, rect[a], rect[b], inOrder) THEN "pass" ELSE "unavailable"
            ELSE IF inOrder THEN PassIf(LieAs(subject.relationship, rect[a], rect[b], TRUE))
            ELSE "unavailable"
       ELSE LET designed == Reading(subject, region[a], region[b])
                found == Reading(subject, rect[a], rect[b])
            IN IF ~ ScaleKnown(Design) \/ Unavailable \in {designed, found} THEN "unavailable"
               ELSE PassIf(Agree(r, designed, found))

-----------------------------------------------------------------------------
(* Properties                                                              *)

Done == step = "done"
Authored == acceptance.contract
Evaluated == step = "reference" /\ evaluation # None

\* checkProject accepted the candidate on a contract.
Accepted == Done /\ status = "PASS" /\ acceptance.contract # NotConfigured

\* evaluateStatePrimitive reads a graph of derived relationships, in either
\* direction, with fallbacks; a clause about one observation is judged as the
\* pixels of that observation say, and exactly when they are there to see.  Of a
\* clause to be preserved that was not measured before, the property allows both
\* what evaluateClause does, which judges it by what is measured after, and what
\* the comment above it says, that it is unavailable.
JudgedByGeometry ==
    Evaluated =>
        \A r \in evaluation.results :
            LET p == r.clause.primitive
            IN IsStatePrimitive(p) /\ r.status # "conflict" =>
                   \/ r.status = Judgement(r)
                   \/ r.status = "unavailable" /\ Preserves(r) /\ ~ Measured(p, before)

\* What a clause about a change demands of the two observations.
Demanded(r) ==
    LET p == r.clause.primitive
        was == Rect(before, p.a)[p.property]
        is == Rect(after, p.a)[p.property]
        relationship == Relationship(p.relationship, p.a, p.b)
    IN CASE IsStatePrimitive(p) ->
              /\ Measured(p, after) /\ Holds(p, after)
              /\ Preserves(r) /\ Measured(p, before) => Holds(p, before)
         [] p.kind = "relationship-unchanged" /\ p.relationship \in Families["pageWidth"] ->
              PageRelationship(before) = p.relationship /\ PageRelationship(after) = p.relationship
         [] p.kind = "relationship-unchanged" /\ p.relationship \notin Families["pageWidth"] ->
              /\ relationship \in PairwiseRelationships(after)
              /\ Matched(before, p.a) /\ Matched(before, p.b) /\ Precedes(before, p.a, p.b)
                    => relationship \in PairwiseRelationships(before)
         [] p.kind = "property-unchanged" ->
              /\ Matched(before, p.a) /\ Matched(after, p.a)
              /\ p.tolerance.kind = "exact" => is = was
              /\ p.tolerance.kind = "absolute-px" => is \in was - p.tolerance.amount .. was + p.tolerance.amount
              /\ p.tolerance.kind = "percent" /\ was >= 0
                    => 100 * is \in (100 - p.tolerance.amount) * was .. (100 + p.tolerance.amount) * was
         [] p.kind \in {"property-increases", "property-decreases"} ->
              LET least == IF Preserves(r) \/ r.clause.mode # "permitted" THEN p.minimum + 1 ELSE 0
              IN /\ Matched(before, p.a) /\ Matched(after, p.a)
                 /\ IF p.kind = "property-increases" THEN is >= was + least ELSE is <= was - least

\* A check that ends PASS on a contract judged every clause that is in force,
\* none superseded and none forgotten, and the observations are as it demands:
\* no blocked step, unavailable clause, conflict or roll-up hides one, and what
\* was to be preserved did hold before, if it was measured then.
PassMeansHeld ==
    Accepted =>
        /\ evaluation # None
        /\ {r.clause : r \in evaluation.results} = ActiveBaseline(Authored) \cup Authored.change
        /\ \A r \in evaluation.results : Demanded(r)

\* What was there and is there still, under its name in each observation.
Persisting ==
    {t \in Configured(before) \X Configured(after) :
        SameName(t[1], t[2]) /\ Matched(before, t[1]) /\ Matched(after, t[2])}

\* No clause can authorise a new order or a new containment: when a contract
\* passes, any two targets that were and are there lie as they did, in both
\* axes (or are as hidden from each other as they were), however the two
\* observations spell their names.
PassKeepsOrder ==
    Accepted =>
        \A s, r \in Persisting :
            /\ Precedes(before, s[1], r[1]) =>
                  \A f \in {"horizontal", "vertical"} :
                      KindBetween(PairwiseRelationships(before), f, s[1], r[1])
                          = KindBetween(PairwiseRelationships(after), f, s[2], r[2])
            /\ s # r => ((r[1] \in before.of[s[1]].inside) <=> (r[2] \in after.of[s[2]].inside))

AuthoredFor(t, kinds, properties) ==
    \E p \in AuthoredPrimitives(Authored) :
        p.kind \in kinds /\ p.a = t /\ (p.kind \in Directional => p.property \in properties)

\* Scope: when a contract passes, whatever moved, changed size, was shown or
\* hidden, appeared or went, however the candidate spells it, is the subject of
\* a clause in force about just that.
ChangesAreAuthored ==
    Accepted =>
        \A t \in Configured(before), now \in Configured(after) :
            LET was == before.of[t]
                is == after.of[now]
                matched == << t, now >> \in Persisting
            IN SameName(t, now) =>
               /\ matched /\ (\E p \in {"x", "y"} : Apart(was.rect[p], is.rect[p]))
                     => AuthoredFor(t, Directional, {"x", "y"})
               /\ matched /\ (\E p \in {"width", "height"} : Apart(was.rect[p], is.rect[p]))
                     => AuthoredFor(t, Directional \cup {"target-width-within-bound"}, {"width", "height"})
               /\ (matched /\ was.visible # is.visible) \/ {was.selection, is.selection} = {"matched", "not-found"}
                     => AuthoredFor(t, {"target-visible"}, {})

\* A conflict is reported on both clauses: the baseline clause and the change
\* clause are found by two loops over different sets.  What is superseded is in
\* no conflict.
ConflictsAreMutual ==
    Evaluated =>
        LET InConflict(source) == {r.clause : r \in {r \in evaluation.results :
                                                       r.source = source /\ r.status = "conflict"}}
        IN /\ \A b \in InConflict("baseline") : \E c \in InConflict("change") : Clash(b, c)
           /\ \A c \in InConflict("change") :
                 UnknownReferences(Authored, c) # {} \/ \E b \in InConflict("baseline") : Clash(b, c)
           /\ \A b \in InConflict("baseline"), c \in Authored.change : b.id \notin c.supersedes

\* The contract that remains once supersession is carried out.
Resolved == [baseline |-> ActiveBaseline(Authored),
             change |-> {[c EXCEPT !.supersedes = {}] : c \in Authored.change}]

\* Superseding a clause is the same as never having written it: the verdict,
\* the judgement of each clause and what is unexpected are those of the
\* contract without it (unless a clause names a baseline clause that is not there).
SupersessionRemoves ==
    (Evaluated /\ \A c \in Authored.change : UnknownReferences(Authored, c) = {}) =>
        LET e == Evaluate(Resolved, before, after, comparison)
            Judged(results) == {<< r.source, r.clause.id, r.status >> : r \in results}
        IN /\ e.verdict = evaluation.verdict /\ e.unexpected = evaluation.unexpected
           /\ Judged(e.results) = Judged(evaluation.results)

\* Which observation is called the baseline decides only the direction of what
\* is reported: compared the other way, the same subjects differ in the same
\* ways, and what had appeared has disappeared.
MirroredComparison ==
    LET Opposite(kind) == CASE kind = "appeared" -> "disappeared"
                            [] kind = "disappeared" -> "appeared"
                            [] OTHER -> kind
        Family(d) == IF d.relationship = Unavailable THEN "none" ELSE FamilyOf(d.relationship)
    IN (step = "contract" /\ before.targets = after.targets) =>
           {<< d.kind, d.subject, Family(d) >> : d \in comparison.differences}
             = {<< Opposite(d.kind), d.subject, Family(d) >> : d \in Compare(after, before).differences}

\* evaluateReferenceCandidateFidelity goes through regions, bindings, targets, a
\* scale and two graphs of relationships; what it says of each requirement is
\* what the pixels of the design and of the candidate say.
FidelityByGeometry ==
    (fidelity # None /\ fidelity.state # "not-evaluated") =>
        /\ {e.requirement : e \in fidelity.results} = Design.requirements
        /\ \A e \in fidelity.results :
              Faithful(e.requirement) = IF e.status \in UnavailableReasons THEN "unavailable" ELSE e.status

\* A check that ends PASS on a reference saw the candidate in the state and the
\* viewport the reference is about, and found in it every requirement somebody
\* selected, of which there was at least one.
ReferencePassMeansFaithful ==
    (Done /\ reference = "PASS") =>
        /\ Design.requirements # {}
        /\ \A r \in Design.requirements : Faithful(r) = "pass"
        /\ Design.applicability.viewport \in {Unavailable, after.context.viewport}
        /\ \A d \in StateDimensions :
              LET meant == Design.applicability.state[d]
                  shown == after.context.state[d]
              IN meant = shown \/ Unavailable \in {meant, shown}

\* The status tells the evidence: BLOCKED exactly when something configured
\* could not be judged, FAIL exactly when all could and something was judged
\* wrong, and no acceptance configured is never PASS.
StatusFollowsEvidence ==
    Done =>
        LET contractSet == acceptance.contract # NotConfigured
            referenceSet == acceptance.reference # NotConfigured
            unjudged == \/ comparison = None \/ (comparison # None /\ ~ comparison.comparable)
                        \/ contractSet /\ evaluation = None
                        \/ evaluation # None /\ \E r \in evaluation.results : r.status \in {"unavailable", "conflict"}
                        \/ referenceSet /\ fidelity = None
                        \/ /\ fidelity # None
                           /\ fidelity.results = {} \/ \E e \in fidelity.results : e.status \in UnavailableReasons
            wrong == \/ evaluation # None /\ (evaluation.unexpected # {} \/ \E r \in evaluation.results : r.status = "fail")
                     \/ fidelity # None /\ \E e \in fidelity.results : e.status = "fail"
        IN /\ status = "BLOCKED" <=> unjudged
           /\ status = "FAIL" <=> ~ unjudged /\ wrong
           /\ status = "PASS" <=> ~ unjudged /\ ~ wrong /\ (contractSet \/ referenceSet)

-----------------------------------------------------------------------------
(* The inductive invariant                                                 *)

\* The contract's state is that of its evaluation, on these two observations.
Judged ==
    /\ comparison = Compare(before, after) /\ comparison.comparable
    /\ evaluation = Evaluate(acceptance.contract, before, after, comparison)
    /\ contract = ContractState(evaluation)

\* What each step of checkProject may rely on of the steps before it.  A
\* configured contract that was not judged leaves a blocker behind, on every
\* path, or its NOT_RUN state would end in PASS.
ProgressInvariant ==
    /\ before \in Baselines
    /\ step \in {"compare", "contract"} \/ evaluation # None => after \in Candidates
    /\ step # "prepare" => acceptance \in Acceptances
    /\ step \in {"prepare", "capture", "compare", "contract"} => evaluation = None
    /\ step = "contract" => /\ comparison = Compare(before, after) /\ comparison.comparable
                            /\ acceptance.contract # NotConfigured
    /\ evaluation # None => acceptance.contract # NotConfigured /\ Judged
    /\ step \in {"reference", "finalize"} /\ acceptance.contract # NotConfigured =>
           \/ blockers
           \/ after \in Candidates /\ Judged
    /\ step # "done" => status = "BLOCKED"
    /\ Accepted => after \in Candidates /\ Judged /\ contract = "PASS"
=============================================================================
