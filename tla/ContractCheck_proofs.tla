------------------------ MODULE ContractCheck_proofs ------------------------
(***************************************************************************)
(* What an accepted check guarantees, for every set of observations,       *)
(* contracts and tolerance.                                                *)
(***************************************************************************)
EXTENDS ReferenceCorrection, FiniteSetTheorems, TLAPS

(* A status is a state of the contract's roll-up.                          *)
LEMMA ContractStateType ==
    ASSUME NEW k, NEW b, NEW a, NEW c
    PROVE  ContractState(Evaluate(k, b, a, c)) \in {"BLOCKED", "PASS", "FAIL"}
BY DEF ContractState, Evaluate

(* The initial state satisfies the invariant.                              *)
LEMMA ProgressInit == Init => ProgressInvariant
BY DEF Init, ProgressInvariant, Accepted, Done

(* Every step of the check preserves it.                                   *)
LEMMA ProgressStep ==
    ASSUME ProgressInvariant, [Next]_vars
    PROVE  ProgressInvariant'
<1> USE DEF ProgressInvariant, Accepted, Done
<1>1. CASE PrepareAcceptance
  BY <1>1 DEF PrepareAcceptance
<1>2. CASE AcceptanceRefused
  BY <1>2 DEF AcceptanceRefused, inputs
<1>3. CASE CaptureCandidate
  BY <1>3 DEF CaptureCandidate
<1>4. CASE CaptureFails
  BY <1>4 DEF CaptureFails, inputs
<1>5. CASE CompareObservations
  BY <1>5 DEF CompareObservations, inputs
<1>6. CASE ComparisonFails
  BY <1>6 DEF ComparisonFails, inputs
<1>7. CASE EvaluateContract
  BY <1>7 DEF EvaluateContract, inputs, Judged
<1>8. CASE EvaluationFails
  BY <1>8 DEF EvaluationFails, inputs
<1>9. CASE SkipReference
  BY <1>9 DEF SkipReference, inputs, Judged
<1>10. CASE ReferenceFails
  BY <1>10 DEF ReferenceFails, inputs, Judged
<1>11. CASE EvaluateReference
  BY <1>11 DEF EvaluateReference, inputs, Judged
<1>12. CASE Finalize
  <2>1. blockers \/ "BLOCKED" \in {contract, reference} \/ "FAIL" \in {contract, reference}
        => status' # "PASS"
    BY <1>12 DEF Finalize, FinalStatus
  <2>2. status' = "PASS" /\ acceptance.contract # NotConfigured
        => after \in Candidates /\ Judged /\ contract = "PASS"
    BY <1>12, <2>1, ContractStateType DEF Finalize, Judged
  <2>3. Judged => Judged'
    BY <1>12 DEF Finalize, inputs, Judged
  <2>4. /\ step' = "done" /\ before' = before /\ after' = after /\ acceptance' = acceptance
        /\ evaluation' = evaluation /\ contract' = contract /\ step = "finalize"
    BY <1>12 DEF Finalize, inputs
  <2> QED BY <2>2, <2>3, <2>4
<1>13. CASE UNCHANGED vars
  BY <1>13 DEF vars, inputs, Judged
<1> QED
  BY <1>1, <1>2, <1>3, <1>4, <1>5, <1>6, <1>7, <1>8, <1>9, <1>10, <1>11, <1>12, <1>13 DEF Next

(* A configured contract is either judged on the two observations at hand  *)
(* or leaves a blocker, on every path through checkProject.                *)
THEOREM AlwaysProgress == Spec => []ProgressInvariant
BY ProgressInit, ProgressStep, PTL DEF Spec

-----------------------------------------------------------------------------
(* A clause that is judged is judged pass, fail or unavailable: a conflict *)
(* comes from nowhere but a clash or an unknown reference.                 *)
LEMMA JudgedClause ==
    ASSUME NEW p, IsPrimitive(p), NEW mode, NEW b, NEW a, NEW c
    PROVE  ClauseStatus(p, mode, b, a, c) \in {"pass", "fail", "unavailable"}
<1>1. \A x, y : JudgedIf(x, y) \in {"pass", "fail", "unavailable"}
  BY DEF JudgedIf, PassIf
<1>2. p.kind \in StateKinds => StateStatus(p, a) \in {"pass", "fail", "unavailable"}
  BY <1>1 DEF StateKinds, StateStatus
<1>3. RelationshipStatus(p, a, c) \in {"pass", "fail", "unavailable"}
  BY DEF RelationshipStatus
<1>4. PropertyStatus(p, mode, b, a) \in {"pass", "fail", "unavailable"}
  BY <1>1 DEF PropertyStatus
<1> QED
  BY <1>2, <1>3, <1>4 DEF ClauseStatus, PrimitiveStatus, IsStatePrimitive

(* The clauses of an acceptance are primitives the evaluation knows.       *)
LEMMA AcceptedPrimitives ==
    ASSUME NEW s \in Acceptances, s.contract # NotConfigured
    PROVE  /\ \A b \in ActiveBaseline(s.contract) : b \in s.contract.baseline /\ IsPrimitive(b.primitive)
           /\ \A c \in s.contract.change : IsPrimitive(c.primitive)
BY AcceptancesAreWellFormed DEF ActiveBaseline

(* What a comparable comparison yields: one result for each clause in      *)
(* force, with that clause's status.                                       *)
LEMMA ResultsOfClauses ==
    ASSUME NEW k, NEW b, NEW a, NEW c, c.comparable
    PROVE  /\ \A r \in ClauseResults(k, b, a, c) :
                 \/ /\ r.source = "baseline" /\ r.clause \in ActiveBaseline(k)
                    /\ r.status = BaselineStatus(k, r.clause, b, a, c)
                 \/ /\ r.source = "change" /\ r.clause \in k.change
                    /\ r.status = ChangeStatus(k, r.clause, b, a, c)
           /\ \A x \in ActiveBaseline(k) : \E r \in ClauseResults(k, b, a, c) :
                 r.source = "baseline" /\ r.clause = x /\ r.status = BaselineStatus(k, x, b, a, c)
           /\ \A x \in k.change : \E r \in ClauseResults(k, b, a, c) :
                 r.source = "change" /\ r.clause = x /\ r.status = ChangeStatus(k, x, b, a, c)
<1>1. \A source, x, s : LET r == Result(source, x, s)
                             IN r.source = source /\ r.clause = x /\ r.status = s
  BY DEF Result
<1>2. ClauseResults(k, b, a, c)
      = {Result("baseline", x, BaselineStatus(k, x, b, a, c)) : x \in ActiveBaseline(k)}
        \cup {Result("change", x, ChangeStatus(k, x, b, a, c)) : x \in k.change}
  BY DEF ClauseResults, StatusOr
<1> QED BY <1>1, <1>2

(* A conflict is reported on both of its clauses, and never on a           *)
(* superseded one, whatever the contract.                                  *)
THEOREM AlwaysMutual == Spec => []ConflictsAreMutual
<1>1. ProgressInvariant => ConflictsAreMutual
  <2> SUFFICES ASSUME ProgressInvariant, Evaluated PROVE ConflictsAreMutual
    BY DEF ConflictsAreMutual
  <2> DEFINE k == acceptance.contract
             Conflicting(source) == {r.clause : r \in {r \in evaluation.results :
                                                      r.source = source /\ r.status = "conflict"}}
  <2>1. /\ Judged /\ acceptance \in Acceptances /\ k # NotConfigured
    BY DEF ProgressInvariant, Evaluated
  <2>2. evaluation.results = ClauseResults(k, before, after, comparison) /\ comparison.comparable
    BY <2>1 DEF Judged, Evaluate
  <2>3. Conflicting("baseline") = {b \in ActiveBaseline(k) : \E c \in k.change : Clash(b, c)}
    <3>1. Conflicting("baseline")
          = {b \in ActiveBaseline(k) : BaselineStatus(k, b, before, after, comparison) = "conflict"}
      BY <2>2, ResultsOfClauses
    <3>2. \A b \in ActiveBaseline(k) : BaselineStatus(k, b, before, after, comparison) = "conflict"
                                       <=> \E c \in k.change : Clash(b, c)
      BY <2>1, AcceptedPrimitives, JudgedClause DEF BaselineStatus
    <3> QED BY <3>1, <3>2
  <2>4. Conflicting("change")
        = {c \in k.change : UnknownReferences(k, c) # {} \/ \E b \in ActiveBaseline(k) : Clash(b, c)}
    <3>1. Conflicting("change")
          = {c \in k.change : ChangeStatus(k, c, before, after, comparison) = "conflict"}
      BY <2>2, ResultsOfClauses
    <3>2. \A c \in k.change : ChangeStatus(k, c, before, after, comparison) = "conflict"
                               <=> UnknownReferences(k, c) # {} \/ \E b \in ActiveBaseline(k) : Clash(b, c)
      BY <2>1, AcceptedPrimitives, JudgedClause DEF ChangeStatus
    <3> QED BY <3>1, <3>2
  <2>5. \A b \in ActiveBaseline(k), c \in k.change : b.id \notin c.supersedes
    BY DEF ActiveBaseline, Superseded, BaselineIds
  <2> QED
    BY <2>3, <2>4, <2>5 DEF ConflictsAreMutual, Authored
<1> QED BY <1>1, AlwaysProgress, PTL

-----------------------------------------------------------------------------
(* Every difference of an accepted check has an author: a clause in force  *)
(* that accounts for it, and that passed.                                  *)
LEMMA DifferencesHaveAuthors ==
    ASSUME ProgressInvariant, Accepted, NEW d \in Compare(before, after).differences
    PROVE  \E p \in AuthoredPrimitives(Authored) : \E mode :
               /\ IsPrimitive(p) /\ AccountsFor(p, d)
               /\ ClauseStatus(p, mode, before, after, Compare(before, after)) = "pass"
<1> DEFINE k == Authored
           c == Compare(before, after)
           e == Evaluate(k, before, after, c)
<1>1. /\ k # NotConfigured /\ c.comparable /\ ContractState(e) = "PASS" /\ acceptance \in Acceptances
  BY DEF ProgressInvariant, Accepted, Done, Judged, Authored
<1>2. Unjudged(e.results) = {} /\ e.verdict = "PASS"
  BY <1>1 DEF ContractState
<1>3. /\ \A r \in ClauseResults(k, before, after, c) : r.status = "pass"
      /\ UnexpectedChanges(k, c) = {}
  BY <1>2 DEF Evaluate
<1>4. PICK p \in AuthoredPrimitives(k) : AccountsFor(p, d)
  BY <1>3 DEF UnexpectedChanges
<1>5. CASE \E b \in ActiveBaseline(k) : b.primitive = p
  <2>1. PICK b \in ActiveBaseline(k) : b.primitive = p
    BY <1>5
  <2>2. BaselineStatus(k, b, before, after, c) = "pass"
    BY <1>1, <1>3, ResultsOfClauses
  <2>3. ClauseStatus(p, "preserved", before, after, c) = "pass"
    BY <2>1, <2>2 DEF BaselineStatus
  <2> QED BY <1>1, <1>4, <2>1, <2>3, AcceptedPrimitives DEF Authored
<1>6. CASE \E x \in k.change : x.primitive = p
  <2>1. PICK x \in k.change : x.primitive = p
    BY <1>6
  <2>2. ChangeStatus(k, x, before, after, c) = "pass"
    BY <1>1, <1>3, ResultsOfClauses
  <2>3. ClauseStatus(p, x.mode, before, after, c) = "pass"
    BY <2>1, <2>2 DEF ChangeStatus
  <2> QED BY <1>1, <1>4, <2>1, <2>3, AcceptedPrimitives DEF Authored
<1> QED BY <1>4, <1>5, <1>6 DEF AuthoredPrimitives

(* A kind belongs to one family.                                           *)
LEMMA OneFamily ==
    ASSUME NEW f \in DOMAIN Families, NEW kind \in Families[f]
    PROVE  /\ FamilyOf(kind) = f
           /\ \A g \in DOMAIN Families : kind \in Families[g] => g = f
<1>1. DOMAIN Families = {"horizontal", "vertical", "area", "relWidth", "fit", "sequence", "pageWidth"}
  BY DEF Families
<1>2. \A g \in DOMAIN Families : kind \in Families[g] => g = f
  BY <1>1 DEF Families
<1> QED BY <1>2 DEF FamilyOf

(* Only configured targets that are seen are related.                      *)
LEMMA RelatedAreEligible ==
    ASSUME NEW o, NEW r \in PairwiseRelationships(o)
    PROVE  r.subject \in Eligible(o) /\ r.related \in Eligible(o)
<1>1. PICK p \in Eligible(o) \X Eligible(o) :
         \/ \E kind : r = Relationship(kind, p[1], p[2])
         \/ r \in VerticalSequenceOf(o, p[1], p[2])
  BY DEF PairwiseRelationships
<1>2. r.subject \in {p[1], p[2]} /\ r.related \in {p[1], p[2]}
  BY <1>1 DEF VerticalSequenceOf, Relationship
<1> QED BY <1>1, <1>2

(* A clause that a relationship is unchanged fails on the change it would  *)
(* account for, and cannot pass without naming both targets.               *)
LEMMA UnchangedForbids ==
    ASSUME NEW p, IsPrimitive(p), p.kind = "relationship-unchanged",
           NEW mode, NEW f \in {"horizontal", "vertical"}, NEW change \in Compare(before, after).changes,
           ChangedKind(change) \in Families[f], NEW x, NEW y, change.subject = << x, y >>,
           Unavailable \notin Configured(after),
           AccountsFor(p, RelationshipDifference(change))
    PROVE  ClauseStatus(p, mode, before, after, Compare(before, after)) # "pass"
<1> DEFINE c == Compare(before, after)
           d == RelationshipDifference(change)
<1>1. f \in DOMAIN Families /\ f # "pageWidth"
  BY DEF Families
<1>2. d.relationship = ChangedKind(change) /\ d.subject = << x, y >>
  BY DEF RelationshipDifference, Difference
<1>3. /\ ChangedKind(change) \in Families[FamilyOf(p.relationship)]
      /\ p.a = Unavailable \/ p.a = x
      /\ p.b = Unavailable \/ p.b = y
  BY <1>2 DEF AccountsFor, Directional
<1>4. PICK g \in DOMAIN Families : p.relationship \in Families[g]
  BY DEF IsPrimitive
<1>5. FamilyOf(p.relationship) = f /\ g = f
  BY <1>1, <1>3, <1>4, OneFamily
<1>6. p.relationship \notin Families["pageWidth"] /\ p.relationship # Unavailable
  BY <1>1, <1>4, <1>5, OneFamily, UnavailableIsNoKind DEF Families
<1>7. CASE p.a = Unavailable \/ p.b = Unavailable
  <2>1. \A k : Relationship(k, p.a, p.b) \notin PairwiseRelationships(after)
    BY <1>7, RelatedAreEligible DEF Relationship, Eligible
  <2>2. KindBetween(PairwiseRelationships(after), FamilyOf(p.relationship), p.a, p.b) = Unavailable
    BY <2>1 DEF KindBetween
  <2>3. RelationshipStatus(p, after, c) # "pass"
    BY <1>6, <2>2 DEF RelationshipStatus
  <2> QED BY <2>3 DEF ClauseStatus, PrimitiveStatus, IsStatePrimitive, StateKinds
<1>8. CASE p.a = x /\ p.b = y
  <2>1. RelationshipStatus(p, after, c) = "fail"
    BY <1>3, <1>6, <1>8 DEF RelationshipStatus, InFamily
  <2> QED BY <2>1 DEF ClauseStatus, PrimitiveStatus, IsStatePrimitive, StateKinds
<1> QED BY <1>3, <1>7, <1>8

(* What a comparison of comparable observations reports.                   *)
LEMMA Reported ==
    ASSUME NEW b, NEW a, Comparable(b, a)
    PROVE  /\ \A t \in CommonTargets(b, a) : TargetDifferences(b, a, t) \subseteq Compare(b, a).differences
           /\ ContainmentDifferences(b, a) \subseteq Compare(b, a).differences
           /\ \A change \in RelationshipChanges(b, a) :
                 RelationshipDifference(change) \in Compare(b, a).differences
           /\ Compare(b, a).changes = RelationshipChanges(b, a)
<1> DEFINE differences == Compare(b, a).differences
           ofTargets == UNION {TargetDifferences(b, a, t) : t \in CommonTargets(b, a)}
           ofPairs == {RelationshipDifference(change) : change \in RelationshipChanges(b, a)}
<1>1. /\ differences = ofTargets \cup ContainmentDifferences(b, a) \cup PageDifferences(b, a)
                       \cup ScrollDifferences(b, a) \cup ofPairs
      /\ Compare(b, a).changes = RelationshipChanges(b, a)
  BY DEF Compare
<1>2. \A t \in CommonTargets(b, a) : TargetDifferences(b, a, t) \subseteq ofTargets
  OBVIOUS
<1>3. \A change \in RelationshipChanges(b, a) : RelationshipDifference(change) \in ofPairs
  OBVIOUS
<1> HIDE DEF differences, ofTargets, ofPairs
<1>4. /\ ofTargets \subseteq differences /\ ofPairs \subseteq differences
      /\ ContainmentDifferences(b, a) \subseteq differences
  BY <1>1
<1>5. /\ \A t \in CommonTargets(b, a) : TargetDifferences(b, a, t) \subseteq differences
      /\ \A change \in RelationshipChanges(b, a) : RelationshipDifference(change) \in differences
  BY <1>2, <1>3, <1>4
<1> QED BY <1>1, <1>4, <1>5 DEF differences

(* A target of one observation is paired with the one of the other that    *)
(* has its name, however that is spelled.                                  *)
LEMMA PairedByName ==
    ASSUME NEW b, NEW a, NamesDiffer(a), NEW t \in Configured(b), NEW s \in Configured(a), SameName(t, s)
    PROVE  Counterpart(a, t) = s /\ t \in CommonTargets(b, a)
<1>1. SameName(s, t) /\ \A r \in Configured(a) : SameName(r, t) => r = s
  BY DEF SameName, NamesDiffer
<1> QED BY <1>1 DEF Counterpart, CommonTargets

(* What persists is matched on both sides.                                 *)
LEMMA PersistingMatched ==
    ASSUME NamesDiffer(after), NEW t \in Persisting
    PROVE  Counterpart(after, t[1]) = t[2] /\ t[1] \in MatchedTargets(before, after)
<1>1. /\ t[1] \in Configured(before) /\ t[2] \in Configured(after) /\ SameName(t[1], t[2])
      /\ Matched(before, t[1]) /\ Matched(after, t[2])
  BY DEF Persisting
<1>2. Counterpart(after, t[1]) = t[2] /\ t[1] \in CommonTargets(before, after)
  BY <1>1, PairedByName
<1> QED BY <1>1, <1>2 DEF MatchedTargets

(* An accepted check keeps the order and the containment of every two      *)
(* targets: no clause authorises another.                                  *)
THEOREM AlwaysKeepsOrder == Spec => []PassKeepsOrder
<1>1. ProgressInvariant => PassKeepsOrder
  <2> SUFFICES ASSUME ProgressInvariant, Accepted PROVE PassKeepsOrder
    BY DEF PassKeepsOrder
  <2> DEFINE c == Compare(before, after)
             Kind(o, f, s, r) == KindBetween(PairwiseRelationships(o), f, s, r)
  <2>1. Comparable(before, after) /\ Unavailable \notin Configured(after) /\ NamesDiffer(after)
    <3>1. c.comparable /\ after \in Candidates
      BY DEF ProgressInvariant, Judged, Accepted
    <3> QED BY <3>1, UnavailableIsNoTarget, NamesAreToldApart DEF Compare
  <2>2. ASSUME NEW s \in Persisting, NEW r \in Persisting,
               Precedes(before, s[1], r[1]), NEW f \in {"horizontal", "vertical"},
               Kind(before, f, s[1], r[1]) # Kind(after, f, s[2], r[2])
        PROVE  FALSE
    <3> DEFINE change == [subject |-> << s[1], r[1] >>,
                          before |-> Kind(before, f, s[1], r[1]), after |-> Kind(after, f, s[2], r[2])]
               d == RelationshipDifference(change)
    <3>0. /\ Counterpart(after, s[1]) = s[2] /\ s[1] \in MatchedTargets(before, after)
          /\ Counterpart(after, r[1]) = r[2] /\ r[1] \in MatchedTargets(before, after)
      BY <2>1, PersistingMatched
    <3>1. f \in PairwiseFamilies /\ f \in DOMAIN Families
      BY DEF PairwiseFamilies, Families
    <3>2. change \in c.changes
      <4>1. change \in PairwiseChanges(before, after)
        BY <2>2, <3>0, <3>1 DEF PairwiseChanges
      <4> QED BY <2>1, <4>1, Reported DEF RelationshipChanges
    <3>3. d \in c.differences
      BY <2>1, <3>2, Reported
    <3>4. ChangedKind(change) \in Families[f]
      <4>1. \A o, x, y : Kind(o, f, x, y) = Unavailable \/ Kind(o, f, x, y) \in Families[f]
        BY DEF KindBetween
      <4> QED BY <2>2, <4>1 DEF ChangedKind
    <3>5. d.kind = "relative-position-changed" /\ d.relationship = ChangedKind(change)
      BY <3>4 DEF RelationshipDifference, Difference, RelativePosition
    <3>6. PICK p, mode : IsPrimitive(p) /\ AccountsFor(p, d) /\ ClauseStatus(p, mode, before, after, c) = "pass"
      BY <3>3, DifferencesHaveAuthors
    <3>7. \A g \in {"area", "relWidth", "sequence", "fit", "pageWidth"} : d.relationship \notin Families[g]
      <4>1. \A g \in {"area", "relWidth", "sequence", "fit", "pageWidth"} : g \in DOMAIN Families /\ g # f
        BY DEF Families
      <4> QED BY <3>1, <3>4, <3>5, <4>1, OneFamily
    <3>8. p.kind = "relationship-unchanged"
      BY <3>5, <3>6, <3>7 DEF AccountsFor, IsPairDifference
    <3> QED BY <2>1, <3>2, <3>4, <3>6, <3>8, UnchangedForbids
  <2>3. ASSUME NEW s \in Persisting, NEW r \in Persisting, s # r,
               ~ ((r[1] \in before.of[s[1]].inside) <=> (r[2] \in after.of[s[2]].inside))
        PROVE  FALSE
    <3> DEFINE d == Difference("containment-changed", << s[1] >>, Unavailable)
    <3>0. /\ Counterpart(after, s[1]) = s[2] /\ s[1] \in MatchedTargets(before, after)
          /\ Counterpart(after, r[1]) = r[2] /\ r[1] \in MatchedTargets(before, after)
          /\ s[1] # r[1]
      <4>1. s = << s[1], s[2] >> /\ r = << r[1], r[2] >>
        BY DEF Persisting
      <4> QED BY <2>1, <2>3, <4>1, PersistingMatched
    <3>1. d \in ContainmentDifferences(before, after)
      BY <2>3, <3>0 DEF ContainmentDifferences
    <3>2. d \in c.differences
      BY <2>1, <3>1, Reported
    <3>3. PICK p : IsPrimitive(p) /\ AccountsFor(p, d)
      BY <3>2, DifferencesHaveAuthors
    <3>4. d.kind = "containment-changed" /\ d.relationship = Unavailable
      BY DEF Difference
    <3>5. {"area", "relWidth", "sequence", "fit", "pageWidth"} \subseteq DOMAIN Families
      BY DEF Families
    <3>6. p.kind = "relationship-unchanged" => FamilyOf(p.relationship) \in DOMAIN Families
      BY <3>3, OneFamily DEF IsPrimitive
    <3> QED BY <3>3, <3>4, <3>5, <3>6, UnavailableIsNoKind DEF AccountsFor, IsPairDifference
  <2> QED BY <2>2, <2>3 DEF PassKeepsOrder
<1> QED BY <1>1, AlwaysProgress, PTL

(* Whatever else changed about a target in an accepted check is the        *)
(* subject of a clause in force.                                           *)
THEOREM AlwaysAuthored == Spec => []ChangesAreAuthored
<1>1. ProgressInvariant => ChangesAreAuthored
  <2> SUFFICES ASSUME ProgressInvariant, Accepted,
                      NEW t \in Configured(before), NEW now \in Configured(after), SameName(t, now)
               PROVE  LET was == before.of[t]
                          is == after.of[now]
                          matched == << t, now >> \in Persisting
                      IN /\ matched /\ (\E p \in {"x", "y"} : Apart(was.rect[p], is.rect[p]))
                               => AuthoredFor(t, Directional, {"x", "y"})
                         /\ matched /\ (\E p \in {"width", "height"} : Apart(was.rect[p], is.rect[p]))
                               => AuthoredFor(t, Directional \cup {"target-width-within-bound"}, {"width", "height"})
                         /\ (matched /\ was.visible # is.visible) \/ {was.selection, is.selection} = {"matched", "not-found"}
                               => AuthoredFor(t, {"target-visible"}, {})
    BY DEF ChangesAreAuthored
  <2> DEFINE was == before.of[t]
             is == after.of[now]
             matched == << t, now >> \in Persisting
             d(kind) == Difference(kind, << t >>, Unavailable)
  <2>1. Comparable(before, after) /\ Counterpart(after, t) = now /\ t \in CommonTargets(before, after)
    <3>1. Compare(before, after).comparable /\ after \in Candidates
      BY DEF ProgressInvariant, Judged, Accepted
    <3>2. NamesDiffer(after)
      BY <3>1, NamesAreToldApart
    <3> QED BY <3>1, <3>2, PairedByName DEF Compare
  <2>2. \A kind : d(kind) \in TargetDifferences(before, after, t) =>
            \E p \in AuthoredPrimitives(Authored) : IsPrimitive(p) /\ AccountsFor(p, d(kind))
    <3>1. \A kind : d(kind) \in TargetDifferences(before, after, t)
                        => d(kind) \in Compare(before, after).differences
      BY <2>1, Reported
    <3> QED BY <3>1, DifferencesHaveAuthors
  <2>3. \A kind : d(kind).kind = kind /\ d(kind).subject = << t >> /\ d(kind).relationship = Unavailable
    BY DEF Difference
  <2>4. \A p, kind : IsPrimitive(p) /\ p.kind = "relationship-unchanged" => ~ AccountsFor(p, d(kind))
    <3>1. \A p : IsPrimitive(p) /\ p.kind = "relationship-unchanged" => FamilyOf(p.relationship) \in DOMAIN Families
      BY OneFamily DEF IsPrimitive
    <3> QED BY <2>3, <3>1, UnavailableIsNoKind DEF AccountsFor, Directional
  <2>5. matched => was.selection = "matched" /\ is.selection = "matched"
    BY DEF Persisting, Matched, Presence
  <2>6. \A i, j : Apart(i, j) <=> Apart(j, i)
    BY DEF Apart
  <2>7. ASSUME matched, \E p \in {"x", "y"} : Apart(was.rect[p], is.rect[p])
        PROVE  AuthoredFor(t, Directional, {"x", "y"})
    <3>1. d("moved") \in TargetDifferences(before, after, t)
      BY <2>1, <2>5, <2>6, <2>7 DEF TargetDifferences, RenderedChange, TargetKinds
    <3>2. PICK p \in AuthoredPrimitives(Authored) : IsPrimitive(p) /\ AccountsFor(p, d("moved"))
      BY <2>2, <3>1
    <3>3. p.kind \in Directional /\ p.a = t /\ p.property \in {"x", "y"}
      BY <2>3, <2>4, <3>2, UnavailableIsNoKind DEF AccountsFor, IsPairDifference, Families
    <3> QED BY <3>2, <3>3 DEF AuthoredFor
  <2>8. ASSUME matched, \E p \in {"width", "height"} : Apart(was.rect[p], is.rect[p])
        PROVE  AuthoredFor(t, Directional \cup {"target-width-within-bound"}, {"width", "height"})
    <3>1. d("resized") \in TargetDifferences(before, after, t)
      BY <2>1, <2>5, <2>6, <2>8 DEF TargetDifferences, RenderedChange, TargetKinds
    <3>2. PICK p \in AuthoredPrimitives(Authored) : IsPrimitive(p) /\ AccountsFor(p, d("resized"))
      BY <2>2, <3>1
    <3>3. p.kind \in Directional \cup {"target-width-within-bound"} /\ p.a = t
      BY <2>3, <2>4, <3>2, UnavailableIsNoKind DEF AccountsFor, IsPairDifference, Families
    <3>4. p.kind \in Directional => p.property \notin {"x", "y"}
      BY <2>3, <3>2 DEF AccountsFor, Directional
    <3>5. p.kind \in Directional => p.property \in {"width", "height"}
      BY <3>2, <3>4 DEF IsPrimitive, Properties
    <3> QED BY <3>2, <3>3, <3>5 DEF AuthoredFor
  <2>9. ASSUME \/ {was.selection, is.selection} = {"matched", "not-found"}
               \/ matched /\ was.visible # is.visible
        PROVE  AuthoredFor(t, {"target-visible"}, {})
    <3>1. PICK kind \in {"appeared", "disappeared", "visibility-changed"} :
             d(kind) \in TargetDifferences(before, after, t)
      <4>1. \/ was.selection = "not-found" /\ is.selection = "matched"
            \/ was.selection = "matched" /\ is.selection = "not-found"
            \/ was.selection = "matched" /\ is.selection = "matched" /\ was.visible # is.visible
        BY <2>5, <2>9
      <4> QED BY <2>1, <4>1 DEF TargetDifferences, RenderedChange, TargetKinds
    <3>2. PICK p \in AuthoredPrimitives(Authored) : IsPrimitive(p) /\ AccountsFor(p, d(kind))
      BY <2>2, <3>1
    <3>3. p.kind = "target-visible" /\ p.a = t
      BY <2>3, <2>4, <3>1, <3>2, UnavailableIsNoKind DEF AccountsFor, IsPairDifference, Families
    <3> QED BY <3>2, <3>3 DEF AuthoredFor, Directional
  <2> QED BY <2>7, <2>8, <2>9
<1> QED BY <1>1, AlwaysProgress, PTL

-----------------------------------------------------------------------------
(* The status and the evidence                                             *)

(* None is not an object: no evaluator returns it.                         *)
NothingIsNoResult ==
    /\ \A b, a : Compare(b, a) # None
    /\ \A k, b, a, c : Evaluate(k, b, a, c) # None
    /\ \A r, o, bindings : EvaluateFidelity(r, o, bindings) # None

(* What of the comparison and of the contract could not be judged.         *)
ContractUnjudged ==
    \/ comparison = None \/ (comparison # None /\ ~ comparison.comparable)
    \/ acceptance.contract # NotConfigured /\ evaluation = None
    \/ evaluation # None /\ Unjudged(evaluation.results) # {}

(* What of the reference could not.                                        *)
ReferenceUnjudged ==
    \/ acceptance.reference # NotConfigured /\ fidelity = None
    \/ fidelity # None /\ ReferenceState(fidelity) = "BLOCKED"

(* The blockers are exactly what could not be judged so far; what is       *)
(* configured stays so; the reference's state is that of its evaluation.   *)
RollupInvariant ==
    /\ step \in {"prepare", "capture", "compare"} => comparison = None
    /\ step \in {"prepare", "capture", "compare", "contract", "reference"} => fidelity = None
    /\ step \in {"prepare", "capture", "compare", "contract"} => ~ blockers
    /\ step # "prepare" =>
          /\ contract = "NOT_CONFIGURED" <=> acceptance.contract = NotConfigured
          /\ reference = "NOT_CONFIGURED" <=> acceptance.reference = NotConfigured
    /\ evaluation = None => contract \in {"NOT_CONFIGURED", "NOT_RUN", "BLOCKED"}
    /\ step \in {"capture", "compare", "contract"} => contract \in {"NOT_CONFIGURED", "NOT_RUN"}
    /\ step \in {"capture", "compare", "contract", "reference"} => reference \in {"NOT_CONFIGURED", "NOT_RUN"}
    /\ step = "reference" => (blockers <=> ContractUnjudged)
    /\ step \in {"finalize", "done"} =>
          /\ blockers <=> ContractUnjudged \/ ReferenceUnjudged
          /\ fidelity = None => reference \in {"NOT_CONFIGURED", "NOT_RUN", "BLOCKED"}
          /\ fidelity # None =>
                /\ acceptance.reference # NotConfigured /\ reference = ReferenceState(fidelity)
                /\ fidelity = EvaluateFidelity(Design, after, acceptance.reference.bindings)
    /\ step = "done" => status = FinalStatus

(* The initial state satisfies it.                                         *)
LEMMA RollupInit == Init => RollupInvariant
BY DEF Init, RollupInvariant

(* A reference is blocked, passes or fails.                                *)
LEMMA ReferenceStateType ==
    ASSUME NEW f
    PROVE  ReferenceState(f) \in {"BLOCKED", "PASS", "FAIL"}
BY DEF ReferenceState

(* Every step of the check preserves it.                                   *)
LEMMA RollupStep ==
    ASSUME NothingIsNoResult, ProgressInvariant, RollupInvariant, [Next]_vars
    PROVE  RollupInvariant'
<1> USE DEF RollupInvariant, ContractUnjudged, ReferenceUnjudged
<1>1. CASE PrepareAcceptance
  BY <1>1 DEF PrepareAcceptance, ProgressInvariant
<1>2. CASE AcceptanceRefused
  BY <1>2 DEF AcceptanceRefused, inputs, ProgressInvariant
<1>3. CASE CaptureCandidate
  BY <1>3 DEF CaptureCandidate
<1>4. CASE CaptureFails
  BY <1>4 DEF CaptureFails, inputs, ProgressInvariant
<1>5. CASE CompareObservations
  <2>1. comparison' # None
    BY <1>5 DEF CompareObservations, NothingIsNoResult
  <2>2. evaluation = None /\ evaluation' = None
    BY <1>5 DEF CompareObservations, ProgressInvariant
  <2> QED BY <1>5, <2>1, <2>2 DEF CompareObservations, inputs
<1>6. CASE ComparisonFails
  BY <1>6 DEF ComparisonFails, inputs, ProgressInvariant
<1>7. CASE EvaluateContract
  <2>1. comparison # None /\ comparison.comparable /\ acceptance.contract # NotConfigured
    BY <1>7 DEF EvaluateContract, ProgressInvariant, NothingIsNoResult
  <2>2. evaluation' # None
    BY <1>7 DEF EvaluateContract, NothingIsNoResult
  <2>3. contract' \in {"BLOCKED", "PASS", "FAIL"}
    BY <1>7, ContractStateType DEF EvaluateContract
  <2>4. contract' = "BLOCKED" <=> Unjudged(evaluation'.results) # {}
    <3>1. evaluation'.verdict # "BLOCKED"
      BY <1>7 DEF EvaluateContract, Evaluate
    <3>2. contract' = ContractState(evaluation')
      BY <1>7 DEF EvaluateContract
    <3> QED BY <3>1, <3>2 DEF ContractState
  <2> QED BY <1>7, <2>1, <2>2, <2>3, <2>4 DEF EvaluateContract, inputs
<1>8. CASE EvaluationFails
  BY <1>8 DEF EvaluationFails, inputs, ProgressInvariant
<1>9. CASE SkipReference
  BY <1>9 DEF SkipReference, inputs
<1>10. CASE ReferenceFails
  BY <1>10 DEF ReferenceFails, inputs
<1>11. CASE EvaluateReference
  <2>1. fidelity' # None
    BY <1>11 DEF EvaluateReference, NothingIsNoResult
  <2>2. /\ fidelity' = EvaluateFidelity(Design', after', acceptance'.reference.bindings)
        /\ reference' = ReferenceState(fidelity') /\ acceptance'.reference # NotConfigured
    BY <1>11 DEF EvaluateReference, inputs, Design
  <2>3. reference' \in {"BLOCKED", "PASS", "FAIL"}
    BY <2>2, ReferenceStateType
  <2>4. blockers' <=> ContractUnjudged \/ reference' = "BLOCKED"
    BY <1>11 DEF EvaluateReference
  <2>5. ContractUnjudged' <=> ContractUnjudged
    BY <1>11 DEF EvaluateReference, inputs
  <2>6. ReferenceUnjudged' <=> reference' = "BLOCKED"
    BY <2>1, <2>2
  <2>7. /\ step = "reference" /\ step' = "finalize" /\ acceptance' = acceptance
        /\ contract' = contract /\ evaluation' = evaluation
    BY <1>11 DEF EvaluateReference, inputs
  <2> QED BY <2>1, <2>2, <2>3, <2>4, <2>5, <2>6, <2>7
<1>12. CASE Finalize
  <2>1. status' = FinalStatus'
    BY <1>12 DEF Finalize, FinalStatus
  <2> QED BY <1>12, <2>1 DEF Finalize, inputs, Design
<1>13. CASE UNCHANGED vars
  BY <1>13 DEF vars, inputs, Design, FinalStatus
<1> QED
  BY <1>1, <1>2, <1>3, <1>4, <1>5, <1>6, <1>7, <1>8, <1>9, <1>10, <1>11, <1>12, <1>13 DEF Next

(* The blockers are what could not be judged, along every path.            *)
THEOREM AlwaysRollup == ASSUME NothingIsNoResult PROVE Spec => [](ProgressInvariant /\ RollupInvariant)
<1>1. Init => ProgressInvariant /\ RollupInvariant
  BY ProgressInit, RollupInit
<1>2. ProgressInvariant /\ RollupInvariant /\ [Next]_vars => (ProgressInvariant /\ RollupInvariant)'
  BY ProgressStep, RollupStep
<1> QED BY <1>1, <1>2, PTL DEF Spec

(* A requirement is met, not met, or could not be judged for one of five   *)
(* reasons.                                                                *)
LEMMA RequirementStatusType ==
    ASSUME NEW r, ValidRequirement(r), NEW ref, NEW candidate, NEW bindings
    PROVE  RequirementStatus(r, ref, candidate, bindings) \in {"pass", "fail"} \cup UnavailableReasons
<1> DEFINE all == {"pass", "fail"} \cup UnavailableReasons
<1>1. \A condition : Pass(condition) \in all
  BY DEF Pass
<1>2. \A s, t : /\ PropertyFidelity(r, ref, candidate, t) \in all
                /\ MeasurementFidelity(r, ref, candidate, s, t) \in all
                /\ RelationshipFidelity(r, candidate, s, t) \in all
  <2> TAKE s, t
  <2>1. PropertyFidelity(r, ref, candidate, t) \in all
    BY <1>1 DEF PropertyFidelity, UnavailableReasons
  <2>2. MeasurementFidelity(r, ref, candidate, s, t) \in all
    BY <1>1 DEF MeasurementFidelity, UnavailableReasons
  <2>3. RelationshipFidelity(r, candidate, s, t) \in all
    BY <1>1 DEF RelationshipFidelity, UnavailableReasons
  <2> QED BY <2>1, <2>2, <2>3
<1>3. r.subject.kind \in {"region-property", "region-measurement", "region-relationship"}
  BY DEF ValidRequirement, ValidSubject
<1> QED BY <1>2, <1>3 DEF RequirementStatus, UnavailableReasons

(* What an evaluation of a valid reference says of its requirements.       *)
LEMMA FidelityResults ==
    ASSUME NEW ref, NEW candidate, NEW bindings, ValidRequirements(ref.requirements, ref.regions)
    PROVE  LET f == EvaluateFidelity(ref, candidate, bindings)
           IN /\ f.state = "not-evaluated" <=> NotEvaluable(ref, candidate)
              /\ f.state = "not-evaluated" <=> f.results = {}
              /\ f.state # "not-evaluated" =>
                    /\ \A r \in ref.requirements :
                          \E e \in f.results : e.requirement = r /\ e.status = RequirementStatus(r, ref, candidate, bindings)
                    /\ \A e \in f.results :
                          /\ e.requirement \in ref.requirements
                          /\ e.status = RequirementStatus(e.requirement, ref, candidate, bindings)
              /\ \A e \in f.results : e.status \in {"pass", "fail"} \cup UnavailableReasons
              /\ f.state = "pass" => \A e \in f.results : e.status = "pass"
              /\ f.state \in {"not-evaluated", "pass", "fail"}
              /\ f.state = "fail" => \E e \in f.results : e.status # "pass"
<1> DEFINE f == EvaluateFidelity(ref, candidate, bindings)
           Of(r) == [requirement |-> r, status |-> RequirementStatus(r, ref, candidate, bindings)]
           results == {Of(r) : r \in ref.requirements}
<1>1. CASE NotEvaluable(ref, candidate)
  BY <1>1 DEF EvaluateFidelity, Fidelity
<1>2. CASE ~ NotEvaluable(ref, candidate)
  <2>1. f = Fidelity(Pass(\A e \in results : e.status = "pass"), results)
    BY <1>2 DEF EvaluateFidelity
  <2>2. f.state = Pass(\A e \in results : e.status = "pass") /\ f.results = results
    BY <2>1 DEF Fidelity
  <2>3. ref.requirements # {}
    BY <1>2 DEF NotEvaluable, Adequacy
  <2>4. \A r : Of(r).requirement = r /\ Of(r).status = RequirementStatus(r, ref, candidate, bindings)
    OBVIOUS
  <2>5. \A e \in results : e.status \in {"pass", "fail"} \cup UnavailableReasons
    BY <2>4, RequirementStatusType DEF ValidRequirements
  <2>6. results # {}
    BY <2>3
  <2>7. /\ \A r \in ref.requirements :
              \E e \in results : e.requirement = r /\ e.status = RequirementStatus(r, ref, candidate, bindings)
        /\ \A e \in results :
              /\ e.requirement \in ref.requirements
              /\ e.status = RequirementStatus(e.requirement, ref, candidate, bindings)
    BY <2>4
  <2> HIDE DEF results, f
  <2>8. f.state \in {"pass", "fail"} /\ (f.state = "pass" <=> \A e \in results : e.status = "pass")
    BY <2>2 DEF Pass
  <2> QED BY <1>2, <2>2, <2>5, <2>6, <2>7, <2>8 DEF f
<1> QED BY <1>1, <1>2

(* What the evaluation of an accepted contract says of its clauses.        *)
LEMMA ContractResults ==
    ASSUME NEW s \in Acceptances, s.contract # NotConfigured, NEW b, NEW a, NEW c, c.comparable
    PROVE  LET e == Evaluate(s.contract, b, a, c)
           IN /\ \A r \in e.results : r.status \in Statuses
              /\ e.verdict = "PASS" <=> e.unexpected = {} /\ \A r \in e.results : r.status = "pass"
              /\ e.verdict \in {"PASS", "FAIL"}
<1> DEFINE k == s.contract
           results == ClauseResults(k, b, a, c)
<1>1. \A r \in results : r.status \in Statuses
  <2> SUFFICES ASSUME NEW r \in results PROVE r.status \in Statuses
    OBVIOUS
  <2>1. CASE r.clause \in ActiveBaseline(k) /\ r.status = BaselineStatus(k, r.clause, b, a, c)
    BY <2>1, AcceptedPrimitives, JudgedClause DEF BaselineStatus, Statuses
  <2>2. CASE r.clause \in k.change /\ r.status = ChangeStatus(k, r.clause, b, a, c)
    BY <2>2, AcceptedPrimitives, JudgedClause DEF ChangeStatus, Statuses
  <2> QED BY <2>1, <2>2, ResultsOfClauses
<1> QED BY <1>1 DEF Evaluate

(* The reported status says exactly what the evidence allows.              *)
THEOREM AlwaysFollowsEvidence == ASSUME NothingIsNoResult PROVE Spec => []StatusFollowsEvidence
<1>1. ProgressInvariant /\ RollupInvariant => StatusFollowsEvidence
  <2> SUFFICES ASSUME ProgressInvariant, RollupInvariant, Done PROVE StatusFollowsEvidence
    BY DEF StatusFollowsEvidence
  <2> DEFINE contractSet == acceptance.contract # NotConfigured
             referenceSet == acceptance.reference # NotConfigured
             unjudgedClause == evaluation # None /\ \E r \in evaluation.results : r.status \in {"unavailable", "conflict"}
             unjudgedRequirement == /\ fidelity # None
                                    /\ fidelity.results = {} \/ \E e \in fidelity.results : e.status \in UnavailableReasons
             unjudged == \/ comparison = None \/ (comparison # None /\ ~ comparison.comparable)
                         \/ contractSet /\ evaluation = None
                         \/ unjudgedClause
                         \/ referenceSet /\ fidelity = None
                         \/ unjudgedRequirement
             wrongClause == evaluation # None /\ (evaluation.unexpected # {} \/ \E r \in evaluation.results : r.status = "fail")
             wrongRequirement == fidelity # None /\ \E e \in fidelity.results : e.status = "fail"
  <2>1. acceptance \in Acceptances /\ status = FinalStatus
    BY DEF Done, ProgressInvariant, RollupInvariant
  <2>2. evaluation # None => contractSet /\ Judged
    BY DEF Done, ProgressInvariant
  <2>3. evaluation # None => /\ \A r \in evaluation.results : r.status \in Statuses
                             /\ evaluation.verdict = "PASS" <=> evaluation.unexpected = {}
                                                                /\ \A r \in evaluation.results : r.status = "pass"
                             /\ evaluation.verdict \in {"PASS", "FAIL"}
    <3>1. SUFFICES ASSUME evaluation # None
                   PROVE  /\ \A r \in evaluation.results : r.status \in Statuses
                          /\ evaluation.verdict = "PASS" <=> evaluation.unexpected = {}
                                                             /\ \A r \in evaluation.results : r.status = "pass"
                          /\ evaluation.verdict \in {"PASS", "FAIL"}
      OBVIOUS
    <3>2. evaluation = Evaluate(acceptance.contract, before, after, comparison) /\ comparison.comparable
      BY <2>2, <3>1 DEF Judged
    <3>3. acceptance.contract # NotConfigured
      BY <2>2, <3>1
    <3>4. LET e == Evaluate(acceptance.contract, before, after, comparison)
          IN /\ \A r \in e.results : r.status \in Statuses
             /\ e.verdict = "PASS" <=> e.unexpected = {} /\ \A r \in e.results : r.status = "pass"
             /\ e.verdict \in {"PASS", "FAIL"}
      BY <2>1, <3>2, <3>3, ContractResults
    <3> QED BY <3>2, <3>4
  <2>4. unjudgedClause <=> evaluation # None /\ Unjudged(evaluation.results) # {}
    BY <2>3 DEF Statuses, Unjudged
  <2>5. ~ unjudgedClause /\ evaluation # None => (contract = "FAIL" <=> wrongClause)
    BY <2>2, <2>3, <2>4 DEF Judged, ContractState, Statuses
  <2>6. unjudgedClause => contract = "BLOCKED"
    BY <2>2, <2>4 DEF Judged, ContractState
  <2>7. fidelity # None =>
            /\ referenceSet /\ reference = ReferenceState(fidelity)
            /\ fidelity = EvaluateFidelity(Design, after, acceptance.reference.bindings)
    BY DEF Done, RollupInvariant
  <2>8. referenceSet => ValidRequirements(Design.requirements, Design.regions)
    BY <2>1, AcceptancesAreWellFormed DEF Design
  <2>9. fidelity # None =>
            /\ fidelity.state = "not-evaluated" <=> fidelity.results = {}
            /\ \A e \in fidelity.results : e.status \in {"pass", "fail"} \cup UnavailableReasons
            /\ fidelity.state = "pass" => \A e \in fidelity.results : e.status = "pass"
            /\ fidelity.state \in {"not-evaluated", "pass", "fail"}
            /\ fidelity.state = "fail" => \E e \in fidelity.results : e.status # "pass"
    BY <2>7, <2>8, FidelityResults
  <2>10. {"pass", "fail"} \cap UnavailableReasons = {}
    BY DEF UnavailableReasons
  <2>11. fidelity # None => (Unjudged(fidelity.results) # {} <=> \E e \in fidelity.results : e.status \in UnavailableReasons)
    BY <2>9, <2>10 DEF Unjudged
  <2>12. unjudgedRequirement <=> fidelity # None /\ reference = "BLOCKED"
    BY <2>7, <2>9, <2>11 DEF ReferenceState
  <2>13. ~ unjudgedRequirement /\ fidelity # None => (reference = "FAIL" <=> wrongRequirement)
    BY <2>7, <2>9, <2>11, <2>12 DEF ReferenceState
  <2>14. blockers <=> unjudged
    BY <2>4, <2>7, <2>12 DEF Done, RollupInvariant, ContractUnjudged, ReferenceUnjudged
  <2>15. /\ contract = "NOT_CONFIGURED" <=> ~ contractSet
         /\ reference = "NOT_CONFIGURED" <=> ~ referenceSet
         /\ evaluation = None => contract \in {"NOT_CONFIGURED", "NOT_RUN", "BLOCKED"}
         /\ fidelity = None => reference \in {"NOT_CONFIGURED", "NOT_RUN", "BLOCKED"}
    BY DEF Done, RollupInvariant
  <2> HIDE DEF unjudgedClause, unjudgedRequirement, wrongClause, wrongRequirement
  <2>16. contract \notin {"BLOCKED"} \/ unjudged
    <3>1. evaluation # None => contract \in {"BLOCKED", "PASS", "FAIL"} /\ (contract = "BLOCKED" <=> unjudgedClause)
      BY <2>2, <2>3, <2>4 DEF Judged, ContractState
    <3>2. evaluation = None /\ contract = "BLOCKED" => contractSet
      BY <2>15
    <3> QED BY <3>1, <3>2
  <2>17. reference \notin {"BLOCKED"} \/ unjudged
    BY <2>12, <2>15
  <2>18. ~ unjudged => /\ "FAIL" \in {contract, reference} <=> wrongClause \/ wrongRequirement
    <3>1. evaluation = None => ~ wrongClause /\ contract # "FAIL"
      BY <2>15 DEF wrongClause
    <3>2. fidelity = None => ~ wrongRequirement /\ reference # "FAIL"
      BY <2>15 DEF wrongRequirement
    <3> QED BY <2>5, <2>13, <3>1, <3>2
  <2>19. {contract, reference} = {"NOT_CONFIGURED"} <=> ~ (contractSet \/ referenceSet)
    BY <2>15
  <2>20. /\ status = "BLOCKED" <=> unjudged
         /\ status = "FAIL" <=> ~ unjudged /\ (wrongClause \/ wrongRequirement)
         /\ status = "PASS" <=> ~ unjudged /\ ~ (wrongClause \/ wrongRequirement) /\ (contractSet \/ referenceSet)
    <3> HIDE DEF unjudged, contractSet, referenceSet
    <3> QED BY <2>1, <2>14, <2>16, <2>17, <2>18, <2>19 DEF FinalStatus
  <2> QED BY <2>20 DEF StatusFollowsEvidence, unjudgedClause, unjudgedRequirement, wrongClause, wrongRequirement
<1> QED BY <1>1, AlwaysRollup, PTL

-----------------------------------------------------------------------------
(* Superseding a clause is the same as never having written it, whatever   *)
(* the contract: what judges a clause never looks past the clauses in      *)
(* force.                                                                  *)
THEOREM SupersededAsIfNeverWritten == Spec => []SupersessionRemoves
<1>1. ProgressInvariant => SupersessionRemoves
  <2> SUFFICES ASSUME ProgressInvariant, Evaluated,
                      \A c \in Authored.change : UnknownReferences(Authored, c) = {}
               PROVE  SupersessionRemoves
    BY DEF SupersessionRemoves
  <2> DEFINE k == Authored
             e == Evaluate(Resolved, before, after, comparison)
             Without(c) == [c EXCEPT !.supersedes = {}]
             Told(r) == << r.source, r.clause.id, r.status >>
             Judgements(results) == {Told(r) : r \in results}
  <2>1. /\ acceptance \in Acceptances /\ k # NotConfigured /\ comparison.comparable
        /\ evaluation = Evaluate(k, before, after, comparison)
    BY DEF ProgressInvariant, Evaluated, Judged, Authored
  <2>2. /\ Resolved.baseline = ActiveBaseline(k)
        /\ Resolved.change = {Without(c) : c \in k.change}
    BY DEF Resolved
  <2>3. \A c \in k.change : /\ {"id", "primitive", "mode", "supersedes"} \subseteq DOMAIN c
    BY <2>1, AcceptancesAreWellFormed DEF Authored
  <2>4. \A c \in k.change : /\ Without(c).supersedes = {} /\ Without(c).primitive = c.primitive
                            /\ Without(c).mode = c.mode /\ Without(c).id = c.id
    BY <2>3
  <2>20. /\ \A x \in Resolved.change : \E c \in k.change : x = Without(c)
         /\ \A c \in k.change : Without(c) \in Resolved.change
    BY <2>2
  <2> HIDE DEF Without
  <2>5. ActiveBaseline(Resolved) = ActiveBaseline(k)
    <3>1. Superseded(Resolved) = {}
      <4>1. \A x \in Resolved.change : x.supersedes = {}
        BY <2>4, <2>20
      <4> QED BY <4>1 DEF Superseded
    <3> QED BY <2>2, <3>1 DEF ActiveBaseline
  <2>6. \A b \in ActiveBaseline(k), c \in k.change : Clash(b, Without(c)) <=> Clash(b, c)
    <3>1. \A b \in ActiveBaseline(k), c \in k.change : b.id \notin c.supersedes
      BY DEF ActiveBaseline, Superseded, BaselineIds
    <3> QED BY <2>4, <3>1 DEF Clash
  <2>7. \A b \in ActiveBaseline(k) :
            BaselineStatus(Resolved, b, before, after, comparison) = BaselineStatus(k, b, before, after, comparison)
    <3>1. \A b \in ActiveBaseline(k) : (\E c \in Resolved.change : Clash(b, c)) <=> \E c \in k.change : Clash(b, c)
      BY <2>6, <2>20
    <3> QED BY <3>1 DEF BaselineStatus
  <2>8. \A c \in k.change :
            ChangeStatus(Resolved, Without(c), before, after, comparison) = ChangeStatus(k, c, before, after, comparison)
    <3>1. \A c \in k.change : UnknownReferences(Resolved, Without(c)) = {} /\ UnknownReferences(k, c) = {}
      BY <2>4 DEF UnknownReferences
    <3>2. \A c \in k.change : (\E b \in ActiveBaseline(Resolved) : Clash(b, Without(c)))
                                  <=> \E b \in ActiveBaseline(k) : Clash(b, c)
      BY <2>5, <2>6
    <3> QED BY <2>4, <3>1, <3>2 DEF ChangeStatus
  <2>9. AuthoredPrimitives(Resolved) = AuthoredPrimitives(k)
    <3>1. {c.primitive : c \in Resolved.change} = {c.primitive : c \in k.change}
      BY <2>4, <2>20
    <3> QED BY <2>5, <3>1 DEF AuthoredPrimitives
  <2>10. UnexpectedChanges(Resolved, comparison) = UnexpectedChanges(k, comparison)
    BY <2>9 DEF UnexpectedChanges
  <2> DEFINE old == ClauseResults(k, before, after, comparison)
             new == ClauseResults(Resolved, before, after, comparison)
  <2>11. /\ e.results = new /\ e.unexpected = UnexpectedChanges(Resolved, comparison)
         /\ evaluation.results = old /\ evaluation.unexpected = UnexpectedChanges(k, comparison)
    BY <2>1 DEF Evaluate
  <2>12. \A r \in new : \E s \in old : s.source = r.source /\ s.clause.id = r.clause.id /\ s.status = r.status
    <3> TAKE r \in new
    <3>1. CASE /\ r.source = "baseline" /\ r.clause \in ActiveBaseline(Resolved)
               /\ r.status = BaselineStatus(Resolved, r.clause, before, after, comparison)
      BY <2>1, <2>5, <2>7, <3>1, ResultsOfClauses
    <3>2. CASE /\ r.source = "change" /\ r.clause \in Resolved.change
               /\ r.status = ChangeStatus(Resolved, r.clause, before, after, comparison)
      <4>1. PICK c \in k.change : r.clause = Without(c)
        BY <2>20, <3>2
      <4>2. r.status = ChangeStatus(k, c, before, after, comparison) /\ r.clause.id = c.id
        BY <2>4, <2>8, <3>2, <4>1
      <4> QED BY <2>1, <3>2, <4>2, ResultsOfClauses
    <3> QED BY <2>1, <3>1, <3>2, ResultsOfClauses
  <2>13. \A r \in old : \E s \in new : s.source = r.source /\ s.clause.id = r.clause.id /\ s.status = r.status
    <3> TAKE r \in old
    <3>1. CASE /\ r.source = "baseline" /\ r.clause \in ActiveBaseline(k)
               /\ r.status = BaselineStatus(k, r.clause, before, after, comparison)
      BY <2>1, <2>5, <2>7, <3>1, ResultsOfClauses
    <3>2. CASE /\ r.source = "change" /\ r.clause \in k.change
               /\ r.status = ChangeStatus(k, r.clause, before, after, comparison)
      <4>1. PICK c \in Resolved.change : c = Without(r.clause)
        BY <2>20, <3>2
      <4>2. r.status = ChangeStatus(Resolved, c, before, after, comparison) /\ r.clause.id = c.id
        BY <2>4, <2>8, <3>2, <4>1
      <4> QED BY <2>1, <3>2, <4>2, ResultsOfClauses
    <3> QED BY <2>1, <3>1, <3>2, ResultsOfClauses
  <2>14. (\A r \in new : r.status = "pass") <=> \A r \in old : r.status = "pass"
    BY <2>12, <2>13
  <2>15. e.verdict = evaluation.verdict
    <3>1. /\ e.verdict = IF /\ comparison.comparable /\ (\A r \in new : r.status = "pass")
                            /\ UnexpectedChanges(Resolved, comparison) = {} THEN "PASS" ELSE "FAIL"
          /\ evaluation.verdict = IF /\ comparison.comparable /\ (\A r \in old : r.status = "pass")
                                     /\ UnexpectedChanges(k, comparison) = {} THEN "PASS" ELSE "FAIL"
      BY <2>1 DEF Evaluate
    <3> HIDE DEF old, new, e
    <3> QED BY <2>10, <2>14, <3>1
  <2>16. Judgements(e.results) = Judgements(evaluation.results)
    <3>1. Judgements(new) = Judgements(old)
      <4> HIDE DEF old, new
      <4>1. \A r \in new : Told(r) \in Judgements(old)
        BY <2>12
      <4>2. \A r \in old : Told(r) \in Judgements(new)
        BY <2>13
      <4> QED BY <4>1, <4>2
    <3> QED BY <2>11, <3>1
  <2> QED BY <2>10, <2>11, <2>15, <2>16 DEF SupersessionRemoves
<1> QED BY <1>1, AlwaysProgress, PTL

-----------------------------------------------------------------------------
(* Geometry by pixels and geometry by edges                                *)

(* Each far end lies beyond each near end by more than so much.            *)
Beyond(fars, nears, n) == \A far \in fars, near \in nears : far - near > n

(* How many pixels two stretches share, told from their ends.              *)
LEMMA SharedPixels ==
    ASSUME NEW i \in Int, NEW j \in Int, NEW k \in Int, NEW l \in Int, i <= j, k <= l, NEW n \in Nat
    PROVE  Cardinality((i .. j - 1) \cap (k .. l - 1)) > n
               <=> Beyond({j, l}, {i, k}, n)
<1>1. PICK low \in {i, k} : i <= low /\ k <= low
  OBVIOUS
<1>2. PICK high \in {j, l} : high <= j /\ high <= l
  OBVIOUS
<1>3. (i .. j - 1) \cap (k .. l - 1) = low .. high - 1
  BY <1>1, <1>2
<1>4. Cardinality(low .. high - 1) = IF low > high - 1 THEN 0 ELSE high - 1 - low + 1
  BY <1>1, <1>2, FS_Interval
<1>5. Cardinality(low .. high - 1) > n <=> high - low > n
  BY <1>1, <1>2, <1>4
<1>6. high - low > n <=> Beyond({j, l}, {i, k}, n)
  BY <1>1, <1>2 DEF Beyond
<1> QED BY <1>3, <1>5, <1>6

(* The sides of a rectangle are numbers, its far edges beyond its near     *)
(* ones.                                                                   *)
LEMMA Edges ==
    ASSUME NEW a, IsRect(a)
    PROVE  /\ a.x \in Int /\ a.y \in Int /\ a.width \in Nat /\ a.height \in Nat
           /\ Right(a) \in Int /\ Bottom(a) \in Int /\ a.x <= Right(a) /\ a.y <= Bottom(a)
           /\ Right(a) - a.x = a.width /\ Bottom(a) - a.y = a.height
BY DEF IsRect, Right, Bottom

(* deriveAreaOverlap compares edges; what it finds is how many pixels the  *)
(* rectangles share.                                                       *)
LEMMA OverlapByPixels ==
    ASSUME NEW a, NEW b, IsRect(a), IsRect(b)
    PROVE  AreaOverlapOf(a, b) = "does-not-overlap" <=> ~ Overlapping(a, b)
<1>1. /\ a.x \in Int /\ Right(a) \in Int /\ a.x <= Right(a)
      /\ b.x \in Int /\ Right(b) \in Int /\ b.x <= Right(b)
      /\ GeometryTolerance \in Nat
  BY Edges, ToleranceInPixels
<1>0. /\ a.y \in Int /\ Bottom(a) \in Int /\ a.y <= Bottom(a)
      /\ b.y \in Int /\ Bottom(b) \in Int /\ b.y <= Bottom(b)
      /\ GeometryTolerance \in Nat
  BY Edges, ToleranceInPixels
<1>2. Cardinality(Columns(a) \cap Columns(b)) > GeometryTolerance
          <=> Beyond({Right(a), Right(b)}, {a.x, b.x}, GeometryTolerance)
  BY <1>1, SharedPixels DEF Columns
<1>3. Cardinality(Rows(a) \cap Rows(b)) > GeometryTolerance
          <=> Beyond({Bottom(a), Bottom(b)}, {a.y, b.y}, GeometryTolerance)
  BY <1>0, SharedPixels DEF Rows
<1> QED BY <1>2, <1>3 DEF AreaOverlapOf, Overlapping, Beyond

(* A rectangle is as wide and as high as its pixels.                       *)
LEMMA SizeByPixels ==
    ASSUME NEW a, IsRect(a)
    PROVE  Cardinality(Columns(a)) = a.width /\ Cardinality(Rows(a)) = a.height
<1>1. /\ a.x \in Int /\ Right(a) \in Int /\ Right(a) = a.x + a.width /\ a.width \in Nat
      /\ a.y \in Int /\ Bottom(a) \in Int /\ Bottom(a) = a.y + a.height /\ a.height \in Nat
      /\ Right(a) - 1 \in Int /\ Bottom(a) - 1 \in Int
  BY DEF IsRect, Right, Bottom
<1>2. Cardinality(a.x .. Right(a) - 1) = IF a.x > Right(a) - 1 THEN 0 ELSE Right(a) - 1 - a.x + 1
  BY <1>1, FS_Interval, Zenon
<1>3. Cardinality(a.y .. Bottom(a) - 1) = IF a.y > Bottom(a) - 1 THEN 0 ELSE Bottom(a) - 1 - a.y + 1
  BY <1>1, FS_Interval, Zenon
<1> QED BY <1>1, <1>2, <1>3, SMTT(30) DEF Columns, Rows

(* One stretch ends before another begins, told from the ends.             *)
LEMMA StretchBefore ==
    ASSUME NEW i \in Int, NEW j \in Int, NEW k \in Int, NEW l \in Int, i < j, k < l, NEW n \in Nat
    PROVE  (\A p \in i .. j - 1, q \in k .. l - 1 : p < q + n) <=> j <= k + n
<1>1. j - 1 \in i .. j - 1 /\ k \in k .. l - 1
  OBVIOUS
<1>2. \A p \in i .. j - 1, q \in k .. l - 1 : p <= j - 1 /\ k <= q /\ p \in Int /\ q \in Int
  OBVIOUS
<1> QED BY <1>1, <1>2

(* The same of two rectangles that have an extent.                         *)
LEMMA AboveByEdges ==
    ASSUME NEW a, NEW b, IsRect(a), IsRect(b), a.height > 0, b.height > 0
    PROVE  Above(a, b) <=> Bottom(a) <= b.y + GeometryTolerance
<1>1. /\ a.y \in Int /\ Bottom(a) \in Int /\ a.y < Bottom(a)
      /\ b.y \in Int /\ Bottom(b) \in Int /\ b.y < Bottom(b)
  BY DEF IsRect, Bottom
<1> QED BY <1>1, StretchBefore, ToleranceInPixels DEF Above, Rows

(* One stretch lies within tolerance of another.                           *)
LEMMA StretchCovered ==
    ASSUME NEW i \in Int, NEW j \in Int, NEW k \in Int, NEW l \in Int, i < j, k < l
    PROVE  Covered(i .. j - 1, k .. l - 1) <=> i >= k - GeometryTolerance /\ j <= l + GeometryTolerance
<1>1. GeometryTolerance \in Nat
  BY ToleranceInPixels
<1>2. ASSUME Covered(i .. j - 1, k .. l - 1)
      PROVE  i >= k - GeometryTolerance /\ j <= l + GeometryTolerance
  <2>1. i \in i .. j - 1 /\ j - 1 \in i .. j - 1
    OBVIOUS
  <2>2. PICK p \in k .. l - 1 : ~ Apart(i, p)
    BY <1>2, <2>1 DEF Covered
  <2>3. PICK q \in k .. l - 1 : ~ Apart(j - 1, q)
    BY <1>2, <2>1 DEF Covered
  <2> QED BY <1>1, <2>2, <2>3 DEF Apart
<1>3. ASSUME i >= k - GeometryTolerance, j <= l + GeometryTolerance
      PROVE  Covered(i .. j - 1, k .. l - 1)
  <2> SUFFICES ASSUME NEW p \in i .. j - 1
               PROVE  \E q \in k .. l - 1 : ~ Apart(p, q)
    BY DEF Covered
  <2>1. CASE p < k
    <3>1. k \in k .. l - 1 /\ ~ Apart(p, k)
      BY <1>1, <1>3, <2>1 DEF Apart
    <3> QED BY <3>1
  <2>2. CASE p > l - 1
    <3>1. l - 1 \in k .. l - 1 /\ ~ Apart(p, l - 1)
      BY <1>1, <1>3, <2>2 DEF Apart
    <3> QED BY <3>1
  <2>3. CASE p >= k /\ p <= l - 1
    <3>1. p \in k .. l - 1 /\ ~ Apart(p, p)
      BY <1>1, <2>3 DEF Apart
    <3> QED BY <3>1
  <2> QED BY <2>1, <2>2, <2>3
<1> QED BY <1>2, <1>3

(* deriveGeometricFit compares edges; what it finds is that every pixel of *)
(* the one is within tolerance of one of the other.                        *)
LEMMA FitByPixels ==
    ASSUME NEW a, NEW b, IsRect(a), IsRect(b), a.width > 0, a.height > 0, b.width > 0, b.height > 0
    PROVE  GeometricFitOf(a, b) = "fits-inside" <=> Inside(a, b)
<1>1. /\ a.x \in Int /\ Right(a) \in Int /\ a.x < Right(a)
      /\ a.y \in Int /\ Bottom(a) \in Int /\ a.y < Bottom(a)
      /\ b.x \in Int /\ Right(b) \in Int /\ b.x < Right(b)
      /\ b.y \in Int /\ Bottom(b) \in Int /\ b.y < Bottom(b)
  BY DEF IsRect, Right, Bottom
<1>2. Covered(Columns(a), Columns(b)) <=> a.x >= b.x - GeometryTolerance /\ Right(a) <= Right(b) + GeometryTolerance
  BY <1>1, StretchCovered DEF Columns
<1>3. Covered(Rows(a), Rows(b)) <=> a.y >= b.y - GeometryTolerance /\ Bottom(a) <= Bottom(b) + GeometryTolerance
  BY <1>1, StretchCovered DEF Rows
<1> QED BY <1>2, <1>3 DEF GeometricFitOf, Inside

-----------------------------------------------------------------------------
(* What the graph of an observation says of two of its targets             *)

(* The kind of each family that two rectangles show.                       *)
KindShown(f, a, b) ==
    CASE f = "horizontal" -> HorizontalOrderOf(a, b)
      [] f = "vertical" -> VerticalOrderOf(a, b)
      [] f = "area" -> AreaOverlapOf(a, b)
      [] f = "relWidth" -> RelativeWidthOf(a, b)
      [] f = "fit" -> GeometricFitOf(a, b)

GeometricFamilies == {"horizontal", "vertical", "area", "relWidth", "fit"}

(* It is of that family, and of no other.                                  *)
LEMMA KindShownIsOne ==
    ASSUME NEW f \in GeometricFamilies, NEW a, NEW b
    PROVE  /\ KindShown(f, a, b) \in Families[f] /\ KindShown(f, a, b) # Unavailable
           /\ \A g \in GeometricFamilies : KindShown(g, a, b) \in Families[f] => g = f
           /\ \A k : k \in {HorizontalOrderOf(a, b), VerticalOrderOf(a, b), AreaOverlapOf(a, b),
                            RelativeWidthOf(a, b), GeometricFitOf(a, b)}
                     <=> \E g \in GeometricFamilies : k = KindShown(g, a, b)
<1>1. \A g \in GeometricFamilies : KindShown(g, a, b) \in Families[g] /\ g \in DOMAIN Families
  BY DEF GeometricFamilies, KindShown, Families, HorizontalOrderOf, VerticalOrderOf, AreaOverlapOf,
         RelativeWidthOf, GeometricFitOf
<1>2. KindShown(f, a, b) # Unavailable
  BY <1>1, UnavailableIsNoKind
<1>3. \A g \in GeometricFamilies : KindShown(g, a, b) \in Families[f] => g = f
  BY <1>1, OneFamily
<1>4. \A k : k \in {HorizontalOrderOf(a, b), VerticalOrderOf(a, b), AreaOverlapOf(a, b),
                    RelativeWidthOf(a, b), GeometricFitOf(a, b)}
             <=> \E g \in GeometricFamilies : k = KindShown(g, a, b)
  BY DEF GeometricFamilies, KindShown
<1> QED BY <1>1, <1>2, <1>3, <1>4

(* The records of a graph.                                                 *)
LEMMA GraphRecords ==
    ASSUME NEW o, NEW rel
    PROVE  rel \in PairwiseRelationships(o)
               <=> \E s, r \in Eligible(o) :
                      /\ Precedes(o, s, r)
                      /\ \/ \E g \in GeometricFamilies : rel = Relationship(KindShown(g, Rect(o, s), Rect(o, r)), s, r)
                         \/ rel \in VerticalSequenceOf(o, s, r)
<1> DEFINE Kinds(a, b) == {HorizontalOrderOf(a, b), VerticalOrderOf(a, b), AreaOverlapOf(a, b),
                           RelativeWidthOf(a, b), GeometricFitOf(a, b)}
           OfPair(s, r) == {Relationship(kind, s, r) : kind \in Kinds(Rect(o, s), Rect(o, r))}
                           \cup VerticalSequenceOf(o, s, r)
<1>1. rel \in PairwiseRelationships(o)
          <=> \E p \in {p \in Eligible(o) \X Eligible(o) : Precedes(o, p[1], p[2])} : rel \in OfPair(p[1], p[2])
  BY DEF PairwiseRelationships
<1>2. \A s, r : rel \in OfPair(s, r)
                <=> \/ \E g \in GeometricFamilies : rel = Relationship(KindShown(g, Rect(o, s), Rect(o, r)), s, r)
                    \/ rel \in VerticalSequenceOf(o, s, r)
  <2> TAKE s, r
  <2> DEFINE a == Rect(o, s)
             b == Rect(o, r)
  <2>1. \A k : k \in Kinds(a, b) <=> \E g \in GeometricFamilies : k = KindShown(g, a, b)
    BY DEF GeometricFamilies, KindShown
  <2>2. (\E k \in Kinds(a, b) : rel = Relationship(k, s, r))
            <=> \E g \in GeometricFamilies : rel = Relationship(KindShown(g, a, b), s, r)
    <3> HIDE DEF Kinds, a, b
    <3> QED BY <2>1
  <2>3. rel \in {Relationship(kind, s, r) : kind \in Kinds(a, b)} <=> \E k \in Kinds(a, b) : rel = Relationship(k, s, r)
    <3> HIDE DEF Kinds, a, b
    <3> QED OBVIOUS
  <2>4. rel \in OfPair(s, r) <=> \/ rel \in {Relationship(kind, s, r) : kind \in Kinds(a, b)}
                                 \/ rel \in VerticalSequenceOf(o, s, r)
    OBVIOUS
  <2> QED BY <2>2, <2>3, <2>4
<1> HIDE DEF OfPair
<1>3. (\E p \in {p \in Eligible(o) \X Eligible(o) : Precedes(o, p[1], p[2])} : rel \in OfPair(p[1], p[2]))
          <=> \E s, r \in Eligible(o) : Precedes(o, s, r) /\ rel \in OfPair(s, r)
  <2>1. ASSUME NEW s \in Eligible(o), NEW r \in Eligible(o), Precedes(o, s, r), rel \in OfPair(s, r)
        PROVE  \E p \in {p \in Eligible(o) \X Eligible(o) : Precedes(o, p[1], p[2])} : rel \in OfPair(p[1], p[2])
    <3> DEFINE p == << s, r >>
    <3>1. p \in Eligible(o) \X Eligible(o) /\ p[1] = s /\ p[2] = r
      OBVIOUS
    <3>2. Precedes(o, p[1], p[2]) /\ rel \in OfPair(p[1], p[2])
      BY <2>1, <3>1
    <3> HIDE DEF p
    <3> QED BY <3>1, <3>2
  <2> QED BY <2>1
<1> QED BY <1>1, <1>2, <1>3

(* Two distinct configured targets are configured one before the other.    *)
LEMMA ConfiguredInOrder ==
    ASSUME NEW o, IsObservation(o), NEW s \in Configured(o), NEW r \in Configured(o)
    PROVE  /\ s # r => (Precedes(o, s, r) <=> ~ Precedes(o, r, s))
           /\ ~ Precedes(o, s, s)
<1>1. PICK i, j \in DOMAIN o.targets : o.targets[i] = s /\ o.targets[j] = r
  BY DEF Configured
<1>2. i \in Nat /\ j \in Nat /\ \A m, n \in DOMAIN o.targets : m \in Nat /\ n \in Nat /\ (o.targets[m] = o.targets[n] => m = n)
  BY DEF IsObservation
<1>3. Precedes(o, s, r) <=> i < j
  BY <1>1, <1>2 DEF Precedes
<1>4. Precedes(o, r, s) <=> j < i
  BY <1>1, <1>2 DEF Precedes
<1>5. ~ Precedes(o, s, s)
  BY <1>2 DEF Precedes
<1>6. s # r => i # j
  BY <1>1
<1> QED BY <1>2, <1>3, <1>4, <1>5, <1>6

(* What findPairwiseKind finds of a pair, in each geometric family.        *)
LEMMA KindFound ==
    ASSUME NEW o, NEW f \in GeometricFamilies, NEW s, NEW r
    PROVE  LET related == s \in Eligible(o) /\ r \in Eligible(o) /\ Precedes(o, s, r)
               found == KindBetween(PairwiseRelationships(o), f, s, r)
           IN /\ related => found = KindShown(f, Rect(o, s), Rect(o, r))
              /\ ~ related => found = Unavailable
              /\ related <=> found # Unavailable
<1> DEFINE related == s \in Eligible(o) /\ r \in Eligible(o) /\ Precedes(o, s, r)
           kind == KindShown(f, Rect(o, s), Rect(o, r))
           records == {k \in Families[f] : Relationship(k, s, r) \in PairwiseRelationships(o)}
<1>1. \A k1, k2, s1, r1 : Relationship(k1, s, r) = Relationship(k2, s1, r1) => k1 = k2 /\ s = s1 /\ r = r1
  BY DEF Relationship
<1>2. \A k \in Families[f] : k # "follows-vertically"
  BY DEF GeometricFamilies, Families
<1>3. \A k \in Families[f] : \A s1, r1 : Relationship(k, s, r) \notin VerticalSequenceOf(o, s1, r1)
  BY <1>1, <1>2 DEF VerticalSequenceOf
<1>4. \A k \in Families[f] : Relationship(k, s, r) \in PairwiseRelationships(o) <=> related /\ k = kind
  <2> TAKE k \in Families[f]
  <2>1. Relationship(k, s, r) \in PairwiseRelationships(o)
            <=> related /\ \E g \in GeometricFamilies : k = KindShown(g, Rect(o, s), Rect(o, r))
    <3>1. ASSUME Relationship(k, s, r) \in PairwiseRelationships(o)
          PROVE  related /\ \E g \in GeometricFamilies : k = KindShown(g, Rect(o, s), Rect(o, r))
      <4>1. PICK s1, r1 \in Eligible(o) :
               /\ Precedes(o, s1, r1)
               /\ \E g \in GeometricFamilies :
                     Relationship(k, s, r) = Relationship(KindShown(g, Rect(o, s1), Rect(o, r1)), s1, r1)
        BY <1>3, <3>1, GraphRecords
      <4> QED BY <1>1, <4>1
    <3>2. ASSUME related, NEW g \in GeometricFamilies, k = KindShown(g, Rect(o, s), Rect(o, r))
          PROVE  Relationship(k, s, r) \in PairwiseRelationships(o)
      BY <3>2, GraphRecords
    <3> QED BY <3>1, <3>2
  <2>2. (\E g \in GeometricFamilies : k = KindShown(g, Rect(o, s), Rect(o, r))) <=> k = kind
    BY KindShownIsOne
  <2> QED BY <2>1, <2>2
<1>5. kind \in Families[f] /\ kind # Unavailable
  BY KindShownIsOne
<1>6. related => records = {kind}
  BY <1>4, <1>5
<1>7. ~ related => records = {}
  BY <1>4
<1>8. KindBetween(PairwiseRelationships(o), f, s, r) = IF records = {} THEN Unavailable ELSE CHOOSE k \in records : TRUE
  BY DEF KindBetween
<1> HIDE DEF records, kind, related
<1>9. related => (CHOOSE k \in records : TRUE) = kind
  BY <1>6
<1>10. /\ related => KindBetween(PairwiseRelationships(o), f, s, r) = kind
       /\ ~ related => KindBetween(PairwiseRelationships(o), f, s, r) = Unavailable
  BY <1>6, <1>7, <1>8, <1>9
<1> QED BY <1>5, <1>10 DEF kind, related

(* What it finds of a pair's vertical sequence: one of the two follows,    *)
(* whichever is configured first; if each lies above the other, the one    *)
(* configured later.                                                       *)
LEMMA SequenceFound ==
    ASSUME NEW o, NEW s, NEW r
    PROVE  LET follows == /\ s \in Eligible(o) /\ r \in Eligible(o)
                          /\ Bottom(Rect(o, r)) <= Rect(o, s).y + GeometryTolerance
                          /\ \/ Precedes(o, r, s)
                             \/ /\ Precedes(o, s, r)
                                /\ ~ (Bottom(Rect(o, s)) <= Rect(o, r).y + GeometryTolerance)
               found == KindBetween(PairwiseRelationships(o), "sequence", s, r)
           IN /\ follows => found = "follows-vertically"
              /\ ~ follows => found = Unavailable
              /\ follows <=> found # Unavailable
<1> DEFINE After(x, y) == Bottom(Rect(o, y)) <= Rect(o, x).y + GeometryTolerance
           follows == /\ s \in Eligible(o) /\ r \in Eligible(o) /\ After(s, r)
                      /\ Precedes(o, r, s) \/ (Precedes(o, s, r) /\ ~ After(r, s))
           k == "follows-vertically"
           records == {x \in Families["sequence"] : Relationship(x, s, r) \in PairwiseRelationships(o)}
<1>1. \A k1, k2, s1, r1 : Relationship(k1, s, r) = Relationship(k2, s1, r1) => k1 = k2 /\ s = s1 /\ r = r1
  BY DEF Relationship
<1>2. Families["sequence"] = {k} /\ "sequence" \in DOMAIN Families
  BY DEF Families
<1>3. \A g \in GeometricFamilies : \A a, b : KindShown(g, a, b) # k
  BY DEF GeometricFamilies, KindShown, HorizontalOrderOf, VerticalOrderOf, AreaOverlapOf,
         RelativeWidthOf, GeometricFitOf
<1>4. \A x, y : Relationship(k, s, r) \in VerticalSequenceOf(o, x, y)
                <=> \/ After(y, x) /\ s = y /\ r = x
                    \/ ~ After(y, x) /\ After(x, y) /\ s = x /\ r = y
  <2> TAKE x, y
  <2>1. CASE After(y, x)
    <3>1. VerticalSequenceOf(o, x, y) = {Relationship(k, y, x)}
      BY <2>1 DEF VerticalSequenceOf
    <3> HIDE DEF After
    <3> QED BY <1>1, <2>1, <3>1
  <2>2. CASE ~ After(y, x) /\ After(x, y)
    <3>1. VerticalSequenceOf(o, x, y) = {Relationship(k, x, y)}
      BY <2>2 DEF VerticalSequenceOf
    <3> HIDE DEF After
    <3> QED BY <1>1, <2>2, <3>1
  <2>3. CASE ~ After(y, x) /\ ~ After(x, y)
    <3>1. VerticalSequenceOf(o, x, y) = {}
      BY <2>3 DEF VerticalSequenceOf
    <3> HIDE DEF After
    <3> QED BY <2>3, <3>1
  <2> QED BY <2>1, <2>2, <2>3
<1> HIDE DEF After
<1>5. Relationship(k, s, r) \in PairwiseRelationships(o) <=> follows
  <2>1. Relationship(k, s, r) \in PairwiseRelationships(o)
            <=> \E x, y \in Eligible(o) : Precedes(o, x, y) /\ Relationship(k, s, r) \in VerticalSequenceOf(o, x, y)
    <3>1. \A g \in GeometricFamilies : \A a, b, x, y : Relationship(k, s, r) # Relationship(KindShown(g, a, b), x, y)
      BY <1>1, <1>3
    <3> QED BY <3>1, GraphRecords
  <2> QED BY <1>4, <2>1
<1>6. records = IF follows THEN {k} ELSE {}
  <2> HIDE DEF follows
  <2> QED BY <1>2, <1>5
<1>7. k # Unavailable
  BY <1>2, UnavailableIsNoKind
<1>8. KindBetween(PairwiseRelationships(o), "sequence", s, r) = IF records = {} THEN Unavailable ELSE CHOOSE x \in records : TRUE
  BY DEF KindBetween
<1>9. /\ follows => KindBetween(PairwiseRelationships(o), "sequence", s, r) = k
      /\ ~ follows => KindBetween(PairwiseRelationships(o), "sequence", s, r) = Unavailable
  <2> HIDE DEF follows, records
  <2> QED BY <1>6, <1>8
<1> QED BY <1>7, <1>9 DEF After

(* Of two targets that are shown.                                          *)
LEMMA ShownIsMeasured ==
    ASSUME NEW o, IsObservation(o), NEW t
    PROVE  /\ t \in Eligible(o) <=> Shown(o, t)
           /\ Shown(o, t) => /\ t \in Configured(o) /\ IsRect(Rect(o, t))
                             /\ Rect(o, t).width > 0 /\ Rect(o, t).height > 0
           /\ Matched(o, t) => t \in Configured(o) /\ IsRect(Rect(o, t))
<1>1. Matched(o, t) => t \in Configured(o)
  BY DEF Matched, Presence
<1>2. Matched(o, t) => IsMeasured(o.of[t])
  BY <1>1 DEF IsObservation
<1> QED BY <1>1, <1>2 DEF Eligible, Shown, IsMeasured, Rect

(* A clause about two targets is judged as their pixels say.               *)
LEMMA PairByGeometry ==
    ASSUME NEW o, IsObservation(o), NEW p, IsPrimitive(p), p.kind \in PairKinds
    PROVE  StateStatus(p, o) = JudgedIf(Measured(p, o), Holds(p, o))
<1> DEFINE a == Rect(o, p.a)
           b == Rect(o, p.b)
           graph == PairwiseRelationships(o)
           both == Shown(o, p.a) /\ Shown(o, p.b)
<1>1. p.a # p.b
  BY DEF IsPrimitive
<1>2. /\ p.a \in Eligible(o) <=> Shown(o, p.a)
      /\ p.b \in Eligible(o) <=> Shown(o, p.b)
      /\ Shown(o, p.a) => IsRect(a) /\ a.width > 0 /\ a.height > 0
      /\ Shown(o, p.b) => IsRect(b) /\ b.width > 0 /\ b.height > 0
  BY ShownIsMeasured
<1>3. both => (Precedes(o, p.a, p.b) <=> ~ Precedes(o, p.b, p.a))
  BY <1>1, ShownIsMeasured, ConfiguredInOrder
<1>4. CASE p.kind = "targets-do-not-overlap"
  <2> DEFINE area == KindEitherWay(graph, "area", p.a, p.b)
  <2>1. /\ ~ both => area = Unavailable
        /\ both => area # Unavailable
        /\ both => area \in {AreaOverlapOf(a, b), AreaOverlapOf(b, a)}
    BY <1>2, <1>3, KindFound DEF KindEitherWay, GeometricFamilies, KindShown
  <2>2. AreaOverlapOf(a, b) = AreaOverlapOf(b, a)
    BY DEF AreaOverlapOf
  <2>3. both => (area = "does-not-overlap" <=> ~ Overlapping(a, b))
    BY <1>2, <2>1, <2>2, OverlapByPixels
  <2>4. StateStatus(p, o) = JudgedIf(area # Unavailable, area = "does-not-overlap")
    BY <1>4 DEF StateStatus
  <2>5. (Measured(p, o) <=> both) /\ (Holds(p, o) <=> ~ Overlapping(a, b))
    BY <1>4 DEF Measured, Holds
  <2> HIDE DEF area, both
  <2> QED BY <2>1, <2>3, <2>4, <2>5 DEF JudgedIf, PassIf
<1>5. CASE p.kind = "target-wider-than"
  <2> DEFINE direct == KindBetween(graph, "relWidth", p.a, p.b)
             reversed == KindBetween(graph, "relWidth", p.b, p.a)
             found == direct = "wider-than" \/ (direct = Unavailable /\ reversed = "narrower-than")
             wider == Cardinality(Columns(a)) > Cardinality(Columns(b)) + GeometryTolerance
  <2>1. /\ ~ both => direct = Unavailable /\ reversed = Unavailable
        /\ both /\ Precedes(o, p.a, p.b) => direct # Unavailable /\ direct = RelativeWidthOf(a, b)
        /\ both /\ ~ Precedes(o, p.a, p.b) => direct = Unavailable /\ reversed # Unavailable /\ reversed = RelativeWidthOf(b, a)
    BY <1>2, <1>3, KindFound DEF GeometricFamilies, KindShown
  <2>2. both => (RelativeWidthOf(a, b) = "wider-than" <=> wider) /\ (RelativeWidthOf(b, a) = "narrower-than" <=> wider)
    <3>1. both => /\ Cardinality(Columns(a)) = a.width /\ Cardinality(Columns(b)) = b.width
                  /\ a.width \in Nat /\ b.width \in Nat
      BY <1>2, SizeByPixels, Edges
    <3> QED BY <3>1, ToleranceInPixels DEF RelativeWidthOf
  <2>3. both => (found <=> wider)
    <3>1. Unavailable # "wider-than"
      BY UnavailableIsNoKind DEF Families
    <3> HIDE DEF direct, reversed, wider, both
    <3> QED BY <2>1, <2>2, <3>1
  <2>4. (direct # Unavailable \/ reversed # Unavailable) <=> both
    BY <2>1
  <2>5. StateStatus(p, o) = JudgedIf(direct # Unavailable \/ reversed # Unavailable, found)
    BY <1>5 DEF StateStatus
  <2>6. (Measured(p, o) <=> both) /\ (Holds(p, o) <=> wider)
    BY <1>5 DEF Measured, Holds
  <2> HIDE DEF direct, reversed, found, wider, both
  <2> QED BY <2>3, <2>4, <2>5, <2>6 DEF JudgedIf, PassIf
<1>6. CASE p.kind = "target-follows-vertically"
  <2> DEFINE follows == KindBetween(graph, "sequence", p.a, p.b)
             matched == Matched(o, p.a) /\ Matched(o, p.b)
             below == both /\ Above(b, a) /\ (Above(a, b) => ~ Precedes(o, p.a, p.b))
  <2>1. both => /\ Above(b, a) <=> Bottom(b) <= a.y + GeometryTolerance
                /\ Above(a, b) <=> Bottom(a) <= b.y + GeometryTolerance
    BY <1>2, AboveByEdges
  <2>2. follows # Unavailable <=> below
    BY <1>2, <1>3, <2>1, SequenceFound
  <2>3. below => matched
    BY DEF Shown
  <2>4. StateStatus(p, o) = JudgedIf(follows # Unavailable \/ matched, follows # Unavailable)
    BY <1>6 DEF StateStatus
  <2>5. (Measured(p, o) <=> matched) /\ (Holds(p, o) <=> below)
    BY <1>6 DEF Measured, Holds
  <2>6. (follows # Unavailable \/ matched) <=> matched
    BY <2>2, <2>3
  <2> HIDE DEF follows, matched, below
  <2> QED BY <2>2, <2>4, <2>5, <2>6 DEF JudgedIf, PassIf
<1>7. CASE p.kind = "target-fits-inside"
  <2> DEFINE fit == KindBetween(graph, "fit", p.a, p.b)
             known == both /\ Precedes(o, p.a, p.b)
             inside == Inside(a, b)
  <2>1. /\ fit # Unavailable <=> known
        /\ known => fit = GeometricFitOf(a, b)
    BY <1>2, KindFound DEF GeometricFamilies, KindShown
  <2>2. known => (fit = "fits-inside" <=> inside)
    BY <1>2, <2>1, FitByPixels
  <2>3. StateStatus(p, o) = JudgedIf(fit # Unavailable, fit = "fits-inside")
    BY <1>7 DEF StateStatus
  <2>4. (Measured(p, o) <=> known) /\ (Holds(p, o) <=> inside)
    BY <1>7 DEF Measured, Holds
  <2> HIDE DEF fit, known, inside
  <2> QED BY <2>1, <2>2, <2>3, <2>4 DEF JudgedIf, PassIf
<1> QED BY <1>4, <1>5, <1>6, <1>7 DEF PairKinds

(* A clause about the scroll scenario is judged as its two measurements    *)
(* say.                                                                    *)
LEMMA ScrollByMeasurement ==
    ASSUME NEW o, IsObservation(o), NEW p, IsPrimitive(p),
           p.kind \in {"scroll-owner-is-document", "target-does-not-own-scroll"}
    PROVE  StateStatus(p, o) = JudgedIf(Measured(p, o), Holds(p, o))
<1> DEFINE viewport == o.context.viewport
           moved == MovedTargets(o.scroll, viewport)
           owner == ScrollOwnerOf(o)
           windowMoved == o.scroll.initial.window # o.scroll.final.window
<1>1. \A snapshot, t : ViewportRelationOf(snapshot, t, viewport) # Unavailable <=> Rendered(snapshot, t)
  <2>1. \A r : VerticalRelation(r, viewport) # Unavailable
    <3>1. \A r : VerticalRelation(r, viewport) \in {"above", "below", "intersecting"}
      BY DEF VerticalRelation
    <3> QED BY <3>1, UnavailableIsNoRelation
  <2> QED BY <2>1 DEF ViewportRelationOf, Rendered
<1>2. o.scroll # Unavailable => \A t : t \in moved <=> t \in Configured(o) /\ Scrolls(o, t)
  <2> SUFFICES ASSUME o.scroll # Unavailable, NEW t
               PROVE  t \in moved <=> t \in Configured(o) /\ Scrolls(o, t)
    OBVIOUS
  <2>1. DOMAIN o.scroll.initial.targets \subseteq Configured(o)
    BY DEF IsObservation
  <2>2. t \in moved <=> /\ t \in DOMAIN o.scroll.initial.targets /\ t \in DOMAIN o.scroll.final.targets
                        /\ Rendered(o.scroll.initial, t) /\ Rendered(o.scroll.final, t)
                        /\ o.scroll.initial.targets[t].offset # o.scroll.final.targets[t].offset
    BY <1>1 DEF MovedTargets, Followed
  <2>3. \A snapshot : Rendered(snapshot, t) => t \in DOMAIN snapshot.targets
    BY DEF Rendered
  <2> QED BY <2>1, <2>2, <2>3 DEF Scrolls
<1> HIDE DEF moved
<1>3. owner = CASE ~ windowMoved /\ moved = {} -> Owner("none", Unavailable)
                [] windowMoved /\ moved = {} -> Owner("document", Unavailable)
                [] ~ windowMoved /\ \E t \in moved : moved = {t} -> Owner("target", CHOOSE t \in moved : TRUE)
                [] OTHER -> Owner("indeterminate", Unavailable)
  BY DEF ScrollOwnerOf, ScrollOwner, WindowMoved, moved
<1>4. \A kind, t : Owner(kind, t).kind = kind /\ Owner(kind, t).target = t
  BY DEF Owner
<1>5. CASE p.kind = "scroll-owner-is-document"
  <2>1. owner.kind = "document" <=> windowMoved /\ moved = {}
    BY <1>3, <1>4
  <2>2. StateStatus(p, o) = JudgedIf(o.scroll # Unavailable, owner.kind = "document")
    BY <1>5 DEF StateStatus
  <2>3. /\ Measured(p, o) <=> o.scroll # Unavailable
        /\ Holds(p, o) <=> windowMoved /\ \A t \in Configured(o) : ~ Scrolls(o, t)
    BY <1>5 DEF Measured, Holds
  <2>4. o.scroll # Unavailable => (owner.kind = "document" <=> Holds(p, o))
    BY <1>2, <2>1, <2>3
  <2> HIDE DEF owner
  <2> QED BY <2>2, <2>3, <2>4 DEF JudgedIf, PassIf
<1>6. CASE p.kind = "target-does-not-own-scroll"
  <2>1. p.a # Unavailable
    BY <1>6 DEF IsPrimitive, PageKinds
  <2>2. owner.target = p.a <=> ~ windowMoved /\ moved = {p.a}
    <3>1. CASE ~ windowMoved /\ \E t \in moved : moved = {t}
      <4>1. PICK t \in moved : moved = {t}
        BY <3>1
      <4>2. owner = Owner("target", CHOOSE x \in moved : TRUE)
        BY <1>3, <3>1
      <4>3. (CHOOSE x \in moved : TRUE) = t
        BY <4>1
      <4>4. owner.target = t
        <5> HIDE DEF owner
        <5>1. owner = Owner("target", t)
          BY <4>2, <4>3
        <5> QED BY <5>1, <1>4
      <4> QED BY <3>1, <4>1, <4>4
    <3>2. CASE ~ (~ windowMoved /\ \E t \in moved : moved = {t})
      <4>1. owner.target = Unavailable
        BY <1>3, <1>4, <3>2
      <4> QED BY <2>1, <3>2, <4>1
    <3> QED BY <3>1, <3>2
  <2>3. StateStatus(p, o) = JudgedIf(o.scroll # Unavailable, owner.target # p.a)
    BY <1>6 DEF StateStatus
  <2>4. /\ Measured(p, o) <=> o.scroll # Unavailable
        /\ Holds(p, o) <=> (Scrolls(o, p.a) => windowMoved \/ \E t \in Configured(o) \ {p.a} : Scrolls(o, t))
    BY <1>6 DEF Measured, Holds
  <2>5. o.scroll # Unavailable => (owner.target # p.a <=> Holds(p, o))
    <3> SUFFICES ASSUME o.scroll # Unavailable PROVE owner.target # p.a <=> Holds(p, o)
      OBVIOUS
    <3>1. Scrolls(o, p.a) => p.a \in Configured(o)
      <4>1. Scrolls(o, p.a) => p.a \in DOMAIN o.scroll.initial.targets
        BY DEF Scrolls, Rendered
      <4> QED BY <4>1 DEF IsObservation
    <3> QED BY <1>2, <2>2, <2>4, <3>1
  <2> HIDE DEF owner
  <2> QED BY <2>3, <2>4, <2>5 DEF JudgedIf, PassIf
<1> QED BY <1>5, <1>6

(* So is one about where a target begins.                                  *)
LEMMA BeginsByMeasurement ==
    ASSUME NEW o, IsObservation(o), NEW p, p.kind = "target-begins-below-initial-viewport"
    PROVE  StateStatus(p, o) = JudgedIf(Measured(p, o), Holds(p, o))
<1> DEFINE viewport == o.context.viewport
           t == p.a
           seen == o.scroll # Unavailable /\ Rendered(o.scroll.initial, t)
           rect == o.scroll.initial.targets[t].rect
           below == \A i \in Rows(rect) : i > viewport.height - 1
<1>1. seen => InitialRelation(o, t) = VerticalRelation(rect, viewport)
  BY DEF InitialRelation, ViewportRelationOf, Rendered
<1>2. ~ seen => InitialRelation(o, t) = Unavailable
  BY DEF InitialRelation, ViewportRelationOf, Rendered
<1>3. VerticalRelation(rect, viewport) \in {"above", "below", "intersecting"}
  BY DEF VerticalRelation
<1>4. InitialRelation(o, t) # Unavailable <=> seen
  BY <1>1, <1>2, <1>3, UnavailableIsNoRelation
<1>5. seen => (VerticalRelation(rect, viewport) = "below" <=> below)
  <2> SUFFICES ASSUME seen PROVE VerticalRelation(rect, viewport) = "below" <=> below
    OBVIOUS
  <2>1. IsMeasured(o.scroll.initial.targets[t]) /\ o.scroll.initial.targets[t].visible
    BY DEF Rendered, IsObservation
  <2>2. rect.y \in Int /\ rect.height \in Nat /\ rect.height > 0 /\ viewport.height \in Nat /\ Bottom(rect) = rect.y + rect.height
    BY <2>1 DEF IsMeasured, IsRect, IsObservation, Bottom
  <2>3. Rows(rect) = rect.y .. Bottom(rect) - 1
    BY DEF Rows
  <2> HIDE DEF rect, viewport
  <2>4. below <=> rect.y >= viewport.height
    <3>1. rect.y \in Rows(rect) /\ \A i \in Rows(rect) : i >= rect.y /\ i \in Int
      BY <2>2, <2>3
    <3> QED BY <2>2, <3>1
  <2> QED BY <2>2, <2>4 DEF VerticalRelation
<1>6. StateStatus(p, o) = JudgedIf(InitialRelation(o, t) # Unavailable, InitialRelation(o, t) = "below")
  BY DEF StateStatus
<1>7. (Measured(p, o) <=> seen) /\ (Holds(p, o) <=> below)
  BY DEF Measured, Holds
<1> HIDE DEF seen, below, rect, viewport
<1> QED BY <1>1, <1>4, <1>5, <1>6, <1>7 DEF JudgedIf, PassIf

(* evaluateStatePrimitive: whatever the graph and the fallbacks it goes    *)
(* through, a clause about one observation is judged as its pixels say.    *)
LEMMA StateByGeometry ==
    ASSUME NEW o, IsObservation(o), NEW p, IsPrimitive(p), HasNumbers(p), IsStatePrimitive(p)
    PROVE  StateStatus(p, o) = JudgedIf(Measured(p, o), Holds(p, o))
<1>1. CASE p.kind = "target-visible"
  BY <1>1 DEF StateStatus, Measured, Holds
<1>2. CASE p.kind = "target-not-clipped"
  <2>1. StateStatus(p, o) = JudgedIf(Matched(o, p.a), ClippedAxes(o.of[p.a]) \cap p.axes = {})
    BY <1>2 DEF StateStatus
  <2>2. /\ Measured(p, o) <=> Matched(o, p.a)
        /\ Holds(p, o) <=> \A axis \in p.axes : ~ (axis \in o.of[p.a].overflow /\ axis \in o.of[p.a].clips)
    BY <1>2 DEF Measured, Holds
  <2>3. ClippedAxes(o.of[p.a]) \cap p.axes = {} <=> Holds(p, o)
    BY <2>2 DEF ClippedAxes
  <2> QED BY <2>1, <2>2, <2>3 DEF JudgedIf, PassIf
<1>3. CASE p.kind = "target-width-within-bound"
  <2>1. StateStatus(p, o) = JudgedIf(Matched(o, p.a), Rect(o, p.a).width \in p.min .. p.max)
    BY <1>3 DEF StateStatus
  <2>2. /\ Measured(p, o) <=> Matched(o, p.a)
        /\ Holds(p, o) <=> p.min <= Rect(o, p.a).width /\ Rect(o, p.a).width <= p.max
    BY <1>3 DEF Measured, Holds
  <2>3. Matched(o, p.a) => Rect(o, p.a).width \in Nat
    BY ShownIsMeasured DEF IsRect
  <2>4. p.min \in Int /\ p.max \in Int
    BY <1>3 DEF HasNumbers
  <2>5. Matched(o, p.a) => (Rect(o, p.a).width \in p.min .. p.max <=> Holds(p, o))
    BY <2>2, <2>3, <2>4
  <2> QED BY <2>1, <2>2, <2>5 DEF JudgedIf, PassIf
<1>4. CASE p.kind = "document-width-fits-viewport"
  <2>1. StateStatus(p, o) = JudgedIf(PageRelationship(o) # Unavailable,
                                     PageRelationship(o) = "document-width-fits-viewport")
    BY <1>4 DEF StateStatus
  <2>2. /\ Measured(p, o) <=> o.page # Unavailable
        /\ Holds(p, o) <=> o.page.width <= o.page.viewport + GeometryTolerance
    BY <1>4 DEF Measured, Holds
  <2>3. Unavailable \notin {"document-width-fits-viewport", "document-width-exceeds-viewport"}
    BY UnavailableIsNoKind DEF Families
  <2> QED BY <2>1, <2>2, <2>3 DEF JudgedIf, PassIf, PageRelationship
<1>5. CASE p.kind \in PairKinds
  BY <1>5, PairByGeometry
<1>6. CASE p.kind \in {"scroll-owner-is-document", "target-does-not-own-scroll"}
  BY <1>6, ScrollByMeasurement
<1>7. CASE p.kind = "target-begins-below-initial-viewport"
  BY <1>7, BeginsByMeasurement
<1> QED BY <1>1, <1>2, <1>3, <1>4, <1>5, <1>6, <1>7 DEF IsStatePrimitive, StateKinds, PairKinds

(* What the two observations of an evaluation are.                         *)
LEMMA EvaluatedObservations ==
    ASSUME ProgressInvariant, Evaluated \/ Accepted
    PROVE  /\ IsObservation(before) /\ IsObservation(after)
           /\ acceptance \in Acceptances /\ acceptance.contract # NotConfigured
           /\ comparison = Compare(before, after) /\ comparison.comparable
           /\ evaluation = Evaluate(acceptance.contract, before, after, comparison)
<1>1. before \in Baselines /\ after \in Candidates /\ Judged /\ acceptance \in Acceptances
      /\ acceptance.contract # NotConfigured
  BY DEF ProgressInvariant, Evaluated, Accepted, Done
<1> QED BY <1>1, ObservationsAreWellFormed DEF Judged

(* What the results of an evaluation are: each is of a clause in force,    *)
(* and where it is no conflict has the status of that clause, in the mode  *)
(* it is evaluated in.                                                     *)
LEMMA ResultsJudged ==
    ASSUME ProgressInvariant, Evaluated \/ Accepted, NEW r \in evaluation.results
    PROVE  LET p == r.clause.primitive
               mode == IF r.source = "baseline" THEN "preserved" ELSE r.clause.mode
           IN /\ IsPrimitive(p) /\ HasNumbers(p)
              /\ Preserves(r) <=> mode = "preserved"
              /\ r.status # "conflict" => r.status = ClauseStatus(p, mode, before, after, Compare(before, after))
<1> DEFINE k == acceptance.contract
           p == r.clause.primitive
<1>1. /\ acceptance \in Acceptances /\ k # NotConfigured
      /\ comparison = Compare(before, after) /\ comparison.comparable
      /\ r \in ClauseResults(k, before, after, comparison)
  BY EvaluatedObservations DEF Evaluate
<1>2. CASE /\ r.source = "baseline" /\ r.clause \in ActiveBaseline(k)
           /\ r.status = BaselineStatus(k, r.clause, before, after, comparison)
  <2>1. r.clause \in k.baseline
    BY <1>2 DEF ActiveBaseline
  <2>2. IsPrimitive(p) /\ HasNumbers(p)
    BY <1>1, <2>1, AcceptancesAreWellFormed
  <2>3. r.status # "conflict" => r.status = ClauseStatus(p, "preserved", before, after, comparison)
    BY <1>2 DEF BaselineStatus
  <2> QED BY <1>1, <1>2, <2>2, <2>3 DEF Preserves
<1>3. CASE /\ r.source = "change" /\ r.clause \in k.change
           /\ r.status = ChangeStatus(k, r.clause, before, after, comparison)
  <2>1. IsPrimitive(p) /\ HasNumbers(p)
    BY <1>1, <1>3, AcceptancesAreWellFormed
  <2>2. r.status # "conflict" => r.status = ClauseStatus(p, r.clause.mode, before, after, comparison)
    BY <1>3 DEF ChangeStatus
  <2> QED BY <1>1, <1>3, <2>1, <2>2 DEF Preserves
<1> QED BY <1>1, <1>2, <1>3, ResultsOfClauses

(* A clause about one observation is judged as the pixels say.             *)
THEOREM AlwaysByGeometry == Spec => []JudgedByGeometry
<1>1. ProgressInvariant => JudgedByGeometry
  <2> SUFFICES ASSUME ProgressInvariant, Evaluated, NEW r \in evaluation.results,
                      IsStatePrimitive(r.clause.primitive), r.status # "conflict"
               PROVE  r.status = Judgement(r)      \* what the code does, of what the property allows
    BY DEF JudgedByGeometry
  <2> DEFINE p == r.clause.primitive
             mode == IF r.source = "baseline" THEN "preserved" ELSE r.clause.mode
  <2>1. /\ IsPrimitive(p) /\ HasNumbers(p) /\ (Preserves(r) <=> mode = "preserved")
        /\ r.status = ClauseStatus(p, mode, before, after, Compare(before, after))
    BY ResultsJudged
  <2>2. /\ StateStatus(p, before) = JudgedIf(Measured(p, before), Holds(p, before))
        /\ StateStatus(p, after) = JudgedIf(Measured(p, after), Holds(p, after))
    BY <2>1, StateByGeometry, EvaluatedObservations
  <2>3. r.status = IF mode = "preserved" /\ StateStatus(p, before) = "fail"
                   THEN "unavailable" ELSE StateStatus(p, after)
    <3>1. IsStatePrimitive(p)
      OBVIOUS
    <3> HIDE DEF p, mode
    <3>2. PrimitiveStatus(p, mode, before, after, Compare(before, after)) = StateStatus(p, after)
      BY <3>1 DEF PrimitiveStatus, IsStatePrimitive, StateKinds
    <3> QED BY <2>1, <3>1, <3>2 DEF ClauseStatus
  <2>4. StateStatus(p, before) = "fail" <=> Measured(p, before) /\ ~ Holds(p, before)
    BY <2>2 DEF JudgedIf, PassIf
  <2> HIDE DEF p, mode
  <2>5. CASE Preserves(r) /\ Measured(p, before) /\ ~ Holds(p, before)
    <3>1. r.status = "unavailable"
      BY <2>1, <2>3, <2>4, <2>5
    <3> QED BY <2>5, <3>1 DEF Judgement, p
  <2>6. CASE ~ (Preserves(r) /\ Measured(p, before) /\ ~ Holds(p, before))
    <3>1. r.status = JudgedIf(Measured(p, after), Holds(p, after))
      BY <2>1, <2>2, <2>3, <2>4, <2>6
    <3> QED BY <2>6, <3>1 DEF Judgement, JudgedIf, p
  <2> QED BY <2>5, <2>6
<1> QED BY <1>1, AlwaysProgress, PTL

(* A relationship that passes as unchanged is shown now, and was before    *)
(* wherever the two were compared.                                         *)
LEMMA UnchangedMeans ==
    ASSUME NEW b, NEW a, Comparable(b, a), NamesDiffer(a),
           NEW p, IsPrimitive(p), p.kind = "relationship-unchanged",
           RelationshipStatus(p, a, Compare(b, a)) = "pass"
    PROVE  LET relationship == Relationship(p.relationship, p.a, p.b)
           IN /\ p.relationship \in Families["pageWidth"] =>
                    PageRelationship(b) = p.relationship /\ PageRelationship(a) = p.relationship
              /\ p.relationship \notin Families["pageWidth"] =>
                    /\ relationship \in PairwiseRelationships(a)
                    /\ Matched(b, p.a) /\ Matched(b, p.b) /\ Precedes(b, p.a, p.b)
                          => relationship \in PairwiseRelationships(b)
<1> DEFINE c == Compare(b, a)
           family == FamilyOf(p.relationship)
           Kind(o) == KindBetween(PairwiseRelationships(o), family, p.a, p.b)
<1>1. PICK f \in DOMAIN Families : p.relationship \in Families[f]
  BY DEF IsPrimitive
<1>2. family = f /\ p.relationship # Unavailable
  BY <1>1, OneFamily, UnavailableIsNoKind
<1>3. c.changes = RelationshipChanges(b, a)
  BY Reported
<1>4. ASSUME p.relationship \in Families["pageWidth"]
      PROVE  PageRelationship(b) = p.relationship /\ PageRelationship(a) = p.relationship
  <2>1. PageRelationship(a) = p.relationship /\ ~ \E x \in c.changes : x.subject = << >>
    BY <1>4 DEF RelationshipStatus
  <2>2. PageRelationship(b) = PageRelationship(a)
    <3> SUFFICES ASSUME PageRelationship(b) # PageRelationship(a) PROVE FALSE
      OBVIOUS
    <3> DEFINE x == [subject |-> << >>, before |-> PageRelationship(b), after |-> PageRelationship(a)]
    <3>1. x \in PageChanges(b, a) /\ x.subject = << >>
      BY DEF PageChanges
    <3> QED BY <1>3, <2>1, <3>1 DEF RelationshipChanges
  <2> QED BY <2>1, <2>2
<1>5. ASSUME p.relationship \notin Families["pageWidth"]
      PROVE  /\ Relationship(p.relationship, p.a, p.b) \in PairwiseRelationships(a)
             /\ Matched(b, p.a) /\ Matched(b, p.b) /\ Precedes(b, p.a, p.b)
                    => Relationship(p.relationship, p.a, p.b) \in PairwiseRelationships(b)
  <2>1. /\ Kind(a) = p.relationship
        /\ ~ \E x \in c.changes : x.subject = << p.a, p.b >> /\ ChangedKind(x) \in Families[family]
    BY <1>5 DEF RelationshipStatus, InFamily
  <2>2. \A o : Kind(o) = p.relationship => Relationship(p.relationship, p.a, p.b) \in PairwiseRelationships(o)
    BY <1>2 DEF KindBetween
  <2>3. ASSUME Matched(b, p.a), Matched(b, p.b), Precedes(b, p.a, p.b)
        PROVE  Kind(b) = p.relationship
    <3>0. /\ Counterpart(a, p.a) = p.a /\ p.a \in MatchedTargets(b, a)
          /\ Counterpart(a, p.b) = p.b /\ p.b \in MatchedTargets(b, a)
      <4>1. \A t \in {p.a, p.b} : t \in Eligible(a)
        BY <2>1, <2>2, RelatedAreEligible DEF Relationship
      <4>2. \A t \in {p.a, p.b} : t \in Configured(b) /\ Matched(b, t) /\ t \in Configured(a) /\ Matched(a, t)
        BY <2>3, <4>1 DEF Eligible, Matched, Presence
      <4>3. \A t \in {p.a, p.b} : Counterpart(a, t) = t /\ t \in CommonTargets(b, a)
        BY <4>2, PairedByName DEF SameName
      <4> QED BY <4>2, <4>3 DEF MatchedTargets
    <3> SUFFICES ASSUME Kind(b) # Kind(a) PROVE FALSE
      BY <2>1
    <3> DEFINE x == [subject |-> << p.a, p.b >>, before |-> Kind(b), after |-> Kind(a)]
    <3>1. f \in PairwiseFamilies
      BY <1>1, <1>5 DEF PairwiseFamilies
    <3>2. x \in PairwiseChanges(b, a)
      BY <1>2, <2>3, <3>0, <3>1 DEF PairwiseChanges
    <3>3. ChangedKind(x) \in Families[family]
      <4>1. \A o : Kind(o) = Unavailable \/ Kind(o) \in Families[family]
        BY DEF KindBetween
      <4>2. Kind(a) \in Families[family]
        BY <1>1, <1>2, <2>1
      <4> QED BY <4>1, <4>2 DEF ChangedKind
    <3>4. x \in c.changes /\ x.subject = << p.a, p.b >>
      BY <1>3, <3>2 DEF RelationshipChanges
    <3> QED BY <2>1, <3>3, <3>4
  <2> QED BY <2>1, <2>2, <2>3
<1> QED BY <1>4, <1>5

(* What a property that passes as unchanged, grown or shrunk is.           *)
LEMMA PropertyMeans ==
    ASSUME NEW b, NEW a, IsObservation(b), IsObservation(a), NEW p, IsPrimitive(p), HasNumbers(p),
           p.kind \in Directional, NEW mode, PropertyStatus(p, mode, b, a) = "pass"
    PROVE  LET was == Rect(b, p.a)[p.property]
               is == Rect(a, p.a)[p.property]
               least == IF mode # "permitted" THEN p.minimum + 1 ELSE 0
           IN /\ Matched(b, p.a) /\ Matched(a, p.a)
              /\ p.kind = "property-unchanged" =>
                    /\ p.tolerance.kind = "exact" => is = was
                    /\ p.tolerance.kind = "absolute-px" => is \in was - p.tolerance.amount .. was + p.tolerance.amount
                    /\ p.tolerance.kind = "percent" /\ was >= 0
                          => 100 * is \in (100 - p.tolerance.amount) * was .. (100 + p.tolerance.amount) * was
              /\ p.kind = "property-increases" => is >= was + least
              /\ p.kind = "property-decreases" => is <= was - least
<1> DEFINE was == Rect(b, p.a)[p.property]
           is == Rect(a, p.a)[p.property]
           amount == p.tolerance.amount
<1>1. Matched(b, p.a) /\ Matched(a, p.a)
  BY DEF PropertyStatus, JudgedIf
<1>2. was \in Int /\ is \in Int
  <2>1. IsRect(Rect(b, p.a)) /\ IsRect(Rect(a, p.a))
    BY <1>1, ShownIsMeasured
  <2>2. p.property \in {"x", "y", "width", "height"}
    BY DEF IsPrimitive, Properties
  <2> QED BY <2>1, <2>2 DEF IsRect
<1>3. IF p.kind = "property-unchanged" THEN WithinTolerance(p.tolerance, was, is) ELSE DirectionHolds(p, mode, was, is)
  BY <1>1 DEF PropertyStatus, JudgedIf, PassIf
<1> HIDE DEF was, is
<1>4. ASSUME p.kind = "property-unchanged"
      PROVE  /\ p.tolerance.kind = "exact" => is = was
             /\ p.tolerance.kind = "absolute-px" => is \in was - amount .. was + amount
             /\ p.tolerance.kind = "percent" /\ was >= 0 => 100 * is \in (100 - amount) * was .. (100 + amount) * was
  <2> DEFINE moved == IF is >= was THEN is - was ELSE was - is
             size == IF was >= 0 THEN was ELSE - was
  <2>1. p.tolerance.kind # "exact" => amount \in Int
    BY <1>4 DEF HasNumbers
  <2>2. /\ p.tolerance.kind = "exact" => moved = 0
        /\ p.tolerance.kind = "absolute-px" => moved <= amount
        /\ p.tolerance.kind = "percent" => 100 * moved <= amount * size
    BY <1>3, <1>4 DEF WithinTolerance
  <2>3. p.tolerance.kind = "exact" => is = was
    BY <1>2, <2>2
  <2>4. p.tolerance.kind = "absolute-px" => is \in was - amount .. was + amount
    BY <1>2, <2>1, <2>2
  <2>5. p.tolerance.kind = "percent" /\ was >= 0 => 100 * is \in (100 - amount) * was .. (100 + amount) * was
    <3> SUFFICES ASSUME p.tolerance.kind = "percent", was >= 0
                 PROVE  100 * is \in (100 - amount) * was .. (100 + amount) * was
      OBVIOUS
    <3>1. amount \in Int /\ 100 * moved <= amount * was
      BY <2>1, <2>2
    <3>2. 100 * is - 100 * was <= amount * was /\ 100 * was - 100 * is <= amount * was
      BY <1>2, <3>1
    <3>3. (100 - amount) * was = 100 * was - amount * was /\ (100 + amount) * was = 100 * was + amount * was
      BY <1>2, <3>1
    <3>4. amount * was \in Int
      BY <1>2, <3>1
    <3> QED BY <1>2, <3>2, <3>3, <3>4
  <2> QED BY <2>3, <2>4, <2>5
<1>5. ASSUME p.kind # "property-unchanged"
      PROVE  LET least == IF mode # "permitted" THEN p.minimum + 1 ELSE 0
             IN /\ p.kind = "property-increases" => is >= was + least
                /\ p.kind = "property-decreases" => is <= was - least
  <2>1. p.minimum \in Nat /\ p.kind \in {"property-increases", "property-decreases"}
    BY <1>5 DEF HasNumbers, Directional
  <2>2. Advance(p, was, is) = IF p.kind = "property-increases" THEN is - was ELSE was - is
    BY DEF Advance
  <2> QED BY <1>2, <1>3, <1>5, <2>1, <2>2 DEF DirectionHolds
<1> QED BY <1>1, <1>4, <1>5 DEF was, is

(* A clause that passes holds of the two observations what it demands.     *)
LEMMA PassingClause ==
    ASSUME ProgressInvariant, Accepted, NEW r \in evaluation.results
    PROVE  Demanded(r)
<1> DEFINE p == r.clause.primitive
           mode == IF r.source = "baseline" THEN "preserved" ELSE r.clause.mode
<1>1. /\ IsObservation(before) /\ IsObservation(after) /\ Comparable(before, after) /\ NamesDiffer(after)
      /\ evaluation.verdict = "PASS" /\ r.status = "pass"
  <2>1. /\ contract = "PASS" /\ contract = ContractState(evaluation)
    BY DEF ProgressInvariant, Accepted, Done, Judged
  <2>2. evaluation.verdict = "PASS"
    BY <2>1 DEF ContractState
  <2>3. acceptance \in Acceptances /\ acceptance.contract # NotConfigured /\ comparison.comparable
        /\ evaluation = Evaluate(acceptance.contract, before, after, comparison)
    BY EvaluatedObservations
  <2>4. r.status = "pass"
    BY <2>2, <2>3 DEF Evaluate
  <2>5. Comparable(before, after)
    BY EvaluatedObservations DEF Compare
  <2>6. NamesDiffer(after)
    BY NamesAreToldApart DEF ProgressInvariant
  <2> QED BY <2>2, <2>4, <2>5, <2>6, EvaluatedObservations
<1>2. /\ IsPrimitive(p) /\ HasNumbers(p) /\ (Preserves(r) <=> mode = "preserved")
      /\ ClauseStatus(p, mode, before, after, Compare(before, after)) = "pass"
  BY <1>1, ResultsJudged
<1>3. mode # "preserved" => mode = r.clause.mode
  OBVIOUS
<1> HIDE DEF mode
<1>4. PrimitiveStatus(p, mode, before, after, Compare(before, after)) = "pass"
  BY <1>2 DEF ClauseStatus
<1>5. CASE IsStatePrimitive(p)
  <2>1. PrimitiveStatus(p, mode, before, after, Compare(before, after)) = StateStatus(p, after)
    BY <1>5 DEF PrimitiveStatus, IsStatePrimitive, StateKinds
  <2>2. StateStatus(p, after) = JudgedIf(Measured(p, after), Holds(p, after))
    BY <1>1, <1>2, <1>5, StateByGeometry
  <2>3. Measured(p, after) /\ Holds(p, after)
    BY <1>4, <2>1, <2>2 DEF JudgedIf, PassIf
  <2>6. Preserves(r) /\ Measured(p, before) => Holds(p, before)
    <3>1. StateStatus(p, before) = JudgedIf(Measured(p, before), Holds(p, before))
      BY <1>1, <1>2, <1>5, StateByGeometry
    <3>2. Preserves(r) => StateStatus(p, before) # "fail"
      BY <1>2, <1>5 DEF ClauseStatus
    <3> QED BY <3>1, <3>2 DEF JudgedIf, PassIf
  <2>4. p.kind \notin ChangeKinds
    BY <1>5 DEF IsStatePrimitive, StateKinds, ChangeKinds, Directional
  <2>5. p.kind # "relationship-unchanged" /\ p.kind # "property-unchanged"
        /\ p.kind \notin {"property-increases", "property-decreases"}
    BY <2>4 DEF ChangeKinds, Directional
  <2> HIDE DEF p
  <2> QED BY <1>5, <2>3, <2>5, <2>6 DEF Demanded, p
<1>6. CASE p.kind = "relationship-unchanged"
  <2>1. ~ IsStatePrimitive(p)
    BY <1>6 DEF IsStatePrimitive, StateKinds
  <2>2. RelationshipStatus(p, after, Compare(before, after)) = "pass"
    BY <1>4, <1>6, <2>1 DEF PrimitiveStatus
  <2>3. LET relationship == Relationship(p.relationship, p.a, p.b)
        IN /\ p.relationship \in Families["pageWidth"] =>
                 PageRelationship(before) = p.relationship /\ PageRelationship(after) = p.relationship
           /\ p.relationship \notin Families["pageWidth"] =>
                 /\ relationship \in PairwiseRelationships(after)
                 /\ Matched(before, p.a) /\ Matched(before, p.b) /\ Precedes(before, p.a, p.b)
                       => relationship \in PairwiseRelationships(before)
    BY <1>1, <1>2, <1>6, <2>2, UnchangedMeans
  <2>4. p.kind \notin {"property-increases", "property-decreases", "property-unchanged"}
    BY <1>6
  <2> HIDE DEF p
  <2> QED BY <1>6, <2>1, <2>3, <2>4 DEF Demanded, p
<1>7. CASE p.kind \in Directional
  <2>1. ~ IsStatePrimitive(p) /\ p.kind # "relationship-unchanged"
    BY <1>7 DEF IsStatePrimitive, StateKinds, Directional
  <2>2. PropertyStatus(p, mode, before, after) = "pass"
    BY <1>4, <2>1 DEF PrimitiveStatus
  <2>3. LET was == Rect(before, p.a)[p.property]
            is == Rect(after, p.a)[p.property]
            least == IF mode # "permitted" THEN p.minimum + 1 ELSE 0
        IN /\ Matched(before, p.a) /\ Matched(after, p.a)
           /\ p.kind = "property-unchanged" =>
                 /\ p.tolerance.kind = "exact" => is = was
                 /\ p.tolerance.kind = "absolute-px" => is \in was - p.tolerance.amount .. was + p.tolerance.amount
                 /\ p.tolerance.kind = "percent" /\ was >= 0
                       => 100 * is \in (100 - p.tolerance.amount) * was .. (100 + p.tolerance.amount) * was
           /\ p.kind = "property-increases" => is >= was + least
           /\ p.kind = "property-decreases" => is <= was - least
    BY <1>1, <1>2, <1>7, <2>2, PropertyMeans
  <2>4. mode # "permitted" <=> Preserves(r) \/ r.clause.mode # "permitted"
    BY <1>2, <1>3
  <2>5. p.kind \in {"property-unchanged", "property-increases", "property-decreases"}
    BY <1>7 DEF Directional
  <2> DEFINE was == Rect(before, p.a)[p.property]
             is == Rect(after, p.a)[p.property]
  <2>6. CASE p.kind = "property-unchanged"
    <3>1. /\ Matched(before, p.a) /\ Matched(after, p.a)
          /\ p.tolerance.kind = "exact" => is = was
          /\ p.tolerance.kind = "absolute-px" => is \in was - p.tolerance.amount .. was + p.tolerance.amount
          /\ p.tolerance.kind = "percent" /\ was >= 0
                => 100 * is \in (100 - p.tolerance.amount) * was .. (100 + p.tolerance.amount) * was
      BY <2>3, <2>6
    <3> QED BY <2>1, <2>6, <3>1 DEF Demanded
  <2>7. CASE p.kind \in {"property-increases", "property-decreases"}
    <3> DEFINE least == IF Preserves(r) \/ r.clause.mode # "permitted" THEN p.minimum + 1 ELSE 0
    <3>1. least = IF mode # "permitted" THEN p.minimum + 1 ELSE 0
      BY <2>4
    <3>2. /\ Matched(before, p.a) /\ Matched(after, p.a)
          /\ p.kind = "property-increases" => is >= was + least
          /\ p.kind = "property-decreases" => is <= was - least
      BY <2>3, <3>1
    <3> QED BY <2>1, <2>7, <3>2 DEF Demanded
  <2> QED BY <2>5, <2>6, <2>7
<1> QED BY <1>2, <1>5, <1>6, <1>7 DEF IsPrimitive, ChangeKinds, IsStatePrimitive

(* A check that ends PASS on a contract judged every clause in force, and  *)
(* the observations are as each of them demands.                           *)
THEOREM AlwaysHeld == ASSUME NothingIsNoResult PROVE Spec => []PassMeansHeld
<1>1. ProgressInvariant => PassMeansHeld
  <2> SUFFICES ASSUME ProgressInvariant, Accepted
               PROVE  /\ evaluation # None
                      /\ {r.clause : r \in evaluation.results} = ActiveBaseline(Authored) \cup Authored.change
                      /\ \A r \in evaluation.results : Demanded(r)
    BY DEF PassMeansHeld
  <2>1. evaluation = Evaluate(Authored, before, after, comparison) /\ comparison.comparable
    BY EvaluatedObservations DEF Authored
  <2>2. evaluation # None
    BY <2>1 DEF NothingIsNoResult
  <2> DEFINE results == ClauseResults(Authored, before, after, comparison)
  <2>3. evaluation.results = results
    BY <2>1 DEF Evaluate
  <2>4. \A r \in results : r.clause \in ActiveBaseline(Authored) \cup Authored.change
    BY <2>1, ResultsOfClauses
  <2>5. \A x \in ActiveBaseline(Authored) \cup Authored.change : \E r \in results : r.clause = x
    BY <2>1, ResultsOfClauses
  <2>6. {r.clause : r \in results} = ActiveBaseline(Authored) \cup Authored.change
    <3> HIDE DEF results
    <3> QED BY <2>4, <2>5
  <2> QED BY <2>2, <2>3, <2>6, PassingClause
<1> QED BY <1>1, AlwaysProgress, PTL

-----------------------------------------------------------------------------
(* A comparison the other way                                              *)

Mirrored(kind) ==
    CASE kind = "appeared" -> "disappeared"
      [] kind = "disappeared" -> "appeared"
      [] OTHER -> kind

FamilyTold(d) == IF d.relationship = Unavailable THEN "none" ELSE FamilyOf(d.relationship)

MirrorOf(d, e) ==
    e.kind = Mirrored(d.kind) /\ e.subject = d.subject /\ FamilyTold(e) = FamilyTold(d)

(* The kind a change is filed under, whichever way it is read, is of the   *)
(* family of the change.                                                   *)
LEMMA ChangeOfFamily ==
    ASSUME NEW f \in DOMAIN Families, NEW b \in Families[f] \cup {Unavailable}, NEW a \in Families[f] \cup {Unavailable},
           b # a, NEW subject
    PROVE  LET d == RelationshipDifference([subject |-> subject, before |-> b, after |-> a])
           IN /\ d.subject = subject /\ d.relationship # Unavailable /\ FamilyTold(d) = f
              /\ d.kind = IF f \in {"horizontal", "vertical", "area"} THEN "relative-position-changed"
                          ELSE "relationship-changed"
<1> DEFINE change == [subject |-> subject, before |-> b, after |-> a]
           kind == ChangedKind(change)
           d == RelationshipDifference(change)
<1>1. kind \in Families[f]
  BY DEF ChangedKind
<1>2. kind # Unavailable /\ FamilyOf(kind) = f
  BY <1>1, OneFamily, UnavailableIsNoKind
<1>3. d.subject = subject /\ d.relationship = kind
      /\ d.kind = IF kind \in RelativePosition THEN "relative-position-changed" ELSE "relationship-changed"
  BY DEF RelationshipDifference, Difference
<1>4. kind \in RelativePosition <=> f \in {"horizontal", "vertical", "area"}
  <2>1. {"horizontal", "vertical", "area"} \subseteq DOMAIN Families
    BY DEF Families
  <2> QED BY <1>1, <2>1, OneFamily DEF RelativePosition
<1> HIDE DEF kind, d
<1>5. FamilyTold(d) = f
  BY <1>2, <1>3 DEF FamilyTold
<1> QED BY <1>2, <1>3, <1>4, <1>5 DEF d

(* Every difference has its mirror image in the comparison the other way.  *)
LEMMA MirrorImage ==
    ASSUME NEW b, NEW a, b.targets = a.targets, NamesDiffer(a), NamesDiffer(b), Comparable(b, a), Comparable(a, b),
           NEW d \in Compare(b, a).differences
    PROVE  \E e \in Compare(a, b).differences : MirrorOf(d, e)
<1> DEFINE Plain(kind, subject) == Difference(kind, subject, Unavailable)
<1>1. \A kind, subject : /\ Plain(kind, subject).kind = kind /\ Plain(kind, subject).subject = subject
                         /\ FamilyTold(Plain(kind, subject)) = "none"
  BY DEF Difference, FamilyTold
<1>2. /\ Configured(a) = Configured(b) /\ CommonTargets(a, b) = CommonTargets(b, a)
      /\ MatchedTargets(a, b) = MatchedTargets(b, a)
      /\ \A s, r : Precedes(a, s, r) <=> Precedes(b, s, r)
      /\ \A t \in CommonTargets(a, b) : Counterpart(a, t) = t /\ Counterpart(b, t) = t
  <2>1. /\ Configured(a) = Configured(b)
        /\ \A s, r : Precedes(a, s, r) <=> Precedes(b, s, r)
    BY DEF Configured, Precedes
  <2>2. CommonTargets(a, b) = CommonTargets(b, a)
    BY <2>1 DEF CommonTargets
  <2>3. \A t \in CommonTargets(a, b) : Counterpart(a, t) = t /\ Counterpart(b, t) = t
    <3>1. \A t \in CommonTargets(a, b) : t \in Configured(a) /\ t \in Configured(b) /\ SameName(t, t)
      BY <2>1 DEF CommonTargets, SameName
    <3> QED BY <3>1, PairedByName
  <2>4. MatchedTargets(a, b) = MatchedTargets(b, a)
    BY <2>2, <2>3 DEF MatchedTargets
  <2> QED BY <2>1, <2>2, <2>3, <2>4
<1>3. /\ \A t \in CommonTargets(a, b) : TargetDifferences(a, b, t) \subseteq Compare(a, b).differences
      /\ ContainmentDifferences(a, b) \subseteq Compare(a, b).differences
      /\ \A change \in RelationshipChanges(a, b) : RelationshipDifference(change) \in Compare(a, b).differences
  BY Reported
<1>4. /\ PageDifferences(a, b) \subseteq Compare(a, b).differences
      /\ ScrollDifferences(a, b) \subseteq Compare(a, b).differences
  BY DEF Compare
<1>5. CASE \E t \in CommonTargets(b, a) : d \in TargetDifferences(b, a, t)
  <2>1. PICK t \in CommonTargets(b, a) : d \in TargetDifferences(b, a, t)
    BY <1>5
  <2> DEFINE was == b.of[t]
             is == a.of[t]
             Changed(kind, x, y) ==
                 \/ kind = "appeared" /\ x.selection = "not-found" /\ y.selection = "matched"
                 \/ kind = "disappeared" /\ x.selection = "matched" /\ y.selection = "not-found"
                 \/ x.selection = "matched" /\ y.selection = "matched" /\ RenderedChange(kind, x, y)
  <2>2. PICK kind \in TargetKinds : d = Plain(kind, << t >>) /\ Changed(kind, was, is)
    BY <1>2, <2>1 DEF TargetDifferences
  <2>3. \A x, y : RenderedChange(kind, x, y) => RenderedChange(kind, y, x) /\ kind \notin {"appeared", "disappeared"}
    BY DEF RenderedChange, Apart, OverflowChanged
  <2>4. Changed(Mirrored(kind), is, was)
    BY <2>2, <2>3 DEF Mirrored
  <2>5. Mirrored(kind) \in TargetKinds
    BY DEF Mirrored, TargetKinds
  <2>6. Plain(Mirrored(kind), << t >>) \in TargetDifferences(a, b, t)
    BY <1>2, <2>1, <2>4, <2>5 DEF TargetDifferences
  <2>7. Plain(Mirrored(kind), << t >>) \in Compare(a, b).differences
    BY <1>2, <1>3, <2>1, <2>6
  <2> HIDE DEF Plain
  <2> QED BY <1>1, <2>2, <2>7 DEF MirrorOf
<1>6. CASE d \in ContainmentDifferences(b, a)
  <2>1. PICK t : /\ t \in MatchedTargets(b, a) /\ d = Plain("containment-changed", << t >>)
                 /\ \E other \in MatchedTargets(b, a) \ {t} : (other \in b.of[t].inside) # (other \in a.of[t].inside)
    <3>1. \A x \in MatchedTargets(b, a) : Counterpart(a, x) = x
      BY <1>2 DEF MatchedTargets
    <3> QED BY <1>6, <3>1 DEF ContainmentDifferences
  <2>2. Plain("containment-changed", << t >>) \in ContainmentDifferences(a, b)
    <3>1. \A x \in MatchedTargets(a, b) : Counterpart(b, x) = x
      BY <1>2 DEF MatchedTargets
    <3> QED BY <1>2, <2>1, <3>1 DEF ContainmentDifferences
  <2> HIDE DEF Plain
  <2> QED BY <1>1, <1>3, <2>1, <2>2 DEF MirrorOf, Mirrored
<1>7. CASE d \in PageDifferences(b, a)
  <2>1. d = Plain("page-size-changed", << >>) /\ d \in PageDifferences(a, b)
    BY <1>7 DEF PageDifferences, Apart
  <2> HIDE DEF Plain
  <2> QED BY <1>1, <1>4, <2>1 DEF MirrorOf, Mirrored
<1>8. CASE d \in ScrollDifferences(b, a)
  <2>1. d = Plain("scroll-owner-changed", << >>) /\ d \in ScrollDifferences(a, b)
    BY <1>8 DEF ScrollDifferences
  <2> HIDE DEF Plain
  <2> QED BY <1>1, <1>4, <2>1 DEF MirrorOf, Mirrored
<1>9. ASSUME NEW f \in DOMAIN Families, NEW x \in Families[f] \cup {Unavailable}, NEW y \in Families[f] \cup {Unavailable},
             x # y, NEW subject, d = RelationshipDifference([subject |-> subject, before |-> x, after |-> y]),
             [subject |-> subject, before |-> y, after |-> x] \in RelationshipChanges(a, b)
      PROVE  \E e \in Compare(a, b).differences : MirrorOf(d, e)
  <2> DEFINE e == RelationshipDifference([subject |-> subject, before |-> y, after |-> x])
  <2>1. e \in Compare(a, b).differences
    BY <1>3, <1>9
  <2>2. /\ d.subject = subject /\ FamilyTold(d) = f /\ e.subject = subject /\ FamilyTold(e) = f
        /\ d.kind = e.kind /\ d.kind \in {"relative-position-changed", "relationship-changed"}
    BY <1>9, ChangeOfFamily
  <2> HIDE DEF e
  <2> QED BY <2>1, <2>2 DEF MirrorOf, Mirrored
<1>10. CASE \E change \in PairwiseChanges(b, a) : d = RelationshipDifference(change)
  <2> DEFINE Kind(o, f, s, r) == KindBetween(PairwiseRelationships(o), f, s, r)
  <2>1. PICK f \in PairwiseFamilies, s \in MatchedTargets(b, a), r \in MatchedTargets(b, a) :
           /\ d = RelationshipDifference([subject |-> << s, r >>, before |-> Kind(b, f, s, r), after |-> Kind(a, f, s, r)])
           /\ Precedes(b, s, r) /\ Kind(b, f, s, r) # Kind(a, f, s, r)
    <3>1. \A x \in MatchedTargets(b, a) : Counterpart(a, x) = x
      BY <1>2 DEF MatchedTargets
    <3> QED BY <1>10, <3>1 DEF PairwiseChanges
  <2>2. \A o : Kind(o, f, s, r) \in Families[f] \cup {Unavailable}
    BY DEF KindBetween
  <2>3. f \in DOMAIN Families
    BY DEF PairwiseFamilies
  <2>4. [subject |-> << s, r >>, before |-> Kind(a, f, s, r), after |-> Kind(b, f, s, r)] \in PairwiseChanges(a, b)
    <3>1. \A x \in MatchedTargets(a, b) : Counterpart(b, x) = x
      BY <1>2 DEF MatchedTargets
    <3> QED BY <1>2, <2>1, <3>1 DEF PairwiseChanges
  <2> HIDE DEF Kind
  <2> QED BY <1>9, <2>1, <2>2, <2>3, <2>4 DEF RelationshipChanges
<1>11. CASE \E change \in PageChanges(b, a) : d = RelationshipDifference(change)
  <2>1. /\ PageRelationship(b) # PageRelationship(a)
        /\ d = RelationshipDifference([subject |-> << >>, before |-> PageRelationship(b), after |-> PageRelationship(a)])
    BY <1>11 DEF PageChanges
  <2>2. \A o : PageRelationship(o) \in Families["pageWidth"] \cup {Unavailable}
    BY DEF PageRelationship, Families
  <2>3. "pageWidth" \in DOMAIN Families
    BY DEF Families
  <2>4. [subject |-> << >>, before |-> PageRelationship(a), after |-> PageRelationship(b)] \in PageChanges(a, b)
    BY <2>1 DEF PageChanges
  <2> QED BY <1>9, <2>1, <2>2, <2>3, <2>4 DEF RelationshipChanges
<1> QED BY <1>5, <1>6, <1>7, <1>8, <1>10, <1>11 DEF Compare, RelationshipChanges

(* Called the other way, a comparison reports the same differences.        *)
THEOREM AlwaysMirrored == Spec => []MirroredComparison
<1>1. ProgressInvariant => MirroredComparison
  <2> SUFFICES ASSUME ProgressInvariant, step = "contract", before.targets = after.targets
               PROVE  {<< d.kind, d.subject, FamilyTold(d) >> : d \in comparison.differences}
                          = {<< Mirrored(d.kind), d.subject, FamilyTold(d) >> : d \in Compare(after, before).differences}
    BY DEF MirroredComparison, FamilyTold, Mirrored
  <2>1. comparison = Compare(before, after) /\ Comparable(before, after)
    BY DEF ProgressInvariant, Compare
  <2>2. Comparable(after, before) /\ NamesDiffer(before) /\ NamesDiffer(after)
    <3>1. before \in Baselines /\ after \in Candidates
      BY DEF ProgressInvariant
    <3> QED BY <2>1, <3>1, NamesAreToldApart DEF Comparable, Mismatched
  <2> DEFINE D == Compare(before, after).differences
             E == Compare(after, before).differences
  <2>3. \A d \in D : \E e \in E : MirrorOf(d, e)
    BY <2>1, <2>2, MirrorImage
  <2>4. \A e \in E : \E d \in D : MirrorOf(e, d)
    BY <2>1, <2>2, MirrorImage
  <2>5. \A k1, k2 : k1 = Mirrored(k2) <=> k2 = Mirrored(k1)
    BY DEF Mirrored
  <2> HIDE DEF D, E
  <2>6. \A d \in D : \E e \in E : d.kind = Mirrored(e.kind) /\ d.subject = e.subject /\ FamilyTold(d) = FamilyTold(e)
    BY <2>3, <2>5 DEF MirrorOf
  <2>7. \A e \in E : \E d \in D : d.kind = Mirrored(e.kind) /\ d.subject = e.subject /\ FamilyTold(d) = FamilyTold(e)
    BY <2>4, <2>5 DEF MirrorOf
  <2>8. {<< d.kind, d.subject, FamilyTold(d) >> : d \in D} = {<< Mirrored(e.kind), e.subject, FamilyTold(e) >> : e \in E}
    BY <2>6, <2>7
  <2> QED BY <2>1, <2>8 DEF D, E
<1> QED BY <1>1, AlwaysProgress, PTL

-----------------------------------------------------------------------------
(* A requirement of the reference, by pixels and as the code computes it   *)

(* How many pixels lie between two stretches, told from their ends.        *)
LEMMA StretchGap ==
    ASSUME NEW i \in Int, NEW j \in Int, NEW k \in Int, NEW l \in Int, i < j, k < l
    PROVE  /\ GapBetween(i .. j - 1, k .. l - 1) = Gap(i, j, k, l)
           /\ Gap(i, j, k, l) # Unavailable => Gap(i, j, k, l) \in Nat
<1> DEFINE S == i .. j - 1
           T == k .. l - 1
<1>1. S \cap T # {} <=> ~ (j <= k) /\ ~ (l <= i)
  <2>1. ASSUME ~ (j <= k), ~ (l <= i) PROVE S \cap T # {}
    <3>1. CASE i <= k
      <4>1. k \in S \cap T
        BY <2>1, <3>1
      <4> QED BY <4>1
    <3>2. CASE ~ (i <= k)
      <4>1. i \in S \cap T
        BY <2>1, <3>2
      <4> QED BY <4>1
    <3> QED BY <3>1, <3>2
  <2>2. ASSUME NEW p \in S \cap T PROVE ~ (j <= k) /\ ~ (l <= i)
    OBVIOUS
  <2> QED BY <2>1, <2>2
<1>2. ASSUME NEW p \in Int, NEW q \in Int, p <= q
      PROVE  2 * Cardinality(p .. q - 1) = 2 * (q - p)
  <2>1. q - 1 \in Int
    OBVIOUS
  <2>2. Cardinality(p .. q - 1) = IF p > q - 1 THEN 0 ELSE q - 1 - p + 1
    BY <2>1, FS_Interval, Zenon
  <2> QED BY <1>2, <2>2
<1>3. ASSUME NEW low \in S \cup T, NEW high \in S \cup T, \A n \in S \cup T : low <= n /\ n <= high
      PROVE  Between(S, T) = {n \in low .. high : \/ (\A m \in S : m < n) /\ (\A m \in T : n < m)
                                                  \/ (\A m \in T : m < n) /\ (\A m \in S : n < m)}
  <2>1. \A n \in S \cup T : n \in Int
    OBVIOUS
  <2> HIDE DEF S, T
  <2>2. Least(S \cup T) = low
    BY <1>3, <2>1 DEF Least
  <2>3. Greatest(S \cup T) = high
    BY <1>3, <2>1 DEF Greatest
  <2> QED BY <2>2, <2>3 DEF Between
<1>4. /\ \A n \in Int : (\A m \in S : m < n) <=> j <= n
      /\ \A n \in Int : (\A m \in T : m < n) <=> l <= n
      /\ \A n \in Int : (\A m \in S : n < m) <=> n < i
      /\ \A n \in Int : (\A m \in T : n < m) <=> n < k
  <2>1. i \in S /\ j - 1 \in S /\ k \in T /\ l - 1 \in T
    OBVIOUS
  <2>2. \A m \in S : m \in Int /\ i <= m /\ m <= j - 1
    OBVIOUS
  <2>3. \A m \in T : m \in Int /\ k <= m /\ m <= l - 1
    OBVIOUS
  <2> HIDE DEF S, T
  <2> QED BY <2>1, <2>2, <2>3
<1>5. CASE j <= k
  <2>1. i \in S \cup T /\ l - 1 \in S \cup T /\ \A n \in S \cup T : i <= n /\ n <= l - 1
    BY <1>5
  <2>2. Between(S, T) = {n \in i .. l - 1 : \/ (\A m \in S : m < n) /\ (\A m \in T : n < m)
                                            \/ (\A m \in T : m < n) /\ (\A m \in S : n < m)}
    <3>1. PICK low \in S \cup T, high \in S \cup T : low = i /\ high = l - 1
      BY <2>1
    <3>2. \A n \in S \cup T : low <= n /\ n <= high
      BY <2>1, <3>1
    <3> HIDE DEF S, T
    <3> QED BY <1>3, <3>1, <3>2
  <2>3. \A n \in i .. l - 1 : (\/ (\A m \in S : m < n) /\ (\A m \in T : n < m)
                               \/ (\A m \in T : m < n) /\ (\A m \in S : n < m)) <=> n \in j .. k - 1
    <3> HIDE DEF S, T
    <3> QED BY <1>4, <1>5
  <2>4. j .. k - 1 \subseteq i .. l - 1
    OBVIOUS
  <2>5. Between(S, T) = j .. k - 1
    <3> HIDE DEF S, T
    <3> QED BY <2>2, <2>3, <2>4
  <2>6. GapBetween(S, T) = 2 * (k - j)
    BY <1>1, <1>2, <1>5, <2>5 DEF GapBetween
  <2> QED BY <1>5, <2>6 DEF Gap
<1>6. CASE ~ (j <= k) /\ l <= i
  <2>1. k \in S \cup T /\ j - 1 \in S \cup T /\ \A n \in S \cup T : k <= n /\ n <= j - 1
    BY <1>6
  <2>2. Between(S, T) = {n \in k .. j - 1 : \/ (\A m \in S : m < n) /\ (\A m \in T : n < m)
                                            \/ (\A m \in T : m < n) /\ (\A m \in S : n < m)}
    <3>1. PICK low \in S \cup T, high \in S \cup T : low = k /\ high = j - 1
      BY <2>1
    <3>2. \A n \in S \cup T : low <= n /\ n <= high
      BY <2>1, <3>1
    <3> HIDE DEF S, T
    <3> QED BY <1>3, <3>1, <3>2
  <2>3. \A n \in k .. j - 1 : (\/ (\A m \in S : m < n) /\ (\A m \in T : n < m)
                               \/ (\A m \in T : m < n) /\ (\A m \in S : n < m)) <=> n \in l .. i - 1
    <3> HIDE DEF S, T
    <3> QED BY <1>4, <1>6
  <2>4. l .. i - 1 \subseteq k .. j - 1
    OBVIOUS
  <2>5. Between(S, T) = l .. i - 1
    <3> HIDE DEF S, T
    <3> QED BY <2>2, <2>3, <2>4
  <2>6. GapBetween(S, T) = 2 * (i - l)
    BY <1>1, <1>2, <1>6, <2>5 DEF GapBetween
  <2> QED BY <1>6, <2>6 DEF Gap
<1>7. CASE ~ (j <= k) /\ ~ (l <= i)
  <2>1. GapBetween(S, T) = Unavailable
    BY <1>1, <1>7 DEF GapBetween
  <2> QED BY <1>7, <2>1 DEF Gap
<1> QED BY <1>5, <1>6, <1>7

(* A rectangle that can be seen.                                           *)
HasExtent(a) == IsRect(a) /\ a.width > 0 /\ a.height > 0

(* Its sides.                                                              *)
LEMMA Sides ==
    ASSUME NEW a, HasExtent(a)
    PROVE  /\ a.x \in Int /\ a.y \in Int /\ a.width \in Nat \ {0} /\ a.height \in Nat \ {0}
           /\ Right(a) \in Int /\ Right(a) = a.x + a.width /\ a.x < Right(a)
           /\ Bottom(a) \in Int /\ Bottom(a) = a.y + a.height /\ a.y < Bottom(a)
BY DEF HasExtent, IsRect, Right, Bottom

(* The gap of two rectangles, on either axis.                              *)
LEMMA GapByPixels ==
    ASSUME NEW a, NEW b, HasExtent(a), HasExtent(b)
    PROVE  /\ GapBetween(Columns(a), Columns(b)) = Gap(a.x, Right(a), b.x, Right(b))
           /\ GapBetween(Rows(a), Rows(b)) = Gap(a.y, Bottom(a), b.y, Bottom(b))
BY Sides, StretchGap DEF Columns, Rows

(* What the code computes of a numeric subject, in half pixels.            *)
Computed(subject, a, b) ==
    IF subject.kind = "region-property" THEN Twice(a, subject.property)
    ELSE Measure(subject.measurement, a, b)

Numeric(subject) == ValidSubject(subject) /\ subject.kind # "region-relationship"

(* It is what the picture shows.                                           *)
LEMMA ComputedIsRead ==
    ASSUME NEW subject, Numeric(subject), NEW a, NEW b, HasExtent(a), HasExtent(b)
    PROVE  Reading(subject, a, b) = Computed(subject, a, b)
<1>1. /\ Cardinality(Columns(a)) = a.width /\ Cardinality(Rows(a)) = a.height
      /\ Cardinality(Columns(b)) = b.width /\ Cardinality(Rows(b)) = b.height
  BY SizeByPixels DEF HasExtent
<1>2. CASE subject.kind = "region-property"
  <2>1. subject.property \in RegionProperties
    BY <1>2 DEF Numeric, ValidSubject
  <2>2. Reading(subject, a, b) = Twice(a, subject.property)
    BY <1>1, <1>2, <2>1, Sides DEF Reading, Twice, RegionProperties, HorizontalProperties, VerticalProperties, Properties
  <2> QED BY <1>2, <2>2 DEF Computed
<1>3. CASE subject.kind = "region-measurement"
  <2>1. subject.measurement \in Measurements
    BY <1>3 DEF Numeric, ValidSubject
  <2>2. /\ Twice(a, "x") = 2 * a.x /\ Twice(b, "x") = 2 * b.x
        /\ Twice(a, "right") = 2 * Right(a) /\ Twice(b, "right") = 2 * Right(b)
        /\ Twice(a, "centerX") = a.x + Right(a) /\ Twice(b, "centerX") = b.x + Right(b)
        /\ Twice(a, "centerY") = a.y + Bottom(a) /\ Twice(b, "centerY") = b.y + Bottom(b)
    BY Sides DEF Twice, Properties
  <2>3. /\ Magnitude(2 * a.x - 2 * b.x) = 2 * Magnitude(a.x - b.x)
        /\ Magnitude(2 * Right(a) - 2 * Right(b)) = 2 * Magnitude(Right(a) - Right(b))
    BY Sides DEF Magnitude
  <2>4. CASE subject.measurement \in Gaps
    BY <1>3, <2>4, GapByPixels DEF Reading, Measure, Gaps, Computed
  <2>5. CASE subject.measurement \in Deltas
    <3> HIDE DEF Twice
    <3> QED BY <1>3, <2>2, <2>3, <2>5 DEF Reading, Measure, Deltas, Computed
  <2> QED BY <2>1, <2>4, <2>5 DEF Measurements
<1> QED BY <1>2, <1>3 DEF Numeric, ValidSubject

(* What multiplying by a size does to numbers.                             *)
LEMMA Multiplied ==
    ASSUME NEW p \in Int, NEW q \in Int, NEW w \in Nat \ {0}
    PROVE  /\ p * w \in Int /\ q * w \in Int
           /\ p * w <= q * w <=> p <= q
           /\ p * w - q * w = (p - q) * w /\ p * w + q * w = (p + q) * w
           /\ 2 * (p * w) = (2 * p) * w
           /\ Magnitude(p * w) = Magnitude(p) * w
           /\ Magnitude(p) \in Nat
<1>1. \A d \in Nat : d * w \in Nat
  OBVIOUS
<1>2. p * w - q * w = (p - q) * w /\ p * w + q * w = (p + q) * w /\ p * w \in Int /\ q * w \in Int
  OBVIOUS
<1>3. ASSUME p <= q PROVE p * w <= q * w
  <2>1. q - p \in Nat
    BY <1>3
  <2>2. (q - p) * w \in Nat
    BY <1>1, <2>1
  <2>3. q * w - p * w = (q - p) * w
    OBVIOUS
  <2> QED BY <1>2, <2>2, <2>3
<1>4. ASSUME ~ (p <= q) PROVE ~ (p * w <= q * w)
  <2>1. PICK d \in Nat : p = q + d + 1
    BY <1>4
  <2>2. p * w = q * w + d * w + w
    BY <2>1
  <2>3. d * w \in Nat
    BY <1>1
  <2> QED BY <1>2, <2>2, <2>3
<1>5. Magnitude(p * w) = Magnitude(p) * w
  <2>1. CASE p >= 0
    <3>1. p * w >= 0
      BY <2>1, <1>1
    <3> QED BY <2>1, <3>1 DEF Magnitude
  <2>2. CASE ~ (p >= 0)
    <3>1. PICK d \in Nat : p = - d - 1
      BY <2>2
    <3>2. p * w = - (d * w) - w /\ d * w \in Nat
      BY <3>1
    <3>3. (- p) * w = - (p * w)
      OBVIOUS
    <3> QED BY <2>2, <3>2, <3>3 DEF Magnitude
  <2> QED BY <2>1, <2>2
<1> QED BY <1>2, <1>3, <1>4, <1>5 DEF Magnitude

(* A number multiplied, or none where there is none.                       *)
Scaled(v, w) == IF v = Unavailable THEN Unavailable ELSE v * w

HasSize(size) == size.width \in Nat \ {0} /\ size.height \in Nat \ {0}

(* A stretched rectangle.                                                  *)
LEMMA StretchedSides ==
    ASSUME NEW a, HasExtent(a), NEW size, HasSize(size)
    PROVE  LET s == Stretched(a, size)
           IN /\ s.x = a.x * size.width /\ s.y = a.y * size.height
              /\ s.width = a.width * size.width /\ s.height = a.height * size.height
              /\ Right(s) = Right(a) * size.width /\ Bottom(s) = Bottom(a) * size.height
<1> DEFINE s == Stretched(a, size)
<1>1. /\ s.x = a.x * size.width /\ s.y = a.y * size.height
      /\ s.width = a.width * size.width /\ s.height = a.height * size.height
  BY DEF Stretched
<1>2. /\ a.x * size.width + a.width * size.width = (a.x + a.width) * size.width
      /\ a.y * size.height + a.height * size.height = (a.y + a.height) * size.height
  BY Sides, Multiplied DEF HasSize
<1> HIDE DEF s
<1> QED BY <1>1, <1>2 DEF s, Right, Bottom

(* Each property of a rectangle is stretched with its axis.                *)
LEMMA StretchedTwice ==
    ASSUME NEW a, HasExtent(a), NEW size, HasSize(size), NEW property \in RegionProperties
    PROVE  /\ Twice(a, property) \in Int
           /\ property \in HorizontalProperties => Twice(Stretched(a, size), property) = Twice(a, property) * size.width
           /\ property \notin HorizontalProperties => Twice(Stretched(a, size), property) = Twice(a, property) * size.height
<1> DEFINE s == Stretched(a, size)
           w == size.width
           h == size.height
<1>1. /\ s.x = a.x * w /\ s.y = a.y * h /\ s.width = a.width * w /\ s.height = a.height * h
      /\ Right(s) = Right(a) * w /\ Bottom(s) = Bottom(a) * h
  BY StretchedSides
<1>2. /\ a.x \in Int /\ a.y \in Int /\ a.width \in Int /\ a.height \in Int /\ Right(a) \in Int /\ Bottom(a) \in Int
      /\ w \in Nat \ {0} /\ h \in Nat \ {0}
  BY Sides DEF HasSize
<1> HIDE DEF s, w, h
<1>3. \A p, q \in Int : /\ 2 * (p * w) = (2 * p) * w /\ 2 * (p * h) = (2 * p) * h
                        /\ 2 * (p * w) + q * w = (2 * p + q) * w /\ 2 * (p * h) + q * h = (2 * p + q) * h
  BY <1>2
<1>4. CASE property \in {"x", "y", "width", "height"}
  BY <1>1, <1>2, <1>3, <1>4 DEF Twice, Properties, HorizontalProperties, s, w, h
<1>5. CASE property \in {"right", "bottom"}
  BY <1>1, <1>2, <1>3, <1>5 DEF Twice, Properties, HorizontalProperties, s, w, h
<1>6. CASE property = "centerX"
  BY <1>1, <1>2, <1>3, <1>6 DEF Twice, Properties, HorizontalProperties, s, w, h
<1>7. CASE property = "centerY"
  BY <1>1, <1>2, <1>3, <1>7 DEF Twice, Properties, HorizontalProperties, s, w, h
<1> QED BY <1>4, <1>5, <1>6, <1>7 DEF RegionProperties, HorizontalProperties, VerticalProperties

(* So is a gap.                                                            *)
LEMMA StretchedGap ==
    ASSUME NEW i \in Int, NEW j \in Int, NEW k \in Int, NEW l \in Int, NEW w \in Nat \ {0}
    PROVE  /\ Gap(i * w, j * w, k * w, l * w) = Scaled(Gap(i, j, k, l), w)
           /\ Gap(i, j, k, l) # Unavailable => Gap(i, j, k, l) \in Nat
<1>1. /\ j * w <= k * w <=> j <= k
      /\ l * w <= i * w <=> l <= i
      /\ 2 * (k * w - j * w) = (2 * (k - j)) * w
      /\ 2 * (i * w - l * w) = (2 * (i - l)) * w
  BY Multiplied
<1>2. 2 * (k - j) # Unavailable /\ 2 * (i - l) # Unavailable
  BY UnavailableIsNoNumber
<1> QED BY <1>1, <1>2 DEF Gap, Scaled

(* And whatever else is measured between two rectangles.                   *)
LEMMA StretchedMeasure ==
    ASSUME NEW a, NEW b, HasExtent(a), HasExtent(b), NEW size, HasSize(size), NEW kind \in Measurements
    PROVE  /\ Measure(kind, a, b) # Unavailable => Measure(kind, a, b) \in Nat
           /\ kind \in HorizontalMeasurements =>
                 Measure(kind, Stretched(a, size), Stretched(b, size)) = Scaled(Measure(kind, a, b), size.width)
           /\ kind \notin HorizontalMeasurements =>
                 Measure(kind, Stretched(a, size), Stretched(b, size)) = Scaled(Measure(kind, a, b), size.height)
<1> DEFINE s == Stretched(a, size)
           t == Stretched(b, size)
           w == size.width
           h == size.height
<1>1. /\ s.x = a.x * w /\ s.y = a.y * h /\ Right(s) = Right(a) * w /\ Bottom(s) = Bottom(a) * h
      /\ t.x = b.x * w /\ t.y = b.y * h /\ Right(t) = Right(b) * w /\ Bottom(t) = Bottom(b) * h
  BY StretchedSides
<1>2. /\ a.x \in Int /\ a.y \in Int /\ Right(a) \in Int /\ Bottom(a) \in Int
      /\ b.x \in Int /\ b.y \in Int /\ Right(b) \in Int /\ Bottom(b) \in Int
      /\ w \in Nat \ {0} /\ h \in Nat \ {0}
  BY Sides DEF HasSize
<1>3. CASE kind \in Gaps
  <2>1. /\ Gap(a.x * w, Right(a) * w, b.x * w, Right(b) * w) = Scaled(Gap(a.x, Right(a), b.x, Right(b)), w)
        /\ Gap(a.y * h, Bottom(a) * h, b.y * h, Bottom(b) * h) = Scaled(Gap(a.y, Bottom(a), b.y, Bottom(b)), h)
        /\ Gap(a.x, Right(a), b.x, Right(b)) # Unavailable => Gap(a.x, Right(a), b.x, Right(b)) \in Nat
        /\ Gap(a.y, Bottom(a), b.y, Bottom(b)) # Unavailable => Gap(a.y, Bottom(a), b.y, Bottom(b)) \in Nat
    <3> HIDE DEF w, h
    <3>1. \A ax, ar, bx, br \in Int, m \in Nat \ {0} :
             /\ Gap(ax * m, ar * m, bx * m, br * m) = Scaled(Gap(ax, ar, bx, br), m)
             /\ Gap(ax, ar, bx, br) # Unavailable => Gap(ax, ar, bx, br) \in Nat
      BY StretchedGap
    <3>2. /\ Gap(a.x * w, Right(a) * w, b.x * w, Right(b) * w) = Scaled(Gap(a.x, Right(a), b.x, Right(b)), w)
          /\ Gap(a.x, Right(a), b.x, Right(b)) # Unavailable => Gap(a.x, Right(a), b.x, Right(b)) \in Nat
      <4>1. PICK p \in Int, q \in Int, r \in Int, t1 \in Int, m \in Nat \ {0} :
               p = a.x /\ q = Right(a) /\ r = b.x /\ t1 = Right(b) /\ m = w
        BY <1>2
      <4>2. /\ Gap(p * m, q * m, r * m, t1 * m) = Scaled(Gap(p, q, r, t1), m)
            /\ Gap(p, q, r, t1) # Unavailable => Gap(p, q, r, t1) \in Nat
        BY <3>1, Zenon
      <4> QED BY <4>1, <4>2, Zenon
    <3>3. /\ Gap(a.y * h, Bottom(a) * h, b.y * h, Bottom(b) * h) = Scaled(Gap(a.y, Bottom(a), b.y, Bottom(b)), h)
          /\ Gap(a.y, Bottom(a), b.y, Bottom(b)) # Unavailable => Gap(a.y, Bottom(a), b.y, Bottom(b)) \in Nat
      <4>1. PICK p \in Int, q \in Int, r \in Int, t1 \in Int, m \in Nat \ {0} :
               p = a.y /\ q = Bottom(a) /\ r = b.y /\ t1 = Bottom(b) /\ m = h
        BY <1>2
      <4>2. /\ Gap(p * m, q * m, r * m, t1 * m) = Scaled(Gap(p, q, r, t1), m)
            /\ Gap(p, q, r, t1) # Unavailable => Gap(p, q, r, t1) \in Nat
        BY <3>1, Zenon
      <4> QED BY <4>1, <4>2, Zenon
    <3> QED BY <3>2, <3>3
  <2> HIDE DEF s, t, w, h
  <2> QED BY <1>1, <1>3, <2>1 DEF Measure, Gaps, HorizontalMeasurements, s, t, w, h
<1>4. CASE kind \in Deltas
  <2> DEFINE property == CASE kind = "center-x-delta" -> "centerX" [] kind = "center-y-delta" -> "centerY"
                           [] kind = "left-edge-delta" -> "x" [] kind = "right-edge-delta" -> "right"
  <2>1. /\ property \in RegionProperties
        /\ property \in HorizontalProperties <=> kind \in HorizontalMeasurements
    BY <1>4 DEF Deltas, RegionProperties, HorizontalProperties, VerticalProperties, HorizontalMeasurements
  <2>2. \A x, y : Measure(kind, x, y) = Magnitude(Twice(x, property) - Twice(y, property))
    BY <1>4 DEF Measure, Deltas
  <2> HIDE DEF property, s, t
  <2>3. PICK n \in {w, h} : /\ n \in Nat \ {0}
                            /\ property \in HorizontalProperties => n = w
                            /\ property \notin HorizontalProperties => n = h
    BY <1>2
  <2>4. /\ Twice(a, property) \in Int /\ Twice(b, property) \in Int
        /\ Twice(s, property) = Twice(a, property) * n /\ Twice(t, property) = Twice(b, property) * n
    BY <2>1, <2>3, StretchedTwice DEF s, t
  <2>5. PICK p \in Int, q \in Int : p = Twice(a, property) /\ q = Twice(b, property)
    BY <2>4
  <2>6. p * n - q * n = (p - q) * n /\ p - q \in Int
    BY <2>3, Multiplied
  <2>7. Magnitude((p - q) * n) = Magnitude(p - q) * n /\ Magnitude(p - q) \in Nat
    <3>1. PICK d \in Int : d = p - q
      BY <2>6
    <3>2. Magnitude(d * n) = Magnitude(d) * n /\ Magnitude(d) \in Nat
      BY <2>3, <3>1, Multiplied, ZenonT(30)
    <3> QED BY <3>1, <3>2
  <2>8. Measure(kind, a, b) = Magnitude(p - q) /\ Measure(kind, s, t) = Magnitude(p - q) * n
    BY <2>2, <2>4, <2>5, <2>6, <2>7
  <2>9. Measure(kind, a, b) # Unavailable
    BY <2>7, <2>8, UnavailableIsNoNumber
  <2>10. Measure(kind, s, t) = Scaled(Measure(kind, a, b), n)
    BY <2>8, <2>9 DEF Scaled
  <2> QED BY <2>1, <2>3, <2>7, <2>8, <2>10 DEF s, t
<1> QED BY <1>3, <1>4 DEF Measurements

(* What a number may be off by, in the units of the check.                 *)
Allowed(tolerance, designed) ==
    CASE tolerance.kind = "exact" -> 0
      [] tolerance.kind = "absolute-reference-px" -> 200 * tolerance.amount
      [] tolerance.kind = "percent" -> tolerance.amount * designed

(* A value of the candidate, in parts of an image pixel, is within the     *)
(* tolerance of the reference's exactly if the two shares agree.           *)
LEMMA WithinByShares ==
    ASSUME NEW tolerance, ValidTolerance(tolerance), NEW designed \in Nat, NEW found \in Int,
           NEW image \in Nat \ {0}, NEW window \in Nat \ {0}
    PROVE  WithinReference(tolerance, window, window * designed, found * image)
               <=> 100 * found * image \in 100 * designed * window - Allowed(tolerance, designed) * window
                                             .. 100 * designed * window + Allowed(tolerance, designed) * window
<1>1. PICK P \in Int, Q \in Int : P = designed * window /\ Q = found * image
  OBVIOUS
<1>2. P >= 0
  BY <1>1, Multiplied
<1>3. window * designed = P /\ 100 * found * image = 100 * Q /\ 100 * designed * window = 100 * P
  BY <1>1
<1>4. CASE tolerance.kind = "exact"
  <2>1. Allowed(tolerance, designed) * window = 0
    BY <1>4 DEF Allowed
  <2>2. WithinReference(tolerance, window, P, Q) <=> Magnitude(Q - P) = 0
    BY <1>4 DEF WithinReference
  <2>3. Magnitude(Q - P) = 0 <=> 100 * Q \in 100 * P - 0 .. 100 * P + 0
    BY DEF Magnitude
  <2> QED BY <1>1, <1>3, <2>1, <2>2, <2>3
<1>5. CASE tolerance.kind = "absolute-reference-px"
  <2>1. PICK n \in Nat : n = tolerance.amount
    BY <1>5 DEF ValidTolerance
  <2>2. PICK A \in Int : A = n * window
    OBVIOUS
  <2>3. Allowed(tolerance, designed) * window = 200 * A
    BY <1>5, <2>1, <2>2 DEF Allowed
  <2>4. WithinReference(tolerance, window, P, Q) <=> Magnitude(Q - P) <= 2 * A
    <3>1. 2 * tolerance.amount * window = 2 * A
      BY <2>1, <2>2
    <3> QED BY <1>5, <3>1 DEF WithinReference
  <2>5. Magnitude(Q - P) <= 2 * A <=> 100 * Q \in 100 * P - 200 * A .. 100 * P + 200 * A
    BY DEF Magnitude
  <2> QED BY <1>1, <1>3, <2>3, <2>4, <2>5
<1>6. CASE tolerance.kind = "percent"
  <2>1. PICK n \in Nat : n = tolerance.amount
    BY <1>6 DEF ValidTolerance
  <2>2. PICK B \in Int : B = n * P
    OBVIOUS
  <2>3. Allowed(tolerance, designed) * window = B
    <3>1. n * designed * window = n * P
      BY <1>1
    <3> QED BY <1>6, <2>1, <2>2, <3>1 DEF Allowed
  <2>4. WithinReference(tolerance, window, P, Q) <=> 100 * Magnitude(Q - P) <= B
    <3>1. Magnitude(P) = P
      BY <1>2 DEF Magnitude
    <3> QED BY <1>6, <2>1, <2>2, <3>1 DEF WithinReference
  <2>5. 100 * Magnitude(Q - P) <= B <=> 100 * Q \in 100 * P - B .. 100 * P + B
    BY DEF Magnitude
  <2> QED BY <1>1, <1>3, <2>3, <2>4, <2>5
<1> QED BY <1>4, <1>5, <1>6 DEF ValidTolerance, ToleranceKinds

(* One rectangle beside another, told from the edges.                      *)
LEMMA BesideByEdges ==
    ASSUME NEW a, NEW b, HasExtent(a), HasExtent(b)
    PROVE  /\ Beside(a, b) <=> Right(a) <= b.x + GeometryTolerance
           /\ Above(a, b) <=> Bottom(a) <= b.y + GeometryTolerance
<1>1. Beside(a, b) <=> Right(a) <= b.x + GeometryTolerance
  BY Sides, StretchBefore, ToleranceInPixels DEF Beside, Columns
<1> QED BY <1>1, AboveByEdges DEF HasExtent

(* The graph calls a pair by the kind that the pixels show, in each family *)
(* of geometry.                                                            *)
LEMMA LiesAsShown ==
    ASSUME NEW a, NEW b, HasExtent(a), HasExtent(b),
           NEW f \in GeometricFamilies, NEW kind \in Families[f], NEW inOrder \in BOOLEAN
    PROVE  LieAs(kind, a, b, inOrder) <=> kind = KindShown(f, a, b)
<1>1. /\ Beside(a, b) <=> Right(a) <= b.x + GeometryTolerance
      /\ Beside(b, a) <=> Right(b) <= a.x + GeometryTolerance
      /\ Above(a, b) <=> Bottom(a) <= b.y + GeometryTolerance
      /\ Above(b, a) <=> Bottom(b) <= a.y + GeometryTolerance
  BY BesideByEdges
<1>2. /\ Cardinality(Columns(a)) = a.width /\ Cardinality(Columns(b)) = b.width
      /\ a.width \in Nat /\ b.width \in Nat /\ GeometryTolerance \in Nat
  BY SizeByPixels, ToleranceInPixels DEF HasExtent, IsRect
<1>3. AreaOverlapOf(a, b) = "does-not-overlap" <=> ~ Overlapping(a, b)
  BY OverlapByPixels DEF HasExtent
<1>4. GeometricFitOf(a, b) = "fits-inside" <=> Inside(a, b)
  BY FitByPixels DEF HasExtent
<1>5. CASE f = "horizontal"
  BY <1>1, <1>5 DEF KindShown, LieAs, HorizontalOrderOf, Families
<1>6. CASE f = "vertical"
  BY <1>1, <1>6 DEF KindShown, LieAs, VerticalOrderOf, Families
<1>7. CASE f = "area"
  <2>1. AreaOverlapOf(a, b) \in {"overlaps", "does-not-overlap"}
    BY DEF AreaOverlapOf
  <2> QED BY <1>3, <1>7, <2>1 DEF KindShown, LieAs, Families
<1>8. CASE f = "relWidth"
  <2>1. /\ LieAs("wider-than", a, b, inOrder) <=> a.width > b.width + GeometryTolerance
        /\ LieAs("narrower-than", a, b, inOrder) <=> a.width + GeometryTolerance < b.width
        /\ LieAs("equal-width-within-tolerance", a, b, inOrder) <=> ~ Apart(a.width, b.width)
    BY <1>2 DEF LieAs
  <2>2. PICK m \in Nat, n \in Nat, e \in Nat : m = a.width /\ n = b.width /\ e = GeometryTolerance
    BY <1>2
  <2>3. KindShown(f, a, b) = IF m > n + e THEN "wider-than"
                             ELSE IF m + e < n THEN "narrower-than" ELSE "equal-width-within-tolerance"
    BY <1>8, <2>2 DEF KindShown, RelativeWidthOf
  <2>4. Apart(a.width, b.width) <=> m > n + e \/ m + e < n
    BY <2>2 DEF Apart
  <2>5. /\ LieAs("wider-than", a, b, inOrder) <=> m > n + e
        /\ LieAs("narrower-than", a, b, inOrder) <=> m + e < n
        /\ LieAs("equal-width-within-tolerance", a, b, inOrder) <=> ~ (m > n + e) /\ ~ (m + e < n)
    BY <2>1, <2>2, <2>4
  <2>6. kind \in {"wider-than", "narrower-than", "equal-width-within-tolerance"}
    BY <1>8 DEF Families
  <2>7. ~ (m > n + e /\ m + e < n)
    OBVIOUS
  <2> QED BY <2>3, <2>5, <2>6, <2>7
<1>9. CASE f = "fit"
  <2>1. GeometricFitOf(a, b) \in {"fits-inside", "does-not-fit-inside"}
    BY DEF GeometricFitOf
  <2> QED BY <1>4, <1>9, <2>1 DEF KindShown, LieAs, Families
<1> QED BY <1>5, <1>6, <1>7, <1>8, <1>9 DEF GeometricFamilies

(* And what follows what.                                                  *)
LEMMA FollowsAsShown ==
    ASSUME NEW a, NEW b, HasExtent(a), HasExtent(b), NEW inOrder \in BOOLEAN
    PROVE  LieAs("follows-vertically", a, b, inOrder)
               <=> /\ Bottom(b) <= a.y + GeometryTolerance
                   /\ Bottom(a) <= b.y + GeometryTolerance => ~ inOrder
<1>1. /\ Above(a, b) <=> Bottom(a) <= b.y + GeometryTolerance
      /\ Above(b, a) <=> Bottom(b) <= a.y + GeometryTolerance
  BY BesideByEdges
<1> QED BY <1>1 DEF LieAs

(* The regions of a design: of different names, each with an extent.       *)
DrawnRegions(regions) ==
    /\ \A m, n \in DOMAIN regions : SameName(m, n) => m = n
    /\ \A n \in DOMAIN regions : HasExtent(regions[n])

(* The region a name stands for is found however the name is spelled.      *)
LEMMA RegionFound ==
    ASSUME NEW regions, DrawnRegions(regions), NEW n, Known(regions, n)
    PROVE  /\ RegionOf(regions, n) \in DOMAIN regions /\ SameName(RegionOf(regions, n), n)
           /\ n \in DOMAIN regions => RegionOf(regions, n) = n
           /\ HasExtent(regions[RegionOf(regions, n)])
<1>1. RegionOf(regions, n) \in DOMAIN regions /\ SameName(RegionOf(regions, n), n)
  BY DEF Known, RegionOf
<1> QED BY <1>1 DEF DrawnRegions

(* The design shows a relationship exactly if the requirement spells its   *)
(* regions as the design does, and they lie so.                            *)
LEMMA ExhibitsByPixels ==
    ASSUME NEW regions, DrawnRegions(regions), NEW subject, ValidSubject(subject),
           subject.kind = "region-relationship", Known(regions, subject.a), Known(regions, subject.b)
    PROVE  (Expectation(subject, regions) # Unavailable /\ Exhibits(regions, subject))
               <=> /\ {subject.a, subject.b} \subseteq DOMAIN regions
                   /\ LieAs(subject.relationship, regions[RegionOf(regions, subject.a)],
                            regions[RegionOf(regions, subject.b)], TRUE)
<1> DEFINE a == subject.a
           b == subject.b
           kind == subject.relationship
           m == RegionOf(regions, a)
           n == RegionOf(regions, b)
           o == [targets |-> << m, n >>, of |-> [t \in {m, n} |-> AsSeen(regions[t])]]
           found == KindBetween(PairwiseRelationships(o), FamilyOf(kind), a, b)
<1>1. Expectation(subject, regions) = found
  BY DEF Expectation, RegionRelationships
<1>2. Exhibits(regions, subject) <=> found = kind
  BY <1>1 DEF Exhibits
<1>3. PICK f \in PairwiseFamilies : kind \in Families[f]
  BY DEF ValidSubject, PairwiseKinds
<1>4. f \in DOMAIN Families /\ FamilyOf(kind) = f /\ kind # Unavailable
  BY <1>3, OneFamily, UnavailableIsNoKind DEF PairwiseFamilies
<1>5. a # b
  BY DEF ValidSubject
<1>6. /\ m \in DOMAIN regions /\ n \in DOMAIN regions
      /\ a \in DOMAIN regions => m = a
      /\ b \in DOMAIN regions => n = b
      /\ HasExtent(regions[m]) /\ HasExtent(regions[n])
  BY RegionFound
<1> HIDE DEF m, n
<1>7. o.targets = << m, n >> /\ DOMAIN o.targets = {1, 2} /\ o.targets[1] = m /\ o.targets[2] = n
  OBVIOUS
<1>8. \A t \in {m, n} : /\ o.of[t].rect = regions[t] /\ o.of[t].selection = "matched"
                        /\ o.of[t].visible <=> TRUE
  BY DEF AsSeen
<1> HIDE DEF o
<1>9. Configured(o) = {m, n}
  BY <1>7 DEF Configured
<1>10. Eligible(o) = {m, n}
  BY <1>8, <1>9 DEF Eligible, Matched, Presence
<1>11. \A s, r : Precedes(o, s, r) <=> s = m /\ r = n
  BY <1>7 DEF Precedes
<1>12. Rect(o, m) = regions[m] /\ Rect(o, n) = regions[n]
  BY <1>8 DEF Rect
<1>13. {a, b} \subseteq DOMAIN regions <=> m = a /\ n = b
  BY <1>6
<1>14. CASE f = "sequence"
  <2>1. kind = "follows-vertically"
    BY <1>3, <1>14 DEF Families
  <2>2. LieAs(kind, regions[m], regions[n], TRUE)
            <=> /\ Bottom(regions[n]) <= regions[m].y + GeometryTolerance
                /\ ~ (Bottom(regions[m]) <= regions[n].y + GeometryTolerance)
    <3>1. PICK c, d : c = regions[m] /\ d = regions[n]
      OBVIOUS
    <3>2. PICK yes \in BOOLEAN : yes = TRUE
      OBVIOUS
    <3>3. HasExtent(c) /\ HasExtent(d)
      BY <1>6, <3>1
    <3>4. LieAs("follows-vertically", c, d, yes)
              <=> /\ Bottom(d) <= c.y + GeometryTolerance
                  /\ Bottom(c) <= d.y + GeometryTolerance => ~ yes
      BY <3>3, FollowsAsShown
    <3> QED BY <2>1, <3>1, <3>2, <3>4
  <2> DEFINE follows == /\ a \in Eligible(o) /\ b \in Eligible(o)
                        /\ Bottom(Rect(o, b)) <= Rect(o, a).y + GeometryTolerance
                        /\ \/ Precedes(o, b, a)
                           \/ /\ Precedes(o, a, b)
                              /\ ~ (Bottom(Rect(o, a)) <= Rect(o, b).y + GeometryTolerance)
  <2>3. (follows => found = kind) /\ (~ follows => found = Unavailable)
    BY <1>4, <1>14, <2>1, SequenceFound
  <2>4. CASE m = a /\ n = b
    <3>1. ~ Precedes(o, b, a)
      BY <1>5, <1>11, <2>4
    <3>2. follows <=> LieAs(kind, regions[m], regions[n], TRUE)
      BY <1>10, <1>11, <1>12, <2>2, <2>4, <3>1
    <3> HIDE DEF follows, found
    <3> QED BY <1>1, <1>2, <1>4, <1>13, <2>3, <2>4, <3>2 DEF m, n
  <2>5. CASE ~ (m = a /\ n = b)
    <3>1. ~ follows
      <4>1. ~ (a \in {m, n} /\ b \in {m, n}) \/ (a = n /\ b = m)
        BY <1>5, <2>5
      <4>2. a \in DOMAIN regions /\ b \in DOMAIN regions => m = a /\ n = b
        BY <1>6
      <4>3. ~ (a \in {m, n} /\ b \in {m, n})
        BY <1>6, <2>5, <4>2
      <4> QED BY <1>10, <4>3
    <3> HIDE DEF follows, found
    <3> QED BY <1>1, <1>13, <2>3, <2>5, <3>1
  <2> QED BY <2>4, <2>5
<1>15. CASE f # "sequence"
  <2>1. f \in GeometricFamilies
    BY <1>3, <1>15 DEF PairwiseFamilies, GeometricFamilies, Families
  <2> DEFINE related == a \in Eligible(o) /\ b \in Eligible(o) /\ Precedes(o, a, b)
  <2>2. /\ related => found = KindShown(f, Rect(o, a), Rect(o, b))
        /\ ~ related => found = Unavailable
        /\ related <=> found # Unavailable
    BY <1>4, <2>1, KindFound
  <2>3. related <=> m = a /\ n = b
    BY <1>10, <1>11
  <2>4. LieAs(kind, regions[m], regions[n], TRUE) <=> kind = KindShown(f, regions[m], regions[n])
    BY <1>3, <1>6, <2>1, LiesAsShown
  <2> HIDE DEF related, found
  <2> QED BY <1>1, <1>2, <1>4, <1>12, <1>13, <2>2, <2>3, <2>4 DEF m, n
<1> QED BY <1>14, <1>15

(* What a region of a valid binding is bound to.                           *)
LEMMA BoundIsStoodFor ==
    ASSUME NamesDiffer(after), Unavailable \notin Configured(after),
           ValidBindings(acceptance.reference.bindings, Design), NEW region
    PROVE  LET bound == BoundTarget(after, acceptance.reference.bindings, region)
           IN /\ \A t \in StandsFor(region) : StandsFor(region) = {t}
              /\ bound # Unavailable => StandsFor(region) = {bound} /\ Matched(after, bound)
              /\ bound = Unavailable => \A t \in StandsFor(region) : ~ Matched(after, t)
<1> DEFINE bindings == acceptance.reference.bindings
           declared == {b \in bindings : SameName(b.region, region) /\ BindingStatus(after, b) = "bound"}
           bound == BoundTarget(after, bindings, region)
<1>1. \A b, c \in bindings : SameName(b.region, c.region) => b = c
  BY DEF ValidBindings
<1>2. \A b, c \in bindings : SameName(b.region, region) /\ SameName(c.region, region) => b = c
  BY <1>1 DEF SameName
<1>3. \A b \in bindings, t \in Configured(after) : SameName(b.target, t) => TargetNamed(after, b.target) = t
  <2> TAKE b \in bindings, t \in Configured(after)
  <2>1. SUFFICES ASSUME SameName(b.target, t) PROVE TargetNamed(after, b.target) = t
    OBVIOUS
  <2>2. \A s \in Configured(after) : SameName(s, b.target) => s = t
    BY <2>1 DEF SameName, NamesDiffer
  <2>3. SameName(t, b.target)
    BY <2>1 DEF SameName
  <2> QED BY <2>2, <2>3 DEF TargetNamed, Counterpart
<1>4. \A b \in bindings : TargetNamed(after, b.target) # Unavailable =>
          TargetNamed(after, b.target) \in Configured(after) /\ SameName(b.target, TargetNamed(after, b.target))
  BY DEF TargetNamed, Counterpart, SameName
<1>5. \A b \in bindings : BindingStatus(after, b) = "bound"
          <=> TargetNamed(after, b.target) # Unavailable /\ Matched(after, TargetNamed(after, b.target))
  <2> TAKE b \in bindings
  <2> DEFINE t == TargetNamed(after, b.target)
  <2> HIDE DEF t
  <2>1. BindingStatus(after, b)
            = CASE t = Unavailable -> "unavailable"
                [] t # Unavailable /\ Matched(after, t) -> "bound"
                [] t # Unavailable /\ Presence(after, t) = "ambiguous" -> "ambiguous"
                [] OTHER -> "unavailable"
    BY DEF BindingStatus, t
  <2>2. CASE t = Unavailable
    BY <2>1, <2>2, ZenonT(30) DEF t
  <2>3. CASE t # Unavailable /\ Matched(after, t)
    <3>1. BindingStatus(after, b) = "bound"
      BY <2>1, <2>3 DEF Matched
    <3> QED BY <2>3, <3>1 DEF t
  <2>4. CASE t # Unavailable /\ ~ Matched(after, t)
    <3>1. BindingStatus(after, b) \in {"ambiguous", "unavailable"}
      BY <2>1, <2>4
    <3> QED BY <2>4, <3>1 DEF t
  <2> QED BY <2>2, <2>3, <2>4
<1>6. \A t : t \in StandsFor(region) <=> t \in Configured(after) /\ \E b \in bindings : SameName(b.region, region) /\ SameName(b.target, t)
  BY DEF StandsFor
<1>7. \A s, t \in StandsFor(region) : s = t
  <2> TAKE s, t \in StandsFor(region)
  <2>1. PICK b \in bindings : SameName(b.region, region) /\ SameName(b.target, s)
    BY <1>6
  <2>2. PICK c \in bindings : SameName(c.region, region) /\ SameName(c.target, t)
    BY <1>6
  <2>3. b = c
    BY <1>2, <2>1, <2>2
  <2> QED BY <1>3, <1>6, <2>1, <2>2, <2>3
<1>8. ASSUME bound # Unavailable PROVE bound \in StandsFor(region) /\ Matched(after, bound)
  <2>1. declared # {} /\ bound = TargetNamed(after, (CHOOSE b \in declared : TRUE).target)
    BY <1>8 DEF BoundTarget
  <2>2. PICK b \in declared : bound = TargetNamed(after, b.target)
    BY <2>1
  <2> QED BY <1>4, <1>5, <1>6, <1>8, <2>2
<1>9. ASSUME NEW t \in StandsFor(region), Matched(after, t) PROVE bound # Unavailable
  <2>1. PICK b \in bindings : SameName(b.region, region) /\ SameName(b.target, t)
    BY <1>6
  <2>2. t \in Configured(after) /\ TargetNamed(after, b.target) = t /\ t # Unavailable
    BY <1>3, <1>6, <2>1
  <2>3. b \in declared
    BY <1>5, <1>9, <2>1, <2>2
  <2>4. declared = {b}
    BY <1>2, <2>3
  <2>5. bound = TargetNamed(after, b.target)
    <3>1. (CHOOSE c \in declared : TRUE) = b
      BY <2>4
    <3> QED BY <2>3, <3>1 DEF BoundTarget
  <2> QED BY <2>2, <2>5
<1> HIDE DEF bound
<1> QED BY <1>7, <1>8, <1>9 DEF bound

-----------------------------------------------------------------------------
(* What is said of a requirement, and what is shown                        *)

(* What an evaluation of the reference may rely on.                        *)
Given ==
    /\ IsObservation(after) /\ NamesDiffer(after) /\ Unavailable \notin Configured(after)
    /\ IsDesign(Design) /\ ValidRegions(Design.regions, Design.image)
    /\ ValidRequirements(Design.requirements, Design.regions)
    /\ ValidBindings(acceptance.reference.bindings, Design)

(* The element bound to a region, what the region is in the design, and    *)
(* whether it can be seen in the candidate.                                *)
BoundTo(region) == BoundTarget(after, acceptance.reference.bindings, region)
RegionNamed(name) == Design.regions[RegionOf(Design.regions, name)]
IsShown(region) == BoundTo(region) \in Eligible(after)

(* The regions of a valid design.                                          *)
LEMMA RegionsAreDrawn ==
    ASSUME Given
    PROVE  /\ DrawnRegions(Design.regions)
           /\ \A name : Known(Design.regions, name) => HasExtent(RegionNamed(name)) /\ HasSize(Design.image)
           /\ ScaleKnown(Design) => HasSize(Design.applicability.viewport)
<1>1. PICK design : design = Design
  OBVIOUS
<1>2. IsDesign(design) /\ ValidRegions(design.regions, design.image)
  BY <1>1 DEF Given
<1>3. DrawnRegions(design.regions)
  BY <1>2 DEF DrawnRegions, HasExtent, IsDesign, ValidRegions
<1>4. ASSUME NEW name, Known(design.regions, name)
      PROVE  HasExtent(design.regions[RegionOf(design.regions, name)]) /\ HasSize(design.image)
  <2>1. PICK n : n = RegionOf(design.regions, name)
    OBVIOUS
  <2>2. n \in DOMAIN design.regions /\ HasExtent(design.regions[n])
    BY <1>3, <1>4, <2>1, RegionFound
  <2>3. PICK rect : rect = design.regions[n]
    OBVIOUS
  <2>4. /\ rect.x >= 0 /\ rect.y >= 0 /\ Right(rect) <= design.image.width /\ Bottom(rect) <= design.image.height
    BY <1>2, <2>2, <2>3 DEF ValidRegions
  <2>5. /\ rect.x < Right(rect) /\ rect.y < Bottom(rect)
        /\ rect.x \in Int /\ rect.y \in Int /\ Right(rect) \in Int /\ Bottom(rect) \in Int
    BY <2>2, <2>3, Sides
  <2>6. design.image.width \in Nat /\ design.image.height \in Nat
    BY <1>2 DEF IsDesign
  <2> QED BY <2>1, <2>2, <2>4, <2>5, <2>6 DEF HasSize
<1>5. ScaleKnown(design) => HasSize(design.applicability.viewport)
  BY <1>2 DEF ScaleKnown, IsDesign, HasSize
<1> QED BY <1>1, <1>3, <1>4, <1>5 DEF RegionNamed

(* A region can be seen exactly if something it stands for can, and that is *)
(* what it is bound to.                                                    *)
LEMMA ShownIsBound ==
    ASSUME Given, NEW region
    PROVE  /\ IsShown(region) <=> \E t \in StandsFor(region) : Shown(after, t)
           /\ IsShown(region) => /\ (CHOOSE t \in StandsFor(region) : TRUE) = BoundTo(region)
                                 /\ BoundTo(region) # Unavailable
                                 /\ HasExtent(Rect(after, BoundTo(region)))
<1>1. PICK bound : bound = BoundTo(region)
  OBVIOUS
<1>2. /\ bound # Unavailable => StandsFor(region) = {bound} /\ Matched(after, bound)
      /\ bound = Unavailable => \A t \in StandsFor(region) : ~ Matched(after, t)
  BY <1>1, BoundIsStoodFor DEF Given, BoundTo
<1>3. PICK o : o = after
  OBVIOUS
<1>4. \A t : /\ t \in Eligible(o) <=> Shown(o, t)
             /\ Shown(o, t) => t \in Configured(o) /\ HasExtent(Rect(o, t))
  <2>1. IsObservation(o)
    BY <1>3 DEF Given
  <2> QED BY <2>1, ShownIsMeasured DEF HasExtent
<1>5. CASE bound = Unavailable
  <2>1. bound \notin Eligible(o)
    BY <1>3, <1>5 DEF Given, Eligible
  <2>2. \A t \in StandsFor(region) : ~ Shown(after, t)
    BY <1>2, <1>5 DEF Shown
  <2> QED BY <1>1, <1>3, <2>1, <2>2 DEF IsShown
<1>6. CASE bound # Unavailable
  <2>1. StandsFor(region) = {bound}
    BY <1>2, <1>6
  <2>2. (CHOOSE t \in StandsFor(region) : TRUE) = bound
    BY <2>1
  <2>3. IsShown(region) <=> Shown(after, bound)
    BY <1>1, <1>3, <1>4 DEF IsShown
  <2> QED BY <1>1, <1>3, <1>4, <1>6, <2>1, <2>2, <2>3
<1> QED BY <1>5, <1>6

(* What the property says of a requirement, of the regions and the         *)
(* elements bound to them.                                                 *)
LEMMA FaithfulTold ==
    ASSUME Given, NEW r
    PROVE  LET subject == r.subject
               pair == subject.kind # "region-property"
               a == subject.a
               b == IF pair THEN subject.b ELSE subject.a
               told == {a, b} \subseteq DOMAIN Design.regions /\ BoundTo(a) # BoundTo(b)
               inOrder == Precedes(after, BoundTo(a), BoundTo(b))
               designed == Reading(subject, RegionNamed(a), RegionNamed(b))
               found == Reading(subject, Rect(after, BoundTo(a)), Rect(after, BoundTo(b)))
           IN Faithful(r) =
                IF ~ (IsShown(a) /\ IsShown(b)) THEN "unavailable"
                ELSE IF subject.kind = "region-relationship"
                THEN IF ~ told \/ ~ LieAs(subject.relationship, RegionNamed(a), RegionNamed(b), TRUE) THEN "unavailable"
                     ELSE IF subject.relationship = "follows-vertically"
                     THEN IF LieAs(subject.relationship, Rect(after, BoundTo(a)), Rect(after, BoundTo(b)), inOrder)
                          THEN "pass" ELSE "unavailable"
                     ELSE IF inOrder
                     THEN PassIf(LieAs(subject.relationship, Rect(after, BoundTo(a)), Rect(after, BoundTo(b)), TRUE))
                     ELSE "unavailable"
                ELSE IF ~ ScaleKnown(Design) \/ Unavailable \in {designed, found} THEN "unavailable"
                     ELSE PassIf(Agree(r, designed, found))
<1> DEFINE subject == r.subject
           pair == subject.kind # "region-property"
           region == [n \in {subject.a} \cup (IF pair THEN {subject.b} ELSE {}) |->
                        Design.regions[CHOOSE m \in DOMAIN Design.regions : SameName(m, n)]]
           stands == \A n \in DOMAIN region : \E t \in StandsFor(n) : Shown(after, t)
           drawn == [n \in DOMAIN region |-> CHOOSE t \in StandsFor(n) : TRUE]
           rect == [n \in DOMAIN region |-> Rect(after, drawn[n])]
           a == subject.a
           b == IF pair THEN subject.b ELSE subject.a
           told == {a, b} \subseteq DOMAIN Design.regions /\ drawn[a] # drawn[b]
           inOrder == Precedes(after, drawn[a], drawn[b])
           designed == Reading(subject, region[a], region[b])
           found == Reading(subject, rect[a], rect[b])
           numeric == IF ~ ScaleKnown(Design) \/ Unavailable \in {designed, found} THEN "unavailable"
                      ELSE PassIf(Agree(r, designed, found))
           related == IF ~ told \/ ~ LieAs(subject.relationship, region[a], region[b], TRUE) THEN "unavailable"
                      ELSE IF subject.relationship = "follows-vertically"
                      THEN IF LieAs(subject.relationship, rect[a], rect[b], inOrder) THEN "pass" ELSE "unavailable"
                      ELSE IF inOrder THEN PassIf(LieAs(subject.relationship, rect[a], rect[b], TRUE))
                      ELSE "unavailable"
<1>1. Faithful(r) = IF ~ stands THEN "unavailable"
                    ELSE IF subject.kind = "region-relationship" THEN related ELSE numeric
  BY DEF Faithful
<1>2. DOMAIN region = {a, b}
  OBVIOUS
<1>3. region[a] = RegionNamed(a) /\ region[b] = RegionNamed(b)
  BY DEF RegionNamed, RegionOf
<1>4. stands <=> IsShown(a) /\ IsShown(b)
  <2>1. \A n : IsShown(n) <=> \E t \in StandsFor(n) : Shown(after, t)
    BY ShownIsBound
  <2> HIDE DEF region, a, b
  <2> QED BY <1>2, <2>1
<1>5. CASE stands
  <2>1. drawn[a] = BoundTo(a) /\ drawn[b] = BoundTo(b)
    <3>1. \A n : IsShown(n) => (CHOOSE t \in StandsFor(n) : TRUE) = BoundTo(n)
      BY ShownIsBound
    <3> HIDE DEF region, a, b
    <3> QED BY <1>2, <1>4, <1>5, <3>1
  <2>2. rect[a] = Rect(after, BoundTo(a)) /\ rect[b] = Rect(after, BoundTo(b))
    <3> HIDE DEF region, a, b, drawn
    <3> QED BY <1>2, <2>1
  <2> HIDE DEF region, drawn, rect, stands, a, b
  <2> QED BY <1>1, <1>3, <1>4, <1>5, <2>1, <2>2 DEF a, b
<1>6. CASE ~ stands
  <2> HIDE DEF region, drawn, rect, stands, related, numeric
  <2> QED BY <1>1, <1>4, <1>6
<1> QED BY <1>5, <1>6

(* What was said of a requirement, and what the property takes it to mean. *)
SaidOf(r) == RequirementStatus(r, Design, after, acceptance.reference.bindings)
Meaning(said) == IF said \in UnavailableReasons THEN "unavailable" ELSE said

(* What multiplying a rectangle by a size does to whatever is computed.    *)
LEMMA StretchedComputed ==
    ASSUME NEW subject, Numeric(subject), NEW a, NEW b, HasExtent(a), HasExtent(b), NEW size, HasSize(size)
    PROVE  /\ Computed(subject, a, b) # Unavailable => Computed(subject, a, b) \in Int
           /\ Computed(subject, Stretched(a, size), Stretched(b, size))
                = Scaled(Computed(subject, a, b), IF Across(subject) THEN size.width ELSE size.height)
<1>1. CASE subject.kind = "region-property"
  <2>1. PICK property \in RegionProperties : property = subject.property
    BY <1>1 DEF Numeric, ValidSubject
  <2>2. Across(subject) <=> property \in HorizontalProperties
    BY <1>1, <2>1 DEF Across, HorizontalProperties
  <2>3. /\ Twice(a, property) \in Int
        /\ property \in HorizontalProperties => Twice(Stretched(a, size), property) = Twice(a, property) * size.width
        /\ property \notin HorizontalProperties => Twice(Stretched(a, size), property) = Twice(a, property) * size.height
    BY StretchedTwice
  <2>4. Twice(a, property) # Unavailable
    BY <2>3, UnavailableIsNoNumber
  <2>5. \A x, y : Computed(subject, x, y) = Twice(x, property)
    BY <1>1, <2>1 DEF Computed
  <2> QED BY <2>2, <2>3, <2>4, <2>5 DEF Scaled
<1>2. CASE subject.kind = "region-measurement"
  <2>1. PICK kind \in Measurements : kind = subject.measurement
    BY <1>2 DEF Numeric, ValidSubject
  <2>2. Across(subject) <=> kind \in HorizontalMeasurements
    BY <1>2, <2>1 DEF Across, HorizontalMeasurements
  <2>3. \A x, y : Computed(subject, x, y) = Measure(kind, x, y)
    BY <1>2, <2>1 DEF Computed
  <2> QED BY <2>2, <2>3, StretchedMeasure
<1> QED BY <1>1, <1>2 DEF Numeric, ValidSubject

(* Nothing is computed of the regions of a design that is negative.        *)
LEMMA ComputedOfDesign ==
    ASSUME NEW subject, Numeric(subject), NEW a, NEW b, HasExtent(a), HasExtent(b), a.x >= 0, a.y >= 0
    PROVE  Computed(subject, a, b) # Unavailable => Computed(subject, a, b) \in Nat
<1>1. CASE subject.kind = "region-property"
  <2>1. PICK property \in RegionProperties : property = subject.property
    BY <1>1 DEF Numeric, ValidSubject
  <2>2. Twice(a, property) \in Nat
    BY Sides DEF Twice, Properties, RegionProperties, HorizontalProperties, VerticalProperties
  <2> QED BY <1>1, <2>1, <2>2 DEF Computed
<1>2. CASE subject.kind = "region-measurement"
  <2>1. PICK kind \in Measurements : kind = subject.measurement
    BY <1>2 DEF Numeric, ValidSubject
  <2>2. PICK size : HasSize(size)
    <3>1. HasSize([width |-> 1, height |-> 1])
      BY DEF HasSize
    <3> QED BY <3>1
  <2>3. Measure(kind, a, b) # Unavailable => Measure(kind, a, b) \in Nat
    BY <2>2, StretchedMeasure
  <2> QED BY <1>2, <2>1, <2>3 DEF Computed
<1> QED BY <1>1, <1>2 DEF Numeric, ValidSubject

(* Agreement of two numbers is what the tolerance allows.                  *)
LEMMA AgreementIsTolerance ==
    ASSUME NEW r, ValidTolerance(r.tolerance), NEW designed \in Nat, NEW found \in Int,
           HasSize(Design.image), HasSize(Design.applicability.viewport)
    PROVE  LET image == IF Across(r.subject) THEN Design.image.width ELSE Design.image.height
               window == Parts(Design, Across(r.subject))
           IN Agree(r, designed, found) <=> WithinReference(r.tolerance, window, window * designed, found * image)
<1>1. PICK image \in Nat \ {0} : image = IF Across(r.subject) THEN Design.image.width ELSE Design.image.height
  BY DEF HasSize
<1>2. PICK window \in Nat \ {0} : window = Parts(Design, Across(r.subject))
  BY DEF HasSize, Parts
<1>3. Agree(r, designed, found)
         <=> 100 * found * image \in 100 * designed * window - Allowed(r.tolerance, designed) * window
                                       .. 100 * designed * window + Allowed(r.tolerance, designed) * window
  BY <1>1, <1>2 DEF Agree, Allowed, Parts
<1>4. WithinReference(r.tolerance, window, window * designed, found * image)
         <=> 100 * found * image \in 100 * designed * window - Allowed(r.tolerance, designed) * window
                                       .. 100 * designed * window + Allowed(r.tolerance, designed) * window
  BY WithinByShares
<1> QED BY <1>1, <1>2, <1>3, <1>4

(* What the code says of a numeric requirement on elements that are shown, *)
(* in one place.                                                           *)
LEMMA NumberSaid ==
    ASSUME Given, NEW r \in Design.requirements, r.subject.kind # "region-relationship",
           NEW b, b = IF r.subject.kind # "region-property" THEN r.subject.b ELSE r.subject.a,
           IsShown(r.subject.a), IsShown(b)
    PROVE  LET expected == Computed(r.subject, RegionNamed(r.subject.a), RegionNamed(b))
               found == Computed(r.subject, Stretched(Rect(after, BoundTo(r.subject.a)), Design.image),
                                            Stretched(Rect(after, BoundTo(b)), Design.image))
               window == Parts(Design, Across(r.subject))
           IN SaidOf(r) = IF expected = Unavailable THEN "reference-evidence-unavailable"
                          ELSE IF ~ ScaleKnown(Design) THEN "coordinate-mapping-unavailable"
                          ELSE IF found = Unavailable THEN "candidate-evidence-unavailable"
                          ELSE Pass(WithinReference(r.tolerance, window, window * expected, found))
<1>1. PICK design, o, subject, a, s, t, bindings :
         /\ design = Design /\ o = after /\ subject = r.subject /\ a = subject.a /\ s = BoundTo(a) /\ t = BoundTo(b)
         /\ bindings = acceptance.reference.bindings
  OBVIOUS
<1>2. /\ s # Unavailable /\ t # Unavailable /\ s \in Eligible(o) /\ t \in Eligible(o)
      /\ HasExtent(Rect(o, s)) /\ HasExtent(Rect(o, t))
  BY <1>1, ShownIsBound DEF IsShown
<1>3. /\ ValidSubject(subject) /\ subject.kind # "region-relationship"
      /\ Known(design.regions, a) /\ HasSize(design.image)
  BY <1>1, RegionsAreDrawn DEF Given, ValidRequirements, ValidRequirement, RegionsNamed
<1>4. s = BoundTarget(o, bindings, subject.a) /\ (subject.kind # "region-property" => t = BoundTarget(o, bindings, subject.b))
  BY <1>1 DEF BoundTo
<1> DEFINE expected == Computed(subject, design.regions[RegionOf(design.regions, a)], design.regions[RegionOf(design.regions, b)])
           e == Stretched(Rect(o, s), design.image)
           f == Stretched(Rect(o, t), design.image)
           window == Parts(design, Across(subject))
<1>5. Expectation(subject, design.regions) = expected
  BY <1>1, <1>3 DEF Expectation, Computed, ValidSubject
<1>6. Exhibits(design.regions, subject) <=> expected # Unavailable
  BY <1>3, <1>5 DEF Exhibits
<1>7. CASE subject.kind = "region-property"
  <2>1. Across(subject) <=> subject.property \in HorizontalProperties
    BY <1>7 DEF Across, HorizontalProperties
  <2>2. PropertyFidelity(r, design, o, s) = IF ~ ScaleKnown(design) THEN "coordinate-mapping-unavailable"
                                            ELSE Pass(WithinReference(r.tolerance, window, window * expected, Computed(subject, e, f)))
    <3>1. Computed(subject, e, f) = Twice(e, subject.property)
      BY <1>7 DEF Computed
    <3>2. PICK horizontal \in BOOLEAN : horizontal = Across(subject)
      BY DEF Across
    <3>3. (subject.property \in HorizontalProperties) = horizontal
      BY <2>1, <3>2
    <3> HIDE DEF expected
    <3> QED BY <1>1, <1>2, <1>5, <3>1, <3>2, <3>3 DEF PropertyFidelity, InReferenceSpace
  <2>3. Computed(subject, e, f) # Unavailable
    <3>1. PICK p, size : p = Rect(o, s) /\ size = design.image
      OBVIOUS
    <3>2. PICK property \in RegionProperties : property = subject.property
      BY <1>3, <1>7 DEF ValidSubject
    <3>3. Twice(p, property) \in Int /\ Twice(Stretched(p, size), property) \in Int
      <4>1. /\ Twice(p, property) \in Int
            /\ property \in HorizontalProperties => Twice(Stretched(p, size), property) = Twice(p, property) * size.width
            /\ property \notin HorizontalProperties => Twice(Stretched(p, size), property) = Twice(p, property) * size.height
        BY <1>2, <1>3, <3>1, StretchedTwice
      <4> QED BY <1>3, <3>1, <4>1 DEF HasSize
    <3> QED BY <1>7, <3>1, <3>2, <3>3, UnavailableIsNoNumber DEF Computed
  <2> HIDE DEF expected, e, f, window
  <2>4. SaidOf(r) = IF expected = Unavailable THEN "reference-evidence-unavailable" ELSE PropertyFidelity(r, design, o, s)
    BY <1>1, <1>2, <1>4, <1>5, <1>6, <1>7 DEF SaidOf, RequirementStatus
  <2> QED BY <1>1, <2>2, <2>3, <2>4 DEF expected, e, f, window, RegionNamed
<1>8. CASE subject.kind = "region-measurement"
  <2>1. Across(subject) <=> subject.measurement \in HorizontalMeasurements
    BY <1>8 DEF Across, HorizontalMeasurements
  <2>2. MeasurementFidelity(r, design, o, s, t)
            = IF ~ ScaleKnown(design) THEN "coordinate-mapping-unavailable"
              ELSE IF Computed(subject, e, f) = Unavailable THEN "candidate-evidence-unavailable"
              ELSE Pass(WithinReference(r.tolerance, window, window * expected, Computed(subject, e, f)))
    <3>1. Computed(subject, e, f) = Measure(subject.measurement, e, f)
      BY <1>8 DEF Computed
    <3>2. PICK horizontal \in BOOLEAN : horizontal = Across(subject)
      BY DEF Across
    <3>3. (subject.measurement \in HorizontalMeasurements) = horizontal
      BY <2>1, <3>2
    <3>4. {s, t} \ Eligible(o) = {}
      BY <1>2
    <3> HIDE DEF expected
    <3> QED BY <1>1, <1>5, <3>1, <3>2, <3>3, <3>4 DEF MeasurementFidelity, InReferenceSpace
  <2> HIDE DEF expected, e, f, window
  <2>3. SaidOf(r) = IF expected = Unavailable THEN "reference-evidence-unavailable" ELSE MeasurementFidelity(r, design, o, s, t)
    BY <1>1, <1>2, <1>4, <1>5, <1>6, <1>8 DEF SaidOf, RequirementStatus
  <2> QED BY <1>1, <2>2, <2>3 DEF expected, e, f, window, RegionNamed
<1> QED BY <1>3, <1>7, <1>8 DEF ValidSubject

(* What is said of a requirement on what cannot be seen.                   *)
LEMMA HiddenSaid ==
    ASSUME Given, NEW r \in Design.requirements,
           NEW b, b = IF r.subject.kind # "region-property" THEN r.subject.b ELSE r.subject.a,
           ~ (IsShown(r.subject.a) /\ IsShown(b))
    PROVE  SaidOf(r) \in UnavailableReasons
<1>1. PICK design, o, subject, bindings :
         design = Design /\ o = after /\ subject = r.subject /\ bindings = acceptance.reference.bindings
  OBVIOUS
<1>2. PICK s, t : /\ s = BoundTarget(o, bindings, subject.a)
                  /\ t = BoundTarget(o, bindings, subject.b)
  OBVIOUS
<1>3. /\ subject.kind = "region-property" => s \notin Eligible(o)
      /\ subject.kind # "region-property" => {s, t} \ Eligible(o) # {}
  BY <1>1, <1>2 DEF IsShown, BoundTo
<1>4. subject.kind \in {"region-property", "region-measurement", "region-relationship"}
  BY <1>1 DEF Given, ValidRequirements, ValidRequirement, ValidSubject
<1>5. CASE subject.kind = "region-property"
  <2>1. PropertyFidelity(r, design, o, s) = "candidate-evidence-unavailable"
    BY <1>3, <1>5 DEF PropertyFidelity
  <2> QED BY <1>1, <1>2, <1>5, <2>1 DEF SaidOf, RequirementStatus, UnavailableReasons
<1>6. CASE subject.kind = "region-measurement"
  <2>1. MeasurementFidelity(r, design, o, s, t) = "candidate-evidence-unavailable"
    BY <1>3, <1>6 DEF MeasurementFidelity
  <2> QED BY <1>1, <1>2, <1>6, <2>1 DEF SaidOf, RequirementStatus, UnavailableReasons
<1>7. CASE subject.kind = "region-relationship"
  <2>1. RelationshipFidelity(r, o, s, t) = "candidate-evidence-unavailable"
    BY <1>3, <1>7 DEF RelationshipFidelity
  <2> QED BY <1>1, <1>2, <1>7, <2>1 DEF SaidOf, RequirementStatus, UnavailableReasons
<1> QED BY <1>4, <1>5, <1>6, <1>7

(* What is said of a number is what the pixels say.                        *)
LEMMA NumberIsFaithful ==
    ASSUME Given, NEW r \in Design.requirements, r.subject.kind # "region-relationship"
    PROVE  Faithful(r) = Meaning(SaidOf(r))
<1>1. PICK a, b : a = r.subject.a /\ b = IF r.subject.kind # "region-property" THEN r.subject.b ELSE r.subject.a
  OBVIOUS
<1>2. CASE ~ (IsShown(a) /\ IsShown(b))
  <2>1. SaidOf(r) \in UnavailableReasons
    BY <1>1, <1>2, HiddenSaid
  <2>2. Faithful(r) = "unavailable"
    BY <1>1, <1>2, FaithfulTold
  <2> QED BY <2>1, <2>2 DEF Meaning
<1>3. CASE IsShown(a) /\ IsShown(b)
  <2>1. PICK subject, p, q, e, f, image :
           /\ subject = r.subject /\ p = RegionNamed(a) /\ q = RegionNamed(b)
           /\ e = Rect(after, BoundTo(a)) /\ f = Rect(after, BoundTo(b)) /\ image = Design.image
    OBVIOUS
  <2>2. Numeric(subject) /\ ValidTolerance(r.tolerance)
    BY <2>1 DEF Given, ValidRequirements, ValidRequirement, Numeric
  <2>3. Known(Design.regions, a) /\ Known(Design.regions, b)
    BY <1>1 DEF Given, ValidRequirements, RegionsNamed
  <2>4. HasExtent(p) /\ HasExtent(q) /\ HasExtent(e) /\ HasExtent(f) /\ HasSize(image)
    BY <1>3, <2>1, <2>3, RegionsAreDrawn, ShownIsBound
  <2>5. p.x >= 0 /\ p.y >= 0
    <3>1. PICK regions : regions = Design.regions
      OBVIOUS
    <3>2. RegionOf(regions, a) \in DOMAIN regions
      BY <2>3, <3>1, RegionsAreDrawn, RegionFound
    <3> QED BY <2>1, <3>1, <3>2 DEF Given, ValidRegions, RegionNamed
  <2> DEFINE designed == Reading(subject, p, q)
             found == Reading(subject, e, f)
             share == IF Across(subject) THEN image.width ELSE image.height
             window == Parts(Design, Across(subject))
             measured == Computed(subject, Stretched(e, image), Stretched(f, image))
  <2>6. Faithful(r) = IF ~ ScaleKnown(Design) \/ Unavailable \in {designed, found} THEN "unavailable"
                      ELSE PassIf(Agree(r, designed, found))
    BY <1>1, <1>3, <2>1, <2>2, FaithfulTold DEF Numeric
  <2>7. designed = Computed(subject, p, q) /\ found = Computed(subject, e, f)
    BY <2>2, <2>4, ComputedIsRead
  <2>8. SaidOf(r) = IF designed = Unavailable THEN "reference-evidence-unavailable"
                    ELSE IF ~ ScaleKnown(Design) THEN "coordinate-mapping-unavailable"
                    ELSE IF measured = Unavailable THEN "candidate-evidence-unavailable"
                    ELSE Pass(WithinReference(r.tolerance, window, window * designed, measured))
    BY <1>1, <1>3, <2>1, <2>7, NumberSaid
  <2>9. /\ designed # Unavailable => designed \in Nat
        /\ found # Unavailable => found \in Int
        /\ measured = Scaled(found, share)
    BY <2>2, <2>4, <2>5, <2>7, ComputedOfDesign, StretchedComputed
  <2>10. share \in Nat \ {0}
    BY <2>4 DEF HasSize
  <2>11. measured = Unavailable <=> found = Unavailable
    <3>1. CASE found # Unavailable
      <4>1. found * share \in Int
        BY <2>9, <2>10, <3>1
      <4> QED BY <2>9, <3>1, <4>1, UnavailableIsNoNumber DEF Scaled
    <3> QED BY <2>9, <3>1 DEF Scaled
  <2>12. CASE ~ ScaleKnown(Design) \/ designed = Unavailable \/ found = Unavailable
    <3>1. SaidOf(r) \in UnavailableReasons
      BY <2>8, <2>11, <2>12 DEF UnavailableReasons
    <3> QED BY <2>6, <2>12, <3>1 DEF Meaning
  <2>13. CASE ScaleKnown(Design) /\ designed # Unavailable /\ found # Unavailable
    <3>1. PICK d \in Nat, n \in Int : d = designed /\ n = found
      BY <2>9, <2>13
    <3>2. HasSize(Design.image) /\ HasSize(Design.applicability.viewport)
      BY <2>1, <2>4, <2>13, RegionsAreDrawn
    <3>3. Agree(r, d, n) <=> WithinReference(r.tolerance, window, window * d, n * share)
      BY <2>1, <2>2, <3>2, AgreementIsTolerance
    <3>4. measured = n * share
      BY <2>9, <2>13, <3>1 DEF Scaled
    <3> HIDE DEF designed, found, share, window, measured
    <3>5. SaidOf(r) = Pass(WithinReference(r.tolerance, window, window * d, n * share))
      BY <2>8, <2>11, <2>13, <3>1, <3>4
    <3>6. Faithful(r) = PassIf(Agree(r, d, n))
      BY <2>6, <2>13, <3>1
    <3> QED BY <3>3, <3>5, <3>6 DEF Pass, PassIf, Meaning, UnavailableReasons
  <2> QED BY <2>12, <2>13
<1> QED BY <1>2, <1>3

(* What the graph of the candidate says of two elements that are shown,    *)
(* and what their pixels say.                                              *)
LEMMA KindIsFaithful ==
    ASSUME NEW o, IsObservation(o), NEW s \in Eligible(o), NEW t \in Eligible(o), NEW kind \in PairwiseKinds,
           HasExtent(Rect(o, s)), HasExtent(Rect(o, t)), NEW inOrder \in BOOLEAN, inOrder = Precedes(o, s, t)
    PROVE  LET found == KindBetween(PairwiseRelationships(o), FamilyOf(kind), s, t)
           IN /\ kind = "follows-vertically" =>
                    /\ s # t /\ LieAs(kind, Rect(o, s), Rect(o, t), inOrder) => found = kind
                    /\ ~ (s # t /\ LieAs(kind, Rect(o, s), Rect(o, t), inOrder)) => found = Unavailable
              /\ kind # "follows-vertically" =>
                    /\ ~ inOrder => found = Unavailable
                    /\ inOrder => /\ s # t /\ found # Unavailable
                                  /\ found = kind <=> LieAs(kind, Rect(o, s), Rect(o, t), TRUE)
<1> DEFINE found == KindBetween(PairwiseRelationships(o), FamilyOf(kind), s, t)
<1>1. PICK f \in PairwiseFamilies : kind \in Families[f]
  BY DEF PairwiseKinds
<1>2. f \in DOMAIN Families /\ FamilyOf(kind) = f /\ kind # Unavailable
  BY <1>1, OneFamily, UnavailableIsNoKind DEF PairwiseFamilies
<1>3. f = "sequence" <=> kind = "follows-vertically"
  BY <1>1 DEF Families, PairwiseFamilies
<1>4. s \in Configured(o) /\ t \in Configured(o)
  BY DEF Eligible
<1>5. /\ s # t => (Precedes(o, s, t) <=> ~ Precedes(o, t, s))
      /\ ~ Precedes(o, s, s)
  BY <1>4, ConfiguredInOrder
<1>6. PICK a, b : a = Rect(o, s) /\ b = Rect(o, t)
  OBVIOUS
<1>7. CASE f = "sequence"
  <2>1. LieAs("follows-vertically", a, b, inOrder)
            <=> /\ Bottom(b) <= a.y + GeometryTolerance
                /\ Bottom(a) <= b.y + GeometryTolerance => ~ inOrder
    BY <1>6, FollowsAsShown
  <2> DEFINE follows == /\ s \in Eligible(o) /\ t \in Eligible(o)
                        /\ Bottom(Rect(o, t)) <= Rect(o, s).y + GeometryTolerance
                        /\ \/ Precedes(o, t, s)
                           \/ /\ Precedes(o, s, t)
                              /\ ~ (Bottom(Rect(o, s)) <= Rect(o, t).y + GeometryTolerance)
  <2>2. (follows => found = kind) /\ (~ follows => found = Unavailable)
    BY <1>2, <1>3, <1>7, SequenceFound
  <2>3. follows <=> s # t /\ LieAs("follows-vertically", a, b, inOrder)
    BY <1>5, <1>6, <2>1
  <2> HIDE DEF follows, found
  <2> QED BY <1>3, <1>6, <1>7, <2>2, <2>3 DEF found
<1>8. CASE f # "sequence"
  <2>1. f \in GeometricFamilies
    BY <1>1, <1>8 DEF PairwiseFamilies, GeometricFamilies, Families
  <2>2. /\ inOrder => found = KindShown(f, a, b) /\ found # Unavailable
        /\ ~ inOrder => found = Unavailable
    BY <1>2, <1>6, <2>1, KindFound
  <2>3. LieAs(kind, a, b, TRUE) <=> kind = KindShown(f, a, b)
    <3>1. PICK yes \in BOOLEAN : yes = TRUE
      OBVIOUS
    <3>2. LieAs(kind, a, b, yes) <=> kind = KindShown(f, a, b)
      BY <1>1, <1>6, <2>1, LiesAsShown
    <3> QED BY <3>1, <3>2
  <2>4. inOrder => s # t
    BY <1>5
  <2> HIDE DEF found
  <2> QED BY <1>3, <1>6, <1>8, <2>2, <2>3, <2>4 DEF found
<1> QED BY <1>7, <1>8

(* What is said of a relationship is what the pixels say.                  *)
LEMMA RelationshipIsFaithful ==
    ASSUME Given, NEW r \in Design.requirements, r.subject.kind = "region-relationship"
    PROVE  Faithful(r) = Meaning(SaidOf(r))
<1>1. PICK a, b, kind, o, regions, bindings, subject, s, t :
         /\ subject = r.subject /\ a = subject.a /\ b = subject.b /\ kind = subject.relationship /\ o = after
         /\ regions = Design.regions /\ bindings = acceptance.reference.bindings
         /\ s = BoundTo(a) /\ t = BoundTo(b)
  OBVIOUS
<1>2. /\ ValidSubject(subject) /\ kind \in PairwiseKinds
      /\ Known(regions, a) /\ Known(regions, b) /\ DrawnRegions(regions) /\ IsObservation(o)
  BY <1>1, RegionsAreDrawn DEF Given, ValidRequirements, ValidRequirement, ValidSubject, RegionsNamed
<1>3. PICK p, q : p = regions[RegionOf(regions, a)] /\ q = regions[RegionOf(regions, b)]
  OBVIOUS
<1>4. PICK d \in BOOLEAN : d <=> LieAs(kind, p, q, TRUE)
  <2>1. CASE LieAs(kind, p, q, TRUE)
    BY <2>1
  <2>2. CASE ~ LieAs(kind, p, q, TRUE)
    BY <2>2
  <2> QED BY <2>1, <2>2
<1>5. (Expectation(subject, regions) # Unavailable /\ Exhibits(regions, subject)) <=> {a, b} \subseteq DOMAIN regions /\ d
  BY <1>1, <1>2, <1>3, <1>4, ExhibitsByPixels
<1>6. CASE ~ (IsShown(a) /\ IsShown(b))
  <2>1. SaidOf(r) \in UnavailableReasons
    BY <1>1, <1>6, HiddenSaid
  <2>2. Faithful(r) = "unavailable"
    BY <1>1, <1>6, FaithfulTold
  <2> QED BY <2>1, <2>2 DEF Meaning
<1>7. CASE IsShown(a) /\ IsShown(b)
  <2>1. /\ s # Unavailable /\ t # Unavailable /\ s \in Eligible(o) /\ t \in Eligible(o)
        /\ HasExtent(Rect(o, s)) /\ HasExtent(Rect(o, t))
    BY <1>1, <1>7, ShownIsBound DEF IsShown
  <2>2. PICK inOrder \in BOOLEAN : inOrder = Precedes(o, s, t)
    BY DEF Precedes
  <2>3. PICK e, f : e = Rect(o, s) /\ f = Rect(o, t)
    OBVIOUS
  <2>4. Faithful(r) =
            IF ~ ({a, b} \subseteq DOMAIN regions /\ s # t) \/ ~ d THEN "unavailable"
            ELSE IF kind = "follows-vertically"
            THEN IF LieAs(kind, e, f, inOrder) THEN "pass" ELSE "unavailable"
            ELSE IF inOrder THEN PassIf(LieAs(kind, e, f, TRUE)) ELSE "unavailable"
    BY <1>1, <1>3, <1>4, <1>7, <2>2, <2>3, FaithfulTold DEF RegionNamed
  <2> DEFINE found == KindBetween(PairwiseRelationships(o), FamilyOf(kind), s, t)
  <2>5. RelationshipFidelity(r, o, s, t) = IF found = Unavailable THEN "candidate-evidence-unavailable"
                                           ELSE Pass(found = kind)
    <3>1. {s, t} \ Eligible(o) = {}
      BY <2>1
    <3> QED BY <1>1, <3>1 DEF RelationshipFidelity
  <2>6. SaidOf(r) = IF Expectation(subject, regions) = Unavailable THEN "reference-evidence-unavailable"
                    ELSE IF ~ Exhibits(regions, subject) THEN "reference-relationship-not-exhibited"
                    ELSE RelationshipFidelity(r, o, s, t)
    BY <1>1, <2>1 DEF SaidOf, RequirementStatus, BoundTo
  <2>7. /\ kind = "follows-vertically" =>
              /\ s # t /\ LieAs(kind, e, f, inOrder) => found = kind
              /\ ~ (s # t /\ LieAs(kind, e, f, inOrder)) => found = Unavailable
        /\ kind # "follows-vertically" =>
              /\ ~ inOrder => found = Unavailable
              /\ inOrder => s # t /\ found # Unavailable /\ (found = kind <=> LieAs(kind, e, f, TRUE))
    BY <1>2, <2>1, <2>2, <2>3, KindIsFaithful
  <2>8. kind # Unavailable
    BY <1>2, UnavailableIsNoKind DEF PairwiseKinds, PairwiseFamilies
  <2> HIDE DEF found
  <2>9. CASE ~ ({a, b} \subseteq DOMAIN regions /\ d)
    <3>1. SaidOf(r) \in UnavailableReasons
      BY <1>5, <2>6, <2>9 DEF UnavailableReasons
    <3>2. Faithful(r) = "unavailable"
      BY <2>4, <2>9
    <3> QED BY <3>1, <3>2 DEF Meaning
  <2>10. CASE {a, b} \subseteq DOMAIN regions /\ d
    <3>1. SaidOf(r) = IF found = Unavailable THEN "candidate-evidence-unavailable" ELSE Pass(found = kind)
      BY <1>5, <2>5, <2>6, <2>10
    <3>2. CASE kind = "follows-vertically"
      <4>1. CASE s # t /\ LieAs(kind, e, f, inOrder)
        BY <2>4, <2>7, <2>8, <2>10, <3>1, <3>2, <4>1 DEF Meaning, UnavailableReasons, Pass
      <4>2. CASE ~ (s # t /\ LieAs(kind, e, f, inOrder))
        BY <2>4, <2>7, <2>10, <3>1, <3>2, <4>2 DEF Meaning, UnavailableReasons
      <4> QED BY <4>1, <4>2
    <3>3. CASE kind # "follows-vertically" /\ ~ inOrder
      BY <2>4, <2>7, <2>10, <3>1, <3>3 DEF Meaning, UnavailableReasons
    <3>4. CASE kind # "follows-vertically" /\ inOrder
      <4>1. SaidOf(r) = Pass(found = kind) /\ Faithful(r) = PassIf(LieAs(kind, e, f, TRUE))
        BY <2>4, <2>7, <2>10, <3>1, <3>4
      <4>2. found = kind <=> LieAs(kind, e, f, TRUE)
        BY <2>7, <3>4
      <4> QED BY <4>1, <4>2 DEF Meaning, UnavailableReasons, Pass, PassIf
    <3> QED BY <3>2, <3>3, <3>4
  <2> QED BY <2>9, <2>10
<1> QED BY <1>6, <1>7

-----------------------------------------------------------------------------
(* A reference that passes                                                 *)

(* What is said of any requirement is what the pixels say.                 *)
LEMMA SaidIsFaithful ==
    ASSUME Given
    PROVE  \A r \in Design.requirements : Faithful(r) = Meaning(SaidOf(r))
BY NumberIsFaithful, RelationshipIsFaithful

(* What the evidence so far was measured on.                               *)
MeasuredInvariant ==
    /\ step \in {"prepare", "capture", "compare", "contract", "reference", "finalize", "done"}
    /\ after # None => after \in Candidates
    /\ step \in {"compare", "contract", "reference"} \/ comparison # None \/ fidelity # None => after \in Candidates
    /\ comparison # None => comparison = Compare(before, after)
    /\ fidelity # None => NotEvaluable(Design, after) \/ ValidBindings(acceptance.reference.bindings, Design)

(* The initial state satisfies it.                                         *)
LEMMA MeasuredInit == Init => MeasuredInvariant
BY DEF Init, MeasuredInvariant

(* Every step of the check preserves it.                                   *)
LEMMA MeasuredStep ==
    ASSUME RollupInvariant, MeasuredInvariant, [Next]_vars
    PROVE  MeasuredInvariant'
<1>1. /\ step \in {"prepare", "capture", "compare"} => comparison = None
      /\ step \in {"prepare", "capture", "compare", "contract", "reference"} => fidelity = None
  BY DEF RollupInvariant
<1> USE DEF MeasuredInvariant
<1>2. CASE PrepareAcceptance
  BY <1>1, <1>2 DEF PrepareAcceptance
<1>3. CASE CaptureCandidate
  BY <1>1, <1>3 DEF CaptureCandidate
<1>4. CASE UNCHANGED inputs /\ ~ PrepareAcceptance /\ ~ CaptureCandidate
  <2>1. Design' = Design /\ UNCHANGED << before, after, acceptance >>
    BY <1>4 DEF inputs, Design
  <2>2. (NotEvaluable(Design, after) \/ ValidBindings(acceptance.reference.bindings, Design))'
            <=> NotEvaluable(Design, after) \/ ValidBindings(acceptance.reference.bindings, Design)
    BY <2>1
  <2>3. CASE AcceptanceRefused
    BY <1>1, <2>1, <2>2, <2>3 DEF AcceptanceRefused
  <2>4. CASE CaptureFails
    BY <1>1, <2>1, <2>2, <2>4 DEF CaptureFails
  <2>5. CASE CompareObservations
    BY <1>1, <2>1, <2>2, <2>5 DEF CompareObservations
  <2>6. CASE ComparisonFails
    BY <1>1, <2>1, <2>2, <2>6 DEF ComparisonFails
  <2>7. CASE EvaluateContract
    BY <1>1, <2>1, <2>2, <2>7 DEF EvaluateContract
  <2>8. CASE EvaluationFails
    BY <1>1, <2>1, <2>2, <2>8 DEF EvaluationFails
  <2>9. CASE SkipReference
    BY <1>1, <2>1, <2>2, <2>9 DEF SkipReference
  <2>10. CASE EvaluateReference
    <3>1. NotEvaluable(Design, after) \/ ValidBindings(acceptance.reference.bindings, Design)
      BY <2>10 DEF EvaluateReference, Design
    <3>2. step = "reference" /\ step' = "finalize" /\ UNCHANGED comparison
      BY <2>10 DEF EvaluateReference
    <3> QED BY <1>1, <2>1, <2>2, <3>1, <3>2
  <2>11. CASE ReferenceFails
    BY <1>1, <2>1, <2>2, <2>11 DEF ReferenceFails
  <2>12. CASE Finalize
    BY <1>1, <2>1, <2>2, <2>12 DEF Finalize
  <2>13. CASE UNCHANGED vars
    BY <1>1, <2>1, <2>2, <2>13 DEF vars
  <2> QED BY <1>4, <2>1, <2>3, <2>4, <2>5, <2>6, <2>7, <2>8, <2>9, <2>10, <2>11, <2>12, <2>13 DEF Next
<1> QED
  BY <1>2, <1>3, <1>4 DEF Next, vars, AcceptanceRefused, CaptureFails, CompareObservations, ComparisonFails,
     EvaluateContract, EvaluationFails, SkipReference, EvaluateReference, ReferenceFails, Finalize

(* The three invariants together.                                          *)
LEMMA AlwaysMeasured ==
    ASSUME NothingIsNoResult
    PROVE  Spec => [](ProgressInvariant /\ RollupInvariant /\ MeasuredInvariant)
<1>1. Init => ProgressInvariant /\ RollupInvariant /\ MeasuredInvariant
  BY ProgressInit, RollupInit, MeasuredInit
<1>2. ProgressInvariant /\ RollupInvariant /\ MeasuredInvariant /\ [Next]_vars
          => (ProgressInvariant /\ RollupInvariant /\ MeasuredInvariant)'
  BY ProgressStep, RollupStep, MeasuredStep
<1> QED BY <1>1, <1>2, PTL DEF Spec

(* What the reference's evaluation was of.                                 *)
LEMMA EvaluationOfReference ==
    ASSUME ProgressInvariant, RollupInvariant, MeasuredInvariant, fidelity # None
    PROVE  /\ acceptance.reference # NotConfigured /\ after \in Candidates
           /\ fidelity = EvaluateFidelity(Design, after, acceptance.reference.bindings)
           /\ ValidRequirements(Design.requirements, Design.regions)
           /\ reference = ReferenceState(fidelity)
           /\ ~ NotEvaluable(Design, after) => Given
<1>1. step \in {"finalize", "done"}
  BY DEF RollupInvariant, MeasuredInvariant
<1>2. /\ acceptance.reference # NotConfigured /\ reference = ReferenceState(fidelity)
      /\ fidelity = EvaluateFidelity(Design, after, acceptance.reference.bindings)
  BY <1>1 DEF RollupInvariant
<1>3. acceptance \in Acceptances /\ after \in Candidates
  BY <1>1 DEF ProgressInvariant, MeasuredInvariant
<1>4. /\ IsDesign(Design) /\ ValidRegions(Design.regions, Design.image)
      /\ ValidRequirements(Design.requirements, Design.regions)
  BY <1>2, <1>3, AcceptancesAreWellFormed DEF Design
<1>5. IsObservation(after) /\ NamesDiffer(after) /\ Unavailable \notin Configured(after)
  BY <1>3, ObservationsAreWellFormed, NamesAreToldApart, UnavailableIsNoTarget
<1>6. ~ NotEvaluable(Design, after) => ValidBindings(acceptance.reference.bindings, Design)
  BY DEF MeasuredInvariant
<1> QED BY <1>2, <1>3, <1>4, <1>5, <1>6 DEF Given

(* The evaluation of a reference through regions, bindings, targets, a     *)
(* scale and two graphs of relationships says of every requirement what    *)
(* the pixels of the design and of the candidate say.                      *)
THEOREM AlwaysFaithful == ASSUME NothingIsNoResult PROVE Spec => []FidelityByGeometry
<1>1. ProgressInvariant /\ RollupInvariant /\ MeasuredInvariant => FidelityByGeometry
  <2> SUFFICES ASSUME ProgressInvariant, RollupInvariant, MeasuredInvariant,
                      fidelity # None, fidelity.state # "not-evaluated"
               PROVE  /\ {e.requirement : e \in fidelity.results} = Design.requirements
                      /\ \A e \in fidelity.results :
                            Faithful(e.requirement) = IF e.status \in UnavailableReasons THEN "unavailable" ELSE e.status
    BY DEF FidelityByGeometry
  <2>1. /\ fidelity = EvaluateFidelity(Design, after, acceptance.reference.bindings)
        /\ ValidRequirements(Design.requirements, Design.regions)
        /\ ~ NotEvaluable(Design, after) => Given
    BY EvaluationOfReference
  <2>2. PICK ref, candidate, bindings : ref = Design /\ candidate = after /\ bindings = acceptance.reference.bindings
    OBVIOUS
  <2>3. PICK f : f = EvaluateFidelity(ref, candidate, bindings)
    OBVIOUS
  <2>4. f = fidelity /\ f.state # "not-evaluated"
    BY <2>1, <2>2, <2>3
  <2>5. /\ ~ NotEvaluable(ref, candidate)
        /\ \A r \in ref.requirements : \E e \in f.results : e.requirement = r
        /\ \A e \in f.results : /\ e.requirement \in ref.requirements
                                /\ e.status = RequirementStatus(e.requirement, ref, candidate, bindings)
    BY <2>1, <2>2, <2>3, <2>4, FidelityResults
  <2>6. \A r \in Design.requirements : Faithful(r) = Meaning(SaidOf(r))
    BY <2>1, <2>2, <2>5, SaidIsFaithful
  <2>7. \A e \in fidelity.results : e.requirement \in Design.requirements /\ e.status = SaidOf(e.requirement)
    BY <2>2, <2>4, <2>5 DEF SaidOf
  <2>8. {e.requirement : e \in fidelity.results} = Design.requirements
    BY <2>2, <2>4, <2>5
  <2> QED BY <2>6, <2>7, <2>8 DEF Meaning
<1> QED BY <1>1, AlwaysMeasured, PTL

(* A check that ends PASS on a reference found every requirement of it in  *)
(* the candidate, in the viewport and the state that it is about.          *)
THEOREM AlwaysFaithfulPass == ASSUME NothingIsNoResult PROVE Spec => []ReferencePassMeansFaithful
<1>1. ProgressInvariant /\ RollupInvariant /\ MeasuredInvariant => ReferencePassMeansFaithful
  <2> SUFFICES ASSUME ProgressInvariant, RollupInvariant, MeasuredInvariant, Done, reference = "PASS"
               PROVE  ReferencePassMeansFaithful
    BY DEF ReferencePassMeansFaithful
  <2>1. fidelity # None
    BY DEF RollupInvariant, Done
  <2>2. /\ fidelity = EvaluateFidelity(Design, after, acceptance.reference.bindings)
        /\ ValidRequirements(Design.requirements, Design.regions)
        /\ reference = ReferenceState(fidelity)
        /\ ~ NotEvaluable(Design, after) => Given
    BY <2>1, EvaluationOfReference
  <2>3. PICK ref, candidate, bindings : ref = Design /\ candidate = after /\ bindings = acceptance.reference.bindings
    OBVIOUS
  <2>4. PICK f : f = EvaluateFidelity(ref, candidate, bindings)
    OBVIOUS
  <2>5. f = fidelity /\ f.state = "pass"
    BY <2>2, <2>3, <2>4 DEF ReferenceState
  <2>6. /\ ~ NotEvaluable(ref, candidate)
        /\ \A e \in f.results : e.status = "pass"
        /\ \A r \in ref.requirements :
              \E e \in f.results : e.requirement = r /\ e.status = RequirementStatus(r, ref, candidate, bindings)
    BY <2>2, <2>3, <2>4, <2>5, FidelityResults
  <2>7. \A r \in Design.requirements : Faithful(r) = "pass"
    <3>1. \A r \in Design.requirements : SaidOf(r) = "pass"
      BY <2>3, <2>6 DEF SaidOf
    <3> QED BY <2>2, <2>3, <2>6, <3>1, SaidIsFaithful DEF Meaning, UnavailableReasons
  <2>8. Design.requirements # {}
    BY <2>3, <2>6 DEF NotEvaluable, Adequacy
  <2>9. Compatible(Design, after)
    BY <2>3, <2>6 DEF NotEvaluable
  <2>10. Design.applicability.viewport \in {Unavailable, after.context.viewport}
    BY <2>2, <2>3, <2>6, <2>9 DEF Compatible, Mismatched, Given, IsObservation
  <2>11. \A d \in StateDimensions :
            \/ Design.applicability.state[d] = after.context.state[d]
            \/ Unavailable \in {Design.applicability.state[d], after.context.state[d]}
    BY <2>9 DEF Compatible, Mismatched
  <2> QED BY <2>7, <2>8, <2>10, <2>11 DEF ReferencePassMeansFaithful
<1> QED BY <1>1, AlwaysMeasured, PTL

-----------------------------------------------------------------------------
(* A handoff, an attempt and its review                                    *)

(* Only the clauses of a contract are evaluated.                           *)
LEMMA ClausesDecide ==
    ASSUME NEW k, NEW m, m.baseline = k.baseline, m.change = k.change, NEW b, NEW a, NEW c
    PROVE  Evaluate(m, b, a, c) = Evaluate(k, b, a, c)
<1>1. /\ ActiveBaseline(m) = ActiveBaseline(k)
      /\ \A x : UnknownReferences(m, x) = UnknownReferences(k, x)
  BY DEF ActiveBaseline, Superseded, BaselineIds, UnknownReferences
<1>2. AuthoredPrimitives(m) = AuthoredPrimitives(k)
  BY <1>1 DEF AuthoredPrimitives
<1>3. UnexpectedChanges(m, c) = UnexpectedChanges(k, c)
  BY <1>2 DEF UnexpectedChanges
<1>4. /\ \A x : BaselineStatus(m, x, b, a, c) = BaselineStatus(k, x, b, a, c)
      /\ \A x : ChangeStatus(m, x, b, a, c) = ChangeStatus(k, x, b, a, c)
  BY <1>1 DEF BaselineStatus, ChangeStatus
<1>5. ClauseResults(m, b, a, c) = ClauseResults(k, b, a, c)
  BY <1>1, <1>4 DEF ClauseResults
<1> QED BY <1>3, <1>5 DEF Evaluate

(* The overall state of an attempt.                                        *)
LEMMA OverallMeans ==
    ASSUME NEW f, NEW e
    PROVE  /\ OverallState(f, e) = "pass" <=> f.state = "pass" /\ e.verdict = "PASS"
           /\ OverallState(f, e) = "not-evaluated" <=> f.state = "not-evaluated"
<1>1. CASE f.state = "not-evaluated"
  BY <1>1 DEF OverallState
<1>2. CASE f.state = "pass" /\ e.verdict = "PASS"
  BY <1>2 DEF OverallState
<1>3. CASE f.state # "not-evaluated" /\ ~ (f.state = "pass" /\ e.verdict = "PASS")
  <2>1. OverallState(f, e) = "fail"
    BY <1>3 DEF OverallState
  <2> QED BY <1>3, <2>1
<1> QED BY <1>1, <1>2, <1>3

(* The status of a finished check on a contract and a reference, from what *)
(* a review of its candidate evaluates.                                    *)
LEMMA StatusIsOverall ==
    ASSUME ProgressInvariant, RollupInvariant, MeasuredInvariant, Done,
           acceptance.reference # NotConfigured, acceptance.contract # NotConfigured
    PROVE  LET f == EvaluateFidelity(Design, after, acceptance.reference.bindings)
               e == Evaluate(Authored, before, after, Compare(before, after))
           IN /\ RanThrough => (f.state = "pass" /\ e.verdict = "PASS" <=> status = "PASS")
              /\ status = "PASS" => f.state = "pass" /\ e.verdict = "PASS"
              /\ f.state = "not-evaluated" => status = "BLOCKED"
<1> DEFINE f == EvaluateFidelity(Design, after, acceptance.reference.bindings)
           e == Evaluate(Authored, before, after, Compare(before, after))
<1>1. /\ blockers <=> ContractUnjudged \/ ReferenceUnjudged
      /\ status = FinalStatus
  BY DEF RollupInvariant, Done
<1>2. fidelity # None => fidelity = f /\ reference = ReferenceState(f)
  BY EvaluationOfReference
<1>3. comparison # None => comparison = Compare(before, after)
  BY DEF MeasuredInvariant
<1>4. evaluation # None => evaluation = e /\ contract = ContractState(e) /\ comparison.comparable
  BY DEF ProgressInvariant, Judged, Authored
<1>5. /\ comparison = None \/ fidelity = None \/ evaluation = None => status = "BLOCKED"
      /\ comparison # None /\ ~ comparison.comparable => status = "BLOCKED"
  BY <1>1 DEF ContractUnjudged, ReferenceUnjudged, FinalStatus
<1>6. f.state = "not-evaluated" => status = "BLOCKED"
  <2>1. CASE fidelity # None /\ f.state = "not-evaluated"
    BY <1>1, <1>2, <2>1 DEF ReferenceState, FinalStatus
  <2> QED BY <1>5, <2>1
<1>7. ASSUME fidelity # None, comparison # None, comparison.comparable, evaluation # None
      PROVE  f.state = "pass" /\ e.verdict = "PASS" <=> status = "PASS"
  <2>1. PICK s, o, p, c : s = acceptance /\ o = before /\ p = after /\ c = Compare(before, after)
    OBVIOUS
  <2>2. PICK ev : ev = Evaluate(s.contract, o, p, c)
    OBVIOUS
  <2>3. ev = e /\ c.comparable
    BY <1>3, <1>7, <2>1, <2>2 DEF Authored
  <2>4. /\ ev.verdict = "PASS" <=> ev.unexpected = {} /\ \A r \in ev.results : r.status = "pass"
        /\ ev.verdict \in {"PASS", "FAIL"}
    <3>1. s \in Acceptances /\ s.contract # NotConfigured
      BY <2>1 DEF ProgressInvariant, Done
    <3>2. /\ Evaluate(s.contract, o, p, c).verdict = "PASS"
                <=> /\ Evaluate(s.contract, o, p, c).unexpected = {}
                    /\ \A r \in Evaluate(s.contract, o, p, c).results : r.status = "pass"
          /\ Evaluate(s.contract, o, p, c).verdict \in {"PASS", "FAIL"}
      BY <2>3, <3>1, ContractResults
    <3> QED BY <2>2, <3>2
  <2>5. ContractState(e) = "PASS" <=> e.verdict = "PASS"
    <3>1. ev.verdict = "PASS" => Unjudged(ev.results) = {}
      BY <2>4 DEF Unjudged
    <3> QED BY <2>3, <3>1 DEF ContractState
  <2>6. ContractState(e) \in {"PASS", "FAIL", "BLOCKED"} /\ (Unjudged(e.results) # {} <=> ContractState(e) = "BLOCKED")
    BY <2>3, <2>4 DEF ContractState
  <2>7. PICK ref, candidate, bindings : ref = Design /\ candidate = after /\ bindings = acceptance.reference.bindings
    OBVIOUS
  <2>8. PICK g : g = EvaluateFidelity(ref, candidate, bindings)
    OBVIOUS
  <2>9. ValidRequirements(ref.requirements, ref.regions)
    BY <1>7, <2>7, EvaluationOfReference
  <2>10. g.state = "pass" => \A r \in g.results : r.status = "pass"
    BY <2>8, <2>9, FidelityResults
  <2>11. g = f
    BY <2>7, <2>8
  <2> HIDE DEF f, e
  <2>12. ReferenceState(f) = "PASS" <=> f.state = "pass"
    BY <2>10, <2>11 DEF ReferenceState, Unjudged
  <2>13. ReferenceState(f) \in {"PASS", "FAIL", "BLOCKED"}
    BY ReferenceStateType
  <2>14. contract = ContractState(e) /\ reference = ReferenceState(f) /\ evaluation = e /\ fidelity = f
    BY <1>2, <1>4, <1>7
  <2>15. blockers <=> ContractState(e) = "BLOCKED" \/ ReferenceState(f) = "BLOCKED"
    BY <1>1, <1>7, <2>6, <2>14 DEF ContractUnjudged, ReferenceUnjudged
  <2>16. status = "PASS" <=> contract = "PASS" /\ reference = "PASS"
    BY <1>1, <2>6, <2>13, <2>14, <2>15 DEF FinalStatus
  <2> QED BY <2>5, <2>12, <2>14, <2>16
<1> HIDE DEF f, e
<1>8. /\ RanThrough => (f.state = "pass" /\ e.verdict = "PASS" <=> status = "PASS")
      /\ status = "PASS" => f.state = "pass" /\ e.verdict = "PASS"
  <2>1. CASE fidelity # None /\ comparison # None /\ comparison.comparable /\ evaluation # None
    BY <1>7, <2>1
  <2>2. CASE comparison = None \/ fidelity = None \/ evaluation = None
    <3>1. status # "PASS"
      BY <1>5, <2>2
    <3>2. RanThrough => comparison # None /\ fidelity # None /\ ~ comparison.comparable
      BY <2>2 DEF RanThrough
    <3>3. ~ Compare(before, after).comparable => e.verdict # "PASS"
      BY DEF e, Evaluate
    <3> QED BY <1>3, <3>1, <3>2, <3>3
  <2>3. CASE comparison # None /\ fidelity # None /\ evaluation # None /\ ~ comparison.comparable
    BY <1>4, <2>3
  <2> QED BY <2>1, <2>2, <2>3
<1> QED BY <1>6, <1>8 DEF f, e

(* The handoff, the recorded attempt and the review speak of one           *)
(* correction, and the review lets a candidate be approved exactly when    *)
(* the check passes it.                                                    *)
THEOREM AlwaysAgrees == ASSUME NothingIsNoResult PROVE Spec => []ReviewAgreesWithCheck
<1>1. ProgressInvariant /\ RollupInvariant /\ MeasuredInvariant => ReviewAgreesWithCheck
  <2> SUFFICES ASSUME ProgressInvariant, RollupInvariant, MeasuredInvariant,
                      Done, acceptance.reference # NotConfigured, NEW source \in Baselines
               PROVE  Accord(ScopeOf(source), PrepareHandoff(ScopeOf(source), ChangeOf),
                             RecordedCorrection(ScopeOf(source), ChangeOf, after))
    BY DEF ReviewAgreesWithCheck
  <2>1. PICK scope, change, handoff, recorded, terms :
           /\ scope = ScopeOf(source) /\ change = ChangeOf
           /\ handoff = PrepareHandoff(scope, change) /\ recorded = RecordedCorrection(scope, change, after)
           /\ terms = TermsOf(scope, change)
    OBVIOUS
  <2>2. PICK prepared : prepared = Prepare(terms, scope.before)
    OBVIOUS
  <2>3. prepared.status = "handoff-ready" => Coherent(terms) /\ prepared.review = ReviewIdentity(terms)
    BY <2>2 DEF Prepare, Prepared, Refused
  <2>4. /\ HandoffOf(prepared).status \in {"refused", "available"}
        /\ HandoffOf(prepared).status = "available" =>
              prepared.status = "handoff-ready" /\ HandoffOf(prepared).review = prepared.review
    BY DEF HandoffOf, Refused
  <2>5. /\ handoff.status = "not-applicable" => ~ Correctable(scope, change)
        /\ handoff.status = "available" => Correctable(scope, change) /\ handoff = HandoffOf(prepared)
    <3>1. CASE NotEvaluable(scope.reference, scope.before) \/ ~ ValidBindings(scope.bindings, scope.reference)
      BY <2>1, <3>1 DEF PrepareHandoff, Refused
    <3>2. CASE /\ ~ (NotEvaluable(scope.reference, scope.before) \/ ~ ValidBindings(scope.bindings, scope.reference))
               /\ ~ Correctable(scope, change)
      BY <2>1, <3>2 DEF PrepareHandoff
    <3>3. CASE /\ ~ (NotEvaluable(scope.reference, scope.before) \/ ~ ValidBindings(scope.bindings, scope.reference))
               /\ Correctable(scope, change)
      <4>1. handoff = HandoffOf(prepared)
        BY <2>1, <2>2, <3>3 DEF PrepareHandoff
      <4> QED BY <2>4, <3>3, <4>1
    <3> QED BY <3>1, <3>2, <3>3
  <2>6. handoff.status = "not-applicable" => recorded = None
    BY <2>1, <2>5 DEF RecordedCorrection
  <2>7. ASSUME handoff.status = "available"
        PROVE  ReviewAnswers(ReviewAttempt(terms, handoff.review, after), recorded)
    <3>1. Correctable(scope, change) /\ Coherent(terms) /\ handoff.review = ReviewIdentity(terms)
      BY <2>3, <2>4, <2>5, <2>7
    <3>2. Authored # NotConfigured
      BY <2>1, <3>1 DEF Correctable, ScopeOf
    <3>3. /\ terms.reference = Design /\ terms.bindings = acceptance.reference.bindings /\ terms.before = before
          /\ terms.baseline = Authored.baseline /\ terms.change = Authored.change
      BY <2>1, <3>2 DEF TermsOf, ScopeOf, ChangeOf
    <3>4. recorded = AttemptIdentity(ReviewIdentity(terms), after)
      BY <2>1, <3>1 DEF RecordedCorrection
    <3>5. PICK f, e : /\ f = EvaluateFidelity(Design, after, acceptance.reference.bindings)
                      /\ e = Evaluate(Authored, before, after, Compare(before, after))
      OBVIOUS
    <3>6. Evaluate([baseline |-> terms.baseline, change |-> terms.change], before, after, Compare(before, after)) = e
      <4>1. PICK k, m, b, a, c : /\ k = Authored /\ m = [baseline |-> terms.baseline, change |-> terms.change]
                                 /\ b = before /\ a = after /\ c = Compare(before, after)
        OBVIOUS
      <4>2. m.baseline = k.baseline /\ m.change = k.change
        BY <3>3, <4>1
      <4>3. Evaluate(m, b, a, c) = Evaluate(k, b, a, c)
        BY <4>2, ClausesDecide
      <4> QED BY <3>5, <4>1, <4>3
    <3>7. ReviewAttempt(terms, handoff.review, after)
            = Reviewed(AttemptIdentity(ReviewIdentity(terms), after), OverallState(f, e))
      BY <3>1, <3>3, <3>5, <3>6 DEF ReviewAttempt
    <3>8. /\ OverallState(f, e) = "pass" <=> f.state = "pass" /\ e.verdict = "PASS"
          /\ OverallState(f, e) = "not-evaluated" <=> f.state = "not-evaluated"
      BY OverallMeans
    <3>9. /\ RanThrough => (f.state = "pass" /\ e.verdict = "PASS" <=> status = "PASS")
          /\ status = "PASS" => f.state = "pass" /\ e.verdict = "PASS"
          /\ f.state = "not-evaluated" => status = "BLOCKED"
      BY <3>2, <3>5, StatusIsOverall DEF Authored
    <3> DEFINE review == Reviewed(AttemptIdentity(ReviewIdentity(terms), after), OverallState(f, e))
    <3>10. /\ review.status = "reviewed" /\ review.attempt = recorded /\ review.overall = OverallState(f, e)
           /\ review.approvalEligible <=> OverallState(f, e) = "pass"
      BY <3>4 DEF Reviewed
    <3> HIDE DEF review
    <3> QED BY <3>7, <3>8, <3>9, <3>10 DEF ReviewAnswers, review
  <2> QED BY <2>1, <2>6, <2>7 DEF Accord
<1> QED BY <1>1, AlwaysMeasured, PTL
=============================================================================
