------------------------- MODULE AgentContext_proofs -------------------------
(***************************************************************************)
(* For every bound and every request: a required loss is visible in the    *)
(* context, the bounds cost a task what it needs least, a target is told   *)
(* correlated only on a single candidate, and an attachment never makes a  *)
(* context look better.                                                    *)
(***************************************************************************)
EXTENDS AgentContext, FiniteSetTheorems, NaturalsInduction, WellFoundedInduction, TLAPS

-----------------------------------------------------------------------------
(* The first of a set, in an order.                                        *)

\* A nonempty set of natural numbers has a least element.
LEMMA NatMin ==
    ASSUME NEW T \in SUBSET Nat, T # {}
    PROVE  \E x \in T : \A y \in T : x <= y
<1>1. PICK x \in T : \A y \in T : ~ (<<y, x>> \in OpToRel(<, Nat))
  BY NatLessThanWellFounded, WFMin
<1>2. \A y \in T : ~ (y < x)
  BY <1>1 DEF OpToRel
<1> QED BY <1>2

Earlier(S, R, x) == {y \in S : <<y, x>> \in R}

Chosen(S, R, n) == {x \in S : Cardinality(Earlier(S, R, x)) < n}

StrictOrder(S, R) ==
    /\ \A x \in S : <<x, x>> \notin R
    /\ \A x, y \in S : x # y => <<x, y>> \in R \/ <<y, x>> \in R
    /\ \A x, y, z \in S : <<x, y>> \in R /\ <<y, z>> \in R => <<x, z>> \in R

\* A nonempty finite set has a first element.
LEMMA Earliest ==
    ASSUME NEW S, IsFiniteSet(S), NEW R, StrictOrder(S, R), NEW T \in SUBSET S, T # {}
    PROVE  \E x \in T : \A y \in T : y # x => <<x, y>> \in R
<1> DEFINE count == [x \in T |-> Cardinality(Earlier(T, R, x))]
<1>1. \A x \in T : count[x] \in Nat
  <2> SUFFICES ASSUME NEW x \in T PROVE Cardinality(Earlier(T, R, x)) \in Nat
    OBVIOUS
  <2>1. Earlier(T, R, x) \in SUBSET S
    BY DEF Earlier
  <2> QED BY <2>1, FS_Subset, FS_CardinalityType
<1> DEFINE counts == {count[x] : x \in T}
<1>2. PICK x \in T : \A y \in T : count[x] <= count[y]
  <2>1. counts \in SUBSET Nat /\ counts # {}
    BY <1>1
  <2>2. PICK k \in counts : \A l \in counts : k <= l
    <3> HIDE DEF counts
    <3> QED BY <2>1, NatMin
  <2> QED BY <2>2
<1>3. ASSUME NEW y \in T, <<y, x>> \in R PROVE FALSE
  <2>1. Earlier(T, R, x) \in SUBSET S /\ Earlier(T, R, y) \in SUBSET Earlier(T, R, x)
    BY <1>3 DEF Earlier, StrictOrder
  <2>2. y \in Earlier(T, R, x) /\ y \notin Earlier(T, R, y)
    BY <1>3 DEF Earlier, StrictOrder
  <2>3. IsFiniteSet(Earlier(T, R, x))
    BY <2>1, FS_Subset
  <2>4. /\ Cardinality(Earlier(T, R, y)) <= Cardinality(Earlier(T, R, x))
        /\ Cardinality(Earlier(T, R, x)) # Cardinality(Earlier(T, R, y))
    BY <2>1, <2>2, <2>3, FS_Subset
  <2>5. count[x] <= count[y] /\ count[x] \in Nat /\ count[y] \in Nat
    BY <1>1, <1>2
  <2> QED BY <2>4, <2>5
<1> QED BY <1>3 DEF StrictOrder

\* And a last one.
LEMMA Latest ==
    ASSUME NEW S, IsFiniteSet(S), NEW R, StrictOrder(S, R), NEW T \in SUBSET S, T # {}
    PROVE  \E x \in T : \A y \in T : y # x => <<y, x>> \in R
<1> DEFINE Q == {p \in S \X S : <<p[2], p[1]>> \in R}
<1>1. \A x, y \in S : <<x, y>> \in Q <=> <<y, x>> \in R
  OBVIOUS
<1> HIDE DEF Q
<1>2. StrictOrder(S, Q)
  BY <1>1 DEF StrictOrder
<1>3. PICK x \in T : \A y \in T : y # x => <<x, y>> \in Q
  BY <1>2, Earliest
<1> QED BY <1>1, <1>3

\* The n first of a finite set: no more than n, all of them or exactly n, and
\* with each everything before it.
LEMMA ChosenFirst ==
    ASSUME NEW S, IsFiniteSet(S), NEW R, StrictOrder(S, R), NEW n \in Nat
    PROVE  LET K == Chosen(S, R, n) IN
           /\ K \subseteq S /\ IsFiniteSet(K) /\ Cardinality(K) <= n
           /\ K = S \/ Cardinality(K) = n
           /\ \A x \in K, y \in S : <<y, x>> \in R => y \in K
<1> DEFINE K == Chosen(S, R, n)
<1>1. K \in SUBSET S /\ IsFiniteSet(K) /\ Cardinality(K) \in Nat
  BY FS_Subset, FS_CardinalityType DEF Chosen
<1>2. \A x \in S : IsFiniteSet(Earlier(S, R, x)) /\ Cardinality(Earlier(S, R, x)) \in Nat
  <2> SUFFICES ASSUME NEW x \in S
               PROVE  IsFiniteSet(Earlier(S, R, x)) /\ Cardinality(Earlier(S, R, x)) \in Nat
    OBVIOUS
  <2>1. Earlier(S, R, x) \in SUBSET S
    BY DEF Earlier
  <2> QED BY <2>1, FS_Subset, FS_CardinalityType
<1>3. \A x \in K : Cardinality(Earlier(S, R, x)) < n
  BY DEF Chosen
<1>4. \A x \in S \ K : Cardinality(Earlier(S, R, x)) >= n
  BY <1>2 DEF Chosen
<1>5. \A x \in K, y \in S : <<y, x>> \in R => y \in K
  <2> SUFFICES ASSUME NEW x \in K, NEW y \in S, <<y, x>> \in R PROVE y \in K
    OBVIOUS
  <2>1. x \in S
    BY <1>1
  <2>2. Earlier(S, R, y) \in SUBSET Earlier(S, R, x)
    BY <2>1 DEF Earlier, StrictOrder
  <2>3. Cardinality(Earlier(S, R, y)) <= Cardinality(Earlier(S, R, x))
    BY <1>2, <2>1, <2>2, FS_Subset
  <2>4. Cardinality(Earlier(S, R, y)) < n
    BY <1>2, <1>3, <2>1, <2>3
  <2> QED BY <2>4 DEF Chosen
<1> HIDE DEF K
<1>6. Cardinality(K) <= n
  <2>1. CASE K = {}
    BY <2>1, FS_EmptySet
  <2>2. CASE K # {}
    <3>1. PICK x \in K : \A y \in K : y # x => <<y, x>> \in R
      BY <1>1, <2>2, Latest
    <3>2. K \ {x} \in SUBSET Earlier(S, R, x)
      BY <1>1, <3>1 DEF Earlier
    <3>3. Cardinality(K \ {x}) <= Cardinality(Earlier(S, R, x))
      BY <1>1, <1>2, <3>2, FS_Subset
    <3>4. Cardinality(K \ {x}) = Cardinality(K) - 1
      BY <1>1, FS_RemoveElement
    <3>5. Cardinality(Earlier(S, R, x)) \in Nat /\ Cardinality(Earlier(S, R, x)) < n
      BY <1>1, <1>2, <1>3
    <3> QED BY <1>1, <3>3, <3>4, <3>5
  <2> QED BY <2>1, <2>2
<1>7. ASSUME K # S PROVE Cardinality(K) = n
  <2>1. PICK rest \in SUBSET S : rest = S \ K
    OBVIOUS
  <2>2. PICK x \in rest : \A y \in rest : y # x => <<x, y>> \in R
    <3>1. rest # {}
      BY <1>1, <1>7, <2>1
    <3> QED BY <3>1, Earliest
  <2>3. Earlier(S, R, x) \in SUBSET K
    BY <2>1, <2>2 DEF Earlier, StrictOrder
  <2>4. Cardinality(Earlier(S, R, x)) <= Cardinality(K)
    BY <1>1, <2>3, FS_Subset
  <2>5. Cardinality(Earlier(S, R, x)) >= n /\ Cardinality(Earlier(S, R, x)) \in Nat
    BY <1>2, <1>4, <2>1
  <2> QED BY <1>1, <1>6, <2>4, <2>5
<1> QED BY <1>1, <1>5, <1>6, <1>7 DEF K

\* The image of a finite set is finite, and no larger.
LEMMA Image ==
    ASSUME NEW S, IsFiniteSet(S), NEW f, NEW T, T = {f[x] : x \in S}
    PROVE  IsFiniteSet(T) /\ Cardinality(T) <= Cardinality(S)
<1> DEFINE g == [x \in S |-> f[x]]
<1>1. g \in Surjection(S, T)
  BY DEF Surjection
<1> QED BY <1>1, FS_Surjection

\* Between a part of a finite set and the set there is one of every size.
LEMMA SizedBetween ==
    ASSUME NEW S, IsFiniteSet(S), NEW A \in SUBSET S, NEW n \in Nat,
           Cardinality(A) <= n, n <= Cardinality(S)
    PROVE  \E K \in SUBSET S : A \subseteq K /\ Cardinality(K) = n
<1> DEFINE large == {K \in SUBSET S : A \subseteq K /\ n <= Cardinality(K)}
           sizes == {Cardinality(K) : K \in large}
<1>1. \A K \in SUBSET S : IsFiniteSet(K) /\ Cardinality(K) \in Nat
  BY FS_Subset, FS_CardinalityType
<1>2. sizes \in SUBSET Nat /\ sizes # {}
  <2>1. S \in large
    OBVIOUS
  <2> QED BY <1>1, <2>1
<1>3. PICK K \in large : \A L \in large : Cardinality(K) <= Cardinality(L)
  <2>1. PICK k \in sizes : \A l \in sizes : k <= l
    <3> HIDE DEF sizes
    <3> QED BY <1>2, NatMin
  <2> QED BY <2>1
<1>4. ASSUME Cardinality(K) # n PROVE FALSE
  <2>1. n < Cardinality(K) /\ IsFiniteSet(K) /\ Cardinality(K) \in Nat
    BY <1>1, <1>3, <1>4
  <2>2. PICK x \in K : x \notin A
    <3>1. A # K
      BY <2>1
    <3> QED BY <1>3, <3>1
  <2>3. Cardinality(K \ {x}) = Cardinality(K) - 1
    BY <2>1, FS_RemoveElement
  <2>4. K \ {x} \in large
    BY <1>3, <2>1, <2>2, <2>3
  <2> QED BY <1>3, <2>1, <2>3, <2>4
<1> QED BY <1>3, <1>4

\* What an aggregate cap keeps besides the summary exists.
KeptByCap(records, max, K) ==
    /\ Cardinality(K) = max - 1
    /\ SomeRequired(records \ K) => \A k \in K : k.required

\* A cap that cuts has records to keep: required ones first.
LEMMA CapChooses ==
    ASSUME NEW records, IsFiniteSet(records), NEW max \in Nat \ {0},
           ~ (Cardinality(records) <= max)
    PROVE  \E K \in SUBSET records : KeptByCap(records, max, K)
<1>1. PICK R \in SUBSET records : R = {r \in records : r.required}
  OBVIOUS
<1>2. /\ IsFiniteSet(R) /\ Cardinality(R) \in Nat /\ Cardinality(records) \in Nat
      /\ max - 1 \in Nat /\ max - 1 <= Cardinality(records)
  BY FS_Subset, FS_CardinalityType
<1>3. CASE Cardinality(R) <= max - 1
  <2>1. PICK K \in SUBSET records : R \subseteq K /\ Cardinality(K) = max - 1
    BY <1>2, <1>3, SizedBetween
  <2>2. ~ SomeRequired(records \ K)
    BY <1>1, <2>1 DEF SomeRequired
  <2> QED BY <2>1, <2>2 DEF KeptByCap
<1>4. CASE max - 1 <= Cardinality(R)
  <2>1. PICK E \in SUBSET R : E = {}
    OBVIOUS
  <2>2. Cardinality(E) <= max - 1
    BY <1>2, <2>1, FS_EmptySet
  <2>3. PICK K \in SUBSET R : E \subseteq K /\ Cardinality(K) = max - 1
    BY <1>2, <1>4, <2>2, SizedBetween
  <2>4. K \in SUBSET records
    BY <2>3
  <2> QED BY <1>1, <2>3, <2>4 DEF KeptByCap
<1> QED BY <1>2, <1>3, <1>4

\* With the record of what was cut, a capped list is as long as its bound.
LEMMA WithSummary ==
    ASSUME NEW records, IsFiniteSet(records), NEW K \in SUBSET records, NEW max \in Nat \ {0},
           Cardinality(K) = max - 1, NEW summary
    PROVE  IsFiniteSet(K \cup {summary}) /\ Cardinality(K \cup {summary}) <= max
<1>1. IsFiniteSet(K)
  BY FS_Subset
<1> QED BY <1>1, FS_AddElement

\* An aggregate cap is kept.
LEMMA OmissionsFit ==
    ASSUME NEW records, IsFiniteSet(records), NEW max \in Nat \ {0}, NEW who
    PROVE  /\ IsFiniteSet(CapOmissions(records, max, who))
           /\ Cardinality(CapOmissions(records, max, who)) <= max
<1> DEFINE kept == CHOOSE K \in SUBSET records :
                       /\ Cardinality(K) = max - 1
                       /\ SomeRequired(records \ K) => \A k \in K : k.required
           summary == Omission(<<who, 0>>, "omitted-by-bound", SomeRequired(records \ kept))
<1>1. CASE Cardinality(records) <= max
  BY <1>1 DEF CapOmissions
<1>2. CASE ~ (Cardinality(records) <= max)
  <2>1. CapOmissions(records, max, who) = kept \cup {summary}
    BY <1>2 DEF CapOmissions
  <2>2. kept \in SUBSET records /\ Cardinality(kept) = max - 1
    BY <1>2, CapChooses DEF KeptByCap
  <2> HIDE DEF kept, summary
  <2> QED BY <2>1, <2>2, WithSummary
<1> QED BY <1>1, <1>2

\* Capped truncations are no more than the bound.
LEMMA TruncationsFit ==
    ASSUME NEW records, IsFiniteSet(records), NEW max \in Nat \ {0}, NEW who
    PROVE  /\ IsFiniteSet(CapTruncations(records, max, who))
           /\ Cardinality(CapTruncations(records, max, who)) <= max
<1> DEFINE kept == CHOOSE K \in SUBSET records :
                       /\ Cardinality(K) = max - 1
                       /\ SomeRequired(records \ K) => \A k \in K : k.required
           summary == Truncation(<<who, 0>>, SomeRequired(records \ kept))
<1>1. CASE Cardinality(records) <= max
  BY <1>1 DEF CapTruncations
<1>2. CASE ~ (Cardinality(records) <= max)
  <2>1. CapTruncations(records, max, who) = kept \cup {summary}
    BY <1>2 DEF CapTruncations
  <2>2. kept \in SUBSET records /\ Cardinality(kept) = max - 1
    BY <1>2, CapChooses DEF KeptByCap
  <2> HIDE DEF kept, summary
  <2> QED BY <2>1, <2>2, WithSummary
<1> QED BY <1>1, <1>2

-----------------------------------------------------------------------------
(* The orders a bound cuts by.                                             *)

\* What the first n of a finite set are, in an order that says which of two
\* comes earlier.
FirstOf(S, K, n) ==
    /\ K \subseteq S /\ IsFiniteSet(K) /\ Cardinality(K) <= n
    /\ K = S \/ Cardinality(K) = n

\* Of finitely many names the first n are well-defined.
LEMMA FirstNames ==
    ASSUME NEW S, Names(S), NEW n \in Nat
    PROVE  FirstOf(S, First(S, Less, n), n)
<1>1. PICK R : R = {p \in S \X S : p[1] < p[2]}
  OBVIOUS
<1>2. \A x, y \in S : <<x, y>> \in R <=> x < y
  BY <1>1
<1>3. StrictOrder(S, R)
  BY <1>2 DEF StrictOrder, Names
<1>4. First(S, Less, n) = Chosen(S, R, n)
  <2>1. \A x \in S : {y \in S : y < x} = Earlier(S, R, x)
    BY <1>2 DEF Earlier
  <2> QED BY <2>1 DEF First, Chosen, Less
<1> QED BY <1>3, <1>4, ChosenFirst DEF FirstOf, Names

\* Entries of distinct targets, those required first.
LEMMA FirstEntries ==
    ASSUME NEW inputs \in Correlating, DistinctTargets(inputs)
    PROVE  FirstOf(inputs, KeptEntries(inputs), MaxRecords)
<1>1. PICK R : R = {p \in inputs \X inputs : EntryBefore(p[1], p[2])}
  OBVIOUS
<1>2. \A x, y \in inputs : <<x, y>> \in R <=> EntryBefore(x, y)
  BY <1>1
<1>3. \A i \in inputs : i.target \in Nat /\ i.required \in BOOLEAN
  BY CorrelatingShape
<1>4. StrictOrder(inputs, R)
  <2>1. \A x \in inputs : ~ EntryBefore(x, x)
    BY <1>3 DEF EntryBefore
  <2>2. \A x, y \in inputs : x # y => EntryBefore(x, y) \/ EntryBefore(y, x)
    <3> SUFFICES ASSUME NEW x \in inputs, NEW y \in inputs, x # y
                 PROVE  EntryBefore(x, y) \/ EntryBefore(y, x)
      OBVIOUS
    <3>1. x.target # y.target
      BY DEF DistinctTargets
    <3>2. x.target < y.target \/ y.target < x.target
      BY <1>3, <3>1
    <3>3. x.required \in BOOLEAN /\ y.required \in BOOLEAN
      BY <1>3
    <3> QED BY <3>2, <3>3 DEF EntryBefore
  <2>3. \A x, y, z \in inputs : EntryBefore(x, y) /\ EntryBefore(y, z) => EntryBefore(x, z)
    <3> SUFFICES ASSUME NEW x \in inputs, NEW y \in inputs, NEW z \in inputs,
                        EntryBefore(x, y), EntryBefore(y, z)
                 PROVE  EntryBefore(x, z)
      OBVIOUS
    <3>1. x.target < y.target /\ y.target < z.target => x.target < z.target
      BY <1>3
    <3> QED BY <1>3, <3>1 DEF EntryBefore
  <2> QED BY <1>2, <2>1, <2>2, <2>3 DEF StrictOrder
<1>5. KeptEntries(inputs) = Chosen(inputs, R, MaxRecords)
  <2>1. \A x \in inputs : {y \in inputs : EntryBefore(y, x)} = Earlier(inputs, R, x)
    BY <1>2 DEF Earlier
  <2> QED BY <2>1 DEF KeptEntries, First, Chosen
<1>6. IsFiniteSet(inputs) /\ MaxRecords \in Nat
  BY CorrelatingShape, ContextBounds
<1> QED BY <1>4, <1>5, <1>6, ChosenFirst DEF FirstOf

-----------------------------------------------------------------------------
(* Losses are told.                                                        *)

\* Capping a collection never hides that it holds something required.
LEMMA CapKeepsOmission ==
    ASSUME NEW records, NEW max, NEW who, SomeRequired(records)
    PROVE  SomeRequired(CapOmissions(records, max, who))
<1> DEFINE kept == CHOOSE K \in SUBSET records :
                       /\ Cardinality(K) = max - 1
                       /\ SomeRequired(records \ K) => \A k \in K : k.required
           summary == Omission(<<who, 0>>, "omitted-by-bound", SomeRequired(records \ kept))
<1>1. CASE Cardinality(records) <= max
  BY <1>1 DEF CapOmissions
<1>2. CASE ~ Cardinality(records) <= max
  <2>1. CapOmissions(records, max, who) = kept \cup {summary}
    BY <1>2 DEF CapOmissions
  <2> HIDE DEF kept
  <2>2. PICK r \in records : r.required
    BY DEF SomeRequired
  <2>3. CASE r \in kept
    BY <2>1, <2>2, <2>3 DEF SomeRequired
  <2>4. CASE r \notin kept
    <3>1. SomeRequired(records \ kept)
      BY <2>2, <2>4 DEF SomeRequired
    <3>2. summary.required
      BY <3>1 DEF Omission
    <3> QED BY <2>1, <3>2 DEF SomeRequired
  <2> QED BY <2>3, <2>4
<1> QED BY <1>1, <1>2

\* A cap keeps a required truncation if there was one.
LEMMA CapKeepsTruncation ==
    ASSUME NEW records, NEW max, NEW who, SomeRequired(records)
    PROVE  SomeRequired(CapTruncations(records, max, who))
<1> DEFINE kept == CHOOSE K \in SUBSET records :
                       /\ Cardinality(K) = max - 1
                       /\ SomeRequired(records \ K) => \A k \in K : k.required
           summary == Truncation(<<who, 0>>, SomeRequired(records \ kept))
<1>1. CASE Cardinality(records) <= max
  BY <1>1 DEF CapTruncations
<1>2. CASE ~ Cardinality(records) <= max
  <2>1. CapTruncations(records, max, who) = kept \cup {summary}
    BY <1>2 DEF CapTruncations
  <2> HIDE DEF kept
  <2>2. PICK r \in records : r.required
    BY DEF SomeRequired
  <2>3. CASE r \in kept
    BY <2>1, <2>2, <2>3 DEF SomeRequired
  <2>4. CASE r \notin kept
    <3>1. SomeRequired(records \ kept)
      BY <2>2, <2>4 DEF SomeRequired
    <3>2. summary.required
      BY <3>1 DEF Truncation
    <3> QED BY <2>1, <3>2 DEF SomeRequired
  <2> QED BY <2>3, <2>4
<1> QED BY <1>1, <1>2

-----------------------------------------------------------------------------
(* What a request cannot do without is among what the code calls required. *)

LEMMA EssentialIsRequired ==
    ASSUME NEW q \in Requests
    PROVE  Essential(q) \subseteq RequiredTargets(q)
<1>1. \A c \in q.clauses : Demanding(c) => RequiresItsTargets(c)
  BY RequestShape DEF Demanding, RequiresItsTargets, EvidenceTier, WellModed
<1> QED BY <1>1 DEF Essential, RequiredTargets, TargetsOf

\* A clause that decides has required evidence.
LEMMA DecisiveIsRequired ==
    ASSUME NEW q \in Requests, NEW c \in q.clauses, Decisive(c)
    PROVE  EvidenceTier(c) = "required"
BY RequestShape DEF Decisive, Demanding, EvidenceTier, WellModed, Categories

\* A target that matters and was not kept is named as a required loss.
LEMMA LostTarget ==
    ASSUME NEW q \in Requests, NEW t \in Essential(q), t \notin Allowed(q)
    PROVE  SomeRequired(AllOmissions(q))
<1>1. t \in RequiredTargets(q) \ Allowed(q)
  BY EssentialIsRequired
<1>2. Omission(<<"target", t>>, "required-evidence-lost-by-bound", TRUE) \in AllOmissions(q)
  BY <1>1 DEF AllOmissions, DroppedTargets
<1> QED BY <1>2 DEF SomeRequired, Omission

\* A needed target without geometry leaves a required omission.
LEMMA LostGeometry ==
    ASSUME NEW q \in Requests, NEW t \in Essential(q), t \in Allowed(q), t \notin q.geometry
    PROVE  SomeRequired(AllOmissions(q))
<1> DEFINE o == Omission(<<"geometry", t>>, "unsupported-or-unavailable", t \in RequiredTargets(q))
<1>1. o \in AllOmissions(q)
  BY DEF AllOmissions, WithoutGeometry
<1>2. o.required = (t \in RequiredTargets(q))
  BY DEF Omission
<1>3. o.required
  BY <1>2, EssentialIsRequired
<1> QED BY <1>1, <1>3 DEF SomeRequired

\* A path a target needs is collected at the required tier.
LEMMA PathIsRequired ==
    ASSUME NEW q \in Requests, NEW t, NEW p \in EssentialPaths(q, t)
    PROVE  [path |-> p, tier |-> "required"] \in Distinct(Collected(q, t))
<1> DEFINE e == [path |-> p, tier |-> "required"]
<1>1. e \in Collected(q, t)
  <2>1. CASE \E c \in q.clauses : Decisive(c) /\ t \in c.targets /\ p \in c.evidence
    BY <2>1, DecisiveIsRequired DEF Collected, Evidence
  <2>2. CASE \E u \in q.unexpected : t \in u.targets /\ p \in u.evidence
    BY <2>2 DEF Collected, Evidence
  <2> QED BY <2>1, <2>2 DEF EssentialPaths
<1>2. \A d \in Collected(q, t) : d.tier \in {"required", "optional", "context"}
  BY DEF Collected, Evidence, EvidenceTier
<1>3. \A d \in Collected(q, t) : TierRank(d.tier) \in 0 .. 2
  BY <1>2 DEF TierRank
<1>4. TierRank(e.tier) = 0
  BY DEF TierRank
<1> QED BY <1>1, <1>3, <1>4 DEF Distinct

\* So it is lost only as required evidence.
LEMMA LostPath ==
    ASSUME NEW q \in Requests, NEW t \in Allowed(q), NEW p \in EssentialPaths(q, t),
           p \notin {e.path : e \in BoundedEvidence(q, t)}
    PROVE  SomeRequired(AllOmissions(q))
<1>1. PICK e : e = [path |-> p, tier |-> "required"]
  OBVIOUS
<1>2. e \in Distinct(Collected(q, t)) /\ e \notin BoundedEvidence(q, t)
  BY <1>1, PathIsRequired
<1>3. RequiredLostOn(q, t)
  BY <1>1, <1>2 DEF RequiredLostOn, LostEvidence
<1>4. Omission(<<"relationshipEvidence", t>>, "required-evidence-lost-by-bound", TRUE) \in AllOmissions(q)
  BY <1>3 DEF AllOmissions, RequiredEvidenceLost
<1> QED BY <1>4 DEF SomeRequired, Omission

\* A requirement that is not met is shown, or its loss is required.
LEMMA LostMismatch ==
    ASSUME NEW q \in Requests, NEW i \in Unmet(q), i \notin FidelityOf(q).mismatches
    PROVE  SomeRequired(AllOmissions(q))
<1> DEFINE f == q.fidelity
<1>1. f # None /\ i \in DOMAIN f.results /\ Guarded(f.results[i]) /\ f.results[i].status # "pass"
  BY DEF Unmet
<1>2. f.state # "not-evaluated"
  BY <1>1, RequestShape
<1>3. i \in NonPass(f) \ Mismatches(f)
  BY <1>1, <1>2 DEF NonPass, FidelityOf, ProjectFidelity, ShownOfFidelity
<1>4. TierOfRequirement(f.results[i]) = "required"
  BY <1>1, RequestShape DEF TierOfRequirement, Guarded, WellModed
<1>5. i \in RequiredMismatches(f, NonPass(f) \ Mismatches(f))
  BY <1>3, <1>4 DEF RequiredMismatches
<1>6. Omission(<<"fidelity-mismatch", i>>, "required-evidence-lost-by-bound", TRUE) \in FidelityOf(q).omissions
  BY <1>1, <1>2, <1>5 DEF FidelityOf, ProjectFidelity, ShownOfFidelity
<1> QED BY <1>6 DEF AllOmissions, SomeRequired, Omission

\* A required fidelity that was not evaluated leaves a required omission.
LEMMA LostFidelity ==
    ASSUME NEW q \in Requests, q.fidelity # None, q.fidelity.state = "not-evaluated",
           q.fidelityRequired
    PROVE  SomeRequired(AllOmissions(q))
<1> DEFINE o == Omission(<<"fidelity", 0>>, "unsupported-or-unavailable", q.fidelityRequired)
<1>1. o \in FidelityOf(q).omissions
  BY DEF FidelityOf, ProjectFidelity, NothingFromFidelity
<1>2. o.required
  BY DEF Omission
<1> QED BY <1>1, <1>2 DEF AllOmissions, SomeRequired

\* Whatever a projection withholds of what the task needs, it says so.
LEMMA ProjectionTells ==
    ASSUME NEW q \in Requests, Withheld(q, Projection(q))
    PROVE  /\ Projection(q).adequacy.state # "adequate"
           /\ SomeRequired(Projection(q).omissions)
<1>1. SomeRequired(AllOmissions(q))
  <2>1. CASE \E t \in Essential(q) : t \notin Allowed(q) \/ t \notin q.geometry
    BY <2>1, LostTarget, LostGeometry
  <2>2. CASE \E t \in Allowed(q) :
                ~ EssentialPaths(q, t) \subseteq {e.path : e \in BoundedEvidence(q, t)}
    BY <2>2, LostPath
  <2>3. CASE ~ Unmet(q) \subseteq FidelityOf(q).mismatches
    BY <2>3, LostMismatch
  <2>4. CASE q.fidelity # None /\ q.fidelity.state = "not-evaluated" /\ q.fidelityRequired
    BY <2>4, LostFidelity
  <2>5. /\ Projection(q).targets = Allowed(q)
        /\ Projection(q).mismatches = FidelityOf(q).mismatches
        /\ \A t \in Allowed(q) : Projection(q).evidence[t] = {e.path : e \in BoundedEvidence(q, t)}
    BY DEF Projection
  <2> QED BY <2>1, <2>2, <2>3, <2>4, <2>5 DEF Withheld
<1>2. RequiredReasons(q) # {}
  BY <1>1 DEF RequiredReasons, RequiredLoss
<1>3. Adequacy(q).state # "adequate"
  BY <1>2 DEF Adequacy
<1> QED BY <1>1, <1>3, CapKeepsOmission DEF Projection

-----------------------------------------------------------------------------
(* What a derivation tells.                                                *)

LEMMA IdsAreNames ==
    ASSUME NEW inputs \in Correlating, NEW i \in inputs
    PROVE  Names(Ids(i))
<1> DEFINE f == [c \in i.candidates |-> c.id]
<1>1. IsFiniteSet(i.candidates) /\ \A c \in i.candidates : c.id \in Nat
  BY CorrelatingShape
<1>2. Ids(i) = {f[c] : c \in i.candidates}
  BY DEF Ids
<1>3. IsFiniteSet(Ids(i))
  <2> HIDE DEF f
  <2> QED BY <1>1, <1>2, Image
<1> QED BY <1>1, <1>3 DEF Names, Ids

\* A single candidate is kept only when a single one was supplied: the bound
\* leaves room for two.
LEMMA OneCandidate ==
    ASSUME NEW inputs \in Correlating, NEW i \in inputs
    PROVE  StatusOf(i) = "correlated" <=> Cardinality(Ids(i)) = 1
<1>1. FirstOf(Ids(i), KeptIds(i), MaxCandidates) /\ MaxCandidates \in Nat /\ MaxCandidates > 1
  BY IdsAreNames, FirstNames, ContextBounds DEF KeptIds
<1>2. StatusOf(i) = "correlated" <=> Cardinality(KeptIds(i)) = 1
  BY DEF StatusOf
<1>3. CASE KeptIds(i) = Ids(i)
  BY <1>2, <1>3
<1>4. CASE KeptIds(i) # Ids(i)
  <2>1. Cardinality(KeptIds(i)) = MaxCandidates /\ KeptIds(i) \in SUBSET Ids(i)
    BY <1>1, <1>4 DEF FirstOf
  <2>2. IsFiniteSet(Ids(i)) /\ Cardinality(Ids(i)) \in Nat
    BY IdsAreNames, FS_CardinalityType DEF Names
  <2>3. Cardinality(KeptIds(i)) <= Cardinality(Ids(i))
    BY <2>1, <2>2, FS_Subset
  <2> QED BY <1>1, <1>2, <2>1, <2>2, <2>3
<1> QED BY <1>3, <1>4

\* A required target with no candidate, without its record, or whose record
\* lost a candidate is a reason against the context.
LEMMA LossIsAReason ==
    ASSUME NEW inputs \in Correlating, NEW i \in inputs, i.required,
           \/ i.candidates = {}
           \/ \A r \in Derivation(inputs).records :
                  r.target = i.target => Ids(i) # {c.id : c \in r.candidates}
    PROVE  ReasonsFor(Derivation(inputs)) # {}
<1>1. PICK O, T : /\ O = Derivation(inputs).omissions
                  /\ T = Derivation(inputs).truncations
  OBVIOUS
<1>2. \A o \in O : o.required => ReasonsFor(Derivation(inputs)) # {}
  BY <1>1 DEF ReasonsFor
<1>3. \A t \in T : t.required => ReasonsFor(Derivation(inputs)) # {}
  BY <1>1 DEF ReasonsFor
<1>4. CASE i.candidates = {}
  <2>1. Ids(i) = {} /\ KeptIds(i) = {}
    BY <1>4 DEF Ids, KeptIds, First
  <2>2. StatusOf(i) = "unavailable"
    BY <2>1, FS_EmptySet DEF StatusOf
  <2>3. Omission(<<"correlation", i.target>>, "unsupported-or-unavailable", TRUE) \in O
    BY <1>1, <2>2 DEF Derivation
  <2> QED BY <1>2, <2>3 DEF Omission
<1>5. CASE i \notin KeptEntries(inputs)
  <2>1. PICK b \in BOOLEAN : b = i.required
    BY CorrelatingShape
  <2>2. Omission(<<"correlation-record", i.target>>,
                 IF i.required THEN "required-evidence-lost-by-bound" ELSE "omitted-by-bound",
                 i.required) \in O
    BY <1>1, <1>5 DEF Derivation
  <2> QED BY <1>2, <2>2 DEF Omission
<1>6. CASE i \in KeptEntries(inputs) /\ i.candidates # {}
  <2>1. DeriveOneTarget(i) \in Derivation(inputs).records
    BY <1>6 DEF Derivation
  <2>2. Ids(i) # {c.id : c \in DeriveOneTarget(i).candidates}
    BY <1>6, <2>1 DEF DeriveOneTarget
  <2>3. {c.id : c \in DeriveOneTarget(i).candidates} = KeptIds(i)
    <3> DEFINE entry(j) == [id |-> j, refs |-> KeptRefs(RefsOf(i, j))]
    <3>1. \A j \in KeptIds(i) : entry(j).id = j
      OBVIOUS
    <3>2. DeriveOneTarget(i).candidates = {entry(j) : j \in KeptIds(i)}
      BY DEF DeriveOneTarget
    <3> HIDE DEF entry
    <3> QED BY <3>1, <3>2
  <2>4. Truncation(<<"candidates", i.target>>, i.required) \in CutFromRecord(i)
    BY <2>2, <2>3 DEF CutFromRecord
  <2>5. Truncation(<<"candidates", i.target>>, i.required) \in T
    BY <1>1, <2>4 DEF Derivation
  <2> QED BY <1>3, <2>5 DEF Truncation
<1> QED BY <1>4, <1>5, <1>6

-----------------------------------------------------------------------------
(* What a request is about, and how much of it there is.                   *)

LEMMA RequestIs ==
    ASSUME NEW q \in Requests
    PROVE  /\ Names(q.focus) /\ IsFiniteSet(q.clauses) /\ IsFiniteSet(q.unexpected)
           /\ IsFiniteSet(q.pairs) /\ IsFiniteSet(q.diagnostics)
           /\ \A c \in q.clauses :
                  /\ WellModed(c) /\ Points(c)
                  /\ c.result \in {"none", "pass", "fail", "unavailable", "conflict"}
           /\ \A u \in q.unexpected : Points(u)
           /\ \A p \in q.pairs : p.subject \in Nat /\ p.related \in Nat /\ Names(p.evidence)
BY RequestShape

\* The fidelity of a request has the shape the schema gives it.
LEMMA FidelityIs ==
    ASSUME NEW q \in Requests, q.fidelity # None
    PROVE  /\ Names(DOMAIN q.fidelity.results)
           /\ \A i \in DOMAIN q.fidelity.results :
                  /\ WellModed(q.fidelity.results[i])
                  /\ q.fidelity.results[i].status \in {"pass", "fail", "unavailable"}
                  /\ Names(q.fidelity.results[i].targets)
           /\ q.fidelity.state = "not-evaluated" => DOMAIN q.fidelity.results = {}
BY RequestShape

\* Finitely many finite sets of names are names.
LEMMA NamesUnion ==
    ASSUME NEW S, IsFiniteSet(S), NEW f, \A x \in S : Names(f[x]), NEW T, T = UNION {f[x] : x \in S}
    PROVE  Names(T)
<1>1. PICK I : I = {f[x] : x \in S}
  OBVIOUS
<1>2. IsFiniteSet(I) /\ \A s \in I : IsFiniteSet(s)
  BY <1>1, Image DEF Names
<1>3. IsFiniteSet(UNION I)
  BY <1>2, FS_UNION
<1> QED BY <1>1, <1>3 DEF Names

\* The targets of finitely many clauses are finitely many names.
LEMMA TargetsAreNames ==
    ASSUME NEW S, IsFiniteSet(S), \A x \in S : Names(x.targets)
    PROVE  Names(TargetsOf(S))
<1> DEFINE f == [x \in S |-> x.targets]
<1>1. TargetsOf(S) = UNION {f[x] : x \in S} /\ \A x \in S : Names(f[x])
  BY DEF TargetsOf
<1> HIDE DEF f
<1> QED BY <1>1, NamesUnion

\* So are the targets bound to requirements.
LEMMA BoundAreNames ==
    ASSUME NEW q \in Requests, q.fidelity # None,
           NEW I \in SUBSET DOMAIN q.fidelity.results
    PROVE  Names(BoundTo(q.fidelity, I))
<1> DEFINE f == [i \in I |-> q.fidelity.results[i].targets]
<1>1. IsFiniteSet(I)
  BY FidelityIs, FS_Subset DEF Names
<1>2. BoundTo(q.fidelity, I) = UNION {f[i] : i \in I} /\ \A i \in I : Names(f[i])
  BY FidelityIs DEF BoundTo
<1> HIDE DEF f
<1> QED BY <1>1, <1>2, NamesUnion

\* Some of finitely many names are.
LEMMA NamesPart ==
    ASSUME NEW S, Names(S), NEW T \in SUBSET S
    PROVE  Names(T)
BY FS_Subset DEF Names

\* Names of two kinds are.
LEMMA NamesBoth ==
    ASSUME NEW S, Names(S), NEW T, Names(T)
    PROVE  Names(S \cup T)
BY FS_Union DEF Names

\* No names are.
LEMMA NoNames == Names({})
BY FS_EmptySet DEF Names

-----------------------------------------------------------------------------
(* What of the reference fidelity is shown.                                *)

LEMMA RankIs ==
    ASSUME NEW r
    PROVE  /\ RankOfMismatch(r) \in {0, 1, 2}
           /\ RankOfMismatch(r) = 0 <=> r.status = "fail" /\ TierOfRequirement(r) = "required"
BY DEF RankOfMismatch

\* The mismatches shown fit their bound, and none is shown before a worse one.
LEMMA FirstMismatches ==
    ASSUME NEW q \in Requests, q.fidelity # None
    PROVE  /\ FirstOf(NonPass(q.fidelity), Mismatches(q.fidelity), MaxMismatches)
           /\ \A i \in Mismatches(q.fidelity), j \in NonPass(q.fidelity) :
                  MismatchBefore(q.fidelity, j, i) => j \in Mismatches(q.fidelity)
<1> DEFINE f == q.fidelity
           S == NonPass(f)
           rank(i) == RankOfMismatch(f.results[i])
<1>1. S \in SUBSET DOMAIN f.results /\ IsFiniteSet(S) /\ S \subseteq Nat
  <2>1. S \in SUBSET DOMAIN f.results
    BY DEF NonPass
  <2> QED BY <2>1, FidelityIs, FS_Subset DEF Names
<1>2. \A i, j \in S : MismatchBefore(f, i, j) <=> rank(i) < rank(j) \/ (rank(i) = rank(j) /\ i < j)
  BY DEF MismatchBefore
<1>3. \A i \in S : rank(i) \in {0, 1, 2}
  BY RankIs
<1> HIDE DEF rank, S
<1>4. PICK R : R = {p \in S \X S : MismatchBefore(f, p[1], p[2])}
  OBVIOUS
<1>5. \A i, j \in S : <<i, j>> \in R <=> MismatchBefore(f, i, j)
  BY <1>4
<1>6. StrictOrder(S, R)
  <2>1. \A i \in S : ~ MismatchBefore(f, i, i)
    BY <1>1, <1>2, <1>3
  <2>2. \A i, j \in S : i # j => MismatchBefore(f, i, j) \/ MismatchBefore(f, j, i)
    <3> SUFFICES ASSUME NEW i \in S, NEW j \in S, i # j
                 PROVE  MismatchBefore(f, i, j) \/ MismatchBefore(f, j, i)
      OBVIOUS
    <3>1. /\ i \in Nat /\ j \in Nat
          /\ rank(i) \in {0, 1, 2} /\ rank(j) \in {0, 1, 2}
      BY <1>1, <1>3
    <3> QED BY <1>2, <3>1
  <2>3. \A i, j, k \in S : MismatchBefore(f, i, j) /\ MismatchBefore(f, j, k) => MismatchBefore(f, i, k)
    <3> SUFFICES ASSUME NEW i \in S, NEW j \in S, NEW k \in S,
                        MismatchBefore(f, i, j), MismatchBefore(f, j, k)
                 PROVE  MismatchBefore(f, i, k)
      OBVIOUS
    <3>1. /\ i \in Nat /\ j \in Nat /\ k \in Nat
          /\ rank(i) \in {0, 1, 2} /\ rank(j) \in {0, 1, 2} /\ rank(k) \in {0, 1, 2}
      BY <1>1, <1>3
    <3> QED BY <1>2, <3>1
  <2> QED BY <1>5, <2>1, <2>2, <2>3 DEF StrictOrder
<1>7. Mismatches(f) = Chosen(S, R, MaxMismatches)
  <2>1. \A i \in S : {j \in S : MismatchBefore(f, j, i)} = Earlier(S, R, i)
    BY <1>5 DEF Earlier
  <2> QED BY <2>1 DEF Mismatches, First, Chosen, S
<1>8. MaxMismatches \in Nat
  BY ContextBounds
<1>9. LET K == Chosen(S, R, MaxMismatches) IN
      /\ K \subseteq S /\ IsFiniteSet(K) /\ Cardinality(K) <= MaxMismatches
      /\ K = S \/ Cardinality(K) = MaxMismatches
      /\ \A x \in K, y \in S : <<y, x>> \in R => y \in K
  BY <1>1, <1>6, <1>8, ChosenFirst
<1>10. FirstOf(S, Mismatches(f), MaxMismatches)
  BY <1>7, <1>9 DEF FirstOf
<1>11. \A i \in Mismatches(f), j \in S : MismatchBefore(f, j, i) => j \in Mismatches(f)
  BY <1>5, <1>7, <1>9
<1> QED BY <1>10, <1>11 DEF S

\* The protected requirements a context repeats are requirements that passed.
LEMMA ProtectedPart ==
    ASSUME NEW f PROVE ProtectedContext(f) \in SUBSET DOMAIN f.results
BY DEF ProtectedContext, First, PassingProtected

\* What the fidelity adds is finite, shows no more than its bound, and asks for
\* the targets of the unmet requirements it shows.
LEMMA FidelityAdds ==
    ASSUME NEW q \in Requests
    PROVE  LET a == FidelityOf(q) IN
           /\ Names(a.required) /\ Names(a.permitted)
           /\ IsFiniteSet(a.omissions) /\ IsFiniteSet(a.truncations)
           /\ IsFiniteSet(a.mismatches) /\ Cardinality(a.mismatches) <= MaxMismatches
           /\ q.fidelity # None => /\ a.mismatches \subseteq DOMAIN q.fidelity.results
                                   /\ a.required = BoundTo(q.fidelity, Unmet(q) \cap a.mismatches)
           /\ q.fidelity = None => a.required = {} /\ Unmet(q) = {}
<1>1. MaxMismatches \in Nat /\ IsFiniteSet({}) /\ Cardinality({}) = 0
  BY ContextBounds, FS_EmptySet
<1>2. CASE q.fidelity = None
  <2>1. FidelityOf(q) = NothingFromFidelity
    BY <1>2 DEF FidelityOf, ProjectFidelity
  <2> QED BY <1>1, <1>2, <2>1, NoNames DEF NothingFromFidelity, Unmet
<1>3. CASE q.fidelity # None /\ q.fidelity.state = "not-evaluated"
  <2>1. DOMAIN q.fidelity.results = {}
    BY <1>3, FidelityIs
  <2>2. PICK o : o = Omission(<<"fidelity", 0>>, "unsupported-or-unavailable", q.fidelityRequired)
    OBVIOUS
  <2>3. /\ FidelityOf(q).required = {} /\ FidelityOf(q).permitted = {}
        /\ FidelityOf(q).omissions = {o} /\ FidelityOf(q).truncations = {}
        /\ FidelityOf(q).mismatches = {}
    BY <1>3, <2>2 DEF FidelityOf, ProjectFidelity, NothingFromFidelity
  <2>4. Unmet(q) = {}
    BY <1>3, <2>1 DEF Unmet
  <2>5. BoundTo(q.fidelity, {}) = {}
    BY DEF BoundTo
  <2>6. IsFiniteSet({o})
    BY FS_Singleton
  <2> QED BY <1>1, <1>3, <2>3, <2>4, <2>5, <2>6, NoNames
<1>4. CASE q.fidelity # None /\ q.fidelity.state # "not-evaluated"
  <2> DEFINE f == q.fidelity
             shown == Mismatches(f)
             guarded == ProtectedContext(f)
  <2>1. FidelityOf(q) = ShownOfFidelity(f, shown, guarded)
    BY <1>4 DEF FidelityOf, ProjectFidelity
  <2>2. /\ FirstOf(NonPass(f), shown, MaxMismatches)
        /\ NonPass(f) \in SUBSET DOMAIN f.results
    BY <1>4, FirstMismatches DEF NonPass
  <2>3. guarded \in SUBSET DOMAIN f.results
    BY ProtectedPart
  <2> HIDE DEF shown, guarded
  <2>4. PICK needed \in SUBSET DOMAIN f.results : needed = RequiredMismatches(f, shown)
    BY <2>2 DEF RequiredMismatches, FirstOf
  <2>5. PICK others \in SUBSET DOMAIN f.results : others = (shown \ needed) \cup guarded
    BY <2>2, <2>3 DEF FirstOf
  <2>6. PICK lost \in SUBSET DOMAIN f.results : lost = RequiredMismatches(f, NonPass(f) \ shown)
    BY <2>2 DEF RequiredMismatches
  <2>7. /\ FidelityOf(q).mismatches = shown
        /\ FidelityOf(q).required = BoundTo(f, needed)
        /\ FidelityOf(q).permitted = BoundTo(f, others) \ BoundTo(f, needed)
        /\ FidelityOf(q).omissions = {Omission(<<"fidelity-mismatch", i>>,
                                               "required-evidence-lost-by-bound", TRUE) : i \in lost}
    BY <2>1, <2>4, <2>5, <2>6 DEF ShownOfFidelity
  <2>8. Names(BoundTo(f, needed)) /\ Names(BoundTo(f, others))
    BY <1>4, BoundAreNames
  <2>9. Names(FidelityOf(q).permitted)
    <3>1. PICK P \in SUBSET BoundTo(f, others) : P = BoundTo(f, others) \ BoundTo(f, needed)
      OBVIOUS
    <3> QED BY <2>7, <2>8, <3>1, NamesPart
  <2>10. IsFiniteSet(FidelityOf(q).omissions)
    <3> DEFINE g == [i \in lost |-> Omission(<<"fidelity-mismatch", i>>,
                                             "required-evidence-lost-by-bound", TRUE)]
    <3>1. IsFiniteSet(lost)
      BY <1>4, FidelityIs, FS_Subset DEF Names
    <3>2. FidelityOf(q).omissions = {g[i] : i \in lost}
      BY <2>7
    <3> HIDE DEF g
    <3> QED BY <3>1, <3>2, Image
  <2>11. IsFiniteSet(FidelityOf(q).truncations)
    <3>1. PICK T1 : T1 = IF NonPass(f) \ shown = {} THEN {}
                         ELSE {Truncation(<<"fidelity-mismatches", 0>>,
                                          RequiredMismatches(f, NonPass(f) \ shown) # {})}
      OBVIOUS
    <3>2. PICK T2 : T2 = IF guarded = PassingProtected(f) THEN {}
                         ELSE {Truncation(<<"fidelity-protected-context", 0>>, FALSE)}
      OBVIOUS
    <3>3. FidelityOf(q).truncations = T1 \cup T2
      <4>1. ShownOfFidelity(f, shown, guarded).truncations =
                (IF NonPass(f) \ shown = {} THEN {}
                 ELSE {Truncation(<<"fidelity-mismatches", 0>>,
                                  RequiredMismatches(f, NonPass(f) \ shown) # {})})
                \cup (IF guarded = PassingProtected(f) THEN {}
                      ELSE {Truncation(<<"fidelity-protected-context", 0>>, FALSE)})
        BY DEF ShownOfFidelity
      <4> QED BY <2>1, <3>1, <3>2, <4>1, Zenon
    <3>4. IsFiniteSet(T1) /\ IsFiniteSet(T2)
      BY <3>1, <3>2, FS_EmptySet, FS_Singleton
    <3> QED BY <3>3, <3>4, FS_Union
  <2>12. needed = Unmet(q) \cap shown
    <3>1. \A i \in shown : i \in DOMAIN f.results /\ f.results[i].status # "pass"
      BY <2>2 DEF FirstOf, NonPass
    <3>2. \A i \in DOMAIN f.results :
              TierOfRequirement(f.results[i]) = "required" <=> Guarded(f.results[i])
      BY <1>4, FidelityIs DEF TierOfRequirement, Guarded, WellModed
    <3> QED BY <1>4, <2>4, <3>1, <3>2 DEF RequiredMismatches, Unmet
  <2> QED BY <1>4, <2>2, <2>7, <2>8, <2>9, <2>10, <2>11, <2>12 DEF FirstOf
<1> QED BY <1>2, <1>3, <1>4

-----------------------------------------------------------------------------
(* The bounded target list.                                                *)

\* The code's own reading of what a task needs is the one told from the request.
LEMMA ClauseReading ==
    ASSUME NEW q \in Requests, NEW c \in q.clauses
    PROVE  /\ Demanding(c) <=> RequiresItsTargets(c)
           /\ Decisive(c) <=> EvidenceTier(c) = "required"
<1>1. /\ c.category \in Categories /\ c.mode \in {"none", "required", "permitted"}
      /\ c.mode # "none" <=> c.category = "expected-dependent"
      /\ c.result \in {"none", "pass", "fail", "unavailable", "conflict"}
  BY RequestIs DEF WellModed
<1>2. EvidenceTier(c) = "required" <=>
        \/ c.result \in {"fail", "unavailable", "conflict"}
        \/ c.category \in {"protected", "preserved"}
        \/ (c.category = "expected-dependent" /\ c.mode # "permitted")
  BY DEF EvidenceTier
<1>3. Demanding(c) <=> RequiresItsTargets(c)
  BY <1>1, <1>2 DEF Demanding, RequiresItsTargets
<1>4. Decisive(c) <=> EvidenceTier(c) = "required"
  BY <1>1, <1>2 DEF Decisive, Demanding, Categories
<1> QED BY <1>3, <1>4

Needed(q, shown) ==
    Essential(q) \cup UNION {q.fidelity.results[i].targets : i \in Unmet(q) \cap shown}

\* The targets the task needs, told with and without the projection's own words.
LEMMA RequiredIs ==
    ASSUME NEW q \in Requests
    PROVE  RequiredTargets(q) = Needed(q, FidelityOf(q).mismatches)
<1>1. {c \in q.clauses : Demanding(c)} = {c \in q.clauses : RequiresItsTargets(c)}
  BY ClauseReading
<1>2. FidelityOf(q).required =
        UNION {q.fidelity.results[i].targets : i \in Unmet(q) \cap FidelityOf(q).mismatches}
  <2>1. CASE q.fidelity = None
    <3>1. FidelityOf(q).required = {} /\ Unmet(q) = {}
      BY <2>1, FidelityAdds
    <3> QED BY <3>1
  <2>2. CASE q.fidelity # None
    <3>1. FidelityOf(q).required = BoundTo(q.fidelity, Unmet(q) \cap FidelityOf(q).mismatches)
      BY <2>2, FidelityAdds
    <3> QED BY <3>1 DEF BoundTo
  <2> QED BY <2>1, <2>2
<1> QED BY <1>1, <1>2 DEF RequiredTargets, Needed, Essential

\* The targets a context may keep are finitely many names.
LEMMA CandidatesAreNames ==
    ASSUME NEW q \in Requests
    PROVE  Names(RequiredTargets(q)) /\ Names(PermittedTargets(q)) /\ Names(ContextTargets(q))
<1>1. PICK C1 \in SUBSET q.clauses : C1 = {c \in q.clauses : RequiresItsTargets(c)}
  OBVIOUS
<1>2. PICK C2 \in SUBSET q.clauses : C2 = {c \in q.clauses : ~ RequiresItsTargets(c)}
  OBVIOUS
<1>3. /\ IsFiniteSet(C1) /\ IsFiniteSet(C2) /\ IsFiniteSet(q.unexpected)
      /\ \A c \in C1 : Names(c.targets)
      /\ \A c \in C2 : Names(c.targets)
      /\ \A u \in q.unexpected : Names(u.targets)
  BY RequestIs, FS_Subset DEF Points
<1>4. Names(TargetsOf(C1)) /\ Names(TargetsOf(C2)) /\ Names(TargetsOf(q.unexpected))
  BY <1>3, TargetsAreNames
<1>5. Names(q.focus) /\ Names(FidelityOf(q).required) /\ Names(FidelityOf(q).permitted)
  BY RequestIs, FidelityAdds
<1>6. Names(RequiredTargets(q))
  <2>1. PICK A, B : /\ A = q.focus \cup TargetsOf(C1)
                    /\ B = TargetsOf(q.unexpected) \cup FidelityOf(q).required
    OBVIOUS
  <2>2. Names(A) /\ Names(B)
    BY <1>4, <1>5, <2>1, NamesBoth
  <2>3. RequiredTargets(q) = A \cup B
    BY <1>1, <2>1 DEF RequiredTargets
  <2> QED BY <2>2, <2>3, NamesBoth
<1>7. Names(PermittedTargets(q))
  <2>1. PICK A : A = TargetsOf(C2) \cup FidelityOf(q).permitted
    OBVIOUS
  <2>2. Names(A) /\ PermittedTargets(q) \in SUBSET A
    BY <1>2, <1>4, <1>5, <2>1, NamesBoth DEF PermittedTargets
  <2> QED BY <2>2, NamesPart
<1>8. Names(ContextTargets(q))
  <2>1. PICK N \in SUBSET q.pairs : N = NearBy(q)
    BY DEF NearBy
  <2> DEFINE f == [p \in N |-> {p.subject, p.related}]
  <2>2. IsFiniteSet(N)
    BY RequestIs, FS_Subset
  <2>3. \A p \in N : Names(f[p])
    <3> SUFFICES ASSUME NEW p \in N PROVE Names({p.subject, p.related})
      OBVIOUS
    <3>1. p.subject \in Nat /\ p.related \in Nat
      BY RequestIs
    <3>2. PICK A, B : A = {p.subject} /\ B = {p.related}
      OBVIOUS
    <3>3. IsFiniteSet(A \cup B)
      BY <3>2, FS_Singleton, FS_Union
    <3>4. A \cup B = {p.subject, p.related}
      BY <3>2
    <3> QED BY <3>1, <3>3, <3>4 DEF Names
  <2>4. PICK T : T = UNION {f[p] : p \in N}
    OBVIOUS
  <2>5. Names(T)
    <3> HIDE DEF f
    <3> QED BY <2>2, <2>3, <2>4, NamesUnion
  <2>6. ContextTargets(q) \in SUBSET T
    BY <2>1, <2>4 DEF ContextTargets
  <2> QED BY <2>5, <2>6, NamesPart
<1> QED BY <1>6, <1>7, <1>8

\* The list fits its bound, and while a required target is left out it holds
\* required targets only.
LEMMA AllowedIs ==
    ASSUME NEW q \in Requests
    PROVE  /\ Names(Allowed(q)) /\ Cardinality(Allowed(q)) <= MaxTargets
           /\ RequiredTargets(q) \subseteq Allowed(q) \/ Allowed(q) \subseteq RequiredTargets(q)
<1> DEFINE r == AllowedRequired(q)
           p == AllowedPermitted(q)
           c == AllowedContext(q)
           b == r \cup p
           n == Room(r)
           k == Room(b)
<1>1. MaxTargets \in Nat
  BY ContextBounds
<1>2. FirstOf(RequiredTargets(q), r, MaxTargets)
  BY <1>1, CandidatesAreNames, FirstNames DEF AllowedRequired
<1>3. IsFiniteSet(r) /\ Cardinality(r) \in Nat /\ Cardinality(r) <= MaxTargets
  BY <1>2, FS_CardinalityType DEF FirstOf
<1>4. n \in Nat /\ n = MaxTargets - Cardinality(r)
  BY <1>1, <1>3 DEF Room
<1>5. FirstOf(PermittedTargets(q), p, n)
  <2>1. p = First(PermittedTargets(q), Less, n)
    BY DEF AllowedPermitted
  <2> HIDE DEF n
  <2> QED BY <1>4, <2>1, CandidatesAreNames, FirstNames
<1>6. IsFiniteSet(p) /\ Cardinality(p) \in Nat /\ Cardinality(p) <= n
  BY <1>5, FS_CardinalityType DEF FirstOf
<1> HIDE DEF r, p
<1>7. /\ IsFiniteSet(b) /\ Cardinality(b) \in Nat
      /\ Cardinality(b) <= Cardinality(r) + Cardinality(p)
  <2>1. IsFiniteSet(b) /\ Cardinality(b) = Cardinality(r) + Cardinality(p) - Cardinality(r \cap p)
    BY <1>3, <1>6, FS_Union
  <2>2. Cardinality(r \cap p) \in Nat /\ Cardinality(b) \in Nat
    BY <1>3, <2>1, FS_Intersection, FS_CardinalityType
  <2> QED BY <1>3, <1>6, <2>1, <2>2
<1>8. k \in Nat /\ k = MaxTargets - Cardinality(b)
  BY <1>1, <1>3, <1>4, <1>6, <1>7 DEF Room
<1>9. FirstOf(ContextTargets(q), c, k)
  <2>1. c = First(ContextTargets(q), Less, k)
    BY DEF AllowedContext, r, p
  <2> HIDE DEF k
  <2> QED BY <1>8, <2>1, CandidatesAreNames, FirstNames
<1>10. IsFiniteSet(c) /\ Cardinality(c) \in Nat /\ Cardinality(c) <= k
  BY <1>9, FS_CardinalityType DEF FirstOf
<1>11. Allowed(q) = b \cup c
  BY DEF Allowed, r, p
<1> HIDE DEF c, b, n, k
<1>12. IsFiniteSet(Allowed(q)) /\ Cardinality(Allowed(q)) <= MaxTargets
  <2>1. /\ IsFiniteSet(b \cup c)
        /\ Cardinality(b \cup c) = Cardinality(b) + Cardinality(c) - Cardinality(b \cap c)
    BY <1>7, <1>10, FS_Union
  <2>2. Cardinality(b \cap c) \in Nat
    BY <1>7, FS_Intersection, FS_CardinalityType
  <2> QED BY <1>1, <1>7, <1>8, <1>10, <1>11, <2>1, <2>2
<1>13. Allowed(q) \subseteq Nat
  <2>1. r \subseteq RequiredTargets(q) /\ p \subseteq PermittedTargets(q) /\ c \subseteq ContextTargets(q)
    BY <1>2, <1>5, <1>9 DEF FirstOf
  <2> QED BY <1>11, <2>1, CandidatesAreNames DEF Names, b
<1>14. CASE RequiredTargets(q) = r
  BY <1>11, <1>12, <1>13, <1>14 DEF Names, b
<1>15. CASE Cardinality(r) = MaxTargets
  <2>1. n = 0
    BY <1>1, <1>4, <1>15
  <2>2. p = {}
    BY <1>6, <2>1, FS_EmptySet
  <2>3. b = r
    BY <2>2 DEF b
  <2>4. k = 0
    BY <1>1, <1>8, <1>15, <2>3
  <2>5. c = {}
    BY <1>10, <2>4, FS_EmptySet
  <2> QED BY <1>2, <1>11, <1>12, <1>13, <2>3, <2>5 DEF FirstOf, Names
<1> QED BY <1>2, <1>14, <1>15 DEF FirstOf

-----------------------------------------------------------------------------
(* The evidence on a target.                                               *)

\* Finitely many finite sets make a finite one.
LEMMA FiniteUnion ==
    ASSUME NEW S, IsFiniteSet(S), NEW f, \A x \in S : IsFiniteSet(f[x]),
           NEW T, T = UNION {f[x] : x \in S}
    PROVE  IsFiniteSet(T)
<1>1. PICK I : I = {f[x] : x \in S}
  OBVIOUS
<1>2. IsFiniteSet(I) /\ \A s \in I : IsFiniteSet(s)
  BY <1>1, Image
<1> QED BY <1>1, <1>2, FS_UNION

Tiers == {"required", "optional", "context"}

\* Evidence at finitely many paths is finite.
LEMMA EvidenceIsFinite ==
    ASSUME NEW paths, Names(paths), NEW tier
    PROVE  IsFiniteSet(Evidence(paths, tier))
<1> DEFINE f == [p \in paths |-> [path |-> p, tier |-> tier]]
<1>1. PICK T : T = Evidence(paths, tier)
  OBVIOUS
<1>2. T = {f[p] : p \in paths} /\ IsFiniteSet(paths)
  BY <1>1 DEF Evidence, Names
<1> HIDE DEF f
<1> QED BY <1>1, <1>2, Image

\* The evidence collected for a target is finite.
LEMMA CollectedIs ==
    ASSUME NEW q \in Requests, NEW t
    PROVE  IsFiniteSet(Collected(q, t)) /\ Collected(q, t) \subseteq [path : Nat, tier : Tiers]
<1>1. PICK C \in SUBSET q.clauses : C = {d \in q.clauses : t \in d.targets}
  OBVIOUS
<1>2. PICK U \in SUBSET q.unexpected : U = {v \in q.unexpected : t \in v.targets}
  OBVIOUS
<1>3. PICK P \in SUBSET q.pairs : P = {r \in NearBy(q) : t \in {r.subject, r.related}}
  BY DEF NearBy
<1>4. IsFiniteSet(C) /\ IsFiniteSet(U) /\ IsFiniteSet(P)
  BY RequestIs, FS_Subset
<1>5. /\ \A c \in C : Names(c.evidence)
      /\ \A u \in U : Names(u.evidence)
      /\ \A p \in P : Names(p.evidence)
  BY RequestIs DEF Points
<1> DEFINE fc == [c \in C |-> Evidence(c.evidence, EvidenceTier(c))]
           fu == [u \in U |-> Evidence(u.evidence, "required")]
           fp == [p \in P |-> Evidence(p.evidence, "context")]
<1>6. PICK X, Y, Z : /\ X = UNION {fc[c] : c \in C}
                     /\ Y = UNION {fu[u] : u \in U}
                     /\ Z = UNION {fp[p] : p \in P}
  OBVIOUS
<1>7. Collected(q, t) = X \cup Y \cup Z
  <2>1. /\ X = UNION {Evidence(c.evidence, EvidenceTier(c)) : c \in C}
        /\ Y = UNION {Evidence(u.evidence, "required") : u \in U}
        /\ Z = UNION {Evidence(p.evidence, "context") : p \in P}
    BY <1>6
  <2> QED BY <1>1, <1>2, <1>3, <2>1, Zenon DEF Collected
<1>8. /\ \A c \in C : IsFiniteSet(fc[c])
      /\ \A u \in U : IsFiniteSet(fu[u])
      /\ \A p \in P : IsFiniteSet(fp[p])
  BY <1>5, EvidenceIsFinite
<1>9. /\ \A c \in C : fc[c] \subseteq [path : Nat, tier : Tiers]
      /\ \A u \in U : fu[u] \subseteq [path : Nat, tier : Tiers]
      /\ \A p \in P : fp[p] \subseteq [path : Nat, tier : Tiers]
  BY <1>5 DEF Evidence, EvidenceTier, Tiers, Names
<1> HIDE DEF fc, fu, fp
<1>10. IsFiniteSet(X) /\ IsFiniteSet(Y) /\ IsFiniteSet(Z)
  BY <1>4, <1>6, <1>8, FiniteUnion
<1>11. IsFiniteSet(X \cup Y \cup Z)
  <2>1. PICK V : V = X \cup Y
    OBVIOUS
  <2>2. IsFiniteSet(V) /\ X \cup Y \cup Z = V \cup Z
    BY <1>10, <2>1, FS_Union
  <2> QED BY <1>10, <2>2, FS_Union
<1> QED BY <1>6, <1>7, <1>9, <1>11

\* The evidence kept fits its bound, and nothing is kept before better evidence.
LEMMA FirstEvidence ==
    ASSUME NEW q \in Requests, NEW t
    PROVE  /\ FirstOf(Distinct(Collected(q, t)), BoundedEvidence(q, t), MaxEvidence)
           /\ \A d \in BoundedEvidence(q, t), e \in Distinct(Collected(q, t)) :
                  EvidenceBefore(e, d) => e \in BoundedEvidence(q, t)
<1>1. PICK C : C = Distinct(Collected(q, t))
  OBVIOUS
<1>2. C \in SUBSET Collected(q, t)
  BY <1>1 DEF Distinct
<1>3. IsFiniteSet(C) /\ C \subseteq [path : Nat, tier : Tiers] /\ MaxEvidence \in Nat
  BY <1>2, CollectedIs, FS_Subset, ContextBounds
<1>4. PICK R : R = {p \in C \X C : EvidenceBefore(p[1], p[2])}
  OBVIOUS
<1>5. \A d, e \in C : <<d, e>> \in R <=> EvidenceBefore(d, e)
  BY <1>4
<1>6. \A d \in Tiers : /\ TierRank(d) \in {0, 1, 2}
                       /\ \A e \in Tiers : TierRank(d) = TierRank(e) => d = e
  BY DEF TierRank, Tiers
<1>7. StrictOrder(C, R)
  <2>1. \A e \in C : ~ EvidenceBefore(e, e)
    BY <1>3, <1>6 DEF EvidenceBefore
  <2>2. \A d, e \in C : d # e => EvidenceBefore(d, e) \/ EvidenceBefore(e, d)
    <3> SUFFICES ASSUME NEW d \in C, NEW e \in C, d # e
                 PROVE  EvidenceBefore(d, e) \/ EvidenceBefore(e, d)
      OBVIOUS
    <3>1. /\ d = [path |-> d.path, tier |-> d.tier] /\ e = [path |-> e.path, tier |-> e.tier]
          /\ d.path \in Nat /\ e.path \in Nat /\ d.tier \in Tiers /\ e.tier \in Tiers
      BY <1>3
    <3>2. d.path # e.path \/ d.tier # e.tier
      BY <3>1
    <3>3. /\ TierRank(d.tier) \in {0, 1, 2} /\ TierRank(e.tier) \in {0, 1, 2}
          /\ TierRank(d.tier) = TierRank(e.tier) => d.path # e.path
      BY <1>6, <3>1, <3>2
    <3> QED BY <3>1, <3>3 DEF EvidenceBefore
  <2>3. \A c, d, e \in C : EvidenceBefore(c, d) /\ EvidenceBefore(d, e) => EvidenceBefore(c, e)
    <3> SUFFICES ASSUME NEW c \in C, NEW d \in C, NEW e \in C,
                        EvidenceBefore(c, d), EvidenceBefore(d, e)
                 PROVE  EvidenceBefore(c, e)
      OBVIOUS
    <3>1. /\ c.path \in Nat /\ d.path \in Nat /\ e.path \in Nat
          /\ TierRank(c.tier) \in {0, 1, 2} /\ TierRank(d.tier) \in {0, 1, 2}
          /\ TierRank(e.tier) \in {0, 1, 2}
      BY <1>3, <1>6
    <3> QED BY <3>1 DEF EvidenceBefore
  <2> QED BY <1>5, <2>1, <2>2, <2>3 DEF StrictOrder
<1>8. BoundedEvidence(q, t) = Chosen(C, R, MaxEvidence)
  <2>1. \A e \in C : {d \in C : EvidenceBefore(d, e)} = Earlier(C, R, e)
    BY <1>5 DEF Earlier
  <2> QED BY <1>1, <2>1 DEF BoundedEvidence, First, Chosen
<1>9. LET K == Chosen(C, R, MaxEvidence) IN
      /\ K \subseteq C /\ IsFiniteSet(K) /\ Cardinality(K) <= MaxEvidence
      /\ K = C \/ Cardinality(K) = MaxEvidence
      /\ \A x \in K, y \in C : <<y, x>> \in R => y \in K
  BY <1>3, <1>7, ChosenFirst
<1>10. FirstOf(C, BoundedEvidence(q, t), MaxEvidence)
  BY <1>8, <1>9 DEF FirstOf
<1>11. \A d \in BoundedEvidence(q, t), e \in C :
          EvidenceBefore(e, d) => e \in BoundedEvidence(q, t)
  BY <1>5, <1>8, <1>9
<1> QED BY <1>1, <1>10, <1>11

\* While a path a target needs is left out, only such paths are kept.
LEMMA PathsFirst ==
    ASSUME NEW q \in Requests, NEW t
    PROVE  LET kept == {e.path : e \in BoundedEvidence(q, t)} IN
           /\ Cardinality(kept) <= MaxEvidence
           /\ EssentialPaths(q, t) \subseteq kept \/ kept \subseteq EssentialPaths(q, t)
<1>1. PICK K : K = BoundedEvidence(q, t)
  OBVIOUS
<1>2. PICK kept : kept = {e.path : e \in K}
  OBVIOUS
<1>3. /\ IsFiniteSet(K) /\ Cardinality(K) <= MaxEvidence /\ MaxEvidence \in Nat
      /\ K \subseteq Distinct(Collected(q, t))
  BY <1>1, FirstEvidence, ContextBounds DEF FirstOf
<1>4. Cardinality(kept) <= MaxEvidence
  <2> DEFINE f == [e \in K |-> e.path]
  <2>1. kept = {f[e] : e \in K}
    BY <1>2
  <2> HIDE DEF f
  <2>2. IsFiniteSet(kept) /\ Cardinality(kept) <= Cardinality(K)
    BY <1>3, <2>1, Image
  <2>3. Cardinality(kept) \in Nat /\ Cardinality(K) \in Nat
    BY <1>3, <2>2, FS_CardinalityType
  <2> QED BY <1>3, <2>2, <2>3
<1>5. ASSUME NEW p \in EssentialPaths(q, t), p \notin kept, NEW d \in K
      PROVE  d.path \in EssentialPaths(q, t)
  <2>1. PICK e : e = [path |-> p, tier |-> "required"]
    OBVIOUS
  <2>2. e \in Distinct(Collected(q, t)) /\ e \notin K
    BY <1>2, <1>5, <2>1, PathIsRequired
  <2>3. ~ EvidenceBefore(e, d)
    BY <1>1, <2>2, FirstEvidence
  <2>4. d \in Collected(q, t) /\ d.tier \in Tiers
    BY <1>3, CollectedIs DEF Distinct
  <2>5. d.tier = "required"
    BY <2>1, <2>3, <2>4 DEF EvidenceBefore, TierRank, Tiers
  <2>6. CASE \E c \in q.clauses : t \in c.targets /\ d \in Evidence(c.evidence, EvidenceTier(c))
    BY <2>5, <2>6, ClauseReading DEF Evidence, EssentialPaths
  <2>7. CASE \E u \in q.unexpected : t \in u.targets /\ d \in Evidence(u.evidence, "required")
    BY <2>7 DEF Evidence, EssentialPaths
  <2>8. CASE \E r \in NearBy(q) : d \in Evidence(r.evidence, "context")
    BY <2>5, <2>8 DEF Evidence
  <2> QED BY <2>4, <2>6, <2>7, <2>8 DEF Collected
<1> QED BY <1>1, <1>2, <1>4, <1>5

-----------------------------------------------------------------------------
(* Finitely much is lost, so that a record of it fits.                     *)

LEMMA FiniteBoth ==
    ASSUME NEW S, IsFiniteSet(S), NEW T, IsFiniteSet(T)
    PROVE  IsFiniteSet(S \cup T)
BY FS_Union

\* A set of at most one is finite.
LEMMA AtMostOne == ASSUME NEW x, NEW S \in SUBSET {x} PROVE IsFiniteSet(S)
BY FS_Singleton, FS_Subset

\* Records of dropped targets are finitely many.
LEMMA DroppedIsFinite ==
    ASSUME NEW q \in Requests
    PROVE  IsFiniteSet(DroppedTargets(q))
<1> DEFINE f == [t \in RequiredTargets(q) \ Allowed(q) |->
                    Omission(<<"target", t>>, "required-evidence-lost-by-bound", TRUE)]
           g == [t \in Candidates(q) \ (RequiredTargets(q) \cup Allowed(q)) |->
                    Omission(<<"target", t>>, "omitted-by-bound", FALSE)]
<1>1. PICK S, T : /\ S = RequiredTargets(q) \ Allowed(q)
                  /\ T = Candidates(q) \ (RequiredTargets(q) \cup Allowed(q))
  OBVIOUS
<1>2. IsFiniteSet(S) /\ IsFiniteSet(T)
  <2>1. S \in SUBSET RequiredTargets(q) /\ T \in SUBSET (PermittedTargets(q) \cup ContextTargets(q))
    BY <1>1 DEF Candidates, Priority
  <2>2. IsFiniteSet(PermittedTargets(q) \cup ContextTargets(q)) /\ IsFiniteSet(RequiredTargets(q))
    BY CandidatesAreNames, FiniteBoth DEF Names
  <2> QED BY <2>1, <2>2, FS_Subset
<1>3. PICK A, B : A = {f[t] : t \in S} /\ B = {g[t] : t \in T}
  OBVIOUS
<1>4. DroppedTargets(q) = A \cup B
  BY <1>1, <1>3 DEF DroppedTargets
<1> HIDE DEF f, g
<1>5. IsFiniteSet(A) /\ IsFiniteSet(B)
  BY <1>2, <1>3, Image
<1> QED BY <1>4, <1>5, FiniteBoth

\* Records of diagnostics are.
LEMMA DiagnosedIsFinite ==
    ASSUME NEW q \in Requests
    PROVE  IsFiniteSet(Diagnosed(q))
<1> DEFINE f == [d \in q.diagnostics |->
                    Omission(<<d.code, d.target>>, ReasonOf(d.code), d.target \in RequiredTargets(q))]
<1>1. PICK A : A = {f[d] : d \in q.diagnostics}
  OBVIOUS
<1>2. Diagnosed(q) \in SUBSET A
  BY <1>1 DEF Diagnosed
<1> HIDE DEF f
<1>3. IsFiniteSet(A)
  BY <1>1, RequestIs, Image
<1> QED BY <1>2, <1>3, FS_Subset

\* Records of evidence lost are.
LEMMA EvidenceLossIsFinite ==
    ASSUME NEW q \in Requests
    PROVE  IsFiniteSet(RequiredEvidenceLost(q)) /\ IsFiniteSet(CutEvidence(q))
<1> DEFINE f == [t \in Allowed(q) |->
                    Omission(<<"relationshipEvidence", t>>, "required-evidence-lost-by-bound", TRUE)]
           g == [t \in Allowed(q) |->
                    Truncation(<<"relationshipEvidence", t>>, RequiredLostOn(q, t))]
<1>1. PICK A, B : A = {f[t] : t \in Allowed(q)} /\ B = {g[t] : t \in Allowed(q)}
  OBVIOUS
<1>2. RequiredEvidenceLost(q) \in SUBSET A
  BY <1>1 DEF RequiredEvidenceLost
<1>3. CutEvidence(q) \in SUBSET B
  BY <1>1 DEF CutEvidence
<1>4. IsFiniteSet(Allowed(q))
  BY AllowedIs DEF Names
<1> HIDE DEF f, g
<1>5. IsFiniteSet(A) /\ IsFiniteSet(B)
  BY <1>1, <1>4, Image
<1> QED BY <1>2, <1>3, <1>5, FS_Subset

\* Records of missing geometry are.
LEMMA GeometryLossIsFinite ==
    ASSUME NEW q \in Requests
    PROVE  IsFiniteSet(WithoutGeometry(q))
<1> DEFINE f == [t \in Allowed(q) |->
                    Omission(<<"geometry", t>>, "unsupported-or-unavailable", t \in RequiredTargets(q))]
<1>1. PICK A : A = {f[t] : t \in Allowed(q)}
  OBVIOUS
<1>2. WithoutGeometry(q) \in SUBSET A
  BY <1>1 DEF WithoutGeometry
<1>3. IsFiniteSet(Allowed(q))
  BY AllowedIs DEF Names
<1> HIDE DEF f
<1>4. IsFiniteSet(A)
  BY <1>1, <1>3, Image
<1> QED BY <1>2, <1>4, FS_Subset

\* So all records of a projection are.
LEMMA LossesAreFinite ==
    ASSUME NEW q \in Requests
    PROVE  IsFiniteSet(AllOmissions(q)) /\ IsFiniteSet(AllTruncations(q))
<1>1. IsFiniteSet(FidelityOf(q).omissions) /\ IsFiniteSet(FidelityOf(q).truncations)
  BY FidelityAdds
<1>2. IsFiniteSet(AllOmissions(q))
  <2>1. PICK A : A = FidelityOf(q).omissions \cup DroppedTargets(q)
    OBVIOUS
  <2>2. PICK B : B = A \cup Diagnosed(q)
    OBVIOUS
  <2>3. PICK C : C = RequiredEvidenceLost(q) \cup WithoutGeometry(q)
    OBVIOUS
  <2>4. IsFiniteSet(A) /\ IsFiniteSet(C)
    BY <1>1, <2>1, <2>3, DroppedIsFinite, EvidenceLossIsFinite, GeometryLossIsFinite, FiniteBoth
  <2>5. IsFiniteSet(B)
    BY <2>2, <2>4, DiagnosedIsFinite, FiniteBoth
  <2>6. AllOmissions(q) = B \cup C
    BY <2>1, <2>2, <2>3 DEF AllOmissions
  <2> QED BY <2>4, <2>5, <2>6, FiniteBoth
<1>3. IsFiniteSet(AllTruncations(q))
  <2>1. PICK A : A = FidelityOf(q).truncations \cup CutEvidence(q)
    OBVIOUS
  <2>2. PICK b \in BOOLEAN : b <=> ~ RequiredTargets(q) \subseteq Allowed(q)
    OBVIOUS
  <2>3. PICK x : x = Truncation(<<"targets", 0>>, ~ RequiredTargets(q) \subseteq Allowed(q))
    OBVIOUS
  <2>4. PICK B \in SUBSET {x} : B = IF Allowed(q) = Candidates(q) THEN {} ELSE {x}
    OBVIOUS
  <2>5. IsFiniteSet(A) /\ IsFiniteSet(B)
    BY <1>1, <2>1, EvidenceLossIsFinite, FiniteBoth, AtMostOne
  <2>6. AllTruncations(q) = A \cup B
    BY <2>1, <2>3, <2>4, Zenon DEF AllTruncations
  <2> QED BY <2>5, <2>6, FiniteBoth
<1> QED BY <1>2, <1>3

\* Records of the candidates a bound cut are.
LEMMA CutsAreFinite ==
    ASSUME NEW inputs \in Correlating, NEW i \in inputs
    PROVE  IsFiniteSet(CutFromRecord(i))
<1>1. IsFiniteSet(KeptIds(i))
  BY IdsAreNames, FirstNames, ContextBounds DEF KeptIds, FirstOf
<1> DEFINE f == [j \in KeptIds(i) |-> Truncation(<<"candidate-evidence", i.target, j>>, i.required)]
<1>2. PICK x, y : /\ x = Truncation(<<"candidates", i.target>>, i.required)
                  /\ y = Truncation(<<"runtimeEvidenceRefs", i.target>>, i.required)
  OBVIOUS
<1>3. PICK A \in SUBSET {x} : A = IF KeptIds(i) = Ids(i) THEN {} ELSE {x}
  OBVIOUS
<1>4. PICK C \in SUBSET {y} : C = IF KeptRefs(i.refs) = i.refs THEN {} ELSE {y}
  OBVIOUS
<1>5. PICK B : B = {Truncation(<<"candidate-evidence", i.target, k>>, i.required) :
                       k \in {j \in KeptIds(i) : KeptRefs(RefsOf(i, j)) # RefsOf(i, j)}}
  OBVIOUS
<1>6. CutFromRecord(i) = A \cup B \cup C
  BY <1>2, <1>3, <1>4, <1>5, Zenon DEF CutFromRecord
<1>7. PICK D : D = {f[j] : j \in KeptIds(i)}
  OBVIOUS
<1>8. B \in SUBSET D
  BY <1>5, <1>7
<1> HIDE DEF f
<1>9. IsFiniteSet(A) /\ IsFiniteSet(B) /\ IsFiniteSet(C)
  <2>1. IsFiniteSet(D)
    BY <1>1, <1>7, Image
  <2> QED BY <1>8, <2>1, FS_Subset, AtMostOne
<1>10. PICK E : E = A \cup B
  OBVIOUS
<1>11. IsFiniteSet(E) /\ CutFromRecord(i) = E \cup C
  BY <1>6, <1>9, <1>10, FiniteBoth
<1> QED BY <1>9, <1>11, FiniteBoth

\* So all records of a derivation are.
LEMMA DerivationIsFinite ==
    ASSUME NEW inputs \in Correlating
    PROVE  /\ IsFiniteSet(Derivation(inputs).omissions)
           /\ IsFiniteSet(Derivation(inputs).truncations)
<1>1. IsFiniteSet(inputs)
  BY CorrelatingShape
<1> DEFINE f == [i \in inputs |-> Omission(<<"correlation", i.target>>, "unsupported-or-unavailable", TRUE)]
           g == [i \in inputs |->
                    Omission(<<"correlation-record", i.target>>,
                             IF i.required THEN "required-evidence-lost-by-bound" ELSE "omitted-by-bound",
                             i.required)]
           h == [i \in inputs |-> CutFromRecord(i)]
<1>2. PICK A, B : A = {f[i] : i \in inputs} /\ B = {g[i] : i \in inputs}
  OBVIOUS
<1>3. Derivation(inputs).omissions \in SUBSET (A \cup B)
  BY <1>2 DEF Derivation, KeptEntries, First
<1>4. /\ Derivation(inputs).truncations = UNION {h[i] : i \in inputs}
      /\ \A i \in inputs : IsFiniteSet(h[i])
  BY CutsAreFinite DEF Derivation
<1> HIDE DEF f, g, h
<1>5. IsFiniteSet(A \cup B)
  <2>1. IsFiniteSet(A) /\ IsFiniteSet(B)
    BY <1>1, <1>2, Image
  <2> QED BY <2>1, FiniteBoth
<1> QED BY <1>1, <1>3, <1>4, <1>5, FS_Subset, FiniteUnion

-----------------------------------------------------------------------------
(* What a projection looks like, and what an attachment leaves of it.      *)

\* The content of a context, which no attachment touches.
Content(q, c) ==
    /\ c.targets = Allowed(q)
    /\ c.evidence = [t \in Allowed(q) |-> {e.path : e \in BoundedEvidence(q, t)}]
    /\ c.mismatches = FidelityOf(q).mismatches
    /\ IsFiniteSet(c.omissions) /\ IsFiniteSet(c.truncations)

\* The bounds of a context, but for its correlations.
Fits(q, c) ==
    /\ ValidAdequacy(c.adequacy)
    /\ Cardinality(c.targets) <= MaxTargets
    /\ \A t \in c.targets : ValidTarget(c, t)
    /\ Cardinality(c.omissions) <= MaxOmissions
    /\ Cardinality(c.truncations) <= MaxTruncations
    /\ q.fidelity # None => ValidFidelity(q.fidelity, c.mismatches)

\* Its correlations are those of the inputs attached, and what these lost of a
\* required target was held against it.
Correlated(c) ==
    \/ c.inputs = {} /\ c.correlations = {}
    \/ \E inputs \in Correlating :
           /\ DistinctTargets(inputs) /\ c.inputs = inputs
           /\ c.correlations = Derivation(inputs).records
           /\ ReasonsFor(Derivation(inputs)) # {} => c.adequacy.state = "inadequate"

\* Content fits.
LEMMA ContentFits ==
    ASSUME NEW q \in Requests, NEW c, Content(q, c)
    PROVE  /\ Cardinality(c.targets) <= MaxTargets
           /\ \A t \in c.targets : ValidTarget(c, t)
           /\ q.fidelity # None => ValidFidelity(q.fidelity, c.mismatches)
<1>1. Cardinality(c.targets) <= MaxTargets
  BY AllowedIs DEF Content
<1>2. \A t \in c.targets : ValidTarget(c, t)
  <2> SUFFICES ASSUME NEW t \in Allowed(q) PROVE Cardinality(c.evidence[t]) <= MaxEvidence
    BY DEF Content, ValidTarget
  <2>1. c.evidence[t] = {e.path : e \in BoundedEvidence(q, t)}
    BY DEF Content
  <2> QED BY <2>1, PathsFirst
<1>3. ASSUME q.fidelity # None PROVE ValidFidelity(q.fidelity, c.mismatches)
  <2>1. /\ Cardinality(c.mismatches) <= MaxMismatches
        /\ c.mismatches \subseteq DOMAIN q.fidelity.results
    BY <1>3, FidelityAdds DEF Content
  <2>2. \A i \in c.mismatches : ValidResult(q.fidelity.results[i])
    BY <1>3, <2>1, FidelityIs DEF ValidResult, WellModed
  <2> QED BY <2>1, <2>2 DEF ValidFidelity
<1> QED BY <1>1, <1>2, <1>3

\* A projected context has the content its request asks for, within every bound.
LEMMA ProjectionIs ==
    ASSUME NEW q \in Requests
    PROVE  /\ Content(q, Projection(q)) /\ Fits(q, Projection(q))
           /\ Projection(q).inputs = {} /\ Projection(q).correlations = {}
<1> DEFINE c == Projection(q)
<1>1. /\ MaxOmissions \in Nat \ {0} /\ MaxTruncations \in Nat \ {0}
      /\ IsFiniteSet(AllOmissions(q)) /\ IsFiniteSet(AllTruncations(q))
  BY ContextBounds, LossesAreFinite
<1>2. /\ c.targets = Allowed(q)
      /\ c.evidence = [t \in Allowed(q) |-> {e.path : e \in BoundedEvidence(q, t)}]
      /\ c.mismatches = FidelityOf(q).mismatches
      /\ c.adequacy = Adequacy(q)
      /\ c.omissions = CapOmissions(AllOmissions(q), MaxOmissions, "omissions-summary")
      /\ c.truncations = CapTruncations(AllTruncations(q), MaxTruncations, "truncations-summary")
      /\ c.inputs = {} /\ c.correlations = {}
  BY DEF Projection
<1> HIDE DEF c
<1>3. /\ IsFiniteSet(c.omissions) /\ IsFiniteSet(c.truncations)
      /\ Cardinality(c.omissions) <= MaxOmissions /\ Cardinality(c.truncations) <= MaxTruncations
  BY <1>1, <1>2, OmissionsFit, TruncationsFit
<1>4. Content(q, c)
  BY <1>2, <1>3 DEF Content
<1>5. ValidAdequacy(Adequacy(q))
  <2>1. CASE RequiredReasons(q) # {}
    BY <2>1 DEF Adequacy, ValidAdequacy
  <2>2. CASE RequiredReasons(q) = {}
    BY <2>2 DEF Adequacy, ValidAdequacy
  <2> QED BY <2>1, <2>2
<1>6. Fits(q, c)
  BY <1>2, <1>3, <1>4, <1>5, ContentFits DEF Fits
<1> QED BY <1>2, <1>4, <1>6 DEF c

-----------------------------------------------------------------------------
(* The inductive invariant.                                                *)

Shaped(c) ==
    c = [targets |-> c.targets, evidence |-> c.evidence, mismatches |-> c.mismatches,
         adequacy |-> c.adequacy, omissions |-> c.omissions, truncations |-> c.truncations,
         correlations |-> c.correlations, inputs |-> c.inputs]

IInv ==
    /\ request \in Requests
    /\ Projected => /\ Shaped(context)
                    /\ context.adequacy.state \in {"adequate", "partial", "inadequate"}
                    /\ context.adequacy.state = "adequate" => context.adequacy.reasons = {}
    /\ LossIsVisible

\* An attachment changes the verdict and the records of loss, nothing else.
LEMMA AttachedIs ==
    ASSUME NEW c, NEW d, Shaped(c)
    PROVE  LET a == Attached(c, d) IN
           /\ Shaped(a)
           /\ a.targets = c.targets /\ a.evidence = c.evidence /\ a.mismatches = c.mismatches
           /\ a.adequacy = AdequacyWith(c.adequacy, d)
           /\ a.omissions = CapOmissions(c.omissions \cup d.omissions, MaxOmissions,
                                         "correlation-omissions-summary")
           /\ a.truncations = CapTruncations(c.truncations \cup d.truncations, MaxTruncations,
                                             "correlation-truncations-summary")
           /\ a.correlations = d.records /\ a.inputs = d.inputs
<1>1. Attached(c, d) =
        [targets |-> c.targets, evidence |-> c.evidence, mismatches |-> c.mismatches,
         adequacy |-> AdequacyWith(c.adequacy, d),
         omissions |-> CapOmissions(c.omissions \cup d.omissions, MaxOmissions,
                                    "correlation-omissions-summary"),
         truncations |-> CapTruncations(c.truncations \cup d.truncations, MaxTruncations,
                                        "correlation-truncations-summary"),
         correlations |-> d.records, inputs |-> d.inputs]
  <2>1. PICK T, E, M, A, O, R, C, I :
            c = [targets |-> T, evidence |-> E, mismatches |-> M, adequacy |-> A,
                 omissions |-> O, truncations |-> R, correlations |-> C, inputs |-> I]
    BY DEF Shaped
  <2> DEFINE o == CapOmissions(O \cup d.omissions, MaxOmissions, "correlation-omissions-summary")
             r == CapTruncations(R \cup d.truncations, MaxTruncations, "correlation-truncations-summary")
             v == AdequacyWith(A, d)
             dr == d.records
             di == d.inputs
  <2>2. Attached(c, d) = [c EXCEPT !.adequacy = v, !.omissions = o, !.truncations = r,
                                   !.correlations = dr, !.inputs = di]
    BY <2>1 DEF Attached
  <2> HIDE DEF o, r, v, dr, di
  <2>3. Attached(c, d) = [targets |-> T, evidence |-> E, mismatches |-> M, adequacy |-> v,
                          omissions |-> o, truncations |-> r, correlations |-> dr, inputs |-> di]
    BY <2>1, <2>2
  <2> QED BY <2>1, <2>3 DEF o, r, v, dr, di
<1> QED BY <1>1 DEF Shaped

\* A derivation's verdict added to another never betters it.
LEMMA NoBetter ==
    ASSUME NEW a, NEW d, a.state \in {"adequate", "partial", "inadequate"},
           a.state = "adequate" => a.reasons = {}
    PROVE  LET b == AdequacyWith(a, d) IN
           /\ b.state \in {"adequate", "partial", "inadequate"}
           /\ b.state = "adequate" => b.reasons = {}
           /\ Grade(b.state) <= Grade(a.state)
           /\ a.reasons \subseteq b.reasons
           /\ a.state # "adequate" => b.state # "adequate"
<1>1. CASE ReasonsFor(d) # {}
  BY <1>1 DEF AdequacyWith, Grade
<1>2. CASE ReasonsFor(d) = {} /\ a.state = "adequate" /\ d.omissions \cup d.truncations # {}
  BY <1>2 DEF AdequacyWith, Grade
<1>3. CASE ReasonsFor(d) = {} /\ ~ (a.state = "adequate" /\ d.omissions \cup d.truncations # {})
  <2>1. AdequacyWith(a, d) = a
    BY <1>3 DEF AdequacyWith
  <2> QED BY <2>1 DEF Grade
<1> QED BY <1>1, <1>2, <1>3

\* Every step keeps the invariant of losses.
LEMMA Inductive == IInv /\ [Next]_vars => IInv'
<1> SUFFICES ASSUME IInv, [Next]_vars PROVE IInv'
  OBVIOUS
<1> USE DEF IInv
<1>1. CASE Project
  <2>1. context' = Projection(request) /\ request' = request
    BY <1>1 DEF Project
  <2>2. Shaped(context')
    BY <2>1 DEF Shaped, Projection
  <2>3. /\ context'.adequacy.state \in {"adequate", "partial", "inadequate"}
        /\ context'.adequacy.state = "adequate" => context'.adequacy.reasons = {}
    BY <2>1 DEF Projection, Adequacy
  <2>4. Withheld(request, context)' =>
            /\ context'.adequacy.state # "adequate"
            /\ SomeRequired(context'.omissions)
    BY <2>1, ProjectionTells
  <2> QED BY <2>1, <2>2, <2>3, <2>4 DEF LossIsVisible
<1>2. CASE Refuse
  BY <1>2 DEF Refuse, Projected, LossIsVisible
<1>3. CASE Derive
  BY <1>3 DEF Derive, Projected, LossIsVisible, Withheld
<1>4. CASE Attach
  <2>1. /\ Projected /\ request' = request /\ context' = Attached(context, derived)
    BY <1>4 DEF Attach
  <2>2. Shaped(context)
    BY <2>1
  <2>3. /\ Shaped(context')
        /\ context'.targets = context.targets /\ context'.evidence = context.evidence
        /\ context'.mismatches = context.mismatches
        /\ context'.adequacy = AdequacyWith(context.adequacy, derived)
        /\ SomeRequired(context.omissions) => SomeRequired(context'.omissions)
        /\ SomeRequired(context.truncations) => SomeRequired(context'.truncations)
    <3>1. SomeRequired(context.omissions) => SomeRequired(context.omissions \cup derived.omissions)
      BY DEF SomeRequired
    <3>2. SomeRequired(context.truncations) => SomeRequired(context.truncations \cup derived.truncations)
      BY DEF SomeRequired
    <3>3. /\ Shaped(context')
          /\ context'.targets = context.targets /\ context'.evidence = context.evidence
          /\ context'.mismatches = context.mismatches
          /\ context'.adequacy = AdequacyWith(context.adequacy, derived)
          /\ context'.omissions = CapOmissions(context.omissions \cup derived.omissions,
                                               MaxOmissions, "correlation-omissions-summary")
          /\ context'.truncations = CapTruncations(context.truncations \cup derived.truncations,
                                                   MaxTruncations, "correlation-truncations-summary")
      BY <2>1, <2>2, AttachedIs
    <3> QED BY <3>1, <3>2, <3>3, CapKeepsOmission, CapKeepsTruncation
  <2>4. /\ context'.adequacy.state \in {"adequate", "partial", "inadequate"}
        /\ context'.adequacy.state = "adequate" => context'.adequacy.reasons = {}
        /\ context.adequacy.state # "adequate" => context'.adequacy.state # "adequate"
    BY <2>1, <2>3, NoBetter
  <2>5. Withheld(request, context)' <=> Withheld(request, context)
    BY <2>1, <2>3 DEF Withheld
  <2>6. LossIsVisible'
    BY <2>1, <2>3, <2>4, <2>5 DEF LossIsVisible
  <2> QED BY <2>1, <2>3, <2>4, <2>6
<1>5. CASE AttachRefused
  BY <1>5 DEF AttachRefused, Projected, LossIsVisible, Withheld
<1>6. CASE UNCHANGED vars
  BY <1>6 DEF vars, Projected, LossIsVisible, Withheld
<1> QED BY <1>1, <1>2, <1>3, <1>4, <1>5, <1>6 DEF Next

\* For all bounds, requests and correlations: nothing a task needs goes missing
\* from its context without being told, before an attachment or after it.
THEOREM AlwaysTold == Spec => []LossIsVisible
<1>1. Init => IInv
  BY DEF Init, IInv, Projected, LossIsVisible
<1>2. IInv => LossIsVisible
  BY DEF IInv
<1> QED BY <1>1, <1>2, Inductive, PTL DEF Spec

\* For all bounds, requests and correlations: an attachment keeps every reason
\* and every sign of a required loss, and never raises the verdict.
THEOREM AlwaysNoBetter == Spec => NeverBetter
<1> DEFINE Kept ==
        /\ Grade(context'.adequacy.state) <= Grade(context.adequacy.state)
        /\ context.adequacy.reasons \subseteq context'.adequacy.reasons
        /\ SomeRequired(context.omissions) => SomeRequired(context'.omissions)
        /\ SomeRequired(context.truncations) => SomeRequired(context'.truncations)
<1>1. Init => IInv
  BY DEF Init, IInv, Projected, LossIsVisible
<1>2. IInv /\ [Next]_vars => [Projected => Kept]_vars
  <2> SUFFICES ASSUME IInv, Next, Projected PROVE Kept
    BY DEF Kept
  <2>1. Shaped(context) /\ context.adequacy.state \in {"adequate", "partial", "inadequate"}
        /\ (context.adequacy.state = "adequate" => context.adequacy.reasons = {})
    BY DEF IInv
  <2>2. CASE Attach
    <3>1. context' = Attached(context, derived)
      BY <2>2 DEF Attach
    <3>2. SomeRequired(context.omissions) => SomeRequired(context.omissions \cup derived.omissions)
      BY DEF SomeRequired
    <3>3. SomeRequired(context.truncations) => SomeRequired(context.truncations \cup derived.truncations)
      BY DEF SomeRequired
    <3>4. /\ context'.adequacy = AdequacyWith(context.adequacy, derived)
          /\ context'.omissions = CapOmissions(context.omissions \cup derived.omissions,
                                               MaxOmissions, "correlation-omissions-summary")
          /\ context'.truncations = CapTruncations(context.truncations \cup derived.truncations,
                                                   MaxTruncations, "correlation-truncations-summary")
      BY <2>1, <3>1, AttachedIs
    <3>5. /\ SomeRequired(context.omissions) => SomeRequired(context'.omissions)
          /\ SomeRequired(context.truncations) => SomeRequired(context'.truncations)
      BY <3>2, <3>3, <3>4, CapKeepsOmission, CapKeepsTruncation
    <3> QED BY <2>1, <3>4, <3>5, NoBetter DEF Kept
  <2>3. CASE context' = context
    BY <2>1, <2>3 DEF Kept, Grade
  <2>4. Attach \/ context' = context
    BY DEF Next, Project, Refuse, Derive, AttachRefused, Projected
  <2> QED BY <2>2, <2>3, <2>4
<1> QED BY <1>1, <1>2, Inductive, PTL DEF Spec, NeverBetter, Kept

-----------------------------------------------------------------------------
(* The bounds, and the correlations.                                       *)

\* Failures of what must hold are shown before anything else.
LEMMA FailuresFirst ==
    ASSUME NEW q \in Requests
    PROVE  LET shown == FidelityOf(q).mismatches IN
           Failed(q) \subseteq shown \/ shown \subseteq Failed(q)
<1>1. CASE q.fidelity = None \/ q.fidelity.state = "not-evaluated"
  <2>1. Failed(q) = {}
    BY <1>1, FidelityIs DEF Failed, Unmet
  <2> QED BY <2>1
<1>2. CASE q.fidelity # None /\ q.fidelity.state # "not-evaluated"
  <2> DEFINE f == q.fidelity
  <2>1. FidelityOf(q).mismatches = Mismatches(f)
    BY <1>2 DEF FidelityOf, ProjectFidelity, ShownOfFidelity
  <2>2. \A i \in DOMAIN f.results :
            i \in Failed(q) <=> RankOfMismatch(f.results[i]) = 0
    <3> SUFFICES ASSUME NEW i \in DOMAIN f.results
                 PROVE  i \in Failed(q) <=> RankOfMismatch(f.results[i]) = 0
      OBVIOUS
    <3>1. TierOfRequirement(f.results[i]) = "required" <=> Guarded(f.results[i])
      BY <1>2, FidelityIs DEF TierOfRequirement, Guarded, WellModed
    <3>2. i \in Failed(q) <=> Guarded(f.results[i]) /\ f.results[i].status = "fail"
      BY <1>2 DEF Failed, Unmet
    <3> QED BY <3>1, <3>2, RankIs
  <2>3. Mismatches(f) \subseteq NonPass(f) /\ NonPass(f) \subseteq DOMAIN f.results
    BY <1>2, FirstMismatches DEF FirstOf, NonPass
  <2>4. Failed(q) \subseteq NonPass(f)
    BY <1>2 DEF Failed, Unmet, NonPass
  <2>5. ASSUME NEW i \in Failed(q), i \notin Mismatches(f), NEW j \in Mismatches(f)
        PROVE  j \in Failed(q)
    <3>1. ~ MismatchBefore(f, i, j)
      BY <1>2, <2>4, <2>5, FirstMismatches
    <3>2. /\ RankOfMismatch(f.results[i]) = 0
          /\ RankOfMismatch(f.results[j]) \in {0, 1, 2}
      BY <2>2, <2>3, <2>4, RankIs
    <3>3. RankOfMismatch(f.results[j]) = 0
      BY <3>1, <3>2 DEF MismatchBefore
    <3> QED BY <2>2, <2>3, <3>3
  <2> QED BY <2>1, <2>5
<1> QED BY <1>1, <1>2

\* What is attached to a context keeps its content and bounds.
LEMMA AttachedFits ==
    ASSUME NEW q \in Requests, NEW c, Shaped(c), Content(q, c), Fits(q, c),
           c.adequacy.state = "adequate" => c.adequacy.reasons = {},
           NEW inputs \in Correlating, DistinctTargets(inputs)
    PROVE  LET a == Attached(c, Derivation(inputs)) IN
           Content(q, a) /\ Fits(q, a) /\ Correlated(a) /\ Cardinality(a.correlations) <= MaxRecords
<1>1. PICK d : d = Derivation(inputs)
  OBVIOUS
<1>2. PICK a : a = Attached(c, d)
  OBVIOUS
<1>3. /\ a.targets = c.targets /\ a.evidence = c.evidence /\ a.mismatches = c.mismatches
      /\ a.adequacy = AdequacyWith(c.adequacy, d)
      /\ a.omissions = CapOmissions(c.omissions \cup d.omissions, MaxOmissions,
                                    "correlation-omissions-summary")
      /\ a.truncations = CapTruncations(c.truncations \cup d.truncations, MaxTruncations,
                                        "correlation-truncations-summary")
      /\ a.correlations = d.records /\ a.inputs = d.inputs
  BY <1>2, AttachedIs
<1>4. PICK O, T : O = c.omissions \cup d.omissions /\ T = c.truncations \cup d.truncations
  OBVIOUS
<1>5. IsFiniteSet(O) /\ IsFiniteSet(T) /\ MaxOmissions \in Nat \ {0} /\ MaxTruncations \in Nat \ {0}
  BY <1>1, <1>4, DerivationIsFinite, FiniteBoth, ContextBounds DEF Content
<1>6. /\ IsFiniteSet(a.omissions) /\ IsFiniteSet(a.truncations)
      /\ Cardinality(a.omissions) <= MaxOmissions /\ Cardinality(a.truncations) <= MaxTruncations
  BY <1>3, <1>4, <1>5, OmissionsFit, TruncationsFit
<1>7. Content(q, a)
  BY <1>3, <1>6 DEF Content
<1>8. ValidAdequacy(a.adequacy)
  <2>1. CASE ReasonsFor(d) # {}
    BY <1>3, <2>1 DEF AdequacyWith, ValidAdequacy
  <2>2. CASE ReasonsFor(d) = {} /\ c.adequacy.state = "adequate" /\ d.omissions \cup d.truncations # {}
    BY <1>3, <2>2 DEF AdequacyWith, ValidAdequacy
  <2>3. CASE ReasonsFor(d) = {} /\ ~ (c.adequacy.state = "adequate" /\ d.omissions \cup d.truncations # {})
    BY <1>3, <2>3 DEF AdequacyWith, Fits
  <2> QED BY <2>1, <2>2, <2>3
<1>9. Fits(q, a)
  BY <1>6, <1>7, <1>8, ContentFits DEF Fits
<1>10. d.inputs = inputs /\ d.records = {DeriveOneTarget(i) : i \in KeptEntries(inputs)}
  BY <1>1 DEF Derivation
<1>11. Correlated(a)
  <2>1. ReasonsFor(d) # {} => a.adequacy.state = "inadequate"
    BY <1>3 DEF AdequacyWith
  <2> QED BY <1>1, <1>3, <1>10, <2>1 DEF Correlated
<1>12. Cardinality(a.correlations) <= MaxRecords
  <2> DEFINE f == [i \in KeptEntries(inputs) |-> DeriveOneTarget(i)]
  <2>1. a.correlations = {f[i] : i \in KeptEntries(inputs)}
    BY <1>3, <1>10
  <2>2. PICK K : K = KeptEntries(inputs)
    OBVIOUS
  <2>3. IsFiniteSet(K) /\ Cardinality(K) <= MaxRecords /\ MaxRecords \in Nat
    BY <2>2, FirstEntries, ContextBounds DEF FirstOf
  <2> HIDE DEF f
  <2>4. PICK R : R = {f[i] : i \in K}
    OBVIOUS
  <2>5. IsFiniteSet(R) /\ Cardinality(R) <= Cardinality(K)
    BY <2>3, <2>4, Image
  <2>6. Cardinality(R) \in Nat /\ Cardinality(K) \in Nat
    BY <2>3, <2>5, FS_CardinalityType
  <2> QED BY <2>1, <2>2, <2>3, <2>4, <2>5, <2>6
<1> QED BY <1>1, <1>2, <1>7, <1>9, <1>11, <1>12

\* What is in hand: a derivation of inputs considered, a context that is what
\* its request makes of it, fits its bounds, and tells its correlations.
Held ==
    /\ derived # None => \E inputs \in Correlating :
           DistinctTargets(inputs) /\ derived = Derivation(inputs)
    /\ Projected => /\ Content(request, context) /\ Fits(request, context)
                    /\ Correlated(context) /\ Valid(context)

\* Every step keeps content, bounds and correlations as told.
LEMMA HeldStays == IInv /\ Held /\ [Next]_vars => Held'
<1> SUFFICES ASSUME IInv, Held, [Next]_vars PROVE Held'
  OBVIOUS
<1>1. CASE Project
  <2>1. context' = Projection(request) /\ request' = request /\ derived' = derived
    BY <1>1 DEF Project
  <2>2. PICK c : c = Projection(request)
    OBVIOUS
  <2>3. Content(request, c) /\ Fits(request, c) /\ c.inputs = {} /\ c.correlations = {}
    BY <2>2, ProjectionIs DEF IInv
  <2>4. Content(request, context)' /\ Fits(request, context)' /\ Correlated(context)'
    BY <2>1, <2>2, <2>3 DEF Content, Fits, Correlated
  <2>5. Valid(context)'
    <3>1. Cardinality({}) = 0 /\ MaxRecords \in Nat
      BY FS_EmptySet, ContextBounds
    <3> QED BY <2>1, <2>2, <2>3, <3>1 DEF Valid, Fits
  <2> QED BY <2>1, <2>4, <2>5 DEF Held
<1>2. CASE Refuse
  BY <1>2 DEF Refuse, Held, Projected
<1>3. CASE Derive
  <2>1. UNCHANGED <<request, context>>
        /\ \E inputs \in Correlating : DistinctTargets(inputs) /\ derived' = Derivation(inputs)
    BY <1>3 DEF Derive
  <2> QED BY <2>1 DEF Held, Projected, Content, Fits, Correlated, Valid
<1>4. CASE Attach
  <2>1. /\ Projected /\ Attachable(context, derived) /\ request' = request
        /\ context' = Attached(context, derived) /\ derived' = None /\ derived # None
    BY <1>4 DEF Attach
  <2>2. PICK inputs \in Correlating : DistinctTargets(inputs) /\ derived = Derivation(inputs)
    BY <2>1 DEF Held
  <2>3. PICK q \in Requests : q = request
    BY DEF IInv
  <2>4. PICK c, a : c = context /\ a = Attached(c, Derivation(inputs))
    OBVIOUS
  <2>5. /\ Shaped(c) /\ Content(q, c) /\ Fits(q, c)
        /\ c.adequacy.state = "adequate" => c.adequacy.reasons = {}
    BY <2>1, <2>3, <2>4 DEF IInv, Held
  <2>6. /\ Content(q, a) /\ Fits(q, a) /\ Correlated(a) /\ Cardinality(a.correlations) <= MaxRecords
    BY <2>2, <2>4, <2>5, AttachedFits
  <2>7. \A r \in a.correlations : ValidRecord(r)
    <3>1. a.correlations = derived.records
      BY <2>2, <2>4, <2>5, AttachedIs
    <3> QED BY <2>1, <3>1 DEF Attachable
  <2>8. context' = a /\ request' = q
    BY <2>1, <2>2, <2>3, <2>4
  <2>9. Valid(context)'
    BY <2>6, <2>7, <2>8 DEF Valid, Fits
  <2>10. Content(request, context)' /\ Fits(request, context)' /\ Correlated(context)'
    BY <2>6, <2>8 DEF Content, Fits, Correlated
  <2> QED BY <2>1, <2>9, <2>10 DEF Held
<1>5. CASE AttachRefused
  BY <1>5 DEF AttachRefused, Held, Projected, Content, Fits, Correlated, Valid
<1>6. CASE UNCHANGED vars
  BY <1>6 DEF vars, Held, Projected, Content, Fits, Correlated, Valid
<1> QED BY <1>1, <1>2, <1>3, <1>4, <1>5, <1>6 DEF Next

\* The two invariants hold always.
LEMMA AlwaysHeld == Spec => [](IInv /\ Held)
<1>1. Init => IInv /\ Held
  BY DEF Init, IInv, Held, Projected, LossIsVisible
<1> QED BY <1>1, Inductive, HeldStays, PTL DEF Spec

\* For all bounds, requests and correlations: a context fits its bounds, before
\* an attachment and after it, and the bounds cost the task what it needs least.
THEOREM AlwaysRequiredFirst == Spec => []RequiredFirst
<1>1. IInv /\ Held => RequiredFirst
  <2> SUFFICES ASSUME IInv, Held, Projected PROVE RequiredFirst
    BY DEF RequiredFirst
  <2>1. PICK q \in Requests : q = request
    BY DEF IInv
  <2>2. Content(q, context) /\ Valid(context)
    BY <2>1 DEF Held
  <2>3. PICK needed : needed = Needed(q, context.mismatches)
    OBVIOUS
  <2>4. needed \subseteq context.targets \/ context.targets \subseteq needed
    BY <2>2, <2>3, RequiredIs, AllowedIs DEF Content
  <2>5. \A t \in context.targets :
            LET paths == EssentialPaths(q, t)
            IN paths \subseteq context.evidence[t] \/ context.evidence[t] \subseteq paths
    BY <2>2, PathsFirst DEF Content
  <2>6. Failed(q) \subseteq context.mismatches \/ context.mismatches \subseteq Failed(q)
    BY <2>2, FailuresFirst DEF Content
  <2> QED BY <2>1, <2>2, <2>3, <2>4, <2>5, <2>6 DEF RequiredFirst, Needed
<1> QED BY <1>1, AlwaysHeld, PTL

\* For all bounds, requests and correlations: a target is told correlated only
\* when a single candidate was ever supplied for it, and what a required target
\* lost makes the context inadequate.
THEOREM AlwaysCorrelationTold == Spec => []CorrelationTold
<1>1. IInv /\ Held => CorrelationTold
  <2> SUFFICES ASSUME Held, Projected PROVE CorrelationTold
    BY DEF CorrelationTold
  <2>1. PICK c : c = context
    OBVIOUS
  <2>2. Correlated(c)
    BY <2>1 DEF Held
  <2>3. CASE c.inputs = {} /\ c.correlations = {}
    BY <2>1, <2>3 DEF CorrelationTold
  <2>4. CASE \E inputs \in Correlating :
                 /\ DistinctTargets(inputs) /\ c.inputs = inputs
                 /\ c.correlations = Derivation(inputs).records
                 /\ ReasonsFor(Derivation(inputs)) # {} => c.adequacy.state = "inadequate"
    <3>1. PICK inputs \in Correlating :
                 /\ DistinctTargets(inputs) /\ c.inputs = inputs
                 /\ c.correlations = Derivation(inputs).records
                 /\ ReasonsFor(Derivation(inputs)) # {} => c.adequacy.state = "inadequate"
      BY <2>4
    <3>2. ASSUME NEW r \in c.correlations, NEW i \in inputs, i.target = r.target
          PROVE  r.status = "correlated" <=> Cardinality(Ids(i)) = 1
      <4>1. PICK j \in inputs : r = DeriveOneTarget(j)
        BY <3>1 DEF Derivation, KeptEntries, First
      <4>2. j = i
        BY <3>1, <3>2, <4>1 DEF DeriveOneTarget, DistinctTargets
      <4>3. r.status = StatusOf(i)
        BY <4>1, <4>2 DEF DeriveOneTarget
      <4> QED BY <4>3, OneCandidate
    <3>3. ASSUME NEW i \in inputs, i.required,
                 \/ i.candidates = {}
                 \/ \A r \in c.correlations : r.target = i.target => Ids(i) # {k.id : k \in r.candidates}
          PROVE  c.adequacy.state = "inadequate"
      BY <3>1, <3>3, LossIsAReason
    <3> QED BY <2>1, <3>1, <3>2, <3>3 DEF CorrelationTold
  <2> QED BY <2>2, <2>3, <2>4 DEF Correlated
<1> QED BY <1>1, AlwaysHeld, PTL
=============================================================================
