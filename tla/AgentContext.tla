---------------------------- MODULE AgentContext ----------------------------
(***************************************************************************)
(* The bounded context handed to a coding agent: what one observation, its *)
(* contracts, its evaluation and its reference fidelity say about the      *)
(* targets of a task, cut to fixed bounds, with a record of everything the *)
(* bounds or the page withheld and a verdict on whether what is left is    *)
(* adequate; and the optional second step that attaches static candidates  *)
(* (files and symbols) to the targets of a context.                        *)
(*                                                                         *)
(* Target names and evidence paths are natural numbers, in the order the   *)
(* code sorts their strings.  Omission and truncation records are sets:    *)
(* their subjects are distinct, and which of several equally required      *)
(* records an aggregate cap drops is left open.                            *)
(***************************************************************************)
EXTENDS Naturals, Sequences, FiniteSets

CONSTANTS
    None,            \* nothing was supplied, projected, derived or attached
    Refused,         \* the request was turned down
    Requests,        \* the inputs of projectBoundedAgentContext considered
    Correlating,     \* the inputs of deriveRuntimeStaticCorrelations considered
    MaxTargets,      \* MAX_RUNTIME_TARGETS
    MaxEvidence,     \* MAX_RELATIONSHIP_EVIDENCE_PER_TARGET, and of a correlation field
    MaxOmissions,    \* MAX_OMISSIONS
    MaxTruncations,  \* MAX_TRUNCATIONS
    MaxRecords,      \* MAX_CORRELATION_RECORDS
    MaxCandidates,   \* MAX_STATIC_CANDIDATES_PER_TARGET
    MaxMismatches,   \* MAX_FIDELITY_MISMATCHES
    MaxProtected     \* MAX_FIDELITY_PROTECTED_CONTEXT

\* More than one static candidate fits a record, or ambiguity could not be told.
ASSUME ContextBounds ==
    /\ {MaxTargets, MaxEvidence, MaxOmissions, MaxTruncations, MaxRecords,
        MaxCandidates, MaxMismatches, MaxProtected} \subseteq Nat \ {0}
    /\ MaxCandidates > 1

\* What the contracts and the reference fidelity a request carries look like:
\* a mode belongs to a dependent, and what was not evaluated has no results.
Categories == {"requested", "expected-dependent", "protected", "preserved"}
WellModed(x) ==
    /\ x.category \in Categories
    /\ x.mode \in {"none", "required", "permitted"}
    /\ x.mode # "none" <=> x.category = "expected-dependent"

\* Names are finitely many, and ordered.
Names(S) == IsFiniteSet(S) /\ S \subseteq Nat
Points(x) == Names(x.targets) /\ Names(x.evidence)

ASSUME RequestShape ==
    \A q \in Requests :
        /\ Names(q.focus) /\ IsFiniteSet(q.clauses) /\ IsFiniteSet(q.unexpected)
        /\ IsFiniteSet(q.pairs) /\ IsFiniteSet(q.diagnostics)
        /\ \A c \in q.clauses :
               /\ WellModed(c) /\ Points(c)
               /\ c.result \in {"none", "pass", "fail", "unavailable", "conflict"}
        /\ \A u \in q.unexpected : Points(u)
        /\ \A p \in q.pairs : {p.subject, p.related} \subseteq Nat /\ Names(p.evidence)
        /\ q.fidelity # None =>
               /\ Names(DOMAIN q.fidelity.results)
               /\ \A i \in DOMAIN q.fidelity.results :
                      /\ WellModed(q.fidelity.results[i])
                      /\ q.fidelity.results[i].status \in {"pass", "fail", "unavailable"}
                      /\ Names(q.fidelity.results[i].targets)
               /\ q.fidelity.state = "not-evaluated" => DOMAIN q.fidelity.results = {}

\* The correlations supplied: a target, whether it is required, what was seen
\* of it, and its candidates.
ASSUME CorrelatingShape ==
    \A inputs \in Correlating :
        /\ IsFiniteSet(inputs)
        /\ \A i \in inputs :
               /\ i.target \in Nat /\ i.required \in BOOLEAN
               /\ Names(i.refs) /\ IsFiniteSet(i.candidates)
               /\ \A c \in i.candidates : c.id \in Nat /\ Names(c.refs)

VARIABLES
    request,   \* what the context is asked for
    context,   \* None, Refused, or the BoundedAgentContextArtifact
    derived    \* None, or the correlations derived and not attached yet

vars == <<request, context, derived>>

-----------------------------------------------------------------------------
(* Bounded collections.                                                    *)

\* The n first of a set, in a strict order: sort, then slice.
First(S, Before(_, _), n) == {x \in S : Cardinality({y \in S : Before(y, x)}) < n}

Omission(subject, reason, required) ==
    [subject |-> subject, reason |-> reason, required |-> required]

Truncation(subject, required) == [subject |-> subject, required |-> required]

SomeRequired(records) == \E r \in records : r.required

\* At most max records: beyond that the required ones are kept by preference
\* and one summary, required if anything dropped was, stands for the rest.
CapOmissions(records, max, who) ==
    IF Cardinality(records) <= max
    THEN records
    ELSE LET kept == CHOOSE K \in SUBSET records :
                         /\ Cardinality(K) = max - 1
                         /\ SomeRequired(records \ K) => \A k \in K : k.required
         IN kept \cup {Omission(<<who, 0>>, "omitted-by-bound", SomeRequired(records \ kept))}

CapTruncations(records, max, who) ==
    IF Cardinality(records) <= max
    THEN records
    ELSE LET kept == CHOOSE K \in SUBSET records :
                         /\ Cardinality(K) = max - 1
                         /\ SomeRequired(records \ K) => \A k \in K : k.required
         IN kept \cup {Truncation(<<who, 0>>, SomeRequired(records \ kept))}

-----------------------------------------------------------------------------
(* Reference fidelity, cut to its worst.  A fidelity is None, or [state,   *)
(* results], results a sequence of [category, mode, status, targets].      *)

\* Protected and preserved requirements, and dependents that must follow.
TierOfRequirement(r) ==
    IF \/ r.category \in {"protected", "preserved"}
       \/ (r.category = "expected-dependent" /\ r.mode = "required")
    THEN "required" ELSE "optional"

NonPass(f) == {i \in DOMAIN f.results : f.results[i].status # "pass"}

\* Failed required, then unavailable required, then everything else.
RankOfMismatch(r) ==
    CASE r.status = "fail" /\ TierOfRequirement(r) = "required"        -> 0
      [] r.status = "unavailable" /\ TierOfRequirement(r) = "required" -> 1
      [] OTHER                                                         -> 2

MismatchBefore(f, i, j) ==
    \/ RankOfMismatch(f.results[i]) < RankOfMismatch(f.results[j])
    \/ (RankOfMismatch(f.results[i]) = RankOfMismatch(f.results[j]) /\ i < j)

\* A mistake: the mismatches that come first as authored.
MismatchesAsAuthored(f) ==
    LET Before(i, j) == i < j IN First(NonPass(f), Before, MaxMismatches)

Mismatches(f) ==
    LET Before(i, j) == MismatchBefore(f, i, j) IN First(NonPass(f), Before, MaxMismatches)

PassingProtected(f) ==
    {i \in DOMAIN f.results : /\ f.results[i].status = "pass"
                              /\ f.results[i].category \in {"protected", "preserved"}}

ProtectedContext(f) ==
    LET Before(i, j) == i < j IN First(PassingProtected(f), Before, MaxProtected)

BoundTo(f, indices) == UNION {f.results[i].targets : i \in indices}

RequiredMismatches(f, indices) ==
    {i \in indices : TierOfRequirement(f.results[i]) = "required"}

NothingFromFidelity ==
    [mismatches |-> {}, protected |-> {}, required |-> {}, permitted |-> {},
     omissions |-> {}, truncations |-> {}]

\* What a fidelity adds that was evaluated, of which this is shown.
ShownOfFidelity(f, shown, guarded) ==
    [mismatches  |-> shown,
     protected   |-> guarded,
     required    |-> BoundTo(f, RequiredMismatches(f, shown)),
     permitted   |-> BoundTo(f, (shown \ RequiredMismatches(f, shown)) \cup guarded)
                     \ BoundTo(f, RequiredMismatches(f, shown)),
     omissions   |-> {Omission(<<"fidelity-mismatch", i>>,
                               "required-evidence-lost-by-bound", TRUE) :
                          i \in RequiredMismatches(f, NonPass(f) \ shown)},
     truncations |->
         (IF NonPass(f) \ shown = {} THEN {}
          ELSE {Truncation(<<"fidelity-mismatches", 0>>,
                           RequiredMismatches(f, NonPass(f) \ shown) # {})})
         \cup (IF guarded = PassingProtected(f) THEN {}
               ELSE {Truncation(<<"fidelity-protected-context", 0>>, FALSE)})]

\* projectReferenceFidelity: what a fidelity adds to a context.
ProjectFidelity(f, required) ==
    IF f = None THEN NothingFromFidelity
    ELSE IF f.state = "not-evaluated"
    THEN [NothingFromFidelity EXCEPT !.omissions =
             {Omission(<<"fidelity", 0>>, "unsupported-or-unavailable", required)}]
    ELSE ShownOfFidelity(f, Mismatches(f), ProtectedContext(f))

-----------------------------------------------------------------------------
(* Which targets a request is about, and the evidence on each.  A clause   *)
(* is [category, mode, result, targets, evidence], a clause of the         *)
(* baseline one of category "preserved".                                   *)

\* A clause that did not pass is never less than required.
EvidenceTier(c) ==
    IF \/ c.result \in {"fail", "unavailable", "conflict"}
       \/ c.category \in {"protected", "preserved"}
       \/ (c.category = "expected-dependent" /\ c.mode # "permitted")
    THEN "required" ELSE "optional"

\* A mistake: membership by the authored mode alone, whatever the result.
RequiresByMode(c) == c.category # "expected-dependent" \/ c.mode = "required"

RequiresItsTargets(c) ==
    \/ c.category # "expected-dependent"
    \/ c.mode = "required"
    \/ EvidenceTier(c) = "required"

TargetsOf(clauses) == UNION {c.targets : c \in clauses}

FidelityOf(q) == ProjectFidelity(q.fidelity, q.fidelityRequired)

RequiredTargets(q) ==
    q.focus
    \cup TargetsOf({c \in q.clauses : RequiresItsTargets(c)})
    \cup TargetsOf(q.unexpected)
    \cup FidelityOf(q).required

PermittedTargets(q) ==
    (TargetsOf({c \in q.clauses : ~ RequiresItsTargets(c)}) \cup FidelityOf(q).permitted)
    \ RequiredTargets(q)

Priority(q) == RequiredTargets(q) \cup PermittedTargets(q)

\* One relationship away from a target that matters.
NearBy(q) == {p \in q.pairs : {p.subject, p.related} \cap Priority(q) # {}}

ContextTargets(q) == (UNION {{p.subject, p.related} : p \in NearBy(q)}) \ Priority(q)

Evidence(paths, tier) == {[path |-> p, tier |-> tier] : p \in paths}

Collected(q, t) ==
    (UNION {Evidence(c.evidence, EvidenceTier(c)) : c \in {d \in q.clauses : t \in d.targets}})
    \cup (UNION {Evidence(u.evidence, "required") : u \in {v \in q.unexpected : t \in v.targets}})
    \cup (UNION {Evidence(p.evidence, "context") : p \in {r \in NearBy(q) : t \in {r.subject, r.related}}})

TierRank(tier) == CASE tier = "required" -> 0 [] tier = "optional" -> 1 [] tier = "context" -> 2

EvidenceBefore(d, e) ==
    \/ TierRank(d.tier) < TierRank(e.tier)
    \/ (TierRank(d.tier) = TierRank(e.tier) /\ d.path < e.path)

\* Each path once, at the best of its tiers.
Distinct(collected) ==
    {e \in collected : \A d \in collected : d.path = e.path => TierRank(e.tier) <= TierRank(d.tier)}

BoundedEvidence(q, t) == First(Distinct(Collected(q, t)), EvidenceBefore, MaxEvidence)

LostEvidence(q, t) == Distinct(Collected(q, t)) \ BoundedEvidence(q, t)

-----------------------------------------------------------------------------
(* The allocation of the bounded target list, and what it left out.        *)

Less(m, n) == m < n
Room(taken) == MaxTargets - Cardinality(taken)

AllowedRequired(q)  == First(RequiredTargets(q), Less, MaxTargets)
AllowedPermitted(q) == First(PermittedTargets(q), Less, Room(AllowedRequired(q)))
AllowedContext(q)   ==
    First(ContextTargets(q), Less, Room(AllowedRequired(q) \cup AllowedPermitted(q)))

Allowed(q) == AllowedRequired(q) \cup AllowedPermitted(q) \cup AllowedContext(q)

Candidates(q) == Priority(q) \cup ContextTargets(q)

DroppedTargets(q) ==
    {Omission(<<"target", t>>, "required-evidence-lost-by-bound", TRUE) :
        t \in RequiredTargets(q) \ Allowed(q)}
    \cup {Omission(<<"target", t>>, "omitted-by-bound", FALSE) :
        t \in Candidates(q) \ (RequiredTargets(q) \cup Allowed(q))}

\* The reasons a diagnostic of the observation counts as an omission for.
ReasonOf(code) ==
    CASE code \in {"target-missing", "target-hidden", "target-ambiguous"}  -> "unsupported-or-unavailable"
      [] code \in {"browser-evidence-unavailable", "partial-evidence"}     -> "not-observed"
      [] OTHER                                                             -> None

Diagnosed(q) ==
    {Omission(<<d.code, d.target>>, ReasonOf(d.code), d.target \in RequiredTargets(q)) :
        d \in {e \in q.diagnostics : e.target \in Allowed(q) /\ ReasonOf(e.code) # None}}

RequiredLostOn(q, t) == \E e \in LostEvidence(q, t) : e.tier = "required"

CutEvidence(q) ==
    {Truncation(<<"relationshipEvidence", t>>, RequiredLostOn(q, t)) :
        t \in {u \in Allowed(q) : LostEvidence(q, u) # {}}}

RequiredEvidenceLost(q) ==
    {Omission(<<"relationshipEvidence", t>>, "required-evidence-lost-by-bound", TRUE) :
        t \in {u \in Allowed(q) : RequiredLostOn(q, u)}}

WithoutGeometry(q) ==
    {Omission(<<"geometry", t>>, "unsupported-or-unavailable", t \in RequiredTargets(q)) :
        t \in Allowed(q) \ q.geometry}

AllOmissions(q) ==
    FidelityOf(q).omissions \cup DroppedTargets(q) \cup Diagnosed(q)
    \cup RequiredEvidenceLost(q) \cup WithoutGeometry(q)

AllTruncations(q) ==
    FidelityOf(q).truncations \cup CutEvidence(q)
    \cup (IF Allowed(q) = Candidates(q) THEN {}
          ELSE {Truncation(<<"targets", 0>>, ~ RequiredTargets(q) \subseteq Allowed(q))})

-----------------------------------------------------------------------------
(* Adequacy, judged before the aggregate caps.                             *)

RequiredLoss(q) == SomeRequired(AllOmissions(q)) \/ SomeRequired(AllTruncations(q))
AnyLoss(q) == AllOmissions(q) \cup AllTruncations(q) # {}

DroppedRequired(q) == RequiredTargets(q) \ Allowed(q)
Unusable(q) == AllowedRequired(q) \ q.geometry

RequiredReasons(q) ==
    LET known == (IF DroppedRequired(q) = {} THEN {} ELSE {"required-evidence-omitted-by-bound"})
                 \cup (IF Unusable(q) = {} THEN {} ELSE {"required-runtime-target-unavailable"})
    IN IF known = {} /\ RequiredLoss(q) THEN {"required-source-evidence-truncated"} ELSE known

Adequacy(q) ==
    IF RequiredReasons(q) # {}
    THEN [state   |-> IF /\ RequiredTargets(q) # {}
                         /\ DroppedRequired(q) \cup Unusable(q) = RequiredTargets(q)
                      THEN "inadequate" ELSE "partial",
          reasons |-> RequiredReasons(q)]
    ELSE IF AnyLoss(q)
    THEN [state |-> "partial", reasons |-> {"required-source-evidence-truncated"}]
    ELSE [state |-> "adequate", reasons |-> {}]

\* The field inputs is not the code's: what the correlations were derived from.
Projection(q) ==
    [targets      |-> Allowed(q),
     evidence     |-> [t \in Allowed(q) |-> {e.path : e \in BoundedEvidence(q, t)}],
     mismatches   |-> FidelityOf(q).mismatches,
     adequacy     |-> Adequacy(q),
     omissions    |-> CapOmissions(AllOmissions(q), MaxOmissions, "omissions-summary"),
     truncations  |-> CapTruncations(AllTruncations(q), MaxTruncations, "truncations-summary"),
     correlations |-> {},
     inputs       |-> {}]

-----------------------------------------------------------------------------
(* Static correlation.  An input is a set of [target, required, refs,      *)
(* candidates], its candidates entries [id, refs]; the same id may be      *)
(* supplied several times.                                                 *)

Ids(input) == {c.id : c \in input.candidates}

\* canonicalCandidates: one candidate per id, with the evidence of all of them.
RefsOf(input, id) == UNION {c.refs : c \in {d \in input.candidates : d.id = id}}

KeptIds(input) == First(Ids(input), Less, MaxCandidates)
KeptRefs(refs) == First(refs, Less, MaxEvidence)

\* Derived from the candidates kept, never supplied.
StatusOf(input) ==
    CASE Cardinality(KeptIds(input)) = 0 -> "unavailable"
      [] Cardinality(KeptIds(input)) = 1 -> "correlated"
      [] OTHER                           -> "ambiguous"

DeriveOneTarget(input) ==
    [target     |-> input.target,
     status     |-> StatusOf(input),
     refs       |-> KeptRefs(input.refs),
     candidates |-> {[id |-> i, refs |-> KeptRefs(RefsOf(input, i))] : i \in KeptIds(input)}]

\* A mistake: a cut list of candidates is a loss of detail, whoever asked.
CutAsDetail(input) ==
    IF KeptIds(input) = Ids(input) THEN {}
    ELSE {Truncation(<<"candidates", input.target>>, FALSE)}

CutFromRecord(input) ==
    (IF KeptIds(input) = Ids(input) THEN {}
     ELSE {Truncation(<<"candidates", input.target>>, input.required)})
    \cup {Truncation(<<"candidate-evidence", input.target, i>>, input.required) :
        i \in {j \in KeptIds(input) : KeptRefs(RefsOf(input, j)) # RefsOf(input, j)}}
    \cup (IF KeptRefs(input.refs) = input.refs THEN {}
          ELSE {Truncation(<<"runtimeEvidenceRefs", input.target>>, input.required)})

\* Required entries first, then optional ones, each in the order of their targets.
EntryBefore(a, b) ==
    \/ (a.required /\ ~ b.required)
    \/ (a.required = b.required /\ a.target < b.target)

KeptEntries(inputs) == First(inputs, EntryBefore, MaxRecords)

\* One input per target, or the derivation is refused.
DistinctTargets(inputs) == \A a, b \in inputs : a.target = b.target => a = b

Derivation(inputs) ==
    [inputs      |-> inputs,
     records     |-> {DeriveOneTarget(i) : i \in KeptEntries(inputs)},
     omissions   |->
         {Omission(<<"correlation", i.target>>, "unsupported-or-unavailable", TRUE) :
             i \in {j \in inputs : j.required /\ StatusOf(j) = "unavailable"}}
         \cup {Omission(<<"correlation-record", i.target>>,
                        IF i.required THEN "required-evidence-lost-by-bound" ELSE "omitted-by-bound",
                        i.required) : i \in inputs \ KeptEntries(inputs)},
     truncations |-> UNION {CutFromRecord(i) : i \in inputs}]

-----------------------------------------------------------------------------
(* What a reader takes for a context: one validator, which the attachment  *)
(* of correlations, the viewer and the handoff to an agent all apply.      *)

\* isValidAdequacy: what falls short of adequate says why.
ValidAdequacy(a) ==
    /\ a.state \in {"adequate", "partial", "inadequate"}
    /\ a.state # "adequate" => a.reasons # {}

ValidTarget(c, t) == Cardinality(c.evidence[t]) <= MaxEvidence

\* isValidStaticCandidateReference.
ValidCandidate(candidate) == Cardinality(candidate.refs) <= MaxEvidence

\* isValidRuntimeStaticCorrelationRecord: its status is what its candidates tell.
ValidRecord(r) ==
    /\ Cardinality(r.refs) <= MaxEvidence
    /\ \A candidate \in r.candidates : ValidCandidate(candidate)
    /\ Cardinality(r.candidates) <= MaxCandidates
    /\ r.status = "correlated"  => Cardinality(r.candidates) = 1
    /\ r.status = "ambiguous"   => Cardinality(r.candidates) >= 2
    /\ r.status = "unavailable" => r.candidates = {}

\* isValidReferenceRequirementFidelityResult.
ValidResult(r) ==
    /\ r.category \in Categories
    /\ r.mode \in {"none", "required", "permitted"}
    /\ r.status \in {"pass", "fail", "unavailable"}

\* isValidBoundedReferenceFidelityProjection, of the mismatches a context shows.
ValidFidelity(f, shown) ==
    /\ Cardinality(shown) <= MaxMismatches
    /\ \A i \in shown : ValidResult(f.results[i])

\* isValidBoundedAgentContextArtifact.
Valid(c) ==
    /\ Cardinality(c.targets) <= MaxTargets
    /\ \A t \in c.targets : ValidTarget(c, t)
    /\ ValidAdequacy(c.adequacy)
    /\ Cardinality(c.omissions) <= MaxOmissions
    /\ Cardinality(c.truncations) <= MaxTruncations
    /\ Cardinality(c.correlations) <= MaxRecords
    /\ \A r \in c.correlations : ValidRecord(r)
    /\ request.fidelity # None => ValidFidelity(request.fidelity, c.mismatches)

-----------------------------------------------------------------------------
(* Attaching a derivation to a context.                                    *)

ReasonsFor(d) ==
    {CASE o.subject[1] = "correlation-record" -> "required-evidence-omitted-by-bound"
       [] OTHER                               -> "static-evidence-unavailable" :
        o \in {p \in d.omissions : p.required}}
    \cup {CASE t.subject[1] = "candidates" -> "static-correlation-ambiguous"
            [] OTHER                       -> "required-source-evidence-truncated" :
        t \in {u \in d.truncations : u.required}}

\* A mistake: the adequacy after an attachment is that of the correlations.
AdequacyOfCorrelation(adequacy, d) ==
    IF ReasonsFor(d) # {}
    THEN [state |-> "inadequate", reasons |-> adequacy.reasons \cup ReasonsFor(d)]
    ELSE IF d.omissions \cup d.truncations # {}
    THEN [state |-> "partial", reasons |-> {"static-correlation-ambiguous"}]
    ELSE [state |-> "adequate", reasons |-> {}]

\* Only what this derivation lost counts; the context's own losses stand as judged.
AdequacyWith(adequacy, d) ==
    IF ReasonsFor(d) # {}
    THEN [state |-> "inadequate", reasons |-> adequacy.reasons \cup ReasonsFor(d)]
    ELSE IF adequacy.state = "adequate" /\ d.omissions \cup d.truncations # {}
    THEN [state |-> "partial", reasons |-> {"static-correlation-ambiguous"}]
    ELSE adequacy

Attached(c, d) ==
    [c EXCEPT
        !.adequacy     = AdequacyWith(c.adequacy, d),
        !.omissions    = CapOmissions(c.omissions \cup d.omissions, MaxOmissions,
                                      "correlation-omissions-summary"),
        !.truncations  = CapTruncations(c.truncations \cup d.truncations, MaxTruncations,
                                        "correlation-truncations-summary"),
        !.correlations = d.records,
        !.inputs       = d.inputs]

\* Both artifacts are valid, and no context is correlated twice, nor about a
\* target it does not hold.
Attachable(c, d) ==
    /\ Valid(c)
    /\ \A r \in d.records : ValidRecord(r)
    /\ c.correlations = {}
    /\ \A r \in d.records : r.target \in c.targets

-----------------------------------------------------------------------------
(* The two artifacts and the three calls that make them.                   *)

\* validateInput: the evidence supplied is all of one observation, or of one
\* comparison of the two supplied, and is what the evaluation says it judged.
Coherent(s) ==
    LET known == {s.observation} \cup (IF s.before = None THEN {} ELSE {s.before})
    IN /\ s.comparison # None =>
              s.before # None /\ s.comparison = [before |-> s.before, after |-> s.observation]
       /\ s.baseline # None => s.baseline \in known
       /\ s.evaluation # None =>
              /\ s.baseline # None /\ s.change # None
              /\ s.comparison # None
              /\ s.evaluation = [before |-> s.before, after |-> s.observation,
                                 change |-> s.change, baseline |-> s.baseline]
       /\ s.fidelity # None => s.fidelity = s.observation

Init ==
    /\ request \in Requests
    /\ context = None
    /\ derived = None

Project ==
    /\ context = None
    /\ Coherent(request.sources)
    /\ context' = Projection(request)
    /\ UNCHANGED <<request, derived>>

Refuse ==
    /\ context = None
    /\ ~ Coherent(request.sources)
    /\ context' = Refused
    /\ UNCHANGED <<request, derived>>

Projected == context \notin {None, Refused}

\* The correlations need not have been asked for with this context in mind.
Derive ==
    /\ Projected /\ derived = None
    /\ \E inputs \in Correlating : DistinctTargets(inputs) /\ derived' = Derivation(inputs)
    /\ UNCHANGED <<request, context>>

Attach ==
    /\ Projected /\ derived # None
    /\ Attachable(context, derived)
    /\ context' = Attached(context, derived)
    /\ derived' = None
    /\ UNCHANGED request

\* An attachment that does not fit changes nothing; the caller is told why.
AttachRefused ==
    /\ Projected /\ derived # None
    /\ ~ Attachable(context, derived)
    /\ derived' = None
    /\ UNCHANGED <<request, context>>

Next == Project \/ Refuse \/ Derive \/ Attach \/ AttachRefused

Spec == Init /\ [][Next]_vars

-----------------------------------------------------------------------------
(* Properties.                                                             *)

\* What a task cannot do without, told from the request alone.
Demanding(c) ==
    \/ c.category # "expected-dependent"
    \/ c.mode = "required"
    \/ c.result \notin {"pass", "none"}

\* Evidence of a clause that must hold, or that did not.
Decisive(c) == Demanding(c) /\ (c.category # "requested" \/ c.result \notin {"pass", "none"})

Essential(q) == q.focus \cup TargetsOf({c \in q.clauses : Demanding(c)}) \cup TargetsOf(q.unexpected)

EssentialPaths(q, t) ==
    (UNION {c.evidence : c \in {d \in q.clauses : Decisive(d) /\ t \in d.targets}})
    \cup (UNION {u.evidence : u \in {v \in q.unexpected : t \in v.targets}})

Guarded(r) == r.category \in {"protected", "preserved"} \/ r.mode = "required"

\* Requirements of the reference that must hold and do not, or could not be told.
Unmet(q) ==
    IF q.fidelity = None THEN {}
    ELSE {i \in DOMAIN q.fidelity.results :
             Guarded(q.fidelity.results[i]) /\ q.fidelity.results[i].status # "pass"}

Failed(q) == {i \in Unmet(q) : q.fidelity.results[i].status = "fail"}

\* Nothing the task needs goes missing behind a bound, or on the page, and is
\* not told: the context does not call itself adequate, and some record of a
\* required loss survives both aggregate caps and any attachment.
Withheld(q, c) ==
    \/ \E t \in Essential(q) : t \notin c.targets \/ t \notin q.geometry
    \/ \E t \in c.targets : ~ EssentialPaths(q, t) \subseteq c.evidence[t]
    \/ ~ Unmet(q) \subseteq c.mismatches
    \/ q.fidelity # None /\ q.fidelity.state = "not-evaluated" /\ q.fidelityRequired

LossIsVisible ==
    Projected /\ Withheld(request, context) =>
        /\ context.adequacy.state # "adequate"
        /\ SomeRequired(context.omissions) \/ SomeRequired(context.truncations)

\* Every context fits its bounds, so that its readers take it, and the bounds
\* cost the task what it needs least: while a target, a piece of evidence or a
\* failure it needs is left out, nothing it needs less is kept.
RequiredFirst ==
    Projected =>
        LET needed == Essential(request) \cup
                      UNION {request.fidelity.results[i].targets : i \in Unmet(request) \cap context.mismatches}
        IN /\ Valid(context)
           /\ needed \subseteq context.targets \/ context.targets \subseteq needed
           /\ \A t \in context.targets :
                  LET paths == EssentialPaths(request, t)
                  IN paths \subseteq context.evidence[t] \/ context.evidence[t] \subseteq paths
           /\ Failed(request) \subseteq context.mismatches \/ context.mismatches \subseteq Failed(request)

\* A context tells a target correlated only when a single static candidate was
\* ever supplied for it, and a required target that lost a candidate, had none,
\* or lost its record makes the context inadequate.
CorrelationTold ==
    Projected =>
        /\ \A r \in context.correlations : \A i \in context.inputs :
               i.target = r.target => (r.status = "correlated" <=> Cardinality(Ids(i)) = 1)
        /\ \A i \in context.inputs :
               /\ i.required
               /\ \/ i.candidates = {}
                  \/ \A r \in context.correlations :
                         r.target = i.target => Ids(i) # {c.id : c \in r.candidates}
               => context.adequacy.state = "inadequate"

\* Attaching correlations never makes a context look better than it was judged.
Grade(state) == CASE state = "adequate" -> 2 [] state = "partial" -> 1 [] state = "inadequate" -> 0

NeverBetter ==
    [][Projected => /\ Grade(context'.adequacy.state) <= Grade(context.adequacy.state)
                    /\ context.adequacy.reasons \subseteq context'.adequacy.reasons
                    /\ SomeRequired(context.omissions) => SomeRequired(context'.omissions)
                    /\ SomeRequired(context.truncations) => SomeRequired(context'.truncations)]_vars
=============================================================================
