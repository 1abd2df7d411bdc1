-------------------------- MODULE ReferenceCorrection --------------------------
(***************************************************************************)
(* Correcting a page towards an approved reference: the handoff a coding   *)
(* agent is given before it edits, the review of what it comes back with,  *)
(* and the trace of both in a visual-change workflow.                      *)
(*                                                                         *)
(* The terms of a correction are [reference, bindings, before, source,     *)
(* baseline, change]: the approved reference and its bindings, the         *)
(* baseline observation, the observation the baseline contract was         *)
(* approved from, its clauses, and those of the change contract.  They are *)
(* valid artifacts; an artifact stands for its identity.                   *)
(*                                                                         *)
(* The scope a workflow froze is [reference, bindings, before, contract],  *)
(* where contract is [source, baseline] or NotConfigured; the change       *)
(* contract is the one its project has configured, if any.                 *)
(***************************************************************************)
EXTENDS ContractCheck

\* validateCommon.
Coherent(terms) ==
    /\ terms.source = terms.before
    /\ ValidBindings(terms.bindings, terms.reference)

\* buildReferenceCorrectionReviewIdentity: clauses and bindings by their content.
ReviewIdentity(terms) ==
    << terms.reference, terms.before, terms.baseline, terms.change, terms.bindings >>

\* buildReferenceCorrectionAttemptIdentity.
AttemptIdentity(review, candidate) == << review, candidate >>

Refused == [status |-> "refused"]

\* prepareReferenceCorrection, for the page as it is.
Prepared(terms, measured) ==
    IF ~ Coherent(terms) THEN Refused
    ELSE IF measured.state = "not-evaluated"
    THEN [status |-> "blocked-not-evaluated", review |-> ReviewIdentity(terms)]
    ELSE [status |-> "handoff-ready", review |-> ReviewIdentity(terms),
          mismatches |-> {e.requirement : e \in {e \in measured.results : e.status # "pass"}}]

Prepare(terms, current) ==
    Prepared(terms, EvaluateFidelity(terms.reference, current, terms.bindings))

\* A mistake: what looks like the reference is let through.
ReferenceSuffices(measured, evaluated) == measured.state

\* The overall state of an attempt.
OverallState(measured, evaluated) ==
    CASE measured.state = "not-evaluated" -> "not-evaluated"
      [] measured.state = "pass" /\ evaluated.verdict = "PASS" -> "pass"
      [] OTHER -> "fail"

\* reviewReferenceCorrectionAttempt: under the identity of these very terms, and
\* always against the same baseline observation.
Reviewed(attempt, overall) ==
    [status |-> "reviewed", attempt |-> attempt,
     overall |-> overall, approvalEligible |-> overall = "pass"]

ReviewAttempt(terms, review, candidate) ==
    IF ~ Coherent(terms) \/ review # ReviewIdentity(terms) THEN Refused
    ELSE Reviewed(AttemptIdentity(review, candidate),
                  OverallState(EvaluateFidelity(terms.reference, candidate, terms.bindings),
                               Evaluate([baseline |-> terms.baseline, change |-> terms.change],
                                        terms.before, candidate,
                                        Compare(terms.before, candidate))))

-----------------------------------------------------------------------------
(* The trace of a correction in a workflow                                 *)

\* Everything a correction is about is there and belongs together.
Correctable(scope, change) ==
    /\ scope.contract # NotConfigured /\ change # NotConfigured
    /\ scope.contract.source = scope.before

TermsOf(scope, change) ==
    [reference |-> scope.reference, bindings |-> scope.bindings, before |-> scope.before,
     source |-> scope.contract.source, baseline |-> scope.contract.baseline, change |-> change]

\* Why a workflow's handoff has no review to name.
NotApplicable(scope) ==
    IF scope.contract # NotConfigured /\ scope.contract.source # scope.before
    THEN "baseline-contract-source-mismatch"
    ELSE "project-contract-context-not-configured"

\* prepareVisualChangeAgentHandoff of a ready workflow in reference mode: the
\* page as it was frozen is what the agent starts from.
HandoffOf(correction) ==
    IF correction.status # "handoff-ready" THEN Refused
    ELSE [status |-> "available", review |-> correction.review]

PrepareHandoff(scope, change) ==
    IF \/ NotEvaluable(scope.reference, scope.before)
       \/ ~ ValidBindings(scope.bindings, scope.reference)
    THEN Refused
    ELSE IF ~ Correctable(scope, change)
    THEN [status |-> "not-applicable", reason |-> NotApplicable(scope)]
    ELSE HandoffOf(Prepare(TermsOf(scope, change), scope.before))

\* runProjectVisualChangeCheck: the attempt it records is also one of a review,
\* whose identity it computes anew from what is configured.
RecordedCorrection(scope, change, candidate) ==
    IF Correctable(scope, change)
    THEN AttemptIdentity(ReviewIdentity(TermsOf(scope, change)), candidate) ELSE None

-----------------------------------------------------------------------------
(* Properties                                                              *)

\* The workflow whose scope is what this check was configured with.
ScopeOf(source) ==
    [reference |-> Design, bindings |-> acceptance.reference.bindings, before |-> before,
     contract |-> IF Authored = NotConfigured THEN NotConfigured
                  ELSE [source |-> source, baseline |-> Authored.baseline]]
ChangeOf == IF Authored = NotConfigured THEN NotConfigured ELSE Authored.change

\* No step of the check failed for another reason than what it was given.
RanThrough ==
    /\ comparison # None /\ fidelity # None
    /\ comparison.comparable => evaluation # None

\* A handoff, the attempt recorded and, where a review is named, its answer.
ReviewAnswers(review, recorded) ==
    /\ review.status = "reviewed" /\ review.attempt = recorded
    /\ RanThrough => (review.approvalEligible <=> status = "PASS")
    /\ status = "PASS" => review.approvalEligible
    /\ review.overall = "not-evaluated" => status = "BLOCKED"

Accord(scope, handoff, recorded) ==
    /\ handoff.status = "not-applicable" => recorded = None
    /\ handoff.status = "available" =>
          ReviewAnswers(ReviewAttempt(TermsOf(scope, ChangeOf), handoff.review, after), recorded)

\* Three pieces of code speak of one correction, each from its own reading of
\* the artifacts: the handoff names the review, the check records an attempt at
\* it (visualChangeProjectWorkflowService), and reviewReferenceCorrectionAttempt
\* judges it.  Whenever a handoff names a review the attempt recorded is one at
\* that review, the review answers, and it lets the candidate be approved
\* exactly when checkProject, which projects the same evidence its own way, says
\* PASS; and no attempt is recorded at a review that a handoff would not name.
ReviewAgreesWithCheck ==
    (Done /\ after # None /\ acceptance.reference # NotConfigured) =>
        \A source \in Baselines :
            Accord(ScopeOf(source), PrepareHandoff(ScopeOf(source), ChangeOf),
                  RecordedCorrection(ScopeOf(source), ChangeOf, after))
=============================================================================
