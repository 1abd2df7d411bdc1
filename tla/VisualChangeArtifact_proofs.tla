--------------------- MODULE VisualChangeArtifact_proofs ---------------------
(***************************************************************************)
(* The lifecycle steps preserve the artifact's type and its discipline,    *)
(* for all scopes, artifacts, histories and attempt limits.                *)
(***************************************************************************)
EXTENDS VisualChangeArtifact, TLAPS

(* The artifact a fresh workflow persists is well-formed and disciplined.  *)
LEMMA RootDisciplined ==
    ASSUME NEW s \in Scope
    PROVE  Root(s) \in Artifact /\ Disciplined(Root(s))
<1>1. Root(s) \in Artifact
  BY DEF Root, Artifact, GovernanceResults, NoGovernance
<1>2. Disciplined(Root(s))
  BY MaxAttemptsAssumption DEF Root, NoGovernance, Disciplined, EarlierAttemptsCorrected,
     AcceptedPassed, GovernanceFollowsAcceptance, AttemptsGrounded, ActivationConfined
<1> QED BY <1>1, <1>2

(* A step that keeps the attempts and the governance keeps what is said of *)
(* them.                                                                    *)
LEMMA ActivationDisciplined ==
    ASSUME NEW p \in Artifact, Disciplined(p), NEW a,
           OnlyActivationOf(p, a), a.supersedes \in Nat, a.activation \in ActivationRecord,
           Confined(p.scope, a.activation)
    PROVE  a \in Artifact /\ Disciplined(a)
<1>1. a \in Artifact /\ a.attempts = p.attempts /\ a.governance = p.governance
      /\ a.scope = p.scope
  BY DEF OnlyActivationOf, Artifact
<1>2. a.activation # None
  BY NoneAssumption DEF ActivationRecord
<1>3. Cycle(a) = Cycle(p) /\ LatestAttempt(a) = LatestAttempt(p)
  BY <1>1 DEF Cycle, LatestAttempt
<1> QED
  BY <1>1, <1>2, <1>3 DEF Disciplined, EarlierAttemptsCorrected, AcceptedPassed,
     GovernanceFollowsAcceptance, AttemptsGrounded, ActivationConfined

(* A recorded check leaves every earlier attempt corrected and adds a      *)
(* pending one: no acceptance or governance can exist beside it.           *)
LEMMA RecordedDisciplined ==
    ASSUME NEW p \in Artifact, Disciplined(p), NEW a,
           RecordedFrom(p, a), a.supersedes \in Nat
    PROVE  a \in Artifact /\ Disciplined(a)
<1> DEFINE n == Len(p.attempts)
           new == LatestAttempt(a)
<1>1. /\ p.attempts \in Seq(Attempt) /\ n \in Nat /\ new \in Attempt
      /\ a = [p EXCEPT !.supersedes = a.supersedes, !.attempts = a.attempts]
      /\ a.attempts = Append(p.attempts, new)
      /\ n < MaxAttempts
  BY DEF RecordedFrom, OnlyAttemptsOf, Artifact
<1> HIDE DEF new
<1>2. /\ a.attempts \in Seq(Attempt) /\ Len(a.attempts) = n + 1
      /\ \A i \in 1..n : a.attempts[i] = p.attempts[i]
      /\ a.attempts[n + 1] = new
  BY <1>1
<1>3. a \in Artifact /\ a.scope = p.scope /\ a.activation = p.activation
      /\ a.governance = p.governance
  BY <1>1, <1>2 DEF Artifact
<1>4. \A i \in 1..n : p.attempts[i].review = "correction-requested"
  <2>1. SUFFICES ASSUME NEW i \in 1..n
                 PROVE  p.attempts[i].review = "correction-requested"
    OBVIOUS
  <2>2. CASE i < n
    BY <2>2, <1>1 DEF Disciplined, EarlierAttemptsCorrected
  <2>3. CASE i = n
    <3>1. p.attempts # << >> /\ p.attempts[n] \in Attempt
      BY <2>1, <2>3, <1>1
    <3> QED BY <3>1, <2>3 DEF RecordedFrom, Cycle, LatestAttempt, Attempt, ReviewState
  <2> QED BY <2>2, <2>3, <1>1
<1>5. EarlierAttemptsCorrected(a)
  BY <1>1, <1>2, <1>4 DEF EarlierAttemptsCorrected
<1>6. new.review = "pending" /\ new.baseline = p.scope.observation
      /\ \A i \in 1..n : p.attempts[i].candidate # new.candidate
  BY <1>1 DEF RecordedFrom, new
<1>7. AcceptedPassed(a)
  BY <1>1, <1>2, <1>4, <1>6 DEF AcceptedPassed
<1>8. GovernanceFollowsAcceptance(a)
  <2>1. Cycle(p) # "accepted"
    BY DEF RecordedFrom
  <2> QED BY <2>1, <1>3 DEF Disciplined, GovernanceFollowsAcceptance
<1>9. AttemptsGrounded(a)
  <2>1. a.activation # None
    BY <1>3 DEF RecordedFrom, Active
  <2>2. \A i \in DOMAIN a.attempts : a.attempts[i].baseline = a.scope.observation
    BY <1>1, <1>2, <1>3, <1>6 DEF Disciplined, AttemptsGrounded
  <2>3. \A i, j \in DOMAIN a.attempts :
          a.attempts[i].candidate = a.attempts[j].candidate => i = j
    BY <1>1, <1>2, <1>6 DEF Disciplined, AttemptsGrounded
  <2> QED BY <2>1, <2>2, <2>3, <1>1, <1>2, MaxAttemptsAssumption DEF AttemptsGrounded
<1>10. ActivationConfined(a)
  BY <1>3 DEF Disciplined, ActivationConfined
<1> QED BY <1>3, <1>5, <1>7, <1>8, <1>9, <1>10 DEF Disciplined

(* A review touches only the latest attempt, and never one that governance *)
(* results hang on.                                                         *)
LEMMA ReviewedDisciplined ==
    ASSUME NEW p \in Artifact, Disciplined(p), NEW a,
           ReviewedFrom(p, a), a.supersedes \in Nat
    PROVE  a \in Artifact /\ Disciplined(a)
<1> DEFINE n == Len(p.attempts)
           decision == LatestAttempt(a).review
<1>1. /\ p.attempts \in Seq(Attempt) /\ n \in Nat /\ n > 0
      /\ a = [p EXCEPT !.supersedes = a.supersedes, !.attempts = a.attempts]
      /\ a.attempts = [p.attempts EXCEPT ![n].review = decision]
  BY DEF ReviewedFrom, OnlyAttemptsOf, Artifact
<1>2. /\ decision \in {"correction-requested", "accepted", "abandoned"}
      /\ LatestAttempt(p).review \in {"pending", "correction-requested"}
      /\ decision = "accepted" => p.attempts[n].status = "PASS"
  BY DEF ReviewedFrom, LatestAttempt
<1> HIDE DEF decision
<1>3. /\ p.attempts[n] \in Attempt
      /\ a.attempts[n] = [p.attempts[n] EXCEPT !.review = decision]
      /\ DOMAIN a.attempts = 1..n
      /\ \A i \in 1..n : i # n => a.attempts[i] = p.attempts[i]
  BY <1>1
<1>4. [p.attempts[n] EXCEPT !.review = decision] \in Attempt
  BY <1>2, <1>3 DEF Attempt, ReviewState
<1>5. a.attempts \in Seq(Attempt) /\ Len(a.attempts) = n
  BY <1>1, <1>3, <1>4
<1>6. a \in Artifact /\ a.scope = p.scope /\ a.activation = p.activation
      /\ a.governance = p.governance
  BY <1>1, <1>5 DEF Artifact
<1>7. \A i \in 1..n : /\ a.attempts[i].candidate = p.attempts[i].candidate
                       /\ a.attempts[i].baseline = p.attempts[i].baseline
                       /\ a.attempts[i].status = p.attempts[i].status
  BY <1>3 DEF Attempt
<1>8. EarlierAttemptsCorrected(a)
  BY <1>1, <1>3, <1>5 DEF Disciplined, EarlierAttemptsCorrected
<1>9. AcceptedPassed(a)
  <2>1. SUFFICES ASSUME NEW i \in 1..n, a.attempts[i].review = "accepted"
                 PROVE  a.attempts[i].status = "PASS"
    BY <1>3 DEF AcceptedPassed
  <2>2. CASE i = n
    BY <2>1, <2>2, <1>2, <1>3, <1>7 DEF Attempt
  <2>3. CASE i # n
    BY <2>1, <2>3, <1>1, <1>3, <1>7 DEF Disciplined, AcceptedPassed
  <2> QED BY <2>2, <2>3
<1>10. GovernanceFollowsAcceptance(a)
  <2>1. Cycle(p) # "accepted"
    BY <1>1, <1>2 DEF Cycle
  <2> QED BY <2>1, <1>6 DEF Disciplined, GovernanceFollowsAcceptance
<1>11. AttemptsGrounded(a)
  BY <1>1, <1>3, <1>5, <1>6, <1>7 DEF Disciplined, AttemptsGrounded
<1>12. ActivationConfined(a)
  BY <1>6 DEF Disciplined, ActivationConfined
<1> QED BY <1>6, <1>8, <1>9, <1>10, <1>11, <1>12 DEF Disciplined

(* A governance result is added beside an acceptance that stays.           *)
LEMMA GovernedDisciplined ==
    ASSUME NEW p \in Artifact, Disciplined(p), NEW a,
           GovernedFrom(p, a), a.supersedes \in Nat
    PROVE  a \in Artifact /\ Disciplined(a)
<1>1. p.attempts \in Seq(Attempt) /\ p.attempts # << >>
  BY DEF GovernedFrom, Cycle, Artifact
<1>2. LatestAttempt(p).candidate \in Nat
  <2>1. Len(p.attempts) \in 1..Len(p.attempts)
    BY <1>1
  <2>2. LatestAttempt(p) \in Attempt
    BY <1>1, <2>1 DEF LatestAttempt
  <2> QED BY <2>2 DEF Attempt
<1>3. a = [p EXCEPT !.supersedes = a.supersedes, !.governance = a.governance]
      /\ a.governance \in GovernanceResults
  BY <1>2 DEF GovernedFrom, OnlyGovernanceOf, Artifact, GovernanceResults
<1>4. a \in Artifact /\ a.attempts = p.attempts /\ a.activation = p.activation
      /\ a.scope = p.scope
  BY <1>3 DEF Artifact
<1>5. Cycle(a) = "accepted" /\ LatestAttempt(a) = LatestAttempt(p)
  BY <1>4 DEF GovernedFrom, Cycle, LatestAttempt
<1>6. GovernanceFollowsAcceptance(a)
  BY <1>4, <1>5 DEF GovernedFrom, Disciplined, GovernanceFollowsAcceptance, Artifact,
     GovernanceResults
<1> QED BY <1>4, <1>6 DEF Disciplined, EarlierAttemptsCorrected, AcceptedPassed,
     AttemptsGrounded, ActivationConfined

(* One legal lifecycle step from a disciplined artifact reaches one.       *)
THEOREM DerivedDisciplined ==
    ASSUME NEW p \in Artifact, Disciplined(p), NEW a, a.supersedes \in Nat,
           DerivedFrom(p, a)
    PROVE  a \in Artifact /\ Disciplined(a)
<1>1. CASE ActivatedFrom(p, a)
  BY <1>1, ActivationDisciplined DEF ActivatedFrom
<1>2. CASE RestoredFrom(p, a)
  <2>1. a.activation \in ActivationRecord /\ Confined(p.scope, a.activation)
    BY <1>2 DEF RestoredFrom, Active, Artifact, ActivationRecord, Disciplined,
       ActivationConfined, Confined
  <2> QED BY <1>2, <2>1, ActivationDisciplined DEF RestoredFrom
<1>3. CASE RecordedFrom(p, a)
  BY <1>3, RecordedDisciplined
<1>4. CASE ReviewedFrom(p, a)
  BY <1>4, ReviewedDisciplined
<1>5. CASE GovernedFrom(p, a)
  BY <1>5, GovernedDisciplined
<1> QED BY <1>1, <1>2, <1>3, <1>4, <1>5 DEF DerivedFrom
=============================================================================
