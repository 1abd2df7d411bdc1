--------------------- MODULE VisualChangeWorkflow_proofs ---------------------
(***************************************************************************)
(* For any number of concurrent clients, any aliases, scopes, faults and   *)
(* bounds: the state keeps its type, every persisted revision keeps the    *)
(* review discipline, and the workflow service implements RevisionForest.  *)
(* For one handler: a final decision stands, a check judges the frozen     *)
(* scope, and the configuration selects what the revisions say.            *)
(***************************************************************************)
EXTENDS VisualChangeWorkflow, VisualChangeArtifact_proofs, WellFoundedInduction

(* Whatever may legally be added to a disciplined history is well-formed   *)
(* and disciplined.                                                        *)
LEMMA LegalDisciplined ==
    ASSUME NEW history \in Seq(Artifact), NEW a,
           \A r \in DOMAIN history : Disciplined(history[r]),
           Legal(history, a)
    PROVE  a \in Artifact /\ Disciplined(a)
<1>1. CASE a.scope \in Scope /\ a = Root(a.scope)
  BY <1>1, RootDisciplined
<1>2. CASE a.supersedes \in DOMAIN history /\ DerivedFrom(history[a.supersedes], a)
  <2>1. /\ a.supersedes \in Nat
        /\ history[a.supersedes] \in Artifact
        /\ Disciplined(history[a.supersedes])
    BY <1>2
  <2> QED BY <1>2, <2>1, DerivedDisciplined
<1> QED BY <1>1, <1>2 DEF Legal

(* A longer history allows what the shorter one allowed.                   *)
LEMMA LegalMonotone ==
    ASSUME NEW history \in Seq(Artifact), NEW b \in Artifact, NEW a,
           Legal(history, a)
    PROVE  Legal(Append(history, b), a)
<1>1. \A r \in DOMAIN history : /\ r \in DOMAIN Append(history, b)
                                /\ Append(history, b)[r] = history[r]
  OBVIOUS
<1> QED BY <1>1 DEF Legal

(* A free client owes nothing.                                             *)
LEMMA NoRequestInv == RequestInv(NoRequest)
<1>1. NoRequest \in Request
  BY DEF NoRequest, Request, Steps
<1> QED BY <1>1 DEF NoRequest, RequestInv, RequestOK, HasDraft, SelectsBefore

(* A step that moves one client and, at most, rewrites the mutable files   *)
(* keeps the invariant when the client's next request satisfies it.        *)
LEMMA RequestStep ==
    ASSUME IInv, NEW c \in Client, NEW q, RequestInv(q), Become(c, q), UNCHANGED store,
           config' \in Config, ValidConfig(config'), catalog' \in Catalog, captured' \in Nat
    PROVE  IInv'
<1>1. req' = [req EXCEPT ![c] = q] /\ req \in [Client -> Request] /\ q \in Request
  BY DEF Become, IInv, StateOK, RequestInv, RequestOK
<1>2. StateOK'
  BY <1>1 DEF IInv, StateOK
<1>3. ReviewDiscipline'
  BY DEF IInv, ReviewDiscipline
<1>4. \A d \in Client : RequestInv(req'[d])
  BY <1>1 DEF IInv
<1>5. \A d \in Client : RequestInv(req[d])'
  BY <1>4 DEF RequestInv
<1> QED BY <1>2, <1>3, <1>5 DEF IInv

(* What the invariant says of a revision a request may name.               *)
LEMMA StoredRevision ==
    ASSUME IInv, NEW r \in Addressable
    PROVE  /\ r \in DOMAIN store /\ r \in Nat \ {0}
           /\ store[r] \in Artifact /\ store[r].scope \in Scope
           /\ Disciplined(store[r])
<1>1. store \in Seq(Artifact) /\ \A i \in DOMAIN store : Disciplined(store[i])
  BY DEF IInv, StateOK, ReviewDiscipline
<1>2. r \in DOMAIN store
  BY DEF Addressable
<1>3. r \in Nat \ {0} /\ store[r] \in Artifact
  BY <1>1, <1>2
<1> QED BY <1>1, <1>2, <1>3 DEF Artifact

(* Switching the selection yields a valid configuration that differs from  *)
(* the old one as the scope's mode allows.                                 *)
LEMMA SwitchedConfined ==
    ASSUME NEW cfg \in Config, ValidConfig(cfg), NEW s \in Scope, NEW r \in Nat \ {0},
           ActivationAllowed(cfg, s)
    PROVE  /\ Switched(cfg, s, r) \in Config
           /\ ValidConfig(Switched(cfg, s, r))
           /\ Confined(s, [before |-> Selected(cfg), after |-> Selected(Switched(cfg, s, r)),
                           restored |-> FALSE])
<1>1. s.mode \in Modes
  BY ScopeAssumption
<1>2. CASE s.mode = "actual-frontend"
  <2>1. s.target \in Contract /\ s.target # None
    BY <1>2, ScopeAssumption, NoneAssumption
  <2> QED BY <1>2, <2>1 DEF Switched, Config, ValidConfig, ActivationAllowed, Confined, Selected
<1>3. CASE s.mode = "reference"
  <2>1. s.target \in Reference /\ s.target # None
    BY <1>3, ScopeAssumption, NoneAssumption
  <2> QED BY <1>3, <2>1 DEF Switched, Config, ValidConfig, ActivationAllowed, Confined,
             Selected, BindingsFile
<1> QED BY <1>1, <1>2, <1>3 DEF Modes

(* Switching it back from exactly the activated selection yields a valid   *)
(* configuration with exactly the selection from before.                   *)
LEMMA SwitchedBackSelects ==
    ASSUME NEW cfg \in Config, ValidConfig(cfg), NEW s \in Scope,
           NEW activation \in ActivationRecord, Confined(s, activation),
           Selected(cfg) = activation.after
    PROVE  LET text == SwitchedBack(cfg, s, activation.before)
           IN text \in Config /\ ValidConfig(text) /\ Selected(text) = activation.before
<1> DEFINE before == activation.before
           after == activation.after
<1>1. before \in Selection /\ after \in Selection
  BY DEF ActivationRecord
<1>2. s.mode \in Modes
  BY ScopeAssumption
<1>3. /\ cfg.change = after.change
      /\ cfg.reference = after.reference
      /\ cfg.bindings = after.bindings
  BY DEF Selected
<1>4. CASE s.mode = "actual-frontend"
  <2>1. s.target # None
    BY <1>4, ScopeAssumption, NoneAssumption
  <2>2. /\ before.change # None /\ after.change = s.target
        /\ after.reference = before.reference /\ after.bindings = before.bindings
    BY <1>4 DEF Confined
  <2>3. SwitchedBack(cfg, s, before) = [cfg EXCEPT !.change = before.change]
    BY <1>4 DEF SwitchedBack
  <2> QED BY <1>1, <1>3, <2>1, <2>2, <2>3 DEF Config, ValidConfig, Selected, Selection
<1>5. CASE s.mode = "reference"
  <2>1. before.reference # None /\ after.change = before.change
    BY <1>5 DEF Confined
  <2>2. SwitchedBack(cfg, s, before) =
            [cfg EXCEPT !.reference = before.reference, !.bindings = before.bindings]
    BY <1>5 DEF SwitchedBack
  <2> QED BY <1>1, <1>3, <2>1, <2>2 DEF Config, ValidConfig, Selected, Selection, BindingsFile
<1> QED BY <1>2, <1>4, <1>5 DEF Modes

(* A step that only moves one client.                                      *)
LEMMA QuietStep ==
    ASSUME IInv, NEW c \in Client, NEW q, RequestInv(q), Become(c, q),
           UNCHANGED <<config, catalog, captured, store>>
    PROVE  IInv'
BY RequestStep DEF IInv, StateOK

-----------------------------------------------------------------------------
(* One lemma per request that starts.                                      *)

(* Accepting a create request: its draft is a fresh, empty workflow.       *)
LEMMA CreateStep ==
    ASSUME IInv, NEW c \in Client, NEW s \in Scope, Create(c, s)
    PROVE  IInv'
<1> DEFINE q == [NoRequest EXCEPT !.step = "persist", !.op = "create", !.draft = Root(s)]
<1>1. Root(s) \in Artifact /\ Legal(store, Root(s))
  BY RootDisciplined DEF Legal, Root
<1>2. q \in Request
  BY <1>1 DEF NoRequest, Request, Steps, AllOps
<1>3. RequestInv(q)
  BY <1>1, <1>2 DEF NoRequest, RequestInv, RequestOK, HasDraft, SelectsBefore
<1> QED BY <1>3, QuietStep DEF Create

(* Accepting an activation: the draft records the selection read and the   *)
(* one about to be written, and both the text and the draft are well-formed. *)
LEMMA ActivateStep ==
    ASSUME IInv, NEW c \in Client, NEW r \in Addressable, Activate(c, r)
    PROVE  IInv'
<1> DEFINE source == store[r]
           text == Switched(config, source.scope, r)
           record == [before |-> Selected(config), after |-> Selected(text),
                      restored |-> FALSE]
           draft == [source EXCEPT !.supersedes = r, !.activation = record]
           q == [NoRequest EXCEPT !.step = "write", !.op = "activate", !.source = r,
                                  !.raw = config, !.text = text, !.draft = draft]
<1>1. /\ r \in DOMAIN store /\ r \in Nat \ {0} /\ source \in Artifact
      /\ source.scope \in Scope /\ Disciplined(source)
  BY StoredRevision
<1>2. config \in Config /\ ValidConfig(config) /\ ActivationAllowed(config, source.scope)
  BY DEF IInv, StateOK, Activate
<1>3. text \in Config /\ ValidConfig(text) /\ Confined(source.scope, record)
  BY <1>1, <1>2, SwitchedConfined
<1>4. record \in ActivationRecord
  BY <1>2, <1>3 DEF ActivationRecord, Selected, Selection, Config
<1>5. /\ draft \in Artifact /\ draft.supersedes = r /\ draft.activation = record
      /\ OnlyActivationOf(source, draft)
  BY <1>1, <1>4 DEF Artifact, OnlyActivationOf
<1>6. source.activation = None
  BY DEF Activate
<1>7. ActivatedFrom(source, draft)
  BY <1>3, <1>4, <1>5, <1>6 DEF ActivatedFrom
<1>8. Legal(store, draft)
  BY <1>1, <1>5, <1>7 DEF Legal, DerivedFrom
<1>9. Become(c, q) /\ UNCHANGED <<config, catalog, captured, store>>
  BY DEF Activate
<1> HIDE DEF draft, text
<1>10. q \in Request
  BY <1>1, <1>2, <1>3, <1>5 DEF NoRequest, Request, Steps, AllOps
<1>11. RequestInv(q)
  BY <1>2, <1>3, <1>5, <1>8, <1>10 DEF NoRequest, RequestInv, RequestOK, HasDraft, SelectsBefore
<1> QED BY <1>9, <1>11, QuietStep

(* Accepting a restoration: the text selects what was selected before.     *)
LEMMA RestoreStep ==
    ASSUME IInv, NEW c \in Client, NEW r \in Addressable, Restore(c, r)
    PROVE  IInv'
<1> DEFINE source == store[r]
           text == SwitchedBack(config, source.scope, source.activation.before)
           draft == [source EXCEPT !.supersedes = r, !.activation.restored = TRUE]
           q == [NoRequest EXCEPT !.step = "write", !.op = "restore", !.source = r,
                                  !.raw = config, !.text = text, !.draft = draft]
<1>1. /\ r \in DOMAIN store /\ r \in Nat \ {0} /\ source \in Artifact
      /\ source.scope \in Scope /\ Disciplined(source)
  BY StoredRevision
<1>2. config \in Config /\ ValidConfig(config)
  BY DEF IInv, StateOK
<1>3. Active(source) /\ Selected(config) = source.activation.after
  BY DEF Restore
<1>4. source.activation \in ActivationRecord /\ Confined(source.scope, source.activation)
  BY <1>1, <1>3 DEF Active, Artifact, Disciplined, ActivationConfined
<1>5. text \in Config /\ ValidConfig(text) /\ Selected(text) = source.activation.before
  BY <1>1, <1>2, <1>3, <1>4, SwitchedBackSelects
<1>6. [source.activation EXCEPT !.restored = TRUE] \in ActivationRecord
  BY <1>4 DEF ActivationRecord
<1>7. /\ draft \in Artifact /\ draft.supersedes = r
      /\ draft.activation = [source.activation EXCEPT !.restored = TRUE]
      /\ OnlyActivationOf(source, draft)
  BY <1>1, <1>6 DEF Artifact, OnlyActivationOf
<1>8. draft.activation.before = source.activation.before
  BY <1>4, <1>7 DEF ActivationRecord
<1>9. Legal(store, draft)
  BY <1>1, <1>3, <1>7 DEF Legal, DerivedFrom, RestoredFrom
<1>10. Become(c, q) /\ UNCHANGED <<config, catalog, captured, store>>
  BY DEF Restore
<1> HIDE DEF draft, text
<1>11. q \in Request
  BY <1>1, <1>2, <1>5, <1>7 DEF NoRequest, Request, Steps, AllOps
<1>12. RequestInv(q)
  BY <1>2, <1>5, <1>7, <1>8, <1>9, <1>11
     DEF NoRequest, RequestInv, RequestOK, HasDraft, SelectsBefore
<1> QED BY <1>10, <1>12, QuietStep

(* Accepting a contract promotion: only acceptance.contract is replaced.   *)
LEMMA PromoteStep ==
    ASSUME IInv, NEW c \in Client, NEW contract \in Contract, Promote(c, contract)
    PROVE  IInv'
<1> DEFINE text == [config EXCEPT !.change = contract]
           q == [NoRequest EXCEPT !.step = "write", !.op = "promote", !.raw = config,
                                  !.text = text]
<1>1. config \in Config /\ ValidConfig(config) /\ config.change # None
  BY DEF IInv, StateOK, Promote
<1>2. text \in Config /\ ValidConfig(text)
  BY <1>1, NoneAssumption DEF Config, ValidConfig
<1> HIDE DEF text
<1>3. q \in Request
  BY <1>1, <1>2 DEF NoRequest, Request, Steps, AllOps
<1>4. RequestInv(q)
  BY <1>1, <1>2, <1>3 DEF NoRequest, RequestInv, RequestOK, HasDraft, SelectsBefore
<1> QED BY <1>4, QuietStep DEF Promote, text

(* Accepting a human decision: the draft decides the latest attempt only.  *)
LEMMA ReviewStep ==
    ASSUME IInv, NEW c \in Client, NEW r \in Addressable, NEW decision \in ReviewState,
           Review(c, r, decision)
    PROVE  IInv'
<1> DEFINE source == store[r]
           n == Len(source.attempts)
           draft == [source EXCEPT !.supersedes = r, !.attempts[n].review = decision]
           q == [NoRequest EXCEPT !.step = "persist", !.op = "review", !.source = r,
                                  !.draft = draft]
<1>1. /\ r \in DOMAIN store /\ r \in Nat \ {0} /\ source \in Artifact
      /\ source.scope \in Scope /\ Disciplined(source)
  BY StoredRevision
<1>2. /\ source.attempts # << >>
      /\ \/ /\ LatestAttempt(source).review = "pending"
            /\ decision \in {"correction-requested", "accepted", "abandoned"}
         \/ /\ LatestAttempt(source).review = "correction-requested"
            /\ decision = "abandoned"
  <2>1. \/ /\ Cycle(source) = "review-required"
           /\ decision \in {"correction-requested", "accepted", "abandoned"}
        \/ Cycle(source) = "correction-requested" /\ decision = "abandoned"
    BY DEF Review, Decisions
  <2>2. source.attempts # << >>
    BY <2>1 DEF Cycle
  <2>3. source.attempts \in Seq(Attempt) /\ n \in 1..n
    BY <1>1, <2>2 DEF Artifact
  <2>4. LatestAttempt(source) \in Attempt
    BY <2>3 DEF LatestAttempt
  <2>5. LatestAttempt(source).review \in ReviewState
    BY <2>4 DEF Attempt
  <2> QED BY <2>1, <2>2, <2>5 DEF Cycle, ReviewState
<1>3. /\ decision = "accepted" => LatestAttempt(source).status = "PASS"
      /\ decision # "abandoned" => Active(source)
  BY DEF Review, Acceptable, Ready
<1>4. source.attempts \in Seq(Attempt) /\ n \in 1..n /\ source.attempts[n] \in Attempt
  BY <1>1, <1>2 DEF Artifact
<1>5. /\ draft.attempts = [source.attempts EXCEPT ![n].review = decision]
      /\ draft.supersedes = r
      /\ draft = [source EXCEPT !.supersedes = r, !.attempts = draft.attempts]
  BY <1>1 DEF Artifact
<1> HIDE DEF draft
<1>6. /\ Len(draft.attempts) = n
      /\ LatestAttempt(draft).review = decision
  BY <1>4, <1>5 DEF LatestAttempt, Attempt
<1>7. ReviewedFrom(source, draft)
  BY <1>2, <1>3, <1>5, <1>6 DEF ReviewedFrom, OnlyAttemptsOf
<1>8. Legal(store, draft)
  BY <1>1, <1>5, <1>7 DEF Legal, DerivedFrom
<1>9. draft \in Artifact
  BY <1>8, LegalDisciplined DEF IInv, StateOK, ReviewDiscipline
<1>10. q \in Request
  BY <1>1, <1>9 DEF NoRequest, Request, Steps, AllOps
<1>11. RequestInv(q)
  BY <1>8, <1>9, <1>10 DEF NoRequest, RequestInv, RequestOK, HasDraft, SelectsBefore
<1> QED BY <1>11, QuietStep DEF Review, draft

(* Accepting a governance result of either kind: it hangs on the accepted  *)
(* candidate.                                                              *)
LEMMA GovernStep ==
    ASSUME IInv, NEW c \in Client, NEW r \in Addressable,
           \/ \E origin \in 0..captured : GovernBaseline(c, r, origin)
           \/ GovernReference(c, r)
    PROVE  IInv'
<1> DEFINE source == store[r]
<1>1. /\ r \in DOMAIN store /\ r \in Nat \ {0} /\ source \in Artifact
      /\ source.scope \in Scope /\ Disciplined(source)
  BY StoredRevision
<1>2. PICK draft :
         /\ Become(c, [NoRequest EXCEPT !.step = "persist", !.op = "govern", !.source = r,
                                        !.draft = draft])
         /\ UNCHANGED <<config, catalog, captured, store>>
         /\ draft.supersedes = r
         /\ GovernedFrom(source, draft)
  <2>1. CASE \E origin \in 0..captured : GovernBaseline(c, r, origin)
    <3>1. PICK origin \in 0..captured : GovernBaseline(c, r, origin)
      BY <2>1
    <3> DEFINE draft == [source EXCEPT !.supersedes = r, !.governance.baseline = origin]
    <3>2. /\ draft.supersedes = r
          /\ draft.governance = [source.governance EXCEPT !.baseline = origin]
          /\ OnlyGovernanceOf(source, draft)
      BY <1>1 DEF Artifact, OnlyGovernanceOf
    <3>3. GovernedFrom(source, draft)
      BY <3>1, <3>2 DEF GovernBaseline, GovernedFrom
    <3> QED BY <3>1, <3>2, <3>3 DEF GovernBaseline
  <2>2. CASE GovernReference(c, r)
    <3> DEFINE draft == [source EXCEPT !.supersedes = r, !.governance.reference = TRUE]
    <3>1. /\ draft.supersedes = r
          /\ draft.governance = [source.governance EXCEPT !.reference = TRUE]
          /\ OnlyGovernanceOf(source, draft)
      BY <1>1 DEF Artifact, OnlyGovernanceOf
    <3>2. GovernedFrom(source, draft)
      BY <2>2, <3>1 DEF GovernReference, GovernedFrom
    <3> QED BY <2>2, <3>1, <3>2 DEF GovernReference
  <2> QED BY <2>1, <2>2
<1> DEFINE q == [NoRequest EXCEPT !.step = "persist", !.op = "govern", !.source = r,
                                  !.draft = draft]
<1>3. Legal(store, draft)
  BY <1>1, <1>2 DEF Legal, DerivedFrom
<1>4. draft \in Artifact
  BY <1>3, LegalDisciplined DEF IInv, StateOK, ReviewDiscipline
<1>5. q \in Request
  BY <1>1, <1>4 DEF NoRequest, Request, Steps, AllOps
<1>6. RequestInv(q)
  BY <1>3, <1>4, <1>5 DEF NoRequest, RequestInv, RequestOK, HasDraft, SelectsBefore
<1> QED BY <1>2, <1>6, QuietStep

(* Starting a check: the revision it will extend is active and waiting.    *)
LEMMA StartCheckStep ==
    ASSUME IInv, NEW c \in Client, NEW r \in Addressable, NEW alias \in Alias,
           StartCheck(c, r, alias)
    PROVE  IInv'
<1> DEFINE q == [NoRequest EXCEPT !.step = "check", !.op = "check", !.source = r,
                                  !.alias = alias]
<1>1. r \in DOMAIN store /\ r \in Nat /\ Active(store[r]) /\ Checkable(store[r])
  BY StoredRevision DEF StartCheck, Ready
<1>2. q \in Request
  BY <1>1 DEF NoRequest, Request, Steps, AllOps
<1>3. RequestInv(q)
  BY <1>1, <1>2 DEF NoRequest, RequestInv, RequestOK, HasDraft, SelectsBefore
<1> QED BY <1>3, QuietStep DEF StartCheck

(* Starting a capture: the catalog it keeps in hand is well-formed.        *)
LEMMA CaptureNamedStep ==
    ASSUME IInv, NEW c \in Client, NEW alias \in Alias, NEW replace \in BOOLEAN,
           CaptureNamed(c, alias, replace)
    PROVE  IInv'
<1> DEFINE q == [NoRequest EXCEPT !.step = "observe", !.op = "capture", !.alias = alias,
                                  !.view = catalog]
<1>1. catalog \in Catalog
  BY DEF IInv, StateOK
<1>2. q \in Request
  BY <1>1 DEF NoRequest, Request, Steps, AllOps
<1>3. RequestInv(q)
  BY <1>1, <1>2 DEF NoRequest, RequestInv, RequestOK, HasDraft, SelectsBefore
<1> QED BY <1>3, QuietStep DEF CaptureNamed

-----------------------------------------------------------------------------
(* One lemma per step of a request under way.                              *)

(* What the invariant says of the request a client has in hand.            *)
LEMMA RequestInHand ==
    ASSUME IInv, NEW c \in Client
    PROVE  /\ req[c] \in Request /\ RequestOK(req[c]) /\ RequestInv(req[c])
           /\ config \in Config /\ ValidConfig(config) /\ catalog \in Catalog
           /\ captured \in Nat
BY DEF IInv, StateOK, RequestInv, RequestOK

(* Giving a request up, or answering it, is always safe: this covers every *)
(* failure, the crash and the refusals after the check.                    *)
LEMMA DoneStep ==
    ASSUME IInv, NEW c \in Client, Done(c), UNCHANGED store,
           config' \in Config, ValidConfig(config'), catalog' \in Catalog, captured' \in Nat
    PROVE  IInv'
BY NoRequestInv, RequestStep DEF Done

(* The same when no file changes at all.                                   *)
LEMMA GiveUpStep ==
    ASSUME IInv, NEW c \in Client, Done(c),
           UNCHANGED <<config, catalog, captured, store>>
    PROVE  IInv'
BY DoneStep, RequestInHand

(* Writing the configuration keeps the draft of an activation or restoration *)
(* legal for the persistence that follows.                                 *)
LEMMA WriteConfigStep ==
    ASSUME IInv, NEW c \in Client, WriteConfig(c)
    PROVE  IInv'
<1>1. /\ req[c] \in Request /\ RequestOK(req[c]) /\ RequestInv(req[c])
      /\ catalog \in Catalog /\ captured \in Nat
  BY RequestInHand
<1>2. req[c].step = "write" /\ config' = req[c].text
      /\ UNCHANGED <<catalog, captured, store>>
  BY DEF WriteConfig, At
<1>3. config' \in Config /\ ValidConfig(config')
  BY <1>1, <1>2 DEF RequestOK
<1>4. CASE req[c].op = "promote"
  BY <1>1, <1>2, <1>3, <1>4, DoneStep DEF WriteConfig
<1>5. CASE req[c].op # "promote"
  <2> DEFINE q == [req[c] EXCEPT !.step = "persist"]
  <2>1. q \in Request
    BY <1>1 DEF Request, Steps
  <2>2. HasDraft(req[c]) /\ Legal(store, req[c].draft) /\ req[c].draft \in Artifact
    BY <1>1, <1>2, <1>5 DEF HasDraft, RequestInv, RequestOK
  <2>3. /\ q.step = "persist" /\ q.op = req[c].op /\ q.raw = req[c].raw
        /\ q.draft = req[c].draft
    BY <1>1 DEF Request
  <2>4. RequestInv(q)
    BY <1>1, <1>2, <2>1, <2>2, <2>3 DEF RequestInv, RequestOK, HasDraft, SelectsBefore
  <2> QED BY <1>1, <1>2, <1>3, <1>5, <2>4, RequestStep DEF WriteConfig, Goto
<1> QED BY <1>4, <1>5

(* Persisting a draft adds a legal, disciplined revision, and what every   *)
(* other client has in hand stays legal for the longer history.            *)
LEMMA PersistStep ==
    ASSUME IInv, NEW c \in Client, Persist(c)
    PROVE  IInv'
<1> DEFINE draft == req[c].draft
<1>1. /\ store' = Append(store, draft) /\ req' = [req EXCEPT ![c] = NoRequest]
      /\ UNCHANGED <<config, catalog, captured>> /\ req[c].step = "persist"
  BY DEF Persist, Done, Become, At
<1>2. store \in Seq(Artifact) /\ \A r \in DOMAIN store : Disciplined(store[r])
  BY DEF IInv, StateOK, ReviewDiscipline
<1>3. Legal(store, draft)
  BY <1>1, RequestInHand DEF RequestInv, HasDraft
<1>4. draft \in Artifact /\ Disciplined(draft)
  BY <1>2, <1>3, LegalDisciplined
<1> HIDE DEF draft
<1>5. /\ store' \in Seq(Artifact)
      /\ \A r \in DOMAIN store : r \in DOMAIN store' /\ store'[r] = store[r]
      /\ \A r \in DOMAIN store' : r \in DOMAIN store \/ store'[r] = draft
  BY <1>1, <1>2, <1>4
<1>6. ReviewDiscipline'
  BY <1>2, <1>4, <1>5 DEF ReviewDiscipline
<1>7. req \in [Client -> Request] /\ NoRequest \in Request
  BY NoRequestInv DEF IInv, StateOK, RequestInv, RequestOK
<1>8. StateOK'
  BY <1>1, <1>5, <1>7 DEF IInv, StateOK
<1>9. SUFFICES ASSUME NEW d \in Client PROVE RequestInv(req[d])'
  BY <1>6, <1>8 DEF IInv
<1>10. CASE d = c
  <2>1. req'[d] = NoRequest
    BY <1>1, <1>7, <1>10
  <2>2. NoRequest.step = "idle" /\ RequestOK(NoRequest) /\ SelectsBefore(NoRequest)
        /\ ~HasDraft(NoRequest)
    BY NoRequestInv DEF RequestInv, NoRequest, HasDraft
  <2> QED BY <2>1, <2>2 DEF RequestInv
<1>11. CASE d # c
  <2>1. req'[d] = req[d] /\ RequestInv(req[d])
    BY <1>1, <1>7, <1>11 DEF IInv
  <2>2. HasDraft(req[d]) => Legal(store', req[d].draft)
    BY <1>1, <1>2, <1>4, <2>1, LegalMonotone DEF RequestInv
  <2> QED BY <1>5, <2>1, <2>2 DEF RequestInv
<1> QED BY <1>10, <1>11

(* A failed persistence leaves the text to write back in hand.             *)
LEMMA PersistFailsStep ==
    ASSUME IInv, NEW c \in Client, PersistFails(c)
    PROVE  IInv'
<1>1. /\ req[c] \in Request /\ RequestOK(req[c]) /\ RequestInv(req[c])
      /\ req[c].step = "persist"
  BY RequestInHand DEF PersistFails, At
<1>2. CASE req[c].op \in {"activate", "restore"}
  <2> DEFINE q == [req[c] EXCEPT !.step = "rollback"]
  <2>1. q \in Request
    BY <1>1 DEF Request, Steps
  <2>2. HasDraft(req[c]) /\ Legal(store, req[c].draft) /\ req[c].draft \in Artifact
        /\ req[c].raw \in Config /\ ValidConfig(req[c].raw)
    BY <1>1, <1>2 DEF HasDraft, RequestInv, RequestOK
  <2>3. /\ q.step = "rollback" /\ q.op = req[c].op /\ q.raw = req[c].raw
        /\ q.draft = req[c].draft
    BY <1>1 DEF Request
  <2>4. RequestInv(q)
    BY <1>2, <2>1, <2>2, <2>3 DEF RequestInv, RequestOK, HasDraft, SelectsBefore
  <2> QED BY <1>2, <2>4, QuietStep DEF PersistFails, Goto
<1>3. CASE req[c].op \notin {"activate", "restore"}
  BY <1>3, GiveUpStep DEF PersistFails
<1> QED BY <1>2, <1>3

(* The compensation writes back a configuration that was valid when read.  *)
LEMMA RollbackStep ==
    ASSUME IInv, NEW c \in Client, Rollback(c)
    PROVE  IInv'
<1>1. config' \in Config /\ ValidConfig(config')
  BY RequestInHand DEF Rollback, At, RequestOK
<1> QED BY <1>1, RequestInHand, DoneStep DEF Rollback

(* checkProject re-reads the configuration and resolves the baseline.      *)
LEMMA CheckProjectStep ==
    ASSUME IInv, NEW c \in Client, CheckProject(c)
    PROVE  IInv'
<1> DEFINE q == [req[c] EXCEPT !.step = "capture", !.raw = config,
                               !.baseline = catalog[req[c].alias]]
<1>1. /\ req[c] \in Request /\ RequestOK(req[c]) /\ RequestInv(req[c])
      /\ req[c].step = "check" /\ config \in Config
  BY RequestInHand DEF CheckProject, At
<1>2. req[c].alias \in Alias /\ req[c].op = "check"
  BY <1>1 DEF RequestOK
<1>3. catalog[req[c].alias] \in Nat
  BY <1>2, RequestInHand DEF CheckProject, Catalog
<1>4. q \in Request
  BY <1>1, <1>3 DEF Request, Steps
<1>5. /\ q.step = "capture" /\ q.op = "check" /\ q.raw = config /\ q.alias = req[c].alias
      /\ q.baseline = catalog[req[c].alias] /\ q.source = req[c].source
  BY <1>1, <1>2 DEF Request
<1>6. RequestInv(q)
  BY <1>1, <1>2, <1>3, <1>4, <1>5 DEF RequestInv, RequestOK, HasDraft, SelectsBefore
<1> QED BY <1>6, QuietStep DEF CheckProject

(* The capture of a check keeps the catalog it read in hand.               *)
LEMMA CaptureCurrentStep ==
    ASSUME IInv, NEW c \in Client, CaptureCurrent(c)
    PROVE  IInv'
<1> DEFINE q == [req[c] EXCEPT !.step = "observe", !.view = catalog]
<1>1. /\ req[c] \in Request /\ RequestOK(req[c]) /\ RequestInv(req[c])
      /\ req[c].step = "capture" /\ catalog \in Catalog
  BY RequestInHand DEF CaptureCurrent, At
<1>2. q \in Request
  BY <1>1 DEF Request, Steps
<1>3. /\ q.step = "observe" /\ q.op = req[c].op /\ q.raw = req[c].raw
      /\ q.alias = req[c].alias /\ q.view = catalog /\ q.baseline = req[c].baseline
      /\ q.source = req[c].source
  BY <1>1 DEF Request
<1>4. RequestInv(q)
  BY <1>1, <1>2, <1>3 DEF RequestInv, RequestOK, HasDraft, SelectsBefore
<1> QED BY <1>4, QuietStep DEF CaptureCurrent

(* A finished capture writes a well-formed catalog, and its candidate is   *)
(* numbered.                                                               *)
LEMMA FinishCaptureStep ==
    ASSUME IInv, NEW c \in Client, FinishCapture(c)
    PROVE  IInv'
<1> DEFINE q == [req[c] EXCEPT !.step = "evaluate", !.candidate = captured + 1]
<1>1. /\ req[c] \in Request /\ RequestOK(req[c]) /\ RequestInv(req[c])
      /\ req[c].step = "observe" /\ captured \in Nat
  BY RequestInHand DEF FinishCapture, At
<1>2. req[c].view \in Catalog /\ req[c].op \in {"check", "capture"}
  BY <1>1 DEF RequestOK
<1>3. captured' \in Nat /\ catalog' \in Catalog /\ UNCHANGED <<config, store>>
  <2>1. captured + 1 \in Nat
    BY <1>1
  <2>2. ASSUME NEW view \in Catalog, NEW alias, NEW n \in Nat
        PROVE  [view EXCEPT ![alias] = n] \in Catalog
    BY DEF Catalog
  <2>3. [req[c].view EXCEPT ![CapturedAlias(c)] = captured + 1] \in Catalog
    BY <1>2, <2>1, <2>2, Zenon
  <2> QED BY <2>1, <2>3 DEF FinishCapture
<1>4. config' \in Config /\ ValidConfig(config')
  BY <1>3, RequestInHand
<1>5. CASE req[c].op = "capture"
  BY <1>3, <1>4, <1>5, DoneStep DEF FinishCapture
<1>6. CASE req[c].op # "capture"
  <2>1. q \in Request
    <3>1. captured + 1 \in Nat
      BY <1>1
    <3>2. \A n \in Nat : [req[c] EXCEPT !.step = "evaluate", !.candidate = n] \in Request
      BY <1>1 DEF Request, Steps
    <3> QED BY <3>1, <3>2
  <2>2. /\ q.step = "evaluate" /\ q.op = "check" /\ q.raw = req[c].raw
        /\ q.alias = req[c].alias /\ q.baseline = req[c].baseline
        /\ q.candidate = captured + 1 /\ q.source = req[c].source
    BY <1>1, <1>2, <1>6 DEF Request
  <2>3. RequestInv(q)
    BY <1>1, <1>2, <1>6, <2>1, <2>2 DEF RequestInv, RequestOK, HasDraft, SelectsBefore
  <2> QED BY <1>3, <1>4, <1>6, <2>3, RequestStep DEF FinishCapture
<1> QED BY <1>5, <1>6

(* A failed catalog write still persists an observation.                   *)
LEMMA CatalogWriteFailsStep ==
    ASSUME IInv, NEW c \in Client, CatalogWriteFails(c)
    PROVE  IInv'
<1>1. captured' \in Nat /\ UNCHANGED <<config, catalog, store>>
  BY RequestInHand DEF CatalogWriteFails
<1> QED BY <1>1, RequestInHand, DoneStep DEF CatalogWriteFails

(* Appending an attempt to the revision the check started from is a legal  *)
(* step from that revision, whatever happened to the history meanwhile.    *)
LEMMA RecordAttemptStep ==
    ASSUME IInv, NEW c \in Client, RecordAttempt(c)
    PROVE  IInv'
<1> DEFINE source == store[req[c].source]
<1>1. /\ req[c] \in Request /\ RequestOK(req[c]) /\ RequestInv(req[c])
      /\ req[c].step = "evaluate"
  BY RequestInHand DEF RecordAttempt, At
<1>2. /\ req[c].op = "check" /\ req[c].raw \in Config /\ req[c].baseline \in Nat
      /\ req[c].candidate \in Nat
  BY <1>1 DEF RequestOK
<1>3. /\ req[c].source \in DOMAIN store /\ Active(source) /\ Checkable(source)
  BY <1>1, <1>2 DEF RequestInv
<1>4. /\ source \in Artifact /\ source.attempts \in Seq(Attempt) /\ req[c].source \in Nat
  <2>1. store \in Seq(Artifact)
    BY DEF IInv, StateOK
  <2>2. req[c].source \in Nat /\ source \in Artifact
    BY <1>3, <2>1
  <2> QED BY <2>2 DEF Artifact
<1>5. PICK outcome \in Outcomes(req[c].raw) :
         /\ Recordable(c, outcome)
         /\ Become(c, [req[c] EXCEPT
                !.step = "persist",
                !.draft = [source EXCEPT
                    !.supersedes = req[c].source,
                    !.attempts = Append(@, [candidate |-> req[c].candidate,
                                            baseline |-> req[c].baseline,
                                            status |-> outcome.status,
                                            contract |-> req[c].raw.change,
                                            reference |-> outcome.reference,
                                            review |-> "pending"])]])
  BY DEF RecordAttempt
<1> DEFINE new == [candidate |-> req[c].candidate, baseline |-> req[c].baseline,
                   status |-> outcome.status, contract |-> req[c].raw.change,
                   reference |-> outcome.reference, review |-> "pending"]
           draft == [source EXCEPT !.supersedes = req[c].source,
                                   !.attempts = Append(source.attempts, new)]
           q == [req[c] EXCEPT !.step = "persist", !.draft = draft]
<1>6. outcome.status \in Status /\ outcome.reference \in {req[c].raw.reference, None}
  BY BoundsAssumption DEF Outcomes
<1>7. new \in Attempt
  BY <1>2, <1>6 DEF Attempt, Config, ReviewState
<1>8. Become(c, q)
  BY <1>4, <1>5 DEF Artifact
<1>9. /\ draft.supersedes = req[c].source
      /\ draft.attempts = Append(source.attempts, new)
      /\ draft = [source EXCEPT !.supersedes = req[c].source, !.attempts = draft.attempts]
  BY <1>4 DEF Artifact
<1>10. /\ new.review = "pending" /\ new.baseline = source.scope.observation
       /\ Len(source.attempts) < MaxAttempts
       /\ \A i \in DOMAIN source.attempts : source.attempts[i].candidate # new.candidate
  BY <1>5 DEF Recordable
<1> HIDE DEF new, draft
<1>11. Len(draft.attempts) = Len(source.attempts) + 1 /\ LatestAttempt(draft) = new
  <2> DEFINE longer == Append(source.attempts, new)
  <2>1. Len(longer) = Len(source.attempts) + 1 /\ longer[Len(longer)] = new
    BY <1>4, <1>7, SMTT(30)
  <2> QED BY <1>9, <2>1 DEF LatestAttempt
<1>12. RecordedFrom(source, draft)
  BY <1>3, <1>7, <1>9, <1>10, <1>11 DEF RecordedFrom, Checkable, OnlyAttemptsOf
<1>13. Legal(store, draft)
  BY <1>3, <1>9, <1>12 DEF Legal, DerivedFrom
<1>14. draft \in Artifact
  BY <1>13, LegalDisciplined DEF IInv, StateOK, ReviewDiscipline
<1>15. q \in Request /\ q.step = "persist" /\ q.op = "check" /\ q.draft = draft
  BY <1>1, <1>2, <1>14 DEF Request, Steps
<1>16. RequestInv(q)
  BY <1>13, <1>14, <1>15 DEF RequestInv, RequestOK, HasDraft, SelectsBefore
<1> QED BY <1>8, <1>16, QuietStep DEF RecordAttempt

(* A hand edit leaves a valid configuration and no request changed.        *)
LEMMA EditConfigStep ==
    ASSUME IInv, EditConfig
    PROVE  IInv'
<1>1. config' \in Config /\ ValidConfig(config')
  <2>1. config \in Config
    BY DEF IInv, StateOK
  <2> QED BY <2>1 DEF EditConfig, Config, BindingsFile
<1>2. UNCHANGED <<catalog, captured, store, req>>
  BY DEF EditConfig
<1>3. StateOK'
  BY <1>1, <1>2 DEF IInv, StateOK
<1>4. ReviewDiscipline'
  BY <1>2 DEF IInv, ReviewDiscipline
<1>5. \A c \in Client : RequestInv(req[c])'
  BY <1>2 DEF IInv, RequestInv
<1> QED BY <1>3, <1>4, <1>5 DEF IInv

-----------------------------------------------------------------------------
(* The theorems.                                                           *)

(* The invariant holds initially.                                          *)
LEMMA InitIInv == Init => IInv
<1> SUFFICES ASSUME Init PROVE IInv
  OBVIOUS
<1>1. NoRequest \in Request
  BY NoRequestInv DEF RequestInv, RequestOK
<1>2. \A c \in Client : req[c] = NoRequest
  BY DEF Init
<1>3. config \in Config /\ ValidConfig(config)
  BY DEF Init, Config, BindingsFile
<1>4. catalog \in Catalog /\ captured \in Nat
  BY DEF Init, Catalog
<1>5. StateOK
  BY <1>1, <1>3, <1>4 DEF Init, StateOK
<1>6. ReviewDiscipline
  BY DEF Init, ReviewDiscipline
<1> QED BY <1>2, <1>5, <1>6, NoRequestInv DEF IInv

(* The invariant is preserved by every step of every client.               *)
LEMMA NextIInv == IInv /\ [Next]_vars => IInv'
<1> SUFFICES ASSUME IInv, [Next]_vars PROVE IInv'
  OBVIOUS
<1>1. CASE EditConfig
  BY <1>1, EditConfigStep
<1>2. ASSUME NEW c \in Client, Start(c) PROVE IInv'
  <2>1. CASE \E s \in Scope : Create(c, s)
    BY <2>1, CreateStep
  <2>2. CASE \E contract \in Contract : Promote(c, contract)
    BY <2>2, PromoteStep
  <2>3. CASE \E alias \in Alias, replace \in BOOLEAN : CaptureNamed(c, alias, replace)
    BY <2>3, CaptureNamedStep
  <2>4. CASE \E r \in Addressable : Activate(c, r)
    BY <2>4, ActivateStep
  <2>5. CASE \E r \in Addressable : Restore(c, r)
    BY <2>5, RestoreStep
  <2>6. CASE \E r \in Addressable, alias \in Alias : StartCheck(c, r, alias)
    BY <2>6, StartCheckStep
  <2>7. CASE \E r \in Addressable, decision \in ReviewState : Review(c, r, decision)
    BY <2>7, ReviewStep
  <2>8. CASE \/ \E r \in Addressable, origin \in 0..captured : GovernBaseline(c, r, origin)
             \/ \E r \in Addressable : GovernReference(c, r)
    BY <2>8, GovernStep
  <2> QED BY <1>2, <2>1, <2>2, <2>3, <2>4, <2>5, <2>6, <2>7, <2>8 DEF Start
<1>3. ASSUME NEW c \in Client, Proceed(c) PROVE IInv'
  <2>1. CASE WriteConfig(c)
    BY <2>1, WriteConfigStep
  <2>2. CASE Persist(c)
    BY <2>2, PersistStep
  <2>3. CASE PersistFails(c)
    BY <2>3, PersistFailsStep
  <2>4. CASE Rollback(c)
    BY <2>4, RollbackStep
  <2>5. CASE CheckProject(c)
    BY <2>5, CheckProjectStep
  <2>6. CASE CaptureCurrent(c)
    BY <2>6, CaptureCurrentStep
  <2>7. CASE FinishCapture(c)
    BY <2>7, FinishCaptureStep
  <2>8. CASE CatalogWriteFails(c)
    BY <2>8, CatalogWriteFailsStep
  <2>9. CASE RecordAttempt(c)
    BY <2>9, RecordAttemptStep
  <2>10. CASE \/ WriteConfigFails(c) \/ RollbackFails(c) \/ CheckBlocked(c)
              \/ ObserveFails(c) \/ RefuseAttempt(c)
    BY <2>10, GiveUpStep
       DEF WriteConfigFails, RollbackFails, CheckBlocked, ObserveFails, RefuseAttempt
  <2> QED BY <1>3, <2>1, <2>2, <2>3, <2>4, <2>5, <2>6, <2>7, <2>8, <2>9, <2>10 DEF Proceed
<1>4. ASSUME NEW c \in Client, Crash(c) PROVE IInv'
  BY <1>4, GiveUpStep DEF Crash
<1>5. CASE UNCHANGED vars
  <2>1. StateOK'
    BY <1>5 DEF vars, IInv, StateOK
  <2>2. ReviewDiscipline'
    BY <1>5 DEF vars, IInv, ReviewDiscipline
  <2>3. \A c \in Client : RequestInv(req[c])'
    BY <1>5 DEF vars, IInv, RequestInv
  <2> QED BY <2>1, <2>2, <2>3 DEF IInv
<1> QED BY <1>1, <1>2, <1>3, <1>4, <1>5 DEF Next

(* The inductive invariant holds in every reachable state.                 *)
THEOREM Invariance == Spec => []IInv
BY InitIInv, NextIInv, PTL DEF Spec

(* Hand edits are counted, and nothing else touches their count.           *)
LEMMA EditsCounted == Spec => [](edits \in Nat)
<1>1. Init => edits \in Nat
  BY DEF Init
<1>2. edits \in Nat /\ [Next]_vars => (edits \in Nat)'
  BY DEF Next, vars, EditConfig
<1> QED BY <1>1, <1>2, PTL DEF Spec

(* A project nobody has edited after a step was not edited before it.      *)
LEMMA StillUnedited ==
    ASSUME edits \in Nat, edits' = 0, [Next]_vars
    PROVE  /\ edits = 0
           /\ UNCHANGED vars \/ \E c \in Client : Start(c) \/ Proceed(c) \/ Crash(c)
BY DEF Next, vars, EditConfig

(* Every file and every request in hand is well-formed: no failure, race   *)
(* or rollback leaves frontend-observer.json with half an acceptance.      *)
THEOREM TypeCorrect == Spec => []TypeOK
<1>1. IInv /\ edits \in Nat => TypeOK
  BY DEF IInv, TypeOK, RequestInv
<1> QED BY <1>1, Invariance, EditsCounted, PTL

(* Every persisted revision keeps the review discipline, whatever clients  *)
(* race, crash or name superseded revisions.                               *)
THEOREM Discipline == Spec => []ReviewDiscipline
<1>1. IInv => ReviewDiscipline
  BY DEF IInv
<1> QED BY <1>1, Invariance, PTL

(* A restoration never writes anything but the selection from before the   *)
(* activation it undoes.                                                   *)
THEOREM Restoration == Spec => []RestoreSelectsBefore
<1>1. IInv => RestoreSelectsBefore
  BY DEF IInv, RequestInv, RestoreSelectsBefore
<1> QED BY <1>1, Invariance, PTL

(* The abstract specification's legality is the one the requests obey.     *)
LEMMA SameLegal == \A history, a : Forest!Legal(history, a) <=> Legal(history, a)
BY DEF Forest!Legal, Forest!Root, Forest!NoGovernance, Forest!DerivedFrom,
       Forest!ActivatedFrom, Forest!RestoredFrom, Forest!RecordedFrom, Forest!ReviewedFrom,
       Forest!GovernedFrom, Forest!OnlyActivationOf, Forest!OnlyAttemptsOf,
       Forest!OnlyGovernanceOf, Forest!Confined, Forest!Active, Forest!Cycle,
       Forest!LatestAttempt, Forest!Attempt, Forest!ActivationRecord, Forest!Selection,
       Forest!BindingsFile, Forest!Status, Forest!ReviewState,
       Legal, Root, NoGovernance, DerivedFrom, ActivatedFrom, RestoredFrom, RecordedFrom,
       ReviewedFrom, GovernedFrom, OnlyActivationOf, OnlyAttemptsOf, OnlyGovernanceOf,
       Confined, Active, Cycle, LatestAttempt, Attempt, ActivationRecord, Selection,
       BindingsFile, Status, ReviewState

(* Only a persistence changes the history, and it adds a legal revision.   *)
LEMMA NextForest == IInv /\ [Next]_vars => [Forest!Next]_store
<1> SUFFICES ASSUME IInv, [Next]_vars PROVE [Forest!Next]_store
  OBVIOUS
<1>1. ASSUME NEW c \in Client, Persist(c) PROVE Forest!Next
  <2> DEFINE draft == req[c].draft
  <2>1. store' = Append(store, draft) /\ req[c].step = "persist"
    BY <1>1 DEF Persist, At
  <2>2. Legal(store, draft)
    BY <2>1, RequestInHand DEF RequestInv, HasDraft
  <2>3. store \in Seq(Artifact) /\ draft \in Artifact
    BY <2>2, LegalDisciplined DEF IInv, StateOK, ReviewDiscipline
  <2> HIDE DEF draft
  <2>4. Len(store') = Len(store) + 1 /\ store'[Len(store) + 1] = draft
    BY <2>1, <2>3
  <2> QED BY <2>1, <2>2, <2>4, SameLegal DEF Forest!Next
<1>2. CASE EditConfig \/ \E c \in Client : Start(c) \/ Crash(c)
  BY <1>2 DEF EditConfig, Start, Crash, Create, Promote, CaptureNamed, Activate, Restore,
     StartCheck, Review, GovernBaseline, GovernReference
<1>3. ASSUME NEW c \in Client, Proceed(c), ~Persist(c) PROVE UNCHANGED store
  BY <1>3 DEF Proceed, WriteConfig, WriteConfigFails, PersistFails, Rollback, RollbackFails,
     CheckProject, CheckBlocked, CaptureCurrent, ObserveFails, FinishCapture,
     CatalogWriteFails, RecordAttempt, RefuseAttempt
<1>4. CASE UNCHANGED vars
  BY <1>4 DEF vars
<1> QED BY <1>1, <1>2, <1>3, <1>4 DEF Next

(* The workflow service implements the abstract history of legal revisions *)
(* for any number of clients racing, failing and crashing.                 *)
THEOREM Implementation == Spec => ForestSpec
<1>1. Init => Forest!Init
  BY DEF Init, Forest!Init
<1> QED BY <1>1, NextForest, Invariance, PTL DEF Spec, ForestSpec, Forest!Spec

-----------------------------------------------------------------------------
(* The history of one workflow is a line.                                  *)

(* A set of naturals has a least element.                                  *)
LEMMA NatMin ==
    ASSUME NEW T \in SUBSET Nat, T # {}
    PROVE  \E x \in T : \A y \in T : x <= y
<1>1. PICK x \in T : \A y \in T : ~ (<<y, x>> \in OpToRel(<, Nat))
  BY NatLessThanWellFounded, WFMin
<1>2. \A y \in T : ~ (y < x)
  BY <1>1 DEF OpToRel
<1> QED BY <1>2

(* What holds of 0 and passes to the next number holds of every natural.   *)
LEMMA NatSetInduction ==
    ASSUME NEW T, 0 \in T, \A n \in Nat : n \in T => n + 1 \in T
    PROVE  Nat \subseteq T
<1> DEFINE M == {n \in Nat : n \notin T}
<1>1. CASE M = {}
  BY <1>1
<1>2. CASE M # {}
  <2>1. PICK x \in M : \A y \in M : x <= y
    BY <1>2, NatMin
  <2> QED BY <2>1
<1> QED BY <1>1, <1>2

(* Every revision has a first ancestor when none precedes its parent.      *)
LEMMA RootsExist ==
    ASSUME NEW p, NEW n \in Nat, \A r \in 1..n : p[r] \in Nat /\ p[r] < r
    PROVE  \E f : f = [r \in 1..n |-> IF p[r] = 0 THEN r ELSE f[p[r]]]
<1> DEFINE Eq(f, m) == f = [r \in 1..m |-> IF p[r] = 0 THEN r ELSE f[p[r]]]
           T == {m \in Nat : m <= n => \E f : Eq(f, m)}
<1>1. 0 \in T
  <2>1. Eq([r \in 1..0 |-> 0], 0)
    OBVIOUS
  <2>2. \E f : Eq(f, 0)
    <3> HIDE DEF Eq
    <3> QED BY <2>1
  <2> QED BY <2>2
<1>2. \A m \in Nat : m \in T => m + 1 \in T
  <2> SUFFICES ASSUME NEW m \in Nat, m \in T, m + 1 <= n
               PROVE  \E f : Eq(f, m + 1)
    OBVIOUS
  <2>1. PICK g : Eq(g, m)
    OBVIOUS
  <2>2. \A r \in 1..m : g[r] = IF p[r] = 0 THEN r ELSE g[p[r]]
    BY <2>1
  <2> DEFINE h == [r \in 1..(m + 1) |-> IF r <= m THEN g[r]
                                        ELSE IF p[r] = 0 THEN r ELSE g[p[r]]]
  <2>3. \A r \in 1..(m + 1) : h[r] = IF p[r] = 0 THEN r ELSE h[p[r]]
    <3> SUFFICES ASSUME NEW r \in 1..(m + 1)
                 PROVE  h[r] = IF p[r] = 0 THEN r ELSE h[p[r]]
      OBVIOUS
    <3>1. p[r] \in Nat /\ p[r] < r
      OBVIOUS
    <3>2. CASE p[r] = 0
      BY <2>2, <3>2
    <3>3. CASE p[r] # 0
      <4>1. p[r] \in 1..m
        BY <3>1, <3>3
      <4>2. h[p[r]] = g[p[r]]
        BY <4>1
      <4>3. h[r] = g[p[r]]
        BY <2>2, <3>3
      <4> QED BY <3>3, <4>2, <4>3
    <3> QED BY <3>2, <3>3
  <2>4. h = [r \in 1..(m + 1) |-> h[r]]
    OBVIOUS
  <2>5. Eq(h, m + 1)
    <3> HIDE DEF h
    <3> QED BY <2>3, <2>4
  <2> HIDE DEF h, Eq
  <2> QED BY <2>5
<1>3. n \in T
  <2> HIDE DEF T
  <2> QED BY <1>1, <1>2, NatSetInduction
<1>4. \E f : Eq(f, n)
  <2> HIDE DEF Eq
  <2> QED BY <1>3
<1> QED BY <1>4

(* What RootOf computes.                                                   *)
Roots(history) ==
    CHOOSE f : f = [r \in DOMAIN history |->
                       IF history[r].supersedes = 0 THEN r ELSE f[history[r].supersedes]]

Backward(history) == \A r \in DOMAIN history : /\ history[r].supersedes \in Nat
                                               /\ history[r].supersedes < r

(* A revision's first ancestor is its parent's, or itself.                 *)
LEMMA RootEquation ==
    ASSUME NEW S, NEW history \in Seq(S), Backward(history), NEW r \in DOMAIN history
    PROVE  /\ Roots(history)[r] = IF history[r].supersedes = 0 THEN r
                                  ELSE Roots(history)[history[r].supersedes]
           /\ Roots(history)[r] \in Nat /\ Roots(history)[r] <= r
<1> DEFINE n == Len(history)
           p == [i \in 1..n |-> history[i].supersedes]
           f == Roots(history)
<1>1. DOMAIN history = 1..n /\ n \in Nat
  OBVIOUS
<1>2. \A i \in 1..n : p[i] \in Nat /\ p[i] < i /\ p[i] = history[i].supersedes
  BY <1>1 DEF Backward
<1>3. \E g : g = [i \in 1..n |-> IF p[i] = 0 THEN i ELSE g[p[i]]]
  <2> HIDE DEF p, n
  <2> QED BY <1>1, <1>2, RootsExist
<1>4. PICK g : g = [i \in 1..n |-> IF p[i] = 0 THEN i ELSE g[p[i]]]
  BY <1>3
<1>5. g = [i \in DOMAIN history |->
              IF history[i].supersedes = 0 THEN i ELSE g[history[i].supersedes]]
  BY <1>1, <1>4
<1>6. f = [i \in DOMAIN history |->
              IF history[i].supersedes = 0 THEN i ELSE f[history[i].supersedes]]
  <2> HIDE DEF n, p
  <2> QED BY <1>5 DEF Roots
<1>7. \A i \in 1..n : f[i] = IF p[i] = 0 THEN i ELSE f[p[i]]
  <2> HIDE DEF f
  <2> QED BY <1>1, <1>2, <1>6
<1> HIDE DEF f, p
<1> DEFINE Bad == {i \in 1..n : ~(f[i] \in Nat /\ f[i] <= i)}
<1>8. Bad = {}
  <2> SUFFICES ASSUME Bad # {} PROVE FALSE
    OBVIOUS
  <2>1. Bad \in SUBSET Nat
    BY <1>1
  <2>2. PICK x \in Bad : \A y \in Bad : x <= y
    BY <2>1, NatMin
  <2>3. CASE p[x] = 0
    BY <1>1, <1>7, <2>2, <2>3
  <2>4. CASE p[x] # 0
    <3>1. p[x] \in 1..n /\ p[x] < x /\ x \in 1..n
      BY <1>1, <1>2, <2>2, <2>4
    <3>2. f[p[x]] \in Nat /\ f[p[x]] <= p[x]
      BY <1>1, <2>2, <3>1
    <3> QED BY <1>1, <1>7, <2>2, <2>4, <3>1, <3>2
  <2> QED BY <2>3, <2>4
<1> QED BY <1>1, <1>2, <1>7, <1>8 DEF f

(* A longer history leaves the roots as they were.                         *)
LEMMA RootsStay ==
    ASSUME NEW S, NEW history \in Seq(S), NEW a \in S, NEW longer,
           longer = Append(history, a), Backward(history), Backward(longer),
           NEW r \in DOMAIN history
    PROVE  Roots(longer)[r] = Roots(history)[r]
<1> DEFINE n == Len(history)
           f == Roots(history)
           g == Roots(longer)
           Bad == {i \in 1..n : g[i] # f[i]}
<1>1. /\ DOMAIN history = 1..n /\ n \in Nat /\ longer \in Seq(S)
      /\ \A i \in 1..n : i \in DOMAIN longer /\ longer[i] = history[i]
  OBVIOUS
<1>2. \A i \in 1..n : f[i] = IF history[i].supersedes = 0 THEN i
                             ELSE f[history[i].supersedes]
  BY <1>1, RootEquation
<1>3. \A i \in 1..n : g[i] = IF history[i].supersedes = 0 THEN i
                             ELSE g[history[i].supersedes]
  <2> SUFFICES ASSUME NEW i \in 1..n
               PROVE  g[i] = IF history[i].supersedes = 0 THEN i
                             ELSE g[history[i].supersedes]
    OBVIOUS
  <2>1. i \in DOMAIN longer /\ longer[i] = history[i]
    BY <1>1
  <2>2. g[i] = IF longer[i].supersedes = 0 THEN i ELSE g[longer[i].supersedes]
    <3> HIDE DEF n
    <3> QED BY <1>1, <2>1, RootEquation
  <2> QED BY <2>1, <2>2
<1> HIDE DEF f, g
<1>4. Bad = {}
  <2> SUFFICES ASSUME Bad # {} PROVE FALSE
    OBVIOUS
  <2>1. Bad \in SUBSET Nat
    BY <1>1
  <2>2. PICK x \in Bad : \A y \in Bad : x <= y
    BY <2>1, NatMin
  <2>3. history[x].supersedes # 0
    BY <1>2, <1>3, <2>2
  <2>4. history[x].supersedes \in 1..n /\ history[x].supersedes < x
    BY <1>1, <2>2, <2>3 DEF Backward
  <2>5. f[history[x].supersedes] = g[history[x].supersedes]
    BY <1>1, <2>2, <2>4
  <2> QED BY <1>2, <1>3, <2>2, <2>3, <2>5
<1> QED BY <1>1, <1>4 DEF f, g

(* A decided revision is followed only by revisions with its attempts.     *)
LEMMA DecidedStands ==
    ASSUME NEW p \in Artifact, NEW a \in Artifact, DerivedFrom(p, a),
           Cycle(p) \in {"accepted", "abandoned"}
    PROVE  a.attempts = p.attempts
<1>1. CASE ActivatedFrom(p, a)
  BY <1>1 DEF ActivatedFrom, OnlyActivationOf, Artifact
<1>2. CASE RestoredFrom(p, a)
  BY <1>2 DEF RestoredFrom, OnlyActivationOf, Artifact
<1>3. CASE RecordedFrom(p, a)
  BY <1>3 DEF RecordedFrom
<1>4. CASE ReviewedFrom(p, a)
  BY <1>4 DEF ReviewedFrom, Cycle
<1>5. CASE GovernedFrom(p, a)
  BY <1>5 DEF GovernedFrom, OnlyGovernanceOf, Artifact
<1> QED BY <1>1, <1>2, <1>3, <1>4, <1>5 DEF DerivedFrom

(* The invariant of the store, said of any history.                        *)
OneLine(history) ==
    \A r, s \in DOMAIN history :
        r < s /\ Roots(history)[r] = Roots(history)[s] =>
            \E t \in DOMAIN history : history[t].supersedes = r

Stands(history) ==
    \A r, s \in DOMAIN history :
        /\ r < s
        /\ Roots(history)[r] = Roots(history)[s]
        /\ Cycle(history[r]) \in {"accepted", "abandoned"}
        => history[s].attempts = history[r].attempts

Lined(history) == Backward(history) /\ OneLine(history) /\ Stands(history)

(* A history that only ever grows at its newest revisions stays a line.    *)
LEMMA LineGrows ==
    ASSUME NEW history \in Seq(Artifact), NEW a \in Artifact, NEW longer,
           longer = Append(history, a), Lined(history), Legal(history, a),
           a.supersedes = 0 \/ ~ \E t \in DOMAIN history : history[t].supersedes = a.supersedes
    PROVE  Lined(longer)
<1> DEFINE n == Len(history)
           new == n + 1
           from == a.supersedes
           Old(r) == Roots(history)[r]
           Now(r) == Roots(longer)[r]
<1>1. /\ n \in Nat /\ DOMAIN history = 1..n /\ DOMAIN longer = 1..new
      /\ longer \in Seq(Artifact) /\ longer[new] = a
      /\ \A r \in 1..n : longer[r] = history[r]
  OBVIOUS
<1>2. \/ from = 0
      \/ from \in 1..n /\ DerivedFrom(history[from], a)
  <2>1. CASE a.scope \in Scope /\ a = Root(a.scope)
    <3>1. PICK s : a = Root(s)
      BY <2>1
    <3>2. a.supersedes = 0
      BY <3>1 DEF Root
    <3> QED BY <3>2
  <2>2. CASE from \in DOMAIN history /\ DerivedFrom(history[from], a)
    BY <1>1, <2>2
  <2> QED BY <2>1, <2>2 DEF Legal
<1>3. \A r \in 1..n : history[r] \in Artifact
  BY <1>1
<1>4. Backward(longer)
  BY <1>1, <1>2 DEF Lined, Backward
<1>5. /\ \A r \in 1..n : Now(r) = Old(r) /\ Old(r) \in Nat /\ Old(r) <= r
      /\ Now(new) = IF from = 0 THEN new ELSE Now(from)
  <2>1. ASSUME NEW r \in 1..n PROVE Now(r) = Old(r)
    <3>1. r \in DOMAIN history
      BY <1>1
    <3> HIDE DEF n
    <3> QED BY <1>4, <3>1, RootsStay DEF Lined
  <2>2. \A r \in 1..n : Old(r) \in Nat /\ Old(r) <= r
    BY <1>1, RootEquation DEF Lined
  <2>3. new \in DOMAIN longer
    BY <1>1
  <2>4. Now(new) = IF longer[new].supersedes = 0 THEN new ELSE Now(longer[new].supersedes)
    <3> HIDE DEF new
    <3> QED BY <1>1, <1>4, <2>3, RootEquation
  <2> QED BY <1>1, <2>1, <2>2, <2>4
<1> HIDE DEF Old, Now
<1>6. ASSUME NEW r \in 1..n, NEW s \in 1..n, r < s, Now(r) = Now(s)
      PROVE  /\ \E t \in 1..n : history[t].supersedes = r
             /\ Cycle(history[r]) \in {"accepted", "abandoned"} =>
                   history[s].attempts = history[r].attempts
  BY <1>1, <1>5, <1>6 DEF Lined, OneLine, Stands, Old
<1>7. ASSUME NEW r \in 1..n, Now(r) = Now(new)
      PROVE  from \in 1..n /\ r <= from /\ Now(r) = Now(from)
  <2>1. from # 0
    BY <1>1, <1>5, <1>7
  <2>2. from \in 1..n /\ Now(r) = Now(from)
    BY <1>2, <1>5, <1>7, <2>1
  <2>3. ~ (from < r)
    BY <1>1, <1>6, <2>1, <2>2
  <2> QED BY <2>2, <2>3
<1>8. ASSUME NEW r \in 1..new, NEW s \in 1..new, r < s, Now(r) = Now(s)
      PROVE  /\ \E t \in 1..new : longer[t].supersedes = r
             /\ Cycle(longer[r]) \in {"accepted", "abandoned"} =>
                   longer[s].attempts = longer[r].attempts
  <2>1. CASE s \in 1..n
    <3>1. r \in 1..n
      BY <1>1, <1>8, <2>1
    <3> QED BY <1>1, <1>6, <1>8, <2>1, <3>1
  <2>2. CASE s = new
    <3>1. r \in 1..n /\ from \in 1..n /\ r <= from /\ Now(r) = Now(from)
      BY <1>1, <1>7, <1>8, <2>2
    <3>2. Cycle(history[r]) \in {"accepted", "abandoned"} =>
             history[from].attempts = history[r].attempts
      BY <1>1, <1>6, <3>1
    <3>3. Cycle(history[r]) \in {"accepted", "abandoned"} =>
             Cycle(history[from]) \in {"accepted", "abandoned"}
      BY <3>2 DEF Cycle, LatestAttempt
    <3>4. Cycle(history[from]) \in {"accepted", "abandoned"} =>
             a.attempts = history[from].attempts
      BY <1>2, <1>3, <3>1, DecidedStands
    <3>5. \E t \in 1..new : longer[t].supersedes = r
      <4>1. CASE r = from
        BY <1>1, <4>1
      <4>2. CASE r < from
        BY <1>1, <1>6, <3>1, <4>2
      <4> QED BY <1>1, <3>1, <4>1, <4>2
    <3> QED BY <1>1, <2>2, <3>1, <3>2, <3>3, <3>4, <3>5
  <2> QED BY <1>1, <2>1, <2>2
<1>9. OneLine(longer)
  BY <1>1, <1>8 DEF OneLine, Now
<1>10. Stands(longer)
  BY <1>1, <1>8 DEF Stands, Now
<1> QED BY <1>4, <1>9, <1>10 DEF Lined

(* A step of one client that leaves the store alone.                       *)
LEMMA LineStep ==
    ASSUME IInv, LineInv, NEW c \in Client, NEW q, ExtendsNewest(q), Become(c, q),
           UNCHANGED store
    PROVE  LineInv'
<1>1. req' = [req EXCEPT ![c] = q] /\ req \in [Client -> Request]
  BY DEF Become, IInv, StateOK
<1>2. \A d \in Client : ExtendsNewest(req'[d])
  BY <1>1 DEF LineInv
<1>3. \A d \in Client : ExtendsNewest(req[d])'
  BY <1>2 DEF ExtendsNewest, Superseded
<1>4. RootOf' = RootOf
  BY DEF RootOf
<1> QED BY <1>3, <1>4 DEF LineInv, FinalDecisionStands, Superseded

(* Giving a request up, or answering it.                                   *)
LEMMA LineDone ==
    ASSUME IInv, LineInv, NEW c \in Client, Done(c), UNCHANGED store
    PROVE  LineInv'
<1>1. ExtendsNewest(NoRequest)
  BY DEF ExtendsNewest, NoRequest, HasDraft
<1> QED BY <1>1, LineStep DEF Done

(* A request that names the newest revision is about to extend it.         *)
LEMMA LineStart ==
    ASSUME ~StaleRequests, IInv, LineInv, NEW c \in Client, Start(c)
    PROVE  LineInv'
<1> DEFINE Writes(q, r) == q.draft.supersedes = r /\ q.op # "check"
<1>1. ASSUME NEW r \in Addressable
      PROVE  /\ ~Superseded(r) /\ store[r] \in Artifact
             /\ store[r].activation # None =>
                   store[r].activation \in [before: Selection, after: Selection, restored: BOOLEAN]
  BY <1>1, StoredRevision DEF Addressable, Artifact, ActivationRecord
<1>2. ASSUME NEW r \in Addressable, NEW q, Become(c, q), Writes(q, r), UNCHANGED store
      PROVE  LineInv'
  <2>1. ExtendsNewest(q)
    BY <1>1, <1>2 DEF ExtendsNewest
  <2> QED BY <1>2, <2>1, LineStep
<1>3. ASSUME NEW s \in Scope, Create(c, s) PROVE LineInv'
  <2> DEFINE q == [NoRequest EXCEPT !.step = "persist", !.op = "create", !.draft = Root(s)]
  <2>1. ExtendsNewest(q)
    BY DEF ExtendsNewest, NoRequest, HasDraft, Root
  <2> QED BY <1>3, <2>1, LineStep DEF Create
<1>4. ASSUME NEW contract \in Contract, Promote(c, contract) PROVE LineInv'
  <2> DEFINE q == [NoRequest EXCEPT !.step = "write", !.op = "promote", !.raw = config,
                                    !.text = [config EXCEPT !.change = contract]]
  <2>1. ExtendsNewest(q)
    BY DEF ExtendsNewest, NoRequest, HasDraft
  <2> QED BY <1>4, <2>1, LineStep DEF Promote
<1>5. ASSUME NEW alias \in Alias, NEW replace \in BOOLEAN, CaptureNamed(c, alias, replace)
      PROVE  LineInv'
  <2> DEFINE q == [NoRequest EXCEPT !.step = "observe", !.op = "capture", !.alias = alias,
                                    !.view = catalog]
  <2>1. ExtendsNewest(q)
    BY DEF ExtendsNewest, NoRequest, HasDraft
  <2> QED BY <1>5, <2>1, LineStep DEF CaptureNamed
<1>6. ASSUME NEW r \in Addressable, NEW alias \in Alias, StartCheck(c, r, alias)
      PROVE  LineInv'
  <2> DEFINE q == [NoRequest EXCEPT !.step = "check", !.op = "check", !.source = r,
                                    !.alias = alias]
  <2>1. ExtendsNewest(q)
    BY <1>1 DEF ExtendsNewest, NoRequest, HasDraft
  <2> QED BY <1>6, <2>1, LineStep DEF StartCheck
<1>7. ASSUME NEW r \in Addressable, Activate(c, r) PROVE LineInv'
  <2> DEFINE source == store[r]
             text == Switched(config, source.scope, r)
             draft == [source EXCEPT !.supersedes = r,
                          !.activation = [before |-> Selected(config),
                                          after |-> Selected(text), restored |-> FALSE]]
             q == [NoRequest EXCEPT !.step = "write", !.op = "activate", !.source = r,
                                    !.raw = config, !.text = text, !.draft = draft]
  <2>1. draft.supersedes = r
    BY <1>1 DEF Artifact
  <2>2. Become(c, q) /\ UNCHANGED store
    BY <1>7 DEF Activate
  <2> HIDE DEF draft, text
  <2>3. Writes(q, r)
    BY <2>1 DEF NoRequest
  <2> HIDE DEF q, Writes
  <2> QED BY <1>2, <2>2, <2>3
<1>8. ASSUME NEW r \in Addressable, Restore(c, r) PROVE LineInv'
  <2> DEFINE source == store[r]
             text == SwitchedBack(config, source.scope, source.activation.before)
             draft == [source EXCEPT !.supersedes = r, !.activation.restored = TRUE]
             q == [NoRequest EXCEPT !.step = "write", !.op = "restore", !.source = r,
                                    !.raw = config, !.text = text, !.draft = draft]
  <2>1. draft.supersedes = r
    BY <1>1 DEF Artifact
  <2>2. Become(c, q) /\ UNCHANGED store
    BY <1>8 DEF Restore
  <2> HIDE DEF draft, text
  <2>3. Writes(q, r)
    BY <2>1 DEF NoRequest
  <2> HIDE DEF q, Writes
  <2> QED BY <1>2, <2>2, <2>3
<1>9. ASSUME NEW r \in Addressable, NEW decision \in ReviewState, Review(c, r, decision)
      PROVE  LineInv'
  <2> DEFINE source == store[r]
             draft == [source EXCEPT !.supersedes = r,
                          !.attempts[Len(source.attempts)].review = decision]
             q == [NoRequest EXCEPT !.step = "persist", !.op = "review", !.source = r,
                                    !.draft = draft]
  <2>1. draft.supersedes = r
    BY <1>1 DEF Artifact
  <2>2. Become(c, q) /\ UNCHANGED store
    BY <1>9 DEF Review
  <2> HIDE DEF draft
  <2>3. Writes(q, r)
    BY <2>1 DEF NoRequest
  <2> HIDE DEF q, Writes
  <2> QED BY <1>2, <2>2, <2>3
<1>10. ASSUME NEW r \in Addressable, NEW origin \in 0..captured, GovernBaseline(c, r, origin)
       PROVE  LineInv'
  <2> DEFINE source == store[r]
             draft == [source EXCEPT !.supersedes = r, !.governance.baseline = origin]
             q == [NoRequest EXCEPT !.step = "persist", !.op = "govern", !.source = r,
                                    !.draft = draft]
  <2>1. draft.supersedes = r
    BY <1>1 DEF Artifact
  <2>2. Become(c, q) /\ UNCHANGED store
    BY <1>10 DEF GovernBaseline
  <2> HIDE DEF draft
  <2>3. Writes(q, r)
    BY <2>1 DEF NoRequest
  <2> HIDE DEF q, Writes
  <2> QED BY <1>2, <2>2, <2>3
<1>11. ASSUME NEW r \in Addressable, GovernReference(c, r) PROVE LineInv'
  <2> DEFINE source == store[r]
             draft == [source EXCEPT !.supersedes = r, !.governance.reference = TRUE]
             q == [NoRequest EXCEPT !.step = "persist", !.op = "govern", !.source = r,
                                    !.draft = draft]
  <2>1. draft.supersedes = r
    BY <1>1 DEF Artifact
  <2>2. Become(c, q) /\ UNCHANGED store
    BY <1>11 DEF GovernReference
  <2> HIDE DEF draft
  <2>3. Writes(q, r)
    BY <2>1 DEF NoRequest
  <2> HIDE DEF q, Writes
  <2> QED BY <1>2, <2>2, <2>3
<1> HIDE DEF Writes
<1> QED BY <1>3, <1>4, <1>5, <1>6, <1>7, <1>8, <1>9, <1>10, <1>11 DEF Start

(* Persisting the one draft in hand extends the newest revision.           *)
LEMMA LinePersist ==
    ASSUME OneHandler, IInv, LineInv, NEW c \in Client, Persist(c)
    PROVE  LineInv'
<1> DEFINE draft == req[c].draft
<1>1. /\ store' = Append(store, draft) /\ req' = [req EXCEPT ![c] = NoRequest]
      /\ req[c].step = "persist" /\ req \in [Client -> Request]
  BY DEF Persist, Done, Become, At, IInv, StateOK
<1>2. store \in Seq(Artifact) /\ \A r \in DOMAIN store : Disciplined(store[r])
  BY DEF IInv, StateOK, ReviewDiscipline
<1>3. HasDraft(req[c]) /\ Legal(store, draft)
  BY <1>1, RequestInHand DEF RequestInv, HasDraft
<1>4. draft \in Artifact
  BY <1>2, <1>3, LegalDisciplined
<1>5. draft.supersedes = 0 \/ ~ \E t \in DOMAIN store : store[t].supersedes = draft.supersedes
  BY <1>3 DEF LineInv, ExtendsNewest, Superseded
<1>6. Lined(store)
  <2>1. ASSUME NEW r \in DOMAIN store PROVE store[r].supersedes \in Nat
    <3>1. store[r] \in Artifact
      BY <1>2
    <3> QED BY <3>1 DEF Artifact
  <2>2. RootOf = Roots(store)
    BY DEF RootOf, Roots
  <2> QED BY <2>1, <2>2 DEF LineInv, FinalDecisionStands, Superseded, Lined, Backward, OneLine, Stands
<1> HIDE DEF draft
<1>7. PICK longer : longer = store'
  OBVIOUS
<1>8. Lined(longer)
  BY <1>1, <1>2, <1>3, <1>4, <1>5, <1>6, <1>7, LineGrows
<1>9. RootOf' = Roots(longer)
  BY <1>7 DEF RootOf, Roots
<1>10. \A d \in Client : ExtendsNewest(req[d])'
  <2>1. \A d \in Client : req'[d] = NoRequest
    BY <1>1 DEF OneHandler
  <2> QED BY <2>1 DEF ExtendsNewest, NoRequest, HasDraft
<1> QED BY <1>7, <1>8, <1>9, <1>10
        DEF LineInv, FinalDecisionStands, Superseded, Lined, Backward, OneLine, Stands

(* A request under way keeps the revision it started from.                 *)
LEMMA LineProceed ==
    ASSUME OneHandler, IInv, LineInv, NEW c \in Client, Proceed(c)
    PROVE  LineInv'
<1>1. req[c] \in Request /\ RequestOK(req[c]) /\ ExtendsNewest(req[c])
  BY RequestInHand DEF LineInv
<1>2. CASE WriteConfig(c)
  <2>1. CASE req[c].op = "promote"
    BY <1>2, <2>1, LineDone DEF WriteConfig
  <2>2. CASE req[c].op # "promote"
    <3> DEFINE q == [req[c] EXCEPT !.step = "persist"]
    <3>1. q.step = "persist" /\ q.draft = req[c].draft /\ HasDraft(req[c])
      BY <1>1, <1>2, <2>2 DEF WriteConfig, At, Request, HasDraft
    <3>2. ExtendsNewest(q)
      BY <1>1, <3>1 DEF ExtendsNewest
    <3> QED BY <1>2, <2>2, <3>2, LineStep DEF WriteConfig, Goto
  <2> QED BY <2>1, <2>2
<1>3. CASE PersistFails(c)
  <2>1. CASE req[c].op \notin {"activate", "restore"}
    BY <1>3, <2>1, LineDone DEF PersistFails
  <2>2. CASE req[c].op \in {"activate", "restore"}
    <3> DEFINE q == [req[c] EXCEPT !.step = "rollback"]
    <3>1. /\ q.step = "rollback" /\ q.draft = req[c].draft /\ q.op # "check"
          /\ HasDraft(req[c])
      BY <1>1, <1>3, <2>2 DEF PersistFails, At, Request, HasDraft
    <3>2. ExtendsNewest(q)
      BY <1>1, <3>1 DEF ExtendsNewest
    <3> QED BY <1>3, <2>2, <3>2, LineStep DEF PersistFails, Goto
  <2> QED BY <2>1, <2>2
<1>4. CASE CheckProject(c)
  <2> DEFINE q == [req[c] EXCEPT !.step = "capture", !.raw = config,
                                 !.baseline = catalog[req[c].alias]]
  <2>1. /\ q.step = "capture" /\ q.op = req[c].op /\ q.source = req[c].source
        /\ req[c].step = "check"
    BY <1>1, <1>4 DEF CheckProject, At, Request
  <2>2. ExtendsNewest(q)
    BY <1>1, <2>1 DEF ExtendsNewest, HasDraft
  <2> QED BY <1>4, <2>2, LineStep DEF CheckProject
<1>5. CASE CaptureCurrent(c)
  <2> DEFINE q == [req[c] EXCEPT !.step = "observe", !.view = catalog]
  <2>1. /\ q.step = "observe" /\ q.op = req[c].op /\ q.source = req[c].source
        /\ req[c].step = "capture"
    BY <1>1, <1>5 DEF CaptureCurrent, At, Request
  <2>2. ExtendsNewest(q)
    BY <1>1, <2>1 DEF ExtendsNewest, HasDraft
  <2> QED BY <1>5, <2>2, LineStep DEF CaptureCurrent
<1>6. CASE FinishCapture(c)
  <2>1. CASE req[c].op = "capture"
    BY <1>6, <2>1, LineDone DEF FinishCapture
  <2>2. CASE req[c].op # "capture"
    <3> DEFINE q == [req[c] EXCEPT !.step = "evaluate", !.candidate = captured + 1]
    <3>1. /\ q.step = "evaluate" /\ q.op = req[c].op /\ q.source = req[c].source
          /\ req[c].step = "observe"
      BY <1>1, <1>6 DEF FinishCapture, At, Request
    <3>2. ExtendsNewest(q)
      BY <1>1, <3>1 DEF ExtendsNewest, HasDraft
    <3> QED BY <1>6, <2>2, <3>2, LineStep DEF FinishCapture
  <2> QED BY <2>1, <2>2
<1>7. CASE RecordAttempt(c)
  <2>1. /\ req[c].step = "evaluate" /\ req[c].op = "check" /\ req[c].source \in DOMAIN store
    BY <1>1, <1>7, RequestInHand DEF RecordAttempt, At, RequestOK, RequestInv
  <2>2. store[req[c].source] \in Artifact
    BY <2>1 DEF IInv, StateOK
  <2>3. PICK draft : /\ Become(c, [req[c] EXCEPT !.step = "persist", !.draft = draft])
                     /\ draft.supersedes = req[c].source
    <3> DEFINE Grown(new) == [store[req[c].source] EXCEPT !.supersedes = req[c].source,
                                                          !.attempts = Append(@, new)]
    <3>1. PICK new : Become(c, [req[c] EXCEPT !.step = "persist", !.draft = Grown(new)])
      BY <1>7 DEF RecordAttempt
    <3>2. Grown(new).supersedes = req[c].source
      BY <2>2 DEF Artifact
    <3> HIDE DEF Grown
    <3> QED BY <3>1, <3>2
  <2> DEFINE q == [req[c] EXCEPT !.step = "persist", !.draft = draft]
  <2>4. q.step = "persist" /\ q.draft = draft
    BY <1>1 DEF Request
  <2>5. ExtendsNewest(q)
    BY <1>1, <2>1, <2>3, <2>4 DEF ExtendsNewest
  <2> QED BY <1>7, <2>3, <2>5, LineStep DEF RecordAttempt
<1>8. CASE \/ WriteConfigFails(c) \/ Rollback(c) \/ RollbackFails(c) \/ CheckBlocked(c)
           \/ ObserveFails(c) \/ CatalogWriteFails(c) \/ RefuseAttempt(c)
  BY <1>8, LineDone DEF WriteConfigFails, Rollback, RollbackFails, CheckBlocked,
     ObserveFails, CatalogWriteFails, RefuseAttempt
<1>9. CASE Persist(c)
  BY <1>9, LinePersist
<1> QED BY <1>2, <1>3, <1>4, <1>5, <1>6, <1>7, <1>8, <1>9 DEF Proceed

(* The whole step.                                                         *)
LEMMA LineNext ==
    ASSUME OneHandler, ~StaleRequests, IInv, LineInv, [Next]_vars
    PROVE  LineInv'
<1>1. ASSUME UNCHANGED <<store, req>> PROVE LineInv'
  <2>1. RootOf' = RootOf
    BY <1>1 DEF RootOf
  <2>2. \A c \in Client : ExtendsNewest(req[c])'
    BY <1>1 DEF LineInv, ExtendsNewest, Superseded
  <2> QED BY <1>1, <2>1, <2>2 DEF LineInv, FinalDecisionStands, Superseded
<1>2. CASE EditConfig
  BY <1>1, <1>2 DEF EditConfig
<1>3. CASE UNCHANGED vars
  BY <1>1, <1>3 DEF vars
<1>4. ASSUME NEW c \in Client, Start(c) \/ Proceed(c) \/ Crash(c) PROVE LineInv'
  BY <1>4, LineStart, LineProceed, LineDone DEF Crash
<1> QED BY <1>2, <1>3, <1>4 DEF Next

(* With one handler that always names the newest revision, a recorded      *)
(* final decision is final: no later revision of the workflow has other    *)
(* attempts or another decision, whatever fails, crashes or is edited.     *)
THEOREM DecisionStands ==
    ASSUME OneHandler, ~StaleRequests
    PROVE  Spec => []FinalDecisionStands
<1>1. Init => LineInv
  <2>1. ASSUME Init PROVE \A c \in Client : ExtendsNewest(req[c])
    BY <2>1 DEF Init, ExtendsNewest, NoRequest, HasDraft
  <2> QED BY <2>1 DEF Init, LineInv, FinalDecisionStands
<1>2. IInv /\ LineInv /\ [Next]_vars => LineInv'
  BY LineNext
<1>3. LineInv => FinalDecisionStands
  BY DEF LineInv
<1> QED BY <1>1, <1>2, <1>3, Invariance, PTL DEF Spec

-----------------------------------------------------------------------------
(* What a request has in hand when it has been accepted.                   *)

Begins(q) ==
    \/ q.step = "persist" /\ q.op = "create" /\ \E s \in Scope : q.draft = Root(s)
    \/ /\ q.step = "write" /\ q.op = "promote"
       /\ q.raw = config /\ q.text.bindings = config.bindings
    \/ q.step = "observe" /\ q.op = "capture"
    \/ /\ q.step = "check" /\ q.op = "check"
       /\ q.source \in Addressable /\ Ready(store[q.source])
    \/ /\ q.step = "persist" /\ q.op \in {"review", "govern"}
       /\ q.draft.supersedes \in Addressable
       /\ \/ ReviewedFrom(store[q.draft.supersedes], q.draft)
          \/ GovernedFrom(store[q.draft.supersedes], q.draft)
    \/ /\ q.step = "write" /\ q.op = "activate" /\ q.raw = config
       /\ q.draft.supersedes \in Addressable
       /\ ActivatedFrom(store[q.draft.supersedes], q.draft)
       /\ q.text = Switched(config, q.draft.scope, q.draft.supersedes)
       /\ q.draft.activation.before = Selected(config)
       /\ q.draft.activation.after = Selected(q.text)
    \/ /\ q.step = "write" /\ q.op = "restore" /\ q.raw = config
       /\ q.draft.supersedes \in Addressable
       /\ RestoredFrom(store[q.draft.supersedes], q.draft)
       /\ Selected(config) = q.draft.activation.after
       /\ q.text = SwitchedBack(config, q.draft.scope, q.draft.activation.before)
       /\ Selected(q.text) = q.draft.activation.before

(* A decision begins with a draft that decides the latest attempt.         *)
LEMMA BeginsReview ==
    ASSUME IInv, NEW c \in Client, NEW r \in Addressable, NEW decision \in ReviewState,
           Review(c, r, decision)
    PROVE  \E q : Become(c, q) /\ Begins(q)
<1> DEFINE source == store[r]
           n == Len(source.attempts)
           draft == [source EXCEPT !.supersedes = r, !.attempts[n].review = decision]
           q == [NoRequest EXCEPT !.step = "persist", !.op = "review", !.source = r,
                                  !.draft = draft]
<1>1. source \in Artifact
  BY StoredRevision
<1>2. /\ source.attempts # << >>
      /\ \/ /\ LatestAttempt(source).review = "pending"
            /\ decision \in {"correction-requested", "accepted", "abandoned"}
         \/ /\ LatestAttempt(source).review = "correction-requested"
            /\ decision = "abandoned"
  <2>1. \/ /\ Cycle(source) = "review-required"
           /\ decision \in {"correction-requested", "accepted", "abandoned"}
        \/ Cycle(source) = "correction-requested" /\ decision = "abandoned"
    BY DEF Review, Decisions
  <2>2. source.attempts # << >>
    BY <2>1 DEF Cycle
  <2>3. source.attempts \in Seq(Attempt) /\ n \in 1..n
    BY <1>1, <2>2 DEF Artifact
  <2>4. LatestAttempt(source) \in Attempt
    BY <2>3 DEF LatestAttempt
  <2>5. LatestAttempt(source).review \in ReviewState
    BY <2>4 DEF Attempt
  <2> QED BY <2>1, <2>2, <2>5 DEF Cycle, ReviewState
<1>3. /\ decision = "accepted" => LatestAttempt(source).status = "PASS"
      /\ decision # "abandoned" => Active(source)
  BY DEF Review, Acceptable, Ready
<1>4. source.attempts \in Seq(Attempt) /\ n \in 1..n /\ source.attempts[n] \in Attempt
  BY <1>1, <1>2 DEF Artifact
<1>5. /\ draft.attempts = [source.attempts EXCEPT ![n].review = decision]
      /\ draft.supersedes = r
      /\ draft = [source EXCEPT !.supersedes = r, !.attempts = draft.attempts]
  BY <1>1 DEF Artifact
<1>6. Become(c, q)
  BY DEF Review
<1> HIDE DEF draft
<1>7. /\ Len(draft.attempts) = n
      /\ LatestAttempt(draft).review = decision
  BY <1>4, <1>5 DEF LatestAttempt, Attempt
<1>8. ReviewedFrom(source, draft)
  BY <1>2, <1>3, <1>5, <1>7 DEF ReviewedFrom, OnlyAttemptsOf
<1>9. q.step = "persist" /\ q.op = "review" /\ q.draft = draft
  BY DEF NoRequest
<1>10. Begins(q)
  BY <1>5, <1>8, <1>9 DEF Begins
<1> QED BY <1>6, <1>10

(* An activation begins with the text and the record of the switch.        *)
LEMMA BeginsActivation ==
    ASSUME IInv, NEW c \in Client, NEW r \in Addressable, Activate(c, r)
    PROVE  \E q : Become(c, q) /\ Begins(q)
<1> DEFINE source == store[r]
           text == Switched(config, source.scope, r)
           record == [before |-> Selected(config), after |-> Selected(text),
                      restored |-> FALSE]
           draft == [source EXCEPT !.supersedes = r, !.activation = record]
           q == [NoRequest EXCEPT !.step = "write", !.op = "activate", !.source = r,
                                  !.raw = config, !.text = text, !.draft = draft]
<1>1. r \in Nat \ {0} /\ source \in Artifact /\ source.scope \in Scope
  BY StoredRevision
<1>2. config \in Config /\ ValidConfig(config) /\ ActivationAllowed(config, source.scope)
  BY DEF IInv, StateOK, Activate
<1>3. text \in Config /\ Confined(source.scope, record)
  BY <1>1, <1>2, SwitchedConfined
<1>4. record \in ActivationRecord
  BY <1>2, <1>3 DEF ActivationRecord, Selected, Selection, Config
<1>5. /\ draft.supersedes = r /\ draft.activation = record /\ draft.scope = source.scope
      /\ OnlyActivationOf(source, draft)
  BY <1>1, <1>4 DEF Artifact, OnlyActivationOf
<1>6. source.activation = None
  BY DEF Activate
<1>7. ActivatedFrom(source, draft)
  BY <1>3, <1>4, <1>5, <1>6 DEF ActivatedFrom
<1>8. Become(c, q)
  BY DEF Activate
<1>9. record.before = Selected(config) /\ record.after = Selected(text)
  OBVIOUS
<1> HIDE DEF draft, text, record
<1>10. /\ q.step = "write" /\ q.op = "activate" /\ q.draft = draft /\ q.raw = config
       /\ q.text = text
  BY DEF NoRequest
<1>11. Begins(q)
  <2>1. q.text = Switched(config, draft.scope, draft.supersedes)
    BY <1>5, <1>10 DEF text
  <2> HIDE DEF q
  <2> QED BY <1>5, <1>7, <1>9, <1>10, <2>1 DEF Begins
<1> QED BY <1>8, <1>11

(* A restoration begins with the text and the record of the way back.      *)
LEMMA BeginsRestoration ==
    ASSUME IInv, NEW c \in Client, NEW r \in Addressable, Restore(c, r)
    PROVE  \E q : Become(c, q) /\ Begins(q)
<1> DEFINE source == store[r]
           text == SwitchedBack(config, source.scope, source.activation.before)
           draft == [source EXCEPT !.supersedes = r, !.activation.restored = TRUE]
           q == [NoRequest EXCEPT !.step = "write", !.op = "restore", !.source = r,
                                  !.raw = config, !.text = text, !.draft = draft]
<1>1. source \in Artifact /\ source.scope \in Scope /\ Disciplined(source)
  BY StoredRevision
<1>2. config \in Config /\ ValidConfig(config)
  BY DEF IInv, StateOK
<1>3. Active(source) /\ Selected(config) = source.activation.after
  BY DEF Restore
<1>4. source.activation \in ActivationRecord /\ Confined(source.scope, source.activation)
  BY <1>1, <1>3 DEF Active, Artifact, Disciplined, ActivationConfined
<1>5. Selected(text) = source.activation.before
  BY <1>1, <1>2, <1>3, <1>4, SwitchedBackSelects
<1>6. /\ draft.supersedes = r /\ draft.scope = source.scope
      /\ draft.activation = [source.activation EXCEPT !.restored = TRUE]
      /\ OnlyActivationOf(source, draft)
  BY <1>1 DEF Artifact, OnlyActivationOf
<1>7. /\ draft.activation.before = source.activation.before
      /\ draft.activation.after = source.activation.after
  BY <1>4, <1>6 DEF ActivationRecord
<1>8. RestoredFrom(source, draft)
  BY <1>3, <1>6 DEF RestoredFrom
<1>9. Become(c, q)
  BY DEF Restore
<1> HIDE DEF draft, text
<1>10. /\ q.step = "write" /\ q.op = "restore" /\ q.draft = draft /\ q.raw = config
       /\ q.text = text
  BY DEF NoRequest
<1>11. Begins(q)
  <2>1. q.text = SwitchedBack(config, draft.scope, draft.activation.before)
    BY <1>6, <1>7, <1>10 DEF text
  <2> HIDE DEF q
  <2> QED BY <1>3, <1>5, <1>6, <1>7, <1>8, <1>10, <2>1 DEF Begins
<1> QED BY <1>9, <1>11

(* A governance result begins with a draft that records it.                *)
LEMMA BeginsGovernance ==
    ASSUME IInv, NEW c \in Client, NEW r \in Addressable,
           \/ \E origin \in 0..captured : GovernBaseline(c, r, origin)
           \/ GovernReference(c, r)
    PROVE  \E q : Become(c, q) /\ Begins(q)
<1> DEFINE source == store[r]
           Hand(draft) == [NoRequest EXCEPT !.step = "persist", !.op = "govern", !.source = r,
                                            !.draft = draft]
<1>1. source \in Artifact
  BY StoredRevision
<1>2. PICK draft : Become(c, Hand(draft)) /\ draft.supersedes = r /\ GovernedFrom(source, draft)
  <2>1. CASE \E origin \in 0..captured : GovernBaseline(c, r, origin)
    <3>1. PICK origin \in 0..captured : GovernBaseline(c, r, origin)
      BY <2>1
    <3> DEFINE draft == [source EXCEPT !.supersedes = r, !.governance.baseline = origin]
    <3>2. /\ draft.supersedes = r
          /\ draft.governance = [source.governance EXCEPT !.baseline = origin]
          /\ OnlyGovernanceOf(source, draft)
      BY <1>1 DEF Artifact, OnlyGovernanceOf
    <3>3. GovernedFrom(source, draft)
      BY <3>1, <3>2 DEF GovernBaseline, GovernedFrom
    <3> QED BY <3>1, <3>2, <3>3 DEF GovernBaseline
  <2>2. CASE GovernReference(c, r)
    <3> DEFINE draft == [source EXCEPT !.supersedes = r, !.governance.reference = TRUE]
    <3>1. /\ draft.supersedes = r
          /\ draft.governance = [source.governance EXCEPT !.reference = TRUE]
          /\ OnlyGovernanceOf(source, draft)
      BY <1>1 DEF Artifact, OnlyGovernanceOf
    <3>2. GovernedFrom(source, draft)
      BY <2>2, <3>1 DEF GovernReference, GovernedFrom
    <3> QED BY <2>2, <3>1, <3>2 DEF GovernReference
  <2> QED BY <2>1, <2>2
<1>3. PICK q : q = Hand(draft)
  OBVIOUS
<1>4. q.step = "persist" /\ q.op = "govern" /\ q.draft = draft
  BY <1>3 DEF NoRequest
<1>5. Begins(q)
  BY <1>2, <1>4 DEF Begins
<1> QED BY <1>2, <1>3, <1>5

(* Every accepted request begins as described and changes nothing else.    *)
LEMMA StartBegins ==
    ASSUME IInv, NEW c \in Client, Start(c)
    PROVE  /\ \E q : Become(c, q) /\ Begins(q)
           /\ UNCHANGED <<config, catalog, captured, store>>
<1>1. UNCHANGED <<config, catalog, captured, store>>
  BY DEF Start, Create, Promote, CaptureNamed, Activate, Restore, StartCheck, Review,
     GovernBaseline, GovernReference
<1>2. ASSUME NEW s \in Scope, Create(c, s) PROVE \E q : Become(c, q) /\ Begins(q)
  <2> DEFINE q == [NoRequest EXCEPT !.step = "persist", !.op = "create", !.draft = Root(s)]
  <2>1. Begins(q)
    BY DEF Begins, NoRequest
  <2> QED BY <1>2, <2>1 DEF Create
<1>3. ASSUME NEW contract \in Contract, Promote(c, contract)
      PROVE  \E q : Become(c, q) /\ Begins(q)
  <2> DEFINE text == [config EXCEPT !.change = contract]
             q == [NoRequest EXCEPT !.step = "write", !.op = "promote", !.raw = config,
                                    !.text = text]
  <2>1. text.bindings = config.bindings
    BY DEF IInv, StateOK, Config
  <2> HIDE DEF text
  <2>2. Begins(q)
    BY <2>1 DEF Begins, NoRequest
  <2> QED BY <1>3, <2>2 DEF Promote, text
<1>4. ASSUME NEW alias \in Alias, NEW replace \in BOOLEAN, CaptureNamed(c, alias, replace)
      PROVE  \E q : Become(c, q) /\ Begins(q)
  <2> DEFINE q == [NoRequest EXCEPT !.step = "observe", !.op = "capture", !.alias = alias,
                                    !.view = catalog]
  <2>1. Begins(q)
    BY DEF Begins, NoRequest
  <2> QED BY <1>4, <2>1 DEF CaptureNamed
<1>5. ASSUME NEW r \in Addressable, NEW alias \in Alias, StartCheck(c, r, alias)
      PROVE  \E q : Become(c, q) /\ Begins(q)
  <2> DEFINE q == [NoRequest EXCEPT !.step = "check", !.op = "check", !.source = r,
                                    !.alias = alias]
  <2>1. q.step = "check" /\ q.op = "check" /\ q.source = r
    BY DEF NoRequest
  <2>2. Begins(q)
    BY <1>5, <2>1 DEF Begins, StartCheck
  <2> QED BY <1>5, <2>2 DEF StartCheck
<1> QED BY <1>1, <1>2, <1>3, <1>4, <1>5, BeginsReview, BeginsActivation, BeginsRestoration,
           BeginsGovernance DEF Start

(* A draft in hand is a legal next revision.                               *)
LEMMA BeginsDraft ==
    ASSUME IInv, NEW q, Begins(q), HasDraft(q)
    PROVE  /\ q.draft \in Artifact /\ Legal(store, q.draft)
           /\ \/ q.op = "create" /\ \E s \in Scope : q.draft = Root(s)
              \/ /\ q.draft.supersedes \in Addressable
                 /\ DerivedFrom(store[q.draft.supersedes], q.draft)
<1>1. \/ q.op = "create" /\ \E s \in Scope : q.draft = Root(s)
      \/ /\ q.draft.supersedes \in Addressable
         /\ DerivedFrom(store[q.draft.supersedes], q.draft)
  BY DEF Begins, HasDraft, DerivedFrom
<1>2. Legal(store, q.draft)
  <2>1. CASE \E s \in Scope : q.draft = Root(s)
    <3>1. PICK s \in Scope : q.draft = Root(s)
      BY <2>1
    <3>2. q.draft.scope = s
      BY <3>1 DEF Root
    <3> QED BY <3>1, <3>2 DEF Legal
  <2>2. CASE /\ q.draft.supersedes \in Addressable
             /\ DerivedFrom(store[q.draft.supersedes], q.draft)
    BY <2>2 DEF Legal, Addressable
  <2> QED BY <1>1, <2>1, <2>2
<1>3. q.draft \in Artifact
  BY <1>2, LegalDisciplined DEF IInv, StateOK, ReviewDiscipline
<1> QED BY <1>1, <1>2, <1>3

-----------------------------------------------------------------------------
(* What a recorded attempt was computed from.                              *)

(* No lifecycle step but the recording of an attempt adds one to judge.    *)
LEMMA JudgesKept ==
    ASSUME NEW p \in Artifact, NEW a \in Artifact, Judges(p),
           \/ ActivatedFrom(p, a) \/ RestoredFrom(p, a)
           \/ ReviewedFrom(p, a) \/ GovernedFrom(p, a)
    PROVE  Judges(a)
<1>1. CASE ActivatedFrom(p, a) \/ RestoredFrom(p, a) \/ GovernedFrom(p, a)
  <2>1. a.attempts = p.attempts /\ a.scope = p.scope
    BY <1>1 DEF ActivatedFrom, RestoredFrom, GovernedFrom, OnlyActivationOf, OnlyGovernanceOf,
       Artifact
  <2> QED BY <2>1 DEF Judges
<1>2. CASE ReviewedFrom(p, a)
  <2>1. a.scope = p.scope /\ p.attempts \in Seq(Attempt)
    BY <1>2 DEF ReviewedFrom, OnlyAttemptsOf, Artifact
  <2>2. PICK d : a.attempts = [p.attempts EXCEPT ![Len(p.attempts)].review = d]
    BY <1>2 DEF ReviewedFrom
  <2>3. ASSUME NEW i \in DOMAIN p.attempts
        PROVE  /\ a.attempts[i].contract = p.attempts[i].contract
               /\ a.attempts[i].status = p.attempts[i].status
               /\ a.attempts[i].reference = p.attempts[i].reference
    <3>1. p.attempts[i] \in Attempt
      BY <2>1
    <3> QED BY <2>2, <3>1 DEF Attempt
  <2>4. DOMAIN a.attempts = DOMAIN p.attempts
    BY <2>2
  <2> QED BY <2>1, <2>3, <2>4 DEF Judges
<1> QED BY <1>1, <1>2

(* A check that read the activated selection records an attempt that was   *)
(* computed from the frozen scope.                                         *)
LEMMA RecordedJudges ==
    ASSUME NEW p \in Artifact, Judges(p), NEW cfg \in Config, Selects(cfg, p.scope),
           NEW outcome \in Outcomes(cfg), NEW new,
           new.status = outcome.status, new.contract = cfg.change,
           new.reference = outcome.reference, new \in Attempt,
           NEW a, a.scope = p.scope, a.attempts = Append(p.attempts, new)
    PROVE  Judges(a)
<1>1. p.scope \in Scope /\ p.attempts \in Seq(Attempt)
  BY DEF Artifact
<1>2. p.scope.mode = "reference" => p.scope.target # None
  BY <1>1, ScopeAssumption, NoneAssumption
<1>3. /\ p.scope.mode = "actual-frontend" => new.contract = p.scope.target
      /\ p.scope.mode = "reference" /\ new.status = "PASS" => new.reference = p.scope.target
  BY <1>2 DEF Selects, Outcomes
<1>4. \A i \in DOMAIN a.attempts : \/ i \in DOMAIN p.attempts /\ a.attempts[i] = p.attempts[i]
                                   \/ a.attempts[i] = new
  <2>1. PICK longer : longer = Append(p.attempts, new)
    OBVIOUS
  <2>2. \A i \in DOMAIN longer : \/ i \in DOMAIN p.attempts /\ longer[i] = p.attempts[i]
                                 \/ longer[i] = new
    BY <1>1, <2>1
  <2> QED BY <2>1, <2>2
<1> QED BY <1>3, <1>4 DEF Judges

(* A step of the one handler that leaves the store alone.                  *)
LEMMA JudgeStep ==
    ASSUME OneHandler, IInv, JudgeInv, NEW c \in Client, NEW q, Become(c, q), UNCHANGED store,
           HasDraft(q) => Judges(q.draft),
           q.op = "check" /\ q.step = "check" => Selects(config', store[q.source].scope),
           q.op = "check" /\ q.step \in {"capture", "observe", "evaluate"} =>
               Selects(q.raw, store[q.source].scope)
    PROVE  JudgeInv'
<1>1. \A d \in Client : req'[d] = q
  BY DEF OneHandler, Become, IInv, StateOK
<1>2. \A d \in Client : JudgesFrozenScope(req[d])'
  BY <1>1 DEF JudgesFrozenScope
<1> QED BY <1>2 DEF JudgeInv

(* Giving a request up, or answering it.                                   *)
LEMMA JudgeDone ==
    ASSUME OneHandler, IInv, JudgeInv, NEW c \in Client, Done(c), UNCHANGED store
    PROVE  JudgeInv'
<1>1. NoRequest.step = "idle"
  BY DEF NoRequest
<1>2. ~HasDraft(NoRequest)
  BY <1>1 DEF HasDraft
<1> QED BY <1>1, <1>2, JudgeStep DEF Done

(* An accepted request has nothing new to judge yet.                       *)
LEMMA JudgeStart ==
    ASSUME OneHandler, IInv, JudgeInv, NEW c \in Client, Start(c)
    PROVE  JudgeInv'
<1>1. PICK q : Become(c, q) /\ Begins(q)
  BY StartBegins
<1>2. UNCHANGED <<config, catalog, captured, store>>
  BY StartBegins
<1>3. HasDraft(q) => Judges(q.draft)
  <2>1. ASSUME HasDraft(q), q.op = "create" PROVE Judges(q.draft)
    <3>1. PICK s \in Scope : q.draft = Root(s)
      BY <1>1, <2>1 DEF Begins
    <3>2. q.draft.attempts = << >>
      BY <3>1 DEF Root
    <3> QED BY <3>2 DEF Judges
  <2>2. ASSUME HasDraft(q), q.op # "create" PROVE Judges(q.draft)
    <3>1. q.draft \in Artifact /\ q.draft.supersedes \in Addressable
      BY <1>1, <2>2, BeginsDraft
    <3>2. PICK p : p = store[q.draft.supersedes]
      OBVIOUS
    <3>3. p \in Artifact /\ Judges(p)
      BY <3>1, <3>2, StoredRevision DEF JudgeInv
    <3>4. \/ ActivatedFrom(p, q.draft) \/ RestoredFrom(p, q.draft)
          \/ ReviewedFrom(p, q.draft) \/ GovernedFrom(p, q.draft)
      BY <1>1, <2>2, <3>2 DEF Begins, HasDraft
    <3> QED BY <3>1, <3>3, <3>4, JudgesKept
  <2> QED BY <2>1, <2>2
<1>4. q.op = "check" => q.step = "check" /\ Selects(config, store[q.source].scope)
  BY <1>1 DEF Begins, Ready, Selects
<1> QED BY <1>1, <1>2, <1>3, <1>4, JudgeStep

(* The selection the readiness test found is the one the check reads: no   *)
(* other handler and no hand edit is there to move it.                     *)
LEMMA JudgeProceed ==
    ASSUME OneHandler, IInv, JudgeInv, NEW c \in Client, Proceed(c)
    PROVE  JudgeInv'
<1>1. req[c] \in Request /\ RequestOK(req[c]) /\ JudgesFrozenScope(req[c])
  BY RequestInHand DEF JudgeInv
<1>2. CASE WriteConfig(c)
  <2>1. CASE req[c].op = "promote"
    BY <1>2, <2>1, JudgeDone DEF WriteConfig
  <2>2. CASE req[c].op # "promote"
    <3> DEFINE q == [req[c] EXCEPT !.step = "persist"]
    <3>1. q.step = "persist" /\ q.draft = req[c].draft /\ HasDraft(req[c])
      BY <1>1, <1>2, <2>2 DEF WriteConfig, At, Request, HasDraft
    <3>2. Judges(q.draft) /\ Become(c, q) /\ UNCHANGED store
      BY <1>1, <1>2, <2>2, <3>1 DEF JudgesFrozenScope, WriteConfig, Goto
    <3> HIDE DEF q
    <3> QED BY <3>1, <3>2, JudgeStep
  <2> QED BY <2>1, <2>2
<1>3. CASE PersistFails(c)
  <2>1. CASE req[c].op \notin {"activate", "restore"}
    BY <1>3, <2>1, JudgeDone DEF PersistFails
  <2>2. CASE req[c].op \in {"activate", "restore"}
    <3> DEFINE q == [req[c] EXCEPT !.step = "rollback"]
    <3>1. q.step = "rollback" /\ q.draft = req[c].draft /\ HasDraft(req[c])
      BY <1>1, <1>3, <2>2 DEF PersistFails, At, Request, HasDraft
    <3>2. Judges(q.draft) /\ Become(c, q) /\ UNCHANGED store
      BY <1>1, <1>3, <2>2, <3>1 DEF JudgesFrozenScope, PersistFails, Goto
    <3> HIDE DEF q
    <3> QED BY <3>1, <3>2, JudgeStep
  <2> QED BY <2>1, <2>2
<1>4. CASE CheckProject(c)
  <2> DEFINE q == [req[c] EXCEPT !.step = "capture", !.raw = config,
                                 !.baseline = catalog[req[c].alias]]
  <2>1. /\ q.step = "capture" /\ q.source = req[c].source /\ q.raw = config
        /\ req[c].step = "check" /\ req[c].op = "check"
    BY <1>1, <1>4 DEF CheckProject, At, Request, RequestOK
  <2>2. Selects(q.raw, store[q.source].scope)
    BY <1>1, <2>1 DEF JudgesFrozenScope
  <2>3. Become(c, q) /\ UNCHANGED store
    BY <1>4 DEF CheckProject
  <2> HIDE DEF q
  <2>4. ~HasDraft(q)
    BY <2>1 DEF HasDraft
  <2> QED BY <2>1, <2>2, <2>3, <2>4, JudgeStep
<1>5. CASE CaptureCurrent(c)
  <2> DEFINE q == [req[c] EXCEPT !.step = "observe", !.view = catalog]
  <2>1. /\ q.step = "observe" /\ q.source = req[c].source /\ q.raw = req[c].raw
        /\ req[c].step = "capture" /\ req[c].op = "check"
    BY <1>1, <1>5 DEF CaptureCurrent, At, Request, RequestOK
  <2>2. Selects(q.raw, store[q.source].scope)
    BY <1>1, <2>1 DEF JudgesFrozenScope
  <2>3. Become(c, q) /\ UNCHANGED store
    BY <1>5 DEF CaptureCurrent
  <2> HIDE DEF q
  <2>4. ~HasDraft(q)
    BY <2>1 DEF HasDraft
  <2> QED BY <2>1, <2>2, <2>3, <2>4, JudgeStep
<1>6. CASE FinishCapture(c)
  <2>1. CASE req[c].op = "capture"
    BY <1>6, <2>1, JudgeDone DEF FinishCapture
  <2>2. CASE req[c].op # "capture"
    <3> DEFINE q == [req[c] EXCEPT !.step = "evaluate", !.candidate = captured + 1]
    <3>1. /\ q.step = "evaluate" /\ q.source = req[c].source /\ q.raw = req[c].raw
          /\ req[c].step = "observe" /\ req[c].op = "check"
      BY <1>1, <1>6, <2>2 DEF FinishCapture, At, Request, RequestOK
    <3>2. Selects(q.raw, store[q.source].scope)
      BY <1>1, <3>1 DEF JudgesFrozenScope
    <3>3. Become(c, q) /\ UNCHANGED store
      BY <1>6, <2>2 DEF FinishCapture
    <3> HIDE DEF q
    <3>4. ~HasDraft(q)
      BY <3>1 DEF HasDraft
    <3> QED BY <3>1, <3>2, <3>3, <3>4, JudgeStep
  <2> QED BY <2>1, <2>2
<1>7. CASE RecordAttempt(c)
  <2>1. /\ req[c].step = "evaluate" /\ req[c].op = "check" /\ req[c].source \in DOMAIN store
        /\ req[c].raw \in Config /\ req[c].baseline \in Nat /\ req[c].candidate \in Nat
    BY <1>1, <1>7, RequestInHand DEF RecordAttempt, At, RequestOK, RequestInv
  <2>2. PICK p : p = store[req[c].source]
    OBVIOUS
  <2>3. p \in Artifact /\ Judges(p) /\ Selects(req[c].raw, p.scope)
    BY <1>1, <2>1, <2>2 DEF IInv, StateOK, JudgeInv, JudgesFrozenScope
  <2> DEFINE New(o) == [candidate |-> req[c].candidate, baseline |-> req[c].baseline,
                        status |-> o.status, contract |-> req[c].raw.change,
                        reference |-> o.reference, review |-> "pending"]
             Grown(new) == [p EXCEPT !.supersedes = req[c].source,
                                     !.attempts = Append(@, new)]
  <2>4. PICK outcome \in Outcomes(req[c].raw) :
           Become(c, [req[c] EXCEPT !.step = "persist", !.draft = Grown(New(outcome))])
    BY <1>7, <2>2 DEF RecordAttempt
  <2>5. PICK new : new = New(outcome)
    OBVIOUS
  <2>6. PICK draft : draft = Grown(new)
    OBVIOUS
  <2>7. draft.scope = p.scope /\ draft.attempts = Append(p.attempts, new)
    BY <2>3, <2>6 DEF Artifact
  <2>8. /\ new.status = outcome.status /\ new.contract = req[c].raw.change
        /\ new.reference = outcome.reference
    BY <2>5
  <2>9. new \in Attempt
    <3>1. outcome.status \in Status /\ outcome.reference \in {req[c].raw.reference, None}
      BY BoundsAssumption DEF Outcomes
    <3> QED BY <2>1, <2>5, <3>1 DEF Attempt, Config, ReviewState
  <2>10. PICK cfg : cfg = req[c].raw
    OBVIOUS
  <2>11. Judges(draft)
    BY <2>1, <2>3, <2>7, <2>8, <2>9, <2>10, RecordedJudges
  <2> HIDE DEF New, Grown
  <2> DEFINE q == [req[c] EXCEPT !.step = "persist", !.draft = draft]
  <2>12. q.step = "persist" /\ q.draft = draft
    BY <1>1 DEF Request
  <2>13. Become(c, q) /\ UNCHANGED store
    BY <1>7, <2>4, <2>5, <2>6 DEF RecordAttempt
  <2> HIDE DEF q
  <2> QED BY <2>11, <2>12, <2>13, JudgeStep
<1>8. CASE \/ WriteConfigFails(c) \/ Rollback(c) \/ RollbackFails(c) \/ CheckBlocked(c)
           \/ ObserveFails(c) \/ CatalogWriteFails(c) \/ RefuseAttempt(c)
  BY <1>8, JudgeDone DEF WriteConfigFails, Rollback, RollbackFails, CheckBlocked,
     ObserveFails, CatalogWriteFails, RefuseAttempt
<1>9. CASE Persist(c)
  <2> DEFINE draft == req[c].draft
  <2>1. /\ store' = Append(store, draft) /\ Done(c) /\ req[c].step = "persist"
        /\ store \in Seq(Artifact)
    BY <1>9 DEF Persist, At, IInv, StateOK
  <2>2. draft \in Artifact /\ Judges(draft)
    BY <1>1, <2>1 DEF RequestOK, HasDraft, JudgesFrozenScope
  <2> HIDE DEF draft
  <2>3. \A r \in DOMAIN store' : \/ r \in DOMAIN store /\ store'[r] = store[r]
                                 \/ store'[r] = draft
    BY <2>1, <2>2
  <2>4. \A r \in DOMAIN store' : Judges(store'[r])
    BY <2>2, <2>3 DEF JudgeInv
  <2>5. \A d \in Client : req'[d] = NoRequest
    BY <2>1 DEF OneHandler, Done, Become, IInv, StateOK
  <2>6. NoRequest.step = "idle" /\ ~HasDraft(NoRequest)
    BY DEF NoRequest, HasDraft
  <2>7. \A d \in Client : JudgesFrozenScope(req[d])'
    BY <2>5, <2>6 DEF JudgesFrozenScope
  <2> QED BY <2>4, <2>7 DEF JudgeInv
<1> QED BY <1>2, <1>3, <1>4, <1>5, <1>6, <1>7, <1>8, <1>9 DEF Proceed

(* With one handler, and until somebody edits the configuration by hand,   *)
(* every recorded attempt was computed from the scope its workflow froze:  *)
(* for all scopes, histories and failures, and also for requests that name *)
(* superseded revisions.                                                   *)
THEOREM FrozenScopeJudged ==
    ASSUME OneHandler
    PROVE  Spec => []AttemptsJudgeFrozenScope
<1>1. Init => JudgeInv
  <2>1. NoRequest.step = "idle" /\ ~HasDraft(NoRequest)
    BY DEF NoRequest, HasDraft
  <2>2. ASSUME Init PROVE \A c \in Client : JudgesFrozenScope(req[c])
    BY <2>1, <2>2 DEF Init, JudgesFrozenScope
  <2> QED BY <2>2 DEF Init, JudgeInv
<1>2. IInv /\ edits \in Nat /\ (edits = 0 => JudgeInv) /\ [Next]_vars => (edits = 0 => JudgeInv)'
  <2> SUFFICES ASSUME IInv, edits \in Nat, edits = 0 => JudgeInv, [Next]_vars, edits' = 0
               PROVE  JudgeInv'
    OBVIOUS
  <2>1. JudgeInv
    BY StillUnedited
  <2>2. CASE UNCHANGED vars
    <3>1. \A c \in Client : JudgesFrozenScope(req[c])'
      BY <2>1, <2>2 DEF vars, JudgeInv, JudgesFrozenScope
    <3> QED BY <2>1, <2>2, <3>1 DEF vars, JudgeInv
  <2>3. ASSUME NEW c \in Client, Start(c) \/ Proceed(c) \/ Crash(c) PROVE JudgeInv'
    BY <2>1, <2>3, JudgeStart, JudgeProceed, JudgeDone DEF Crash
  <2> QED BY <2>2, <2>3, StillUnedited
<1>3. (edits = 0 => JudgeInv) => AttemptsJudgeFrozenScope
  BY DEF JudgeInv, AttemptsJudgeFrozenScope
<1> QED BY <1>1, <1>2, <1>3, Invariance, EditsCounted, PTL DEF Spec

-----------------------------------------------------------------------------
(* What an activation or a restoration does to the configuration.          *)

(* A step of the one handler.                                              *)
LEMMA SwitchStep ==
    ASSUME OneHandler, IInv, NEW c \in Client, NEW q, Become(c, q),
           q.step = "write" =>
               /\ q.raw = config'
               /\ q.op = "activate" =>
                     /\ q.text = Switched(q.raw, q.draft.scope, q.draft.supersedes)
                     /\ Selected(q.text) = q.draft.activation.after
               /\ q.op = "restore" =>
                     /\ q.text = SwitchedBack(q.raw, q.draft.scope, q.draft.activation.before)
                     /\ Selected(q.text) = q.draft.activation.before,
           q.step = "persist" =>
               /\ q.op = "activate" => Selected(config') = q.draft.activation.after
               /\ q.op = "restore" => Selected(config') = q.draft.activation.before
    PROVE  SwitchInv'
<1>1. \A d \in Client : req'[d] = q
  BY DEF OneHandler, Become, IInv, StateOK
<1>2. PICK cfg : cfg = config'
  OBVIOUS
<1>3. Selected(config)' = Selected(cfg)
  BY <1>2 DEF Selected
<1>4. \A d \in Client : Switches(req[d])'
  BY <1>1, <1>2, <1>3 DEF Switches, Selected
<1> QED BY <1>4 DEF SwitchInv

(* A step after which nothing is about to be written or recorded.          *)
LEMMA SwitchRests ==
    ASSUME OneHandler, IInv, NEW c \in Client, NEW q, Become(c, q),
           q.step \notin {"write", "persist"}
    PROVE  SwitchInv'
BY SwitchStep

(* Giving a request up, or answering it.                                   *)
LEMMA SwitchDone ==
    ASSUME OneHandler, IInv, NEW c \in Client, Done(c)
    PROVE  SwitchInv'
<1>1. NoRequest.step = "idle"
  BY DEF NoRequest
<1> QED BY <1>1, SwitchRests DEF Done

(* What is written is what the revision will say.                          *)
LEMMA SwitchProceed ==
    ASSUME OneHandler, IInv, SwitchInv, NEW c \in Client, Proceed(c)
    PROVE  SwitchInv'
<1>1. req[c] \in Request /\ RequestOK(req[c]) /\ Switches(req[c])
  BY RequestInHand DEF SwitchInv
<1>2. CASE WriteConfig(c)
  <2>1. CASE req[c].op = "promote"
    BY <1>2, <2>1, SwitchDone DEF WriteConfig
  <2>2. CASE req[c].op # "promote"
    <3> DEFINE q == [req[c] EXCEPT !.step = "persist"]
    <3>1. /\ q.step = "persist" /\ q.op = req[c].op /\ q.draft = req[c].draft
          /\ req[c].step = "write" /\ Become(c, q) /\ config' = req[c].text
      BY <1>1, <1>2, <2>2 DEF WriteConfig, At, Request, Goto
    <3>2. /\ q.op = "activate" => Selected(config') = q.draft.activation.after
          /\ q.op = "restore" => Selected(config') = q.draft.activation.before
      BY <1>1, <3>1 DEF Switches, Selected
    <3> HIDE DEF q
    <3> QED BY <3>1, <3>2, SwitchStep
  <2> QED BY <2>1, <2>2
<1>3. CASE PersistFails(c)
  <2>1. CASE req[c].op \notin {"activate", "restore"}
    BY <1>3, <2>1, SwitchDone DEF PersistFails
  <2>2. CASE req[c].op \in {"activate", "restore"}
    <3> DEFINE q == [req[c] EXCEPT !.step = "rollback"]
    <3>1. q.step = "rollback" /\ Become(c, q)
      BY <1>1, <1>3, <2>2 DEF PersistFails, Request, Goto
    <3> HIDE DEF q
    <3> QED BY <3>1, SwitchRests
  <2> QED BY <2>1, <2>2
<1>4. CASE CheckProject(c)
  <2> DEFINE q == [req[c] EXCEPT !.step = "capture", !.raw = config,
                                 !.baseline = catalog[req[c].alias]]
  <2>1. q.step = "capture" /\ Become(c, q)
    BY <1>1, <1>4 DEF CheckProject, Request
  <2> HIDE DEF q
  <2> QED BY <2>1, SwitchRests
<1>5. CASE CaptureCurrent(c)
  <2> DEFINE q == [req[c] EXCEPT !.step = "observe", !.view = catalog]
  <2>1. q.step = "observe" /\ Become(c, q)
    BY <1>1, <1>5 DEF CaptureCurrent, Request
  <2> HIDE DEF q
  <2> QED BY <2>1, SwitchRests
<1>6. CASE FinishCapture(c)
  <2>1. CASE req[c].op = "capture"
    BY <1>6, <2>1, SwitchDone DEF FinishCapture
  <2>2. CASE req[c].op # "capture"
    <3> DEFINE q == [req[c] EXCEPT !.step = "evaluate", !.candidate = captured + 1]
    <3>1. q.step = "evaluate" /\ Become(c, q)
      BY <1>1, <1>6, <2>2 DEF FinishCapture, Request
    <3> HIDE DEF q
    <3> QED BY <3>1, SwitchRests
  <2> QED BY <2>1, <2>2
<1>7. CASE RecordAttempt(c)
  <2>1. PICK draft : Become(c, [req[c] EXCEPT !.step = "persist", !.draft = draft])
    BY <1>7 DEF RecordAttempt
  <2> DEFINE q == [req[c] EXCEPT !.step = "persist", !.draft = draft]
  <2>2. q.step = "persist" /\ q.op = "check"
    BY <1>1, <1>7 DEF RecordAttempt, At, Request, RequestOK
  <2> HIDE DEF q
  <2>3. Become(c, q)
    BY <2>1 DEF q
  <2> QED BY <2>2, <2>3, SwitchStep
<1>8. CASE \/ WriteConfigFails(c) \/ Persist(c) \/ Rollback(c) \/ RollbackFails(c)
           \/ CheckBlocked(c) \/ ObserveFails(c) \/ CatalogWriteFails(c) \/ RefuseAttempt(c)
  BY <1>8, SwitchDone DEF WriteConfigFails, Persist, Rollback, RollbackFails, CheckBlocked,
     ObserveFails, CatalogWriteFails, RefuseAttempt
<1> QED BY <1>2, <1>3, <1>4, <1>5, <1>6, <1>7, <1>8 DEF Proceed

(* The whole step, unless it is a hand edit.                               *)
LEMMA SwitchNext ==
    ASSUME OneHandler, IInv, SwitchInv,
           UNCHANGED vars \/ \E c \in Client : Start(c) \/ Proceed(c) \/ Crash(c)
    PROVE  SwitchInv'
<1>1. CASE UNCHANGED vars
  BY <1>1 DEF vars, SwitchInv, Switches
<1>2. ASSUME NEW c \in Client, Start(c) PROVE SwitchInv'
  <2>1. PICK q : Become(c, q) /\ Begins(q)
    BY <1>2, StartBegins
  <2>2. config' = config
    BY <1>2, StartBegins
  <2>3. /\ q.step = "write" =>
             /\ q.raw = config'
             /\ q.op = "activate" =>
                   /\ q.text = Switched(q.raw, q.draft.scope, q.draft.supersedes)
                   /\ Selected(q.text) = q.draft.activation.after
             /\ q.op = "restore" =>
                   /\ q.text = SwitchedBack(q.raw, q.draft.scope, q.draft.activation.before)
                   /\ Selected(q.text) = q.draft.activation.before
        /\ q.step = "persist" => q.op \notin {"activate", "restore"}
    BY <2>1, <2>2 DEF Begins
  <2> QED BY <2>1, <2>3, SwitchStep
<1>3. ASSUME NEW c \in Client, Proceed(c) \/ Crash(c) PROVE SwitchInv'
  BY <1>3, SwitchProceed, SwitchDone DEF Crash
<1> QED BY <1>1, <1>2, <1>3

(* The invariant in every state reached before a hand edit.                *)
LEMMA SwitchHolds ==
    ASSUME OneHandler
    PROVE  Spec => [](edits = 0 => SwitchInv)
<1>1. Init => SwitchInv
  <2>1. NoRequest.step = "idle"
    BY DEF NoRequest
  <2> QED BY <2>1 DEF Init, SwitchInv, Switches
<1>2. IInv /\ edits \in Nat /\ (edits = 0 => SwitchInv) /\ [Next]_vars
          => (edits = 0 => SwitchInv)'
  <2> SUFFICES ASSUME IInv, edits \in Nat, edits = 0 => SwitchInv, [Next]_vars, edits' = 0
               PROVE  SwitchInv'
    OBVIOUS
  <2>1. SwitchInv
    BY StillUnedited
  <2> QED BY <2>1, StillUnedited, SwitchNext
<1> QED BY <1>1, <1>2, Invariance, EditsCounted, PTL DEF Spec

(* With one handler, and until somebody edits the configuration by hand,   *)
(* whenever the revision that records an activation or a restoration is    *)
(* persisted, the configuration on disk selects what that revision says.   *)
THEOREM RecordedInEffect ==
    ASSUME OneHandler
    PROVE  Spec => RecordedSelectionInEffect
<1>1. ASSUME edits = 0 => SwitchInv, edits = 0, NEW c \in Client
      PROVE  /\ Persist(c) /\ req[c].op = "activate" =>
                   Selected(config) = req[c].draft.activation.after
             /\ Persist(c) /\ req[c].op = "restore" =>
                   Selected(config) = req[c].draft.activation.before
  BY <1>1 DEF SwitchInv, Switches, Persist, At
<1>2. (edits = 0 => SwitchInv) /\ [Next]_vars =>
          [edits = 0 => \A c \in Client :
              /\ Persist(c) /\ req[c].op = "activate" =>
                    Selected(config) = req[c].draft.activation.after
              /\ Persist(c) /\ req[c].op = "restore" =>
                    Selected(config) = req[c].draft.activation.before]_vars
  BY <1>1
<1> QED BY <1>2, SwitchHolds, PTL DEF Spec, RecordedSelectionInEffect

-----------------------------------------------------------------------------
(* Which activations are open in a longer history.                         *)
IsOpen(a) == Active(a) /\ a.scope.mode = "reference"

Grows(history, a, longer) ==
    /\ longer = Append(history, a) /\ Backward(history) /\ Legal(history, a)
    /\ a.supersedes = 0 \/ ~ \E t \in DOMAIN history : history[t].supersedes = a.supersedes

(* What one more revision opens and closes.                                *)
LEMMA OpenGrows ==
    ASSUME NEW history \in Seq(Artifact), NEW a \in Artifact, NEW longer,
           Grows(history, a, longer)
    PROVE  /\ \A r : r \in Open(longer) <=> \/ r \in Open(history) /\ r # a.supersedes
                                            \/ r = Len(history) + 1 /\ IsOpen(a)
           /\ \A r \in Open(history) : /\ Left(longer, r) = Left(history, r)
                                       /\ Found(longer, r) = Found(history, r)
                                       /\ r # Len(history) + 1
           /\ Left(longer, Len(history) + 1) = a.activation.after.bindings
           /\ Found(longer, Len(history) + 1) = a.activation.before.bindings
           /\ \A r : (\E s \in DOMAIN history : history[s].supersedes = r) =>
                 \E s \in DOMAIN longer : longer[s].supersedes = r
           /\ \E s \in DOMAIN longer : longer[s].supersedes = a.supersedes
<1> DEFINE n == Len(history)
           new == n + 1
<1>1. /\ n \in Nat /\ DOMAIN history = 1..n /\ DOMAIN longer = 1..new
      /\ longer \in Seq(Artifact) /\ longer[new] = a
      /\ \A r \in 1..n : longer[r] = history[r]
  BY DEF Grows
<1>2. a.supersedes = 0 \/ a.supersedes \in 1..n
  <2>1. CASE a.scope \in Scope /\ a = Root(a.scope)
    <3>1. PICK s : a = Root(s)
      BY <2>1
    <3>2. a.supersedes = 0
      BY <3>1 DEF Root
    <3> QED BY <3>2
  <2>2. CASE a.supersedes \in DOMAIN history /\ DerivedFrom(history[a.supersedes], a)
    BY <1>1, <2>2
  <2> QED BY <2>1, <2>2 DEF Legal, Grows
<1>3. \A r \in 1..n : history[r].supersedes \in Nat /\ history[r].supersedes < r
  BY <1>1 DEF Grows, Backward
<1>4. \A r \in 1..n : r \in Open(longer) <=> r \in Open(history) /\ r # a.supersedes
  BY <1>1 DEF Open
<1>5. new \in Open(longer) <=> IsOpen(a)
  <2>1. \A s \in 1..new : longer[s].supersedes # new
    BY <1>1, <1>2, <1>3
  <2> QED BY <1>1, <2>1 DEF Open, IsOpen
<1>6. \A r : r \in Open(longer) => r \in 1..n \/ r = new
  BY <1>1 DEF Open
<1>7. \A r : r \in Open(history) => r \in 1..n
  BY <1>1 DEF Open
<1>8. \A r \in 1..n : Left(longer, r) = Left(history, r) /\ Found(longer, r) = Found(history, r)
  BY <1>1 DEF Left, Found
<1>9. Left(longer, new) = a.activation.after.bindings /\ Found(longer, new) = a.activation.before.bindings
  BY <1>1 DEF Left, Found
<1>10. /\ \A r : (\E s \in 1..n : history[s].supersedes = r) =>
                    \E s \in 1..new : longer[s].supersedes = r
       /\ \E s \in 1..new : longer[s].supersedes = a.supersedes
  BY <1>1
<1>11. \A r : r \in Open(longer) <=> \/ r \in Open(history) /\ r # a.supersedes
                                     \/ r = new /\ IsOpen(a)
  BY <1>1, <1>4, <1>5, <1>6, <1>7
<1>12. \A r \in Open(history) : r # new
  BY <1>1, <1>7
<1> QED BY <1>1, <1>7, <1>8, <1>9, <1>10, <1>11, <1>12

(* A revision that neither opens nor closes a reference activation.        *)
LEMMA NestAside ==
    ASSUME NEW history \in Seq(Artifact), NEW a \in Artifact, NEW longer,
           Grows(history, a, longer), Nested(history),
           ~IsOpen(a), a.supersedes \notin Open(history)
    PROVE  Nested(longer) /\ \A cfg : Innermost(history, cfg) => Innermost(longer, cfg)
<1>1. Open(longer) = Open(history)
  <2>1. \A r : r \in Open(longer) <=> \/ r \in Open(history) /\ r # a.supersedes
                                      \/ r = Len(history) + 1 /\ IsOpen(a)
    BY OpenGrows
  <2> QED BY <2>1, Zenon
<1>2. \A r \in Open(history) : Left(longer, r) = Left(history, r) /\ Found(longer, r) = Found(history, r)
  BY OpenGrows
<1>3. \A r : (\E s \in DOMAIN history : history[s].supersedes = r) =>
                 \E s \in DOMAIN longer : longer[s].supersedes = r
  BY OpenGrows
<1> QED BY <1>1, <1>2, <1>3 DEF Nested, Innermost

(* A revision that carries an open activation on.                          *)
LEMMA NestCarried ==
    ASSUME NEW history \in Seq(Artifact), NEW a \in Artifact, NEW longer,
           Grows(history, a, longer), Nested(history),
           IsOpen(a), a.supersedes \in Open(history),
           a.activation = history[a.supersedes].activation
    PROVE  Nested(longer) /\ \A cfg : Innermost(history, cfg) => Innermost(longer, cfg)
<1> DEFINE new == Len(history) + 1
           Name(r) == IF r = a.supersedes THEN new ELSE r
<1>1. \A r : r \in Open(longer) <=> \/ r \in Open(history) /\ r # a.supersedes
                                    \/ r = new
  BY OpenGrows
<1>2. \A r \in Open(history) : /\ Left(longer, r) = Left(history, r)
                               /\ Found(longer, r) = Found(history, r)
                               /\ r # new
  BY OpenGrows
<1>3. /\ Left(longer, new) = Left(history, a.supersedes)
      /\ Found(longer, new) = Found(history, a.supersedes)
  BY OpenGrows DEF Left, Found
<1>4. \A r : (\E s \in DOMAIN history : history[s].supersedes = r) =>
                 \E s \in DOMAIN longer : longer[s].supersedes = r
  BY OpenGrows
<1> HIDE DEF new
<1>5. \A r \in Open(history) : /\ Name(r) \in Open(longer)
                               /\ Left(longer, Name(r)) = Left(history, r)
                               /\ Found(longer, Name(r)) = Found(history, r)
  BY <1>1, <1>2, <1>3
<1>6. \A t \in Open(longer) : \E r \in Open(history) : t = Name(r)
  BY <1>1
<1>7. \A r, s \in Open(history) : Name(r) = Name(s) => r = s
  BY <1>2
<1> HIDE DEF Name
<1>8. Nested(longer)
  <2> SUFFICES ASSUME NEW t \in Open(longer)
               PROVE  /\ \E s \in DOMAIN longer : longer[s].supersedes = Left(longer, t)
                      /\ Found(longer, t) # Left(longer, t)
                      /\ Found(longer, t) \in Nat =>
                            /\ \E s \in Open(longer) : Left(longer, s) = Found(longer, t)
                            /\ \A s \in Open(longer) : Found(longer, s) = Found(longer, t) => s = t
    BY DEF Nested
  <2>1. PICK r \in Open(history) : t = Name(r)
    BY <1>6
  <2>2. Left(longer, t) = Left(history, r) /\ Found(longer, t) = Found(history, r)
    BY <1>5, <2>1
  <2>3. \E s \in DOMAIN longer : longer[s].supersedes = Left(longer, t)
    BY <1>4, <2>2 DEF Nested
  <2>4. Found(longer, t) # Left(longer, t)
    BY <2>2 DEF Nested
  <2>5. ASSUME Found(longer, t) \in Nat
        PROVE  \E s \in Open(longer) : Left(longer, s) = Found(longer, t)
    BY <1>5, <2>2, <2>5 DEF Nested
  <2>6. ASSUME Found(longer, t) \in Nat, NEW s \in Open(longer), Found(longer, s) = Found(longer, t)
        PROVE  s = t
    BY <1>5, <1>6, <2>1, <2>2, <2>6 DEF Nested
  <2> QED BY <2>3, <2>4, <2>5, <2>6
<1>9. ASSUME NEW cfg, Innermost(history, cfg) PROVE Innermost(longer, cfg)
  <2> SUFFICES ASSUME cfg.bindings \in Nat
               PROVE  /\ \E r \in Open(longer) : Left(longer, r) = cfg.bindings
                      /\ \A r \in Open(longer) : Found(longer, r) # cfg.bindings
    BY DEF Innermost
  <2>1. \E r \in Open(longer) : Left(longer, r) = cfg.bindings
    BY <1>5, <1>9 DEF Innermost
  <2>2. \A r \in Open(longer) : Found(longer, r) # cfg.bindings
    BY <1>5, <1>6, <1>9 DEF Innermost
  <2> QED BY <2>1, <2>2
<1> QED BY <1>8, <1>9

(* A new activation becomes the innermost one.                             *)
LEMMA NestOpened ==
    ASSUME NEW history \in Seq(Artifact), NEW a \in Artifact, NEW longer,
           Grows(history, a, longer), Nested(history),
           IsOpen(a), a.supersedes \in Nat \ {0}, a.supersedes \notin Open(history),
           NEW raw, Innermost(history, raw), a.activation.before.bindings = raw.bindings,
           NEW text, a.activation.after.bindings = a.supersedes,
           text.bindings = a.supersedes
    PROVE  Nested(longer) /\ Innermost(longer, text)
<1> DEFINE new == Len(history) + 1
           from == a.supersedes
<1>1. \A r : r \in Open(longer) <=> r \in Open(history) \/ r = new
  BY OpenGrows
<1>2. \A r \in Open(history) : /\ Left(longer, r) = Left(history, r)
                               /\ Found(longer, r) = Found(history, r)
                               /\ r # new
  BY OpenGrows
<1>3. Left(longer, new) = from /\ Found(longer, new) = raw.bindings
  BY OpenGrows
<1>4. /\ \A r : (\E s \in DOMAIN history : history[s].supersedes = r) =>
                   \E s \in DOMAIN longer : longer[s].supersedes = r
      /\ \E s \in DOMAIN longer : longer[s].supersedes = from
  <2>1. \A r : (\E s \in DOMAIN history : history[s].supersedes = r) =>
                  \E s \in DOMAIN longer : longer[s].supersedes = r
    BY OpenGrows
  <2>2. \E s \in DOMAIN longer : longer[s].supersedes = from
    BY OpenGrows
  <2> QED BY <2>1, <2>2, Zenon
<1>5. \A r \in Open(history) : Left(history, r) # from
  BY DEF Grows, Nested
<1>6. \A r \in Open(history) : Found(history, r) # from
  BY <1>5 DEF Nested
<1>7. raw.bindings # from
  BY <1>5 DEF Innermost
<1> HIDE DEF new
<1>8. ASSUME NEW t \in Open(longer)
      PROVE  /\ \E s \in DOMAIN longer : longer[s].supersedes = Left(longer, t)
             /\ Found(longer, t) # Left(longer, t)
             /\ Found(longer, t) # from
  <2>1. CASE t \in Open(history)
    BY <1>2, <1>4, <1>6, <2>1 DEF Nested
  <2>2. CASE t = new
    BY <1>3, <1>4, <1>7, <2>2
  <2> QED BY <1>1, <2>1, <2>2
<1>9. ASSUME NEW t \in Open(longer), Found(longer, t) \in Nat
      PROVE  \E s \in Open(longer) : Left(longer, s) = Found(longer, t)
  <2>1. CASE t \in Open(history)
    BY <1>1, <1>2, <1>9, <2>1 DEF Nested
  <2>2. CASE t = new
    BY <1>1, <1>2, <1>3, <1>9, <2>2 DEF Innermost
  <2> QED BY <1>1, <2>1, <2>2
<1>10. ASSUME NEW t \in Open(longer), Found(longer, t) \in Nat, NEW s \in Open(longer),
              Found(longer, s) = Found(longer, t)
       PROVE  s = t
  <2>1. CASE t \in Open(history) /\ s \in Open(history)
    BY <1>2, <1>10, <2>1 DEF Nested
  <2>2. CASE t = new /\ s = new
    BY <2>2
  <2>3. CASE t = new /\ s \in Open(history)
    BY <1>2, <1>3, <1>10, <2>3 DEF Innermost
  <2>4. CASE s = new /\ t \in Open(history)
    BY <1>2, <1>3, <1>10, <2>4 DEF Innermost
  <2> QED BY <1>1, <2>1, <2>2, <2>3, <2>4
<1>11. Nested(longer)
  BY <1>8, <1>9, <1>10 DEF Nested
<1>12. Innermost(longer, text)
  BY <1>1, <1>3, <1>8 DEF Innermost
<1> QED BY <1>11, <1>12

(* Restoring the innermost activation leaves the one around it innermost.  *)
LEMMA NestClosed ==
    ASSUME NEW history \in Seq(Artifact), NEW a \in Artifact, NEW longer,
           Grows(history, a, longer), Nested(history),
           ~IsOpen(a), a.supersedes \in Open(history),
           NEW raw, Innermost(history, raw), raw.bindings = Left(history, a.supersedes),
           NEW text, text.bindings = Found(history, a.supersedes)
    PROVE  Nested(longer) /\ Innermost(longer, text)
<1> DEFINE from == a.supersedes
<1>1. \A r : r \in Open(longer) <=> r \in Open(history) /\ r # from
  BY OpenGrows
<1>2. \A r \in Open(history) : /\ Left(longer, r) = Left(history, r)
                               /\ Found(longer, r) = Found(history, r)
  BY OpenGrows
<1>3. \A r : (\E s \in DOMAIN history : history[s].supersedes = r) =>
                 \E s \in DOMAIN longer : longer[s].supersedes = r
  BY OpenGrows, SMTT(30)
<1>4. ASSUME NEW t \in Open(longer)
      PROVE  /\ \E s \in DOMAIN longer : longer[s].supersedes = Left(longer, t)
             /\ Found(longer, t) # Left(longer, t)
             /\ Found(longer, t) \in Nat =>
                   \A s \in Open(longer) : Found(longer, s) = Found(longer, t) => s = t
  BY <1>1, <1>2, <1>3, SMTT(30) DEF Nested
<1>5. ASSUME NEW t \in Open(longer), Found(longer, t) \in Nat
      PROVE  \E s \in Open(longer) : Left(longer, s) = Found(longer, t)
  <2>1. PICK s \in Open(history) : Left(history, s) = Found(history, t)
    BY <1>1, <1>2, <1>5 DEF Nested
  <2>2. s # from
    BY <1>1, <1>2, <1>5, <2>1 DEF Innermost
  <2> QED BY <1>1, <1>2, <2>1, <2>2
<1>6. Nested(longer)
  BY <1>4, <1>5 DEF Nested
<1>7. ASSUME text.bindings \in Nat
      PROVE  /\ \E r \in Open(longer) : Left(longer, r) = text.bindings
             /\ \A r \in Open(longer) : Found(longer, r) # text.bindings
  <2>1. PICK s \in Open(history) : Left(history, s) = Found(history, from)
    BY <1>7 DEF Nested
  <2>2. s # from
    BY <2>1 DEF Nested
  <2>3. \A r \in Open(history) : Found(history, r) = Found(history, from) => r = from
    BY <1>7 DEF Nested
  <2> QED BY <1>1, <1>2, <2>1, <2>2, <2>3
<1>8. Innermost(longer, text)
  BY <1>7 DEF Innermost
<1> QED BY <1>6, <1>8

(* A revision with its parent's activation leaves the nesting as it was.   *)
LEMMA NestKept ==
    ASSUME NEW history \in Seq(Artifact), NEW a \in Artifact, NEW longer,
           Grows(history, a, longer), Nested(history), a.supersedes \in DOMAIN history,
           a.activation = history[a.supersedes].activation,
           a.scope = history[a.supersedes].scope
    PROVE  Nested(longer) /\ \A cfg : Innermost(history, cfg) => Innermost(longer, cfg)
<1>1. a.supersedes \in Open(history) <=> IsOpen(a)
  <2>1. a.supersedes # 0
    <3>1. DOMAIN history = 1..Len(history) /\ Len(history) \in Nat
      OBVIOUS
    <3> QED BY <3>1
  <2> QED BY <2>1 DEF Grows, Open, IsOpen, Active
<1> QED BY <1>1, NestAside, NestCarried

(* Only the selected bindings file matters.                                *)
LEMMA InnermostSame ==
    ASSUME NEW history, NEW cfg, NEW other, other.bindings = cfg.bindings, Innermost(history, cfg)
    PROVE  Innermost(history, other)
BY DEF Innermost

(* A draft that a request has in hand, and the history with it.            *)
LEMMA GrowsStore ==
    ASSUME IInv, LineInv, NEW a, Legal(store, a), a.supersedes = 0 \/ ~Superseded(a.supersedes)
    PROVE  a \in Artifact /\ Grows(store, a, Append(store, a))
<1>1. store \in Seq(Artifact) /\ \A r \in DOMAIN store : Disciplined(store[r])
  BY DEF IInv, StateOK, ReviewDiscipline
<1>2. a \in Artifact
  BY <1>1, LegalDisciplined
<1>3. ASSUME NEW r \in DOMAIN store PROVE store[r].supersedes \in Nat
  <2>1. store[r] \in Artifact
    BY <1>1
  <2> QED BY <2>1 DEF Artifact
<1>4. Backward(store)
  BY <1>3 DEF LineInv, Backward
<1> QED BY <1>2, <1>4 DEF Grows, Superseded

(* A step of the one handler that leaves the store alone.                  *)
LEMMA NestStep ==
    ASSUME OneHandler, IInv, NestInv, NEW c \in Client, NEW q, Become(c, q), UNCHANGED store,
           NEW cfg, cfg = config', Nests(q, cfg), ~Ahead(q) => Innermost(store, cfg)
    PROVE  NestInv'
<1>1. \A d \in Client : req'[d] = q
  BY DEF OneHandler, Become, IInv, StateOK
<1>2. \A d \in Client : Nests(req[d], config)'
  <2>1. ASSUME NEW d \in Client PROVE Nests(req[d], config)'
    <3>1. req'[d] = q /\ store' = store /\ config' = cfg
      BY <1>1
    <3>2. PICK history : history = store
      OBVIOUS
    <3>3. req'[d] = q /\ store' = history /\ config' = cfg
      BY <3>1, <3>2
    <3>4. /\ HasDraft(q) => Nested(Append(history, q.draft))
          /\ q.step = "write" =>
                /\ q.op \in {"activate", "restore", "promote"}
                /\ Innermost(IF q.op = "promote" THEN history ELSE Append(history, q.draft), q.text)
          /\ q.step = "write" \/ Ahead(q) => Innermost(history, q.raw)
          /\ q.step = "persist" => Innermost(Append(history, q.draft), cfg)
      BY <3>2 DEF Nests
    <3> QED BY <3>3, <3>4 DEF Nests
  <2> QED BY <2>1
<1>3. ((\A d \in Client : ~Ahead(req[d])) => Innermost(store, config))'
  <2>1. (\A d \in Client : ~Ahead(req'[d])) => ~Ahead(q)
    BY <1>1
  <2>2. store' = store /\ config' = cfg
    OBVIOUS
  <2>3. (\A d \in Client : ~Ahead(req[d]))' => Innermost(store, cfg)
    BY <2>1 DEF Ahead
  <2> QED BY <2>2, <2>3 DEF Innermost, Open, Found, Left, Active
<1>4. Nested(store)'
  BY DEF NestInv, Nested, Open, Found, Left, Active
<1> QED BY <1>2, <1>3, <1>4 DEF NestInv

(* Giving a request up, or answering it.                                   *)
LEMMA NestDone ==
    ASSUME OneHandler, IInv, NestInv, NEW c \in Client, Done(c), UNCHANGED store,
           NEW cfg, cfg = config', Innermost(store, cfg)
    PROVE  NestInv'
<1>1. NoRequest.step = "idle"
  BY DEF NoRequest
<1>2. Nests(NoRequest, cfg)
  BY <1>1 DEF Nests, HasDraft, Ahead
<1> QED BY <1>2, NestStep DEF Done

(* The configuration of an idle or evaluating handler is settled.          *)
LEMMA Settled ==
    ASSUME OneHandler, IInv, NestInv, NEW c \in Client, ~Ahead(req[c])
    PROVE  Innermost(store, config)
<1>1. \A d \in Client : ~Ahead(req[d])
  BY DEF OneHandler
<1> QED BY <1>1 DEF NestInv

(* What an activation about to be written will have opened.                *)
LEMMA OpensNext ==
    ASSUME IInv, LineInv, NestInv, ~StaleRequests, NEW q, Begins(q), q.op = "activate",
           Innermost(store, config)
    PROVE  /\ Nested(Append(store, q.draft))
           /\ Innermost(Append(store, q.draft), q.text)
<1>1. /\ q.step = "write" /\ q.draft.supersedes \in Addressable
      /\ ActivatedFrom(store[q.draft.supersedes], q.draft)
      /\ q.text = Switched(config, q.draft.scope, q.draft.supersedes)
      /\ q.draft.activation.before = Selected(config)
      /\ q.draft.activation.after = Selected(q.text)
  BY DEF Begins
<1>2. PICK a : a = q.draft
  OBVIOUS
<1>3. PICK p : p = store[a.supersedes]
  OBVIOUS
<1>4. HasDraft(q)
  BY <1>1 DEF HasDraft
<1>5. Legal(store, a)
  BY <1>2, <1>4, BeginsDraft
<1>6. ~Superseded(a.supersedes) /\ a.supersedes \in DOMAIN store /\ a.supersedes \in Nat \ {0}
      /\ p \in Artifact
  BY <1>1, <1>2, <1>3, StoredRevision DEF Addressable
<1>7. a \in Artifact /\ Grows(store, a, Append(store, a))
  BY <1>5, <1>6, GrowsStore
<1>8. store \in Seq(Artifact) /\ Nested(store) /\ config \in Config
  BY DEF IInv, StateOK, NestInv
<1>9. /\ p.activation = None /\ ~a.activation.restored /\ a.activation \in ActivationRecord
      /\ a.scope = p.scope
  BY <1>1, <1>2, <1>3, <1>6 DEF ActivatedFrom, OnlyActivationOf, Artifact
<1>10. a.supersedes \notin Open(store)
  BY <1>3, <1>9 DEF Open, Active
<1>11. /\ a.activation.before.bindings = config.bindings
       /\ a.activation.after.bindings = q.text.bindings
  BY <1>1, <1>2 DEF Selected
<1>12. a.scope \in Scope /\ a.scope.mode \in Modes
  BY <1>7, ScopeAssumption DEF Artifact
<1>13. PICK longer : longer = Append(store, a)
  OBVIOUS
<1>14. PICK text : text = q.text
  OBVIOUS
<1>15. PICK history : history = store
  OBVIOUS
<1>16. PICK raw : raw = config
  OBVIOUS
<1>17. CASE a.scope.mode = "reference"
  <2>1. text.bindings = a.supersedes
    BY <1>1, <1>2, <1>8, <1>14, <1>17 DEF Switched, Config
  <2>2. IsOpen(a)
    BY <1>9, <1>17, NoneAssumption DEF IsOpen, Active
  <2>3. Grows(history, a, longer) /\ Nested(history) /\ Innermost(history, raw)
        /\ history \in Seq(Artifact) /\ a.supersedes \notin Open(history)
    BY <1>7, <1>8, <1>10, <1>13, <1>15, <1>16
  <2>4. /\ a.activation.before.bindings = raw.bindings
        /\ a.activation.after.bindings = a.supersedes
    BY <1>11, <1>14, <1>16, <2>1
  <2>5. Nested(longer) /\ Innermost(longer, text)
    BY <1>6, <1>7, <2>1, <2>2, <2>3, <2>4, NestOpened
  <2> QED BY <1>2, <1>13, <1>14, <2>5
<1>18. CASE a.scope.mode = "actual-frontend"
  <2>1. text.bindings = raw.bindings
    BY <1>1, <1>2, <1>8, <1>14, <1>16, <1>18 DEF Switched, Config
  <2>2. ~IsOpen(a)
    BY <1>18 DEF IsOpen
  <2>3. Grows(history, a, longer) /\ Nested(history) /\ Innermost(history, raw)
        /\ history \in Seq(Artifact) /\ a.supersedes \notin Open(history)
    BY <1>7, <1>8, <1>10, <1>13, <1>15, <1>16
  <2>4. Nested(longer) /\ Innermost(longer, raw)
    BY <1>7, <2>2, <2>3, NestAside
  <2>5. Innermost(longer, text)
    BY <2>1, <2>4, InnermostSame
  <2> QED BY <1>2, <1>13, <1>14, <2>4, <2>5
<1> QED BY <1>12, <1>17, <1>18 DEF Modes

(* What a restoration about to be written will have closed.                *)
LEMMA ClosesNext ==
    ASSUME IInv, LineInv, NestInv, ~StaleRequests, NEW q, Begins(q), q.op = "restore",
           Innermost(store, config)
    PROVE  /\ Nested(Append(store, q.draft))
           /\ Innermost(Append(store, q.draft), q.text)
<1>1. /\ q.step = "write" /\ q.draft.supersedes \in Addressable
      /\ RestoredFrom(store[q.draft.supersedes], q.draft)
      /\ q.text = SwitchedBack(config, q.draft.scope, q.draft.activation.before)
      /\ Selected(config) = q.draft.activation.after
      /\ Selected(q.text) = q.draft.activation.before
  BY DEF Begins
<1>2. PICK a : a = q.draft
  OBVIOUS
<1>3. PICK p : p = store[a.supersedes]
  OBVIOUS
<1>4. HasDraft(q)
  BY <1>1 DEF HasDraft
<1>5. Legal(store, a)
  BY <1>2, <1>4, BeginsDraft
<1>6. ~Superseded(a.supersedes) /\ a.supersedes \in DOMAIN store /\ p \in Artifact
  BY <1>1, <1>2, <1>3, StoredRevision DEF Addressable
<1>7. a \in Artifact /\ Grows(store, a, Append(store, a))
  BY <1>5, <1>6, GrowsStore
<1>8. store \in Seq(Artifact) /\ Nested(store) /\ config \in Config
  BY DEF IInv, StateOK, NestInv
<1>9. Active(p) /\ p.activation \in ActivationRecord
      /\ a.activation = [p.activation EXCEPT !.restored = TRUE] /\ a.scope = p.scope
  BY <1>1, <1>2, <1>3, <1>6 DEF RestoredFrom, OnlyActivationOf, Artifact, Active
<1>10. /\ a.activation.restored
       /\ a.activation.before = p.activation.before
       /\ a.activation.after = p.activation.after
  BY <1>9 DEF ActivationRecord
<1>11. ~IsOpen(a)
  BY <1>10 DEF IsOpen, Active
<1>12. a.scope \in Scope /\ a.scope.mode \in Modes
  BY <1>7, ScopeAssumption DEF Artifact
<1>13. PICK longer : longer = Append(store, a)
  OBVIOUS
<1>14. PICK text : text = q.text
  OBVIOUS
<1>15. PICK history : history = store
  OBVIOUS
<1>16. PICK raw : raw = config
  OBVIOUS
<1>17. CASE a.scope.mode = "reference"
  <2>1. a.supersedes \in Open(history)
    BY <1>3, <1>6, <1>9, <1>15, <1>17 DEF Open, Superseded
  <2>2. raw.bindings = Left(history, a.supersedes)
    BY <1>1, <1>2, <1>3, <1>10, <1>15, <1>16 DEF Left, Selected
  <2>3. text.bindings = Found(history, a.supersedes)
    BY <1>1, <1>2, <1>3, <1>10, <1>14, <1>15 DEF Found, Selected
  <2>4. Grows(history, a, longer) /\ Nested(history) /\ Innermost(history, raw)
        /\ history \in Seq(Artifact)
    BY <1>7, <1>8, <1>13, <1>15, <1>16
  <2>5. Nested(longer) /\ Innermost(longer, text)
    BY <1>7, <1>11, <2>1, <2>2, <2>3, <2>4, NestClosed
  <2> QED BY <1>2, <1>13, <1>14, <2>5
<1>18. CASE a.scope.mode = "actual-frontend"
  <2>1. text.bindings = raw.bindings
    BY <1>1, <1>2, <1>8, <1>14, <1>16, <1>18 DEF SwitchedBack, Config
  <2>2. a.supersedes \notin Open(history)
    BY <1>3, <1>9, <1>15, <1>18 DEF Open
  <2>3. Grows(history, a, longer) /\ Nested(history) /\ Innermost(history, raw)
        /\ history \in Seq(Artifact)
    BY <1>7, <1>8, <1>13, <1>15, <1>16
  <2>4. Nested(longer) /\ Innermost(longer, raw)
    BY <1>7, <1>11, <2>2, <2>3, NestAside
  <2>5. Innermost(longer, text)
    BY <2>1, <2>4, InnermostSame
  <2> QED BY <1>2, <1>13, <1>14, <2>4, <2>5
<1> QED BY <1>12, <1>17, <1>18 DEF Modes

(* What a revision without a switch leaves alone.                          *)
LEMMA KeepsNext ==
    ASSUME IInv, LineInv, NestInv, NEW a, Legal(store, a),
           \/ \E s \in Scope : a = Root(s)
           \/ /\ a.supersedes \in DOMAIN store /\ ~Superseded(a.supersedes)
              /\ \/ ReviewedFrom(store[a.supersedes], a)
                 \/ GovernedFrom(store[a.supersedes], a)
                 \/ /\ a.activation = store[a.supersedes].activation
                    /\ a.scope = store[a.supersedes].scope
    PROVE  /\ Nested(Append(store, a))
           /\ Innermost(store, config) => Innermost(Append(store, a), config)
<1>1. PICK history : history = store
  OBVIOUS
<1>2. PICK raw : raw = config
  OBVIOUS
<1>3. PICK longer : longer = Append(store, a)
  OBVIOUS
<1>4. history \in Seq(Artifact) /\ Nested(history)
  BY <1>1 DEF IInv, StateOK, NestInv
<1>5. CASE \E s \in Scope : a = Root(s)
  <2>1. PICK s \in Scope : a = Root(s)
    BY <1>5
  <2>2. a.supersedes = 0 /\ a.activation = None
    BY <2>1 DEF Root
  <2>3. a \in Artifact /\ Grows(history, a, longer)
    BY <1>1, <1>3, <2>2, GrowsStore
  <2>4. ~IsOpen(a)
    BY <2>2 DEF IsOpen, Active
  <2>5. a.supersedes \notin Open(history)
    <3>1. 0 \notin DOMAIN history
      BY <1>4
    <3> QED BY <2>2, <3>1 DEF Open
  <2>6. Nested(longer) /\ (Innermost(history, raw) => Innermost(longer, raw))
    BY <1>4, <2>3, <2>4, <2>5, NestAside
  <2> QED BY <1>1, <1>2, <1>3, <2>6
<1>6. CASE /\ a.supersedes \in DOMAIN store /\ ~Superseded(a.supersedes)
           /\ \/ ReviewedFrom(store[a.supersedes], a)
              \/ GovernedFrom(store[a.supersedes], a)
              \/ /\ a.activation = store[a.supersedes].activation
                 /\ a.scope = store[a.supersedes].scope
  <2>1. PICK p : p = history[a.supersedes]
    OBVIOUS
  <2>2. a \in Artifact /\ Grows(history, a, longer) /\ a.supersedes \in DOMAIN history
    BY <1>1, <1>3, <1>6, GrowsStore
  <2>3. p \in Artifact
    BY <1>4, <2>1, <2>2
  <2>4. a.activation = p.activation /\ a.scope = p.scope
    BY <1>1, <1>6, <2>1, <2>3 DEF ReviewedFrom, GovernedFrom, OnlyAttemptsOf,
       OnlyGovernanceOf, Artifact
  <2>5. Nested(longer) /\ (Innermost(history, raw) => Innermost(longer, raw))
    BY <1>4, <2>1, <2>2, <2>4, NestKept
  <2> QED BY <1>1, <1>2, <1>3, <2>5
<1> QED BY <1>5, <1>6

(* Accepting a request.                                                    *)
LEMMA NestStart ==
    ASSUME OneHandler, ~StaleRequests, IInv, LineInv, NestInv, NEW c \in Client, Start(c)
    PROVE  NestInv'
<1>1. PICK q : Become(c, q) /\ Begins(q)
  BY StartBegins
<1>2. UNCHANGED <<config, catalog, captured, store>>
  BY StartBegins
<1>3. Innermost(store, config)
  <2>1. req[c].step = "idle"
    BY DEF Start, Create, Promote, CaptureNamed, Activate, Restore, StartCheck, Review,
       GovernBaseline, GovernReference, Accepts, At
  <2> QED BY <2>1, Settled DEF Ahead
<1>4. PICK cfg : cfg = config
  OBVIOUS
<1>5. Nests(q, cfg) /\ ~Ahead(q)
  <2>1. CASE q.op = "activate"
    <3>1. q.step = "write" /\ q.raw = cfg
      BY <1>1, <1>4, <2>1 DEF Begins
    <3>2. Nested(Append(store, q.draft)) /\ Innermost(Append(store, q.draft), q.text)
      BY <1>1, <1>3, <2>1, OpensNext
    <3> QED BY <1>3, <1>4, <2>1, <3>1, <3>2 DEF Nests, Ahead
  <2>2. CASE q.op = "restore"
    <3>1. q.step = "write" /\ q.raw = cfg
      BY <1>1, <1>4, <2>2 DEF Begins
    <3>2. Nested(Append(store, q.draft)) /\ Innermost(Append(store, q.draft), q.text)
      BY <1>1, <1>3, <2>2, ClosesNext
    <3> QED BY <1>3, <1>4, <2>2, <3>1, <3>2 DEF Nests, Ahead
  <2>3. CASE q.op = "promote"
    <3>1. q.step = "write" /\ q.raw = cfg /\ q.text.bindings = cfg.bindings
      BY <1>1, <1>4, <2>3 DEF Begins
    <3>2. Innermost(store, cfg) /\ Innermost(store, q.text)
      BY <1>3, <1>4, <3>1 DEF Innermost
    <3>3. ~HasDraft(q)
      BY <2>3, <3>1 DEF HasDraft
    <3> QED BY <1>4, <2>3, <3>1, <3>2, <3>3 DEF Nests, Ahead
  <2>4. CASE q.op \in {"create", "review", "govern"}
    <3>1. q.step = "persist" /\ HasDraft(q)
      BY <1>1, <2>4 DEF Begins, HasDraft
    <3>2. Legal(store, q.draft)
      BY <1>1, <3>1, BeginsDraft
    <3>3. PICK a : a = q.draft
      OBVIOUS
    <3>4. \/ \E s \in Scope : a = Root(s)
          \/ /\ a.supersedes \in DOMAIN store /\ ~Superseded(a.supersedes)
             /\ \/ ReviewedFrom(store[a.supersedes], a)
                \/ GovernedFrom(store[a.supersedes], a)
                \/ /\ a.activation = store[a.supersedes].activation
                   /\ a.scope = store[a.supersedes].scope
      BY <1>1, <2>4, <3>3 DEF Begins, Addressable
    <3>5. Nested(Append(store, a)) /\ Innermost(Append(store, a), config)
      BY <1>3, <3>2, <3>3, <3>4, KeepsNext
    <3> QED BY <1>4, <2>4, <3>1, <3>3, <3>5 DEF Nests, Ahead
  <2>5. CASE q.op \in {"check", "capture"}
    <3>1. q.step \in {"check", "observe"}
      BY <1>1, <2>5 DEF Begins
    <3> QED BY <3>1 DEF Nests, Ahead, HasDraft
  <2>6. q.op \in {"create", "promote", "capture", "check", "review", "govern", "activate", "restore"}
    BY <1>1 DEF Begins
  <2> QED BY <2>1, <2>2, <2>3, <2>4, <2>5, <2>6
<1>6. cfg = config' /\ Innermost(store, cfg)
  BY <1>2, <1>3, <1>4
<1> QED BY <1>1, <1>2, <1>5, <1>6, NestStep

(* A request under way: the rollback puts back what was innermost before,  *)
(* and the persistence makes what was written the innermost.               *)
LEMMA NestProceed ==
    ASSUME OneHandler, "rollback" \notin Faults, IInv, LineInv, NestInv,
           NEW c \in Client, Proceed(c)
    PROVE  NestInv'
<1>1. req[c] \in Request /\ RequestOK(req[c]) /\ RequestInv(req[c]) /\ Nests(req[c], config)
  BY RequestInHand DEF NestInv
<1>2. PICK cfg : cfg = config'
  OBVIOUS
<1>3. CASE WriteConfig(c)
  <2>1. req[c].step = "write" /\ cfg = req[c].text /\ UNCHANGED store
    BY <1>2, <1>3 DEF WriteConfig, At
  <2>2. CASE req[c].op = "promote"
    <3>1. Innermost(store, cfg)
      BY <1>1, <2>1, <2>2 DEF Nests
    <3> QED BY <1>2, <1>3, <2>1, <2>2, <3>1, NestDone DEF WriteConfig
  <2>3. CASE req[c].op # "promote"
    <3> DEFINE q == [req[c] EXCEPT !.step = "persist"]
    <3>1. /\ q.step = "persist" /\ q.op = req[c].op /\ q.draft = req[c].draft
          /\ q.raw = req[c].raw /\ HasDraft(req[c]) /\ Become(c, q)
      BY <1>1, <1>3, <2>1, <2>3 DEF WriteConfig, Request, HasDraft, Goto
    <3> HIDE DEF q
    <3>2. q.op \in {"activate", "restore"}
      BY <1>1, <2>1, <2>3, <3>1 DEF Nests
    <3>3. /\ Nested(Append(store, q.draft)) /\ Innermost(Append(store, q.draft), cfg)
          /\ Innermost(store, q.raw)
      BY <1>1, <2>1, <2>3, <3>1 DEF Nests
    <3>4. Nests(q, cfg) /\ Ahead(q)
      BY <3>1, <3>2, <3>3 DEF Nests, Ahead
    <3> QED BY <1>2, <2>1, <3>1, <3>4, NestStep
  <2> QED BY <2>2, <2>3
<1>4. CASE PersistFails(c)
  <2>1. req[c].step = "persist" /\ cfg = config /\ UNCHANGED store
    BY <1>2, <1>4 DEF PersistFails, At
  <2>2. CASE req[c].op \notin {"activate", "restore"}
    <3>1. ~Ahead(req[c])
      BY <2>1, <2>2 DEF Ahead
    <3>2. Innermost(store, cfg)
      BY <2>1, <3>1, Settled
    <3> QED BY <1>2, <1>4, <2>1, <2>2, <3>2, NestDone DEF PersistFails
  <2>3. CASE req[c].op \in {"activate", "restore"}
    <3> DEFINE q == [req[c] EXCEPT !.step = "rollback"]
    <3>1. /\ q.step = "rollback" /\ q.draft = req[c].draft /\ q.raw = req[c].raw
          /\ HasDraft(req[c]) /\ Ahead(req[c]) /\ Become(c, q)
      BY <1>1, <1>4, <2>1, <2>3 DEF PersistFails, Request, HasDraft, Goto, Ahead
    <3> HIDE DEF q
    <3>2. Nested(Append(store, q.draft)) /\ Innermost(store, q.raw)
      BY <1>1, <3>1 DEF Nests
    <3>3. Nests(q, cfg) /\ Ahead(q)
      BY <3>1, <3>2 DEF Nests, Ahead
    <3> QED BY <1>2, <2>1, <3>1, <3>3, NestStep
  <2> QED BY <2>2, <2>3
<1>5. CASE Rollback(c)
  <2>1. req[c].step = "rollback" /\ cfg = req[c].raw /\ UNCHANGED store /\ Done(c)
    BY <1>2, <1>5 DEF Rollback, At
  <2>2. Innermost(store, cfg)
    BY <1>1, <2>1 DEF Nests, Ahead
  <2> QED BY <1>2, <2>1, <2>2, NestDone
<1>6. CASE Persist(c)
  <2>1. /\ req[c].step = "persist" /\ cfg = config /\ store' = Append(store, req[c].draft)
        /\ Done(c)
    BY <1>2, <1>6 DEF Persist, At
  <2>2. PICK longer : longer = Append(store, req[c].draft)
    OBVIOUS
  <2>3. Nested(longer) /\ Innermost(longer, cfg)
    BY <1>1, <2>1, <2>2 DEF Nests, HasDraft
  <2>4. store' = longer /\ config' = cfg
    BY <1>2, <2>1, <2>2
  <2>5. Nested(store)'
    BY <2>3, <2>4 DEF Nested, Open, Found, Left, Active
  <2>6. Innermost(store, config)'
    BY <2>3, <2>4 DEF Innermost, Open, Found, Left, Active
  <2>7. \A d \in Client : req'[d] = NoRequest
    BY <2>1 DEF OneHandler, Done, Become, IInv, StateOK
  <2>8. NoRequest.step = "idle" /\ ~HasDraft(NoRequest)
    BY DEF NoRequest, HasDraft
  <2>9. \A d \in Client : Nests(req[d], config)'
    BY <2>7, <2>8 DEF Nests, Ahead
  <2> QED BY <2>5, <2>6, <2>9 DEF NestInv
<1>7. CASE RecordAttempt(c)
  <2>1. /\ req[c].step = "evaluate" /\ req[c].op = "check" /\ cfg = config
        /\ UNCHANGED store
    BY <1>1, <1>2, <1>7 DEF RecordAttempt, At, RequestOK
  <2>2. Innermost(store, config)
    BY <2>1, Settled DEF Ahead
  <2>3. PICK source : source = store[req[c].source]
    OBVIOUS
  <2>4. /\ source \in Artifact /\ req[c].source \in DOMAIN store /\ ~Superseded(req[c].source)
    BY <1>1, <2>1, <2>3 DEF RequestInv, LineInv, ExtendsNewest, IInv, StateOK
  <2> DEFINE Grown(new) == [source EXCEPT !.supersedes = req[c].source,
                                          !.attempts = Append(@, new)]
  <2>5. PICK new : Become(c, [req[c] EXCEPT !.step = "persist", !.draft = Grown(new)])
    BY <1>7, <2>3 DEF RecordAttempt
  <2>6. PICK draft : draft = Grown(new)
    OBVIOUS
  <2>7. /\ draft.supersedes = req[c].source /\ draft.activation = source.activation
        /\ draft.scope = source.scope
    BY <2>4, <2>6 DEF Artifact
  <2> HIDE DEF Grown
  <2> DEFINE q == [req[c] EXCEPT !.step = "persist", !.draft = draft]
  <2>8. q.step = "persist" /\ q.op = "check" /\ q.draft = draft /\ HasDraft(q)
    BY <1>1, <2>1 DEF Request, HasDraft
  <2>9. Become(c, q)
    BY <2>5, <2>6
  <2> HIDE DEF q
  <2>10. Legal(store, draft)
    <3>1. IInv'
      BY <1>7, RecordAttemptStep
    <3>2. req'[c] = q
      BY <2>9 DEF Become, IInv, StateOK
    <3>3. PICK history : history = store
      OBVIOUS
    <3>4. store' = history
      BY <2>1, <3>3
    <3>5. Legal(history, draft)
      BY <2>8, <3>1, <3>2, <3>4 DEF IInv, RequestInv, HasDraft
    <3> QED BY <3>3, <3>5
  <2>11. Nested(Append(store, draft)) /\ Innermost(Append(store, draft), config)
    BY <2>2, <2>3, <2>4, <2>7, <2>10, KeepsNext
  <2>12. Nests(q, cfg)
    BY <2>1, <2>8, <2>11 DEF Nests, Ahead
  <2>13. Innermost(store, cfg)
    BY <2>1, <2>2
  <2> QED BY <1>2, <2>1, <2>9, <2>12, <2>13, NestStep
<1>8. CASE CheckProject(c) \/ CaptureCurrent(c)
  <2>1. PICK q : Become(c, q) /\ q.step \in {"capture", "observe"}
    <3>1. CASE CheckProject(c)
      <4> DEFINE q == [req[c] EXCEPT !.step = "capture", !.raw = config,
                                     !.baseline = catalog[req[c].alias]]
      <4>1. q.step = "capture" /\ Become(c, q)
        BY <1>1, <3>1 DEF CheckProject, Request
      <4> QED BY <4>1
    <3>2. CASE CaptureCurrent(c)
      <4> DEFINE q == [req[c] EXCEPT !.step = "observe", !.view = catalog]
      <4>1. q.step = "observe" /\ Become(c, q)
        BY <1>1, <3>2 DEF CaptureCurrent, Request
      <4> QED BY <4>1
    <3> QED BY <1>8, <3>1, <3>2
  <2>2. cfg = config /\ UNCHANGED store /\ req[c].step \in {"check", "capture"}
    BY <1>2, <1>8 DEF CheckProject, CaptureCurrent, At
  <2>3. Innermost(store, cfg)
    BY <2>2, Settled DEF Ahead
  <2>4. Nests(q, cfg)
    BY <2>1 DEF Nests, HasDraft, Ahead
  <2> QED BY <1>2, <2>1, <2>2, <2>3, <2>4, NestStep
<1>9. CASE FinishCapture(c)
  <2>1. cfg = config /\ UNCHANGED store /\ req[c].step = "observe"
    BY <1>2, <1>9 DEF FinishCapture, At
  <2>2. Innermost(store, cfg)
    BY <2>1, Settled DEF Ahead
  <2>3. CASE req[c].op = "capture"
    BY <1>2, <1>9, <2>1, <2>2, <2>3, NestDone DEF FinishCapture
  <2>4. CASE req[c].op # "capture"
    <3> DEFINE q == [req[c] EXCEPT !.step = "evaluate", !.candidate = captured + 1]
    <3>1. q.step = "evaluate" /\ Become(c, q)
      BY <1>1, <1>9, <2>4 DEF FinishCapture, Request
    <3> HIDE DEF q
    <3>2. Nests(q, cfg)
      BY <3>1 DEF Nests, HasDraft, Ahead
    <3> QED BY <1>2, <2>1, <2>2, <3>1, <3>2, NestStep
  <2> QED BY <2>3, <2>4
<1>10. CASE \/ WriteConfigFails(c) \/ CheckBlocked(c) \/ ObserveFails(c)
            \/ CatalogWriteFails(c) \/ RefuseAttempt(c)
  <2>1. /\ Done(c) /\ cfg = config /\ UNCHANGED store
        /\ req[c].step \in {"write", "check", "observe", "evaluate"}
    BY <1>2, <1>10 DEF WriteConfigFails, CheckBlocked, ObserveFails, CatalogWriteFails,
       RefuseAttempt, At
  <2>2. Innermost(store, cfg)
    BY <2>1, Settled DEF Ahead
  <2> QED BY <1>2, <2>1, <2>2, NestDone
<1> QED BY <1>3, <1>4, <1>5, <1>6, <1>7, <1>8, <1>9, <1>10 DEF Proceed, RollbackFails

(* A hand edit keeps the bindings file or names one no workflow owns.      *)
LEMMA NestEdit ==
    ASSUME IInv, NestInv, EditConfig
    PROVE  NestInv'
<1>1. UNCHANGED <<store, req>>
  BY DEF EditConfig
<1>2. PICK cfg : cfg = config'
  OBVIOUS
<1>3. cfg.bindings \in Nat => cfg.bindings = config.bindings
  BY <1>2, NoneAssumption DEF EditConfig
<1>4. \A history : Innermost(history, config) => Innermost(history, cfg)
  BY <1>3 DEF Innermost
<1>5. \A c \in Client : Nests(req[c], cfg)
  BY <1>4 DEF NestInv, Nests
<1>6. (\A c \in Client : ~Ahead(req[c])) => Innermost(store, cfg)
  BY <1>4 DEF NestInv
<1>7. PICK history : history = store
  OBVIOUS
<1>8. store' = history /\ config' = cfg /\ req' = req
  BY <1>1, <1>2, <1>7
<1>9. Nested(store)'
  BY <1>1 DEF NestInv, Nested, Open, Found, Left, Active
<1>10. ((\A c \in Client : ~Ahead(req[c])) => Innermost(store, config))'
  BY <1>6, <1>7, <1>8 DEF Ahead, Innermost, Open, Found, Left, Active
<1>11. \A c \in Client : Nests(req[c], config)'
  <2>1. ASSUME NEW c \in Client PROVE Nests(req[c], config)'
    <3>1. PICK q : q = req[c]
      OBVIOUS
    <3>2. req'[c] = q
      BY <1>8, <3>1
    <3>3. /\ HasDraft(q) => Nested(Append(history, q.draft))
          /\ q.step = "write" =>
                /\ q.op \in {"activate", "restore", "promote"}
                /\ Innermost(IF q.op = "promote" THEN history ELSE Append(history, q.draft), q.text)
          /\ q.step = "write" \/ Ahead(q) => Innermost(history, q.raw)
          /\ q.step = "persist" => Innermost(Append(history, q.draft), cfg)
      BY <1>5, <1>7, <3>1 DEF Nests
    <3> QED BY <1>8, <3>2, <3>3 DEF Nests
  <2> QED BY <2>1
<1> QED BY <1>9, <1>10, <1>11 DEF NestInv

(* The whole step.                                                         *)
LEMMA NestNext ==
    ASSUME OneHandler, ~StaleRequests, "rollback" \notin Faults, "crash" \notin Faults,
           IInv, LineInv, NestInv, [Next]_vars
    PROVE  NestInv'
<1>1. CASE UNCHANGED vars
  <2>1. PICK history : history = store
    OBVIOUS
  <2>2. PICK cfg : cfg = config
    OBVIOUS
  <2>3. store' = history /\ config' = cfg /\ req' = req
    BY <1>1, <2>1, <2>2 DEF vars
  <2>4. Nested(store)'
    BY <1>1 DEF vars, NestInv, Nested, Open, Found, Left, Active
  <2>5. ((\A c \in Client : ~Ahead(req[c])) => Innermost(store, config))'
    BY <1>1 DEF vars, NestInv, Ahead, Innermost, Open, Found, Left, Active
  <2>6. \A c \in Client : Nests(req[c], config)'
    <3>1. ASSUME NEW c \in Client PROVE Nests(req[c], config)'
      <4>1. PICK q : q = req[c]
        OBVIOUS
      <4>2. Nests(q, cfg) /\ req'[c] = q
        BY <2>2, <2>3, <4>1 DEF NestInv
      <4>3. /\ HasDraft(q) => Nested(Append(history, q.draft))
            /\ q.step = "write" =>
                  /\ q.op \in {"activate", "restore", "promote"}
                  /\ Innermost(IF q.op = "promote" THEN history ELSE Append(history, q.draft), q.text)
            /\ q.step = "write" \/ Ahead(q) => Innermost(history, q.raw)
            /\ q.step = "persist" => Innermost(Append(history, q.draft), cfg)
        BY <2>1, <4>2 DEF Nests
      <4> QED BY <2>3, <4>2, <4>3 DEF Nests
    <3> QED BY <3>1
  <2> QED BY <2>4, <2>5, <2>6 DEF NestInv
<1>2. CASE EditConfig
  BY <1>2, NestEdit
<1>3. ASSUME NEW c \in Client, Start(c) \/ Proceed(c) PROVE NestInv'
  BY <1>3, NestStart, NestProceed
<1>4. ASSUME NEW c \in Client, Crash(c) PROVE NestInv'
  BY <1>4 DEF Crash
<1> QED BY <1>1, <1>2, <1>3, <1>4 DEF Next

(* With one handler that always names the newest revision, and rollbacks   *)
(* that do not fail in their turn, a workflow-owned bindings file is only  *)
(* selected while an activation that is neither restored nor superseded    *)
(* says so: whatever writes, checks and captures fail in between, and      *)
(* however the project's owner edits the configuration.                    *)
THEOREM NoOrphan ==
    ASSUME OneHandler, ~StaleRequests, "rollback" \notin Faults, "crash" \notin Faults
    PROVE  Spec => []NoOrphanActivation
<1>1. Init => NestInv
  <2> SUFFICES ASSUME Init PROVE NestInv
    OBVIOUS
  <2>1. NoRequest.step = "idle" /\ ~HasDraft(NoRequest)
    BY DEF NoRequest, HasDraft
  <2>2. \A c \in Client : Nests(req[c], config)
    BY <2>1 DEF Init, Nests, Ahead
  <2>3. Nested(store)
    BY DEF Init, Nested, Open
  <2>4. Innermost(store, config)
    BY NoneAssumption DEF Init, Innermost
  <2> QED BY <2>2, <2>3, <2>4 DEF NestInv
<1>2. Init => LineInv
  <2>1. ASSUME Init PROVE \A c \in Client : ExtendsNewest(req[c])
    BY <2>1 DEF Init, ExtendsNewest, NoRequest, HasDraft
  <2> QED BY <2>1 DEF Init, LineInv, FinalDecisionStands
<1>3. IInv /\ LineInv /\ [Next]_vars => LineInv'
  BY LineNext
<1>4. IInv /\ LineInv /\ NestInv /\ [Next]_vars => NestInv'
  BY NestNext
<1>5. NestInv => NoOrphanActivation
  <2> SUFFICES ASSUME NestInv, InFlight = {}, config.bindings \in Nat
               PROVE  \E r \in DOMAIN store : /\ Active(store[r])
                                              /\ ~Superseded(r)
                                              /\ store[r].activation.after.bindings = config.bindings
    BY DEF NoOrphanActivation
  <2>1. \A c \in Client : ~Ahead(req[c])
    BY DEF InFlight, At, Ahead
  <2>2. PICK r \in Open(store) : Left(store, r) = config.bindings
    BY <2>1 DEF NestInv, Innermost
  <2> QED BY <2>2 DEF Open, Left, Superseded
<1> QED BY <1>1, <1>2, <1>3, <1>4, <1>5, Invariance, PTL DEF Spec
=============================================================================
