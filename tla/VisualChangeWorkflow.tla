------------------------ MODULE VisualChangeWorkflow ------------------------
(***************************************************************************)
(* The project-aware visual-change workflow: requests that read the        *)
(* mutable project state (frontend-observer.json and the alias catalog)    *)
(* and the immutable workflow revisions, and write them back several       *)
(* awaits later.                                                           *)
(*                                                                         *)
(*   src/application/visualChangeProjectWorkflowService.ts                 *)
(*   src/application/visualChangeReviewService.ts                          *)
(*   src/application/projectCheckService.ts                                *)
(*   src/application/projectWorkflowService.ts                             *)
(*                                                                         *)
(* A client is one in-flight request handler.  Each of its actions is the  *)
(* code between two awaits whose interleaving can matter; reads of         *)
(* immutable artifacts are merged into the step that uses them.  A request *)
(* the code refuses changes nothing and is not an action.  Identities,     *)
(* paths and texts are abstracted to the artifacts they name.              *)
(***************************************************************************)
EXTENDS VisualChangeArtifact, FiniteSets

CONSTANTS
    Client,           \* concurrent request handlers
    Alias,            \* observation aliases
    DefaultBaseline,  \* config.defaultBaseline
    Current,          \* the reserved alias every check re-points
    Ops,              \* the operations the clients of a run may request
    Faults,           \* the failures a run injects
    Verdicts,         \* the check results a run explores
    StaleRequests,    \* may a request name a superseded revision?
    MaxRevisions,     \* bound: revisions in the store
    MaxWorkflows,     \* bound: workflows among them
    MaxCaptures,      \* bound: observations captured after the first
    MaxEdits          \* bound: edits of the configuration by hand

HandEdits == {"edit-contract", "edit-reference"}
AllOps == {"create", "activate", "restore", "check", "review", "govern",
           "promote", "capture"} \cup HandEdits
AllFaults == {"config-write", "persist", "rollback", "observe", "catalog-write", "crash"}

ASSUME BoundsAssumption ==
    /\ DefaultBaseline \in Alias /\ Current \in Alias /\ DefaultBaseline # Current
    /\ Ops \subseteq AllOps /\ Faults \subseteq AllFaults
    /\ Verdicts \subseteq Status /\ StaleRequests \in BOOLEAN
    /\ MaxRevisions \in Nat /\ MaxWorkflows \in Nat /\ MaxCaptures \in Nat /\ MaxEdits \in Nat

VARIABLES
    config,    \* frontend-observer.json on disk
    catalog,   \* the alias catalog on disk
    captured,  \* number of the newest persisted observation
    store,     \* the persisted workflow revisions, oldest first
    req,       \* per client: the request being handled
    edits      \* number of edits of the configuration by hand so far

vars == <<config, catalog, captured, store, req, edits>>

-----------------------------------------------------------------------------
(* The local state of a handler.                                           *)

Steps == {"idle", "write", "persist", "rollback", "check", "capture", "observe", "evaluate"}

Catalog == [Alias -> Nat \cup {None}]

Request == [step: Steps, op: AllOps \cup {None},
            source: Nat,                   \* the revision the request read
            raw: Config \cup {None},       \* configuration read at that time
            text: Config \cup {None},      \* configuration about to be written
            draft: Artifact \cup {None},   \* revision about to be persisted
            alias: Alias \cup {None},      \* check: baseline; capture: target
            view: Catalog \cup {None},     \* catalog read before observing
            baseline: Nat \cup {None},     \* observation the alias resolved to
            candidate: Nat \cup {None}]

NoRequest == [step |-> "idle", op |-> None, source |-> 0, raw |-> None, text |-> None,
              draft |-> None, alias |-> None, view |-> None,
              baseline |-> None, candidate |-> None]

At(c, step) == req[c].step = step
Become(c, q) == req' = [req EXCEPT ![c] = q]
Goto(c, step) == Become(c, [req[c] EXCEPT !.step = step])
Done(c) == Become(c, NoRequest)

InFlight == {c \in Client : ~At(c, "idle")}

\* A request may start: its client is free and the store will not outgrow
\* its bound even if every request in flight persists a revision.
Accepts(c, op) == /\ op \in Ops
                  /\ At(c, "idle")
                  /\ Len(store) + Cardinality(InFlight) < MaxRevisions

CanCreate == Cardinality({r \in DOMAIN store : store[r].supersedes = 0})
                 + Cardinality({c \in Client : req[c].op = "create"}) < MaxWorkflows

CanCapture == captured + Cardinality(InFlight) < MaxCaptures

Superseded(r) == \E s \in DOMAIN store : store[s].supersedes = r
Addressable == {r \in DOMAIN store : StaleRequests \/ ~Superseded(r)}

-----------------------------------------------------------------------------
Init ==
    /\ config \in {c \in [baseline: Baseline \cup {None}, change: Contract \cup {None},
                          reference: Reference \cup {None},
                          bindings: {None, ProjectBindings}] : ValidConfig(c)}
    /\ catalog \in [Alias -> {0, None}]
    /\ captured = 0
    /\ store = << >>
    /\ req = [c \in Client |-> NoRequest]
    /\ edits = 0

-----------------------------------------------------------------------------
(* Requests that switch the acceptance selection.                          *)

\* updatedConfig without `restore`
Switched(cfg, s, r) ==
    IF s.mode = "actual-frontend"
    THEN [cfg EXCEPT !.change = s.target]
    ELSE [cfg EXCEPT !.reference = s.target, !.bindings = r]

\* Mutant: the workflow's bindings file stays selected.
SwitchedBackKeepsBindings(cfg, s, before) ==
    IF s.mode = "actual-frontend"
    THEN [cfg EXCEPT !.change = before.change]
    ELSE [cfg EXCEPT !.reference = before.reference]

\* updatedConfig with `restore`
SwitchedBack(cfg, s, before) ==
    IF s.mode = "actual-frontend"
    THEN [cfg EXCEPT !.change = before.change]
    ELSE [cfg EXCEPT !.reference = before.reference, !.bindings = before.bindings]

\* What the project must have configured for a scope to be activated.
ActivationAllowed(cfg, s) ==
    IF s.mode = "actual-frontend"
    THEN cfg.change # None /\ s.baselineContract # None /\ cfg.baseline = s.baselineContract
    ELSE cfg.reference # None /\ s.target \in Approved /\ cfg.baseline = s.baselineContract

Create(c, s) ==
    /\ Accepts(c, "create")
    /\ CanCreate
    /\ Become(c, [NoRequest EXCEPT !.step = "persist", !.op = "create", !.draft = Root(s)])
    /\ UNCHANGED <<config, catalog, captured, store>>

Activate(c, r) ==
    LET source == store[r]
        text == Switched(config, source.scope, r)
    IN /\ Accepts(c, "activate")
       /\ source.activation = None
       /\ ActivationAllowed(config, source.scope)
       /\ Become(c, [NoRequest EXCEPT
              !.step = "write", !.op = "activate", !.source = r, !.raw = config, !.text = text,
              !.draft = [source EXCEPT !.supersedes = r,
                           !.activation = [before |-> Selected(config),
                                           after |-> Selected(text), restored |-> FALSE]]])
       /\ UNCHANGED <<config, catalog, captured, store>>

Restore(c, r) ==
    LET source == store[r]
    IN /\ Accepts(c, "restore")
       /\ Active(source)
       /\ Selected(config) = source.activation.after
       /\ Become(c, [NoRequest EXCEPT
              !.step = "write", !.op = "restore", !.source = r, !.raw = config,
              !.text = SwitchedBack(config, source.scope, source.activation.before),
              !.draft = [source EXCEPT !.supersedes = r, !.activation.restored = TRUE]])
       /\ UNCHANGED <<config, catalog, captured, store>>

\* activateProjectChangeContract: point acceptance at a promoted contract.
Promote(c, contract) ==
    /\ Accepts(c, "promote")
    /\ config.change # None
    /\ Become(c, [NoRequest EXCEPT !.step = "write", !.op = "promote", !.raw = config,
                                   !.text = [config EXCEPT !.change = contract]])
    /\ UNCHANGED <<config, catalog, captured, store>>

\* Mutant: the unmodified configuration is serialized.
WriteConfigUnchanged(c) ==
    /\ At(c, "write")
    /\ config' = req[c].raw
    /\ IF req[c].op = "promote" THEN Done(c) ELSE Goto(c, "persist")
    /\ UNCHANGED <<catalog, captured, store>>

WriteConfig(c) ==
    /\ At(c, "write")
    /\ config' = req[c].text
    /\ IF req[c].op = "promote" THEN Done(c) ELSE Goto(c, "persist")
    /\ UNCHANGED <<catalog, captured, store>>

WriteConfigFails(c) ==
    /\ "config-write" \in Faults
    /\ At(c, "write")
    /\ Done(c)
    /\ UNCHANGED <<config, catalog, captured, store>>

Persist(c) ==
    /\ At(c, "persist")
    /\ store' = Append(store, req[c].draft)
    /\ Done(c)
    /\ UNCHANGED <<config, catalog, captured>>

\* Mutant: no compensation.
PersistFailsQuietly(c) ==
    /\ "persist" \in Faults
    /\ At(c, "persist")
    /\ Done(c)
    /\ UNCHANGED <<config, catalog, captured, store>>

\* Only activation and restoration have a configuration write to undo.
PersistFails(c) ==
    /\ "persist" \in Faults
    /\ At(c, "persist")
    /\ IF req[c].op \in {"activate", "restore"} THEN Goto(c, "rollback") ELSE Done(c)
    /\ UNCHANGED <<config, catalog, captured, store>>

\* The compensation writes back the whole text read at the start.
Rollback(c) ==
    /\ At(c, "rollback")
    /\ config' = req[c].raw
    /\ Done(c)
    /\ UNCHANGED <<catalog, captured, store>>

\* The 'partial-state-failure' answer.
RollbackFails(c) ==
    /\ "rollback" \in Faults
    /\ At(c, "rollback")
    /\ Done(c)
    /\ UNCHANGED <<config, catalog, captured, store>>

\* The project's owner edits the acceptance selection in an editor.
EditConfig ==
    /\ Ops \cap HandEdits # {}
    /\ edits < MaxEdits
    /\ edits' = edits + 1
    /\ config' \in {cfg \in [baseline: Baseline \cup {None}, change: Contract \cup {None},
                             reference: Reference \cup {None},
                             bindings: {None, ProjectBindings, config.bindings}] : ValidConfig(cfg)}
    /\ "edit-contract" \notin Ops =>
          config'.baseline = config.baseline /\ config'.change = config.change
    /\ "edit-reference" \notin Ops =>
          config'.reference = config.reference /\ config'.bindings = config.bindings
    /\ UNCHANGED <<catalog, captured, store, req>>

-----------------------------------------------------------------------------
(* Requests that judge or annotate a recorded attempt.                     *)

\* exactBaselineAlias: the default baseline when it matches, else another one.
ExactAliases(s) == {a \in Alias : catalog[a] = s.observation}
BaselineAlias(s) == IF DefaultBaseline \in ExactAliases(s) THEN {DefaultBaseline}
                    ELSE ExactAliases(s)

\* Mutant: readiness does not compare the selection with the activation.
ReadyIgnoresDrift(a) ==
    /\ Active(a)
    /\ ExactAliases(a.scope) # {}
    /\ a.scope.baselineContract # None => config.baseline = a.scope.baselineContract

\* prepareActiveVisualChangeWorkflow: the one readiness test shared by check,
\* review and handoff.
Ready(a) ==
    /\ Active(a)
    /\ Selected(config) = a.activation.after
    /\ ExactAliases(a.scope) # {}
    /\ a.scope.baselineContract # None => config.baseline = a.scope.baselineContract
    /\ a.scope.mode = "actual-frontend" => config.change = a.scope.target
    /\ a.scope.mode = "reference" => config.reference = a.scope.target

\* Mutant: the latest attempt may be accepted whatever it found.
AcceptableAsItIs(a) == LatestAttempt(a).status \in Status

\* Only the latest canonical PASS may be accepted.
Acceptable(a) == LatestAttempt(a).status = "PASS"

\* Mutant: an accepted workflow can still be abandoned.
DecisionsAfterAcceptance(a) ==
    CASE Cycle(a) = "review-required" -> {"correction-requested", "accepted", "abandoned"}
      [] Cycle(a) \in {"correction-requested", "accepted"} -> {"abandoned"}
      [] OTHER -> {}

Decisions(a) == CASE Cycle(a) = "review-required" -> {"correction-requested", "accepted", "abandoned"}
                  [] Cycle(a) = "correction-requested" -> {"abandoned"}
                  [] OTHER -> {}

Review(c, r, decision) ==
    LET source == store[r]
    IN /\ Accepts(c, "review")
       /\ decision \in Decisions(source)
       /\ decision = "accepted" => Acceptable(source)
       /\ decision # "abandoned" => Ready(source)
       /\ Become(c, [NoRequest EXCEPT
              !.step = "persist", !.op = "review", !.source = r,
              !.draft = [source EXCEPT !.supersedes = r,
                           !.attempts[Len(source.attempts)].review = decision]])
       /\ UNCHANGED <<config, catalog, captured, store>>

\* A baseline approval must come from the accepted candidate itself.
GovernBaseline(c, r, origin) ==
    LET source == store[r]
    IN /\ Accepts(c, "govern")
       /\ Cycle(source) = "accepted"
       /\ source.governance.baseline = None
       /\ origin = LatestAttempt(source).candidate
       /\ Become(c, [NoRequest EXCEPT
              !.step = "persist", !.op = "govern", !.source = r,
              !.draft = [source EXCEPT !.supersedes = r, !.governance.baseline = origin]])
       /\ UNCHANGED <<config, catalog, captured, store>>

\* The approved successor of the frozen reference is an input that names it.
GovernReference(c, r) ==
    LET source == store[r]
    IN /\ Accepts(c, "govern")
       /\ Cycle(source) = "accepted"
       /\ source.scope.mode = "reference"
       /\ ~source.governance.reference
       /\ Become(c, [NoRequest EXCEPT
              !.step = "persist", !.op = "govern", !.source = r,
              !.draft = [source EXCEPT !.supersedes = r, !.governance.reference = TRUE]])
       /\ UNCHANGED <<config, catalog, captured, store>>

-----------------------------------------------------------------------------
(* Checks and captures.                                                    *)

\* Mutant: only the final decisions end a workflow.
CheckableWhilePending(a) == Cycle(a) \notin {"accepted", "abandoned"}

\* The preflight: a pending attempt blocks, a final decision ends.
Checkable(a) == Cycle(a) \in {"initial", "correction-requested"}

\* runProjectVisualChangeCheck up to the call of checkProject.
StartCheck(c, r, alias) ==
    LET source == store[r]
    IN /\ Accepts(c, "check")
       /\ CanCapture
       /\ Checkable(source)
       /\ Ready(source)
       /\ alias \in BaselineAlias(source.scope)
       /\ Become(c, [NoRequest EXCEPT !.step = "check", !.op = "check", !.source = r,
                                      !.alias = alias])
       /\ UNCHANGED <<config, catalog, captured, store>>

\* prepareAcceptance: a configured reference must be approved, and a bindings
\* file must hold an object; the workflow-owned file holds an array.
AcceptanceLoads(cfg) ==
    cfg.reference # None => cfg.reference \in Approved /\ cfg.bindings \in {None, ProjectBindings}

CheckProject(c) ==
    /\ At(c, "check")
    /\ catalog[req[c].alias] # None
    /\ AcceptanceLoads(config)
    /\ Become(c, [req[c] EXCEPT !.step = "capture", !.raw = config,
                                !.baseline = catalog[req[c].alias]])
    /\ UNCHANGED <<config, catalog, captured, store>>

\* BLOCKED without a candidate: the caller answers 'candidate-not-produced'.
CheckBlocked(c) ==
    /\ At(c, "check")
    /\ catalog[req[c].alias] = None \/ ~AcceptanceLoads(config)
    /\ Done(c)
    /\ UNCHANGED <<config, catalog, captured, store>>

\* captureObservation reads the whole catalog and then drives the browser.
CaptureNamed(c, alias, replace) ==
    /\ Accepts(c, "capture")
    /\ CanCapture
    /\ alias # Current
    /\ catalog[alias] = None \/ replace
    /\ Become(c, [NoRequest EXCEPT !.step = "observe", !.op = "capture", !.alias = alias,
                                   !.view = catalog])
    /\ UNCHANGED <<config, catalog, captured, store>>

CaptureCurrent(c) ==
    /\ At(c, "capture")
    /\ Become(c, [req[c] EXCEPT !.step = "observe", !.view = catalog])
    /\ UNCHANGED <<config, catalog, captured, store>>

ObserveFails(c) ==
    /\ "observe" \in Faults
    /\ At(c, "observe")
    /\ Done(c)
    /\ UNCHANGED <<config, catalog, captured, store>>

CapturedAlias(c) == IF req[c].op = "check" THEN Current ELSE req[c].alias

\* The catalog written back is the one read before the observation.
FinishCapture(c) ==
    /\ At(c, "observe")
    /\ captured' = captured + 1
    /\ catalog' = [req[c].view EXCEPT ![CapturedAlias(c)] = captured + 1]
    /\ IF req[c].op = "capture" THEN Done(c)
       ELSE Become(c, [req[c] EXCEPT !.step = "evaluate", !.candidate = captured + 1])
    /\ UNCHANGED <<config, store>>

\* "observation persisted, but alias catalog update failed"
CatalogWriteFails(c) ==
    /\ "catalog-write" \in Faults
    /\ At(c, "observe")
    /\ captured' = captured + 1
    /\ Done(c)
    /\ UNCHANGED <<config, catalog, store>>

\* What finalizeCheckStatus can answer for the acceptance that was read: the
\* reference is None when its evaluation could not be constructed.
Outcomes(cfg) ==
    {o \in [status: Verdicts, reference: {cfg.reference, None}] :
        /\ cfg.reference # None /\ o.reference = None => o.status = "BLOCKED"
        /\ o.status = "REVIEW_REQUIRED" => cfg.change = None /\ cfg.reference = None
        /\ o.status \in {"PASS", "FAIL"} => cfg.change # None \/ cfg.reference # None}

\* Mutant: the baseline the check really used is not compared.
RecordableForAnyBaseline(c, outcome) ==
    LET source == store[req[c].source]
    IN /\ source.scope.mode = "reference" =>
             outcome.reference \in {None, source.scope.target}
       /\ \A i \in DOMAIN source.attempts : source.attempts[i].candidate # req[c].candidate
       /\ Len(source.attempts) < MaxAttempts

\* Mutant: the attempt limit is off by one.
RecordableOnceMore(c, outcome) ==
    LET source == store[req[c].source]
    IN /\ req[c].baseline = source.scope.observation
       /\ source.scope.mode = "reference" =>
             outcome.reference \in {None, source.scope.target}
       /\ \A i \in DOMAIN source.attempts : source.attempts[i].candidate # req[c].candidate
       /\ Len(source.attempts) <= MaxAttempts

\* The guards between checkProject's answer and the appended attempt.
Recordable(c, outcome) ==
    LET source == store[req[c].source]
    IN /\ req[c].baseline = source.scope.observation
       /\ source.scope.mode = "reference" =>
             outcome.reference \in {None, source.scope.target}
       /\ \A i \in DOMAIN source.attempts : source.attempts[i].candidate # req[c].candidate
       /\ Len(source.attempts) < MaxAttempts

RecordAttempt(c) ==
    LET source == store[req[c].source]
    IN /\ At(c, "evaluate")
       /\ \E outcome \in Outcomes(req[c].raw) :
             /\ Recordable(c, outcome)
             /\ Become(c, [req[c] EXCEPT
                    !.step = "persist",
                    !.draft = [source EXCEPT
                        !.supersedes = req[c].source,
                        !.attempts = Append(@, [candidate |-> req[c].candidate,
                                                baseline |-> req[c].baseline,
                                                status |-> outcome.status,
                                                contract |-> req[c].raw.change,
                                                reference |-> outcome.reference,
                                                review |-> "pending"])]])
       /\ UNCHANGED <<config, catalog, captured, store>>

\* 'check-scope-mismatch', 'duplicate-attempt' or 'attempt-limit-reached'
RefuseAttempt(c) ==
    /\ At(c, "evaluate")
    /\ \E outcome \in Outcomes(req[c].raw) : ~Recordable(c, outcome)
    /\ Done(c)
    /\ UNCHANGED <<config, catalog, captured, store>>

-----------------------------------------------------------------------------
\* The process serving the request dies; what is on disk stays.
Crash(c) ==
    /\ "crash" \in Faults
    /\ ~At(c, "idle")
    /\ Done(c)
    /\ UNCHANGED <<config, catalog, captured, store>>

Start(c) ==
    \/ \E s \in Scope : Create(c, s)
    \/ \E contract \in Contract : Promote(c, contract)
    \/ \E alias \in Alias, replace \in BOOLEAN : CaptureNamed(c, alias, replace)
    \/ \E r \in Addressable : Activate(c, r)
    \/ \E r \in Addressable : Restore(c, r)
    \/ \E r \in Addressable, alias \in Alias : StartCheck(c, r, alias)
    \/ \E r \in Addressable, decision \in ReviewState : Review(c, r, decision)
    \/ \E r \in Addressable, origin \in 0..captured : GovernBaseline(c, r, origin)
    \/ \E r \in Addressable : GovernReference(c, r)

Proceed(c) ==
    \/ WriteConfig(c) \/ WriteConfigFails(c)
    \/ Persist(c) \/ PersistFails(c)
    \/ Rollback(c) \/ RollbackFails(c)
    \/ CheckProject(c) \/ CheckBlocked(c)
    \/ CaptureCurrent(c) \/ ObserveFails(c)
    \/ FinishCapture(c) \/ CatalogWriteFails(c)
    \/ RecordAttempt(c) \/ RefuseAttempt(c)

Next == \/ EditConfig
        \/ UNCHANGED edits /\ \E c \in Client : Start(c) \/ Proceed(c) \/ Crash(c)

Spec == Init /\ [][Next]_vars

-----------------------------------------------------------------------------
(* Well-formedness.                                                        *)

HasDraft(q) == \/ q.step \in {"persist", "rollback"}
               \/ q.step = "write" /\ q.op # "promote"

\* Which fields of a request are meaningful at which step.
RequestOK(q) ==
    /\ q \in Request
    /\ q.step \in {"write", "rollback"} => q.raw \in Config /\ ValidConfig(q.raw)
    /\ q.step \in {"persist", "write"} /\ q.op \in {"activate", "restore"} =>
          q.raw \in Config /\ ValidConfig(q.raw)
    /\ q.step = "write" => q.text \in Config /\ ValidConfig(q.text)
    /\ HasDraft(q) => q.draft \in Artifact
    /\ q.step \in {"check", "capture", "observe", "evaluate"} =>
          q.alias \in Alias /\ q.op \in {"check", "capture"}
    /\ q.step \in {"check", "capture", "evaluate"} => q.op = "check"
    /\ q.step = "observe" => q.view \in Catalog
    /\ q.op = "check" /\ q.step \in {"capture", "observe", "evaluate"} =>
          q.raw \in Config /\ q.baseline \in Nat
    /\ q.step = "evaluate" => q.candidate \in Nat

StateOK ==
    /\ config \in Config /\ ValidConfig(config)
    /\ catalog \in Catalog
    /\ captured \in Nat
    /\ store \in Seq(Artifact)
    /\ req \in [Client -> Request]

TypeOK == StateOK /\ edits \in Nat /\ \A c \in Client : RequestOK(req[c])

-----------------------------------------------------------------------------
(* Properties.                                                             *)

Forest == INSTANCE RevisionForest WITH store <- store

\* Concurrent, stale, failing and crashing requests still only ever add
\* revisions that are one legal step away from a revision already persisted.
ForestSpec == Forest!Spec

\* Every revision keeps the review discipline: earlier attempts were sent back
\* for correction, acceptance rests on a PASS, governance on the acceptance,
\* attempts on an activation and on the frozen baseline.
ReviewDiscipline == \A r \in DOMAIN store : Disciplined(store[r])

\* A restoration about to be written selects exactly what the project had
\* selected before the activation it undoes.
SelectsBefore(q) == q.step = "write" /\ q.op = "restore" =>
                        Selected(q.text) = q.draft.activation.before

RestoreSelectsBefore == \A c \in Client : SelectsBefore(req[c])

\* The request in hand is derived from a revision that exists: an attempt
\* from the one it will extend, a draft from the one it will supersede.
RequestInv(q) == /\ RequestOK(q)
                 /\ q.op = "check" /\ q.step \notin {"idle", "persist"} =>
                       /\ q.source \in DOMAIN store
                       /\ Active(store[q.source])
                       /\ Checkable(store[q.source])
                 /\ HasDraft(q) => Legal(store, q.draft)
                 /\ SelectsBefore(q)

\* The inductive invariant behind ForestSpec and ReviewDiscipline.
IInv == /\ StateOK
        /\ ReviewDiscipline
        /\ \A c \in Client : RequestInv(req[c])

\* The first revision of the history a revision continues.
RootOf[r \in DOMAIN store] ==
    IF store[r].supersedes = 0 THEN r ELSE RootOf[store[r].supersedes]

\* 'accepted workflow is terminal', 'abandoned workflow is terminal': once a
\* revision records the final decision, no later revision of the same history
\* has other attempts or another decision.
FinalDecisionStands ==
    \A r, s \in DOMAIN store :
        r < s /\ RootOf[r] = RootOf[s] /\ Cycle(store[r]) \in {"accepted", "abandoned"}
            => store[s].attempts = store[r].attempts

\* Every attempt a revision holds was computed from the revision's own scope.
Judges(a) ==
    \A i \in DOMAIN a.attempts :
        /\ a.scope.mode = "actual-frontend" => a.attempts[i].contract = a.scope.target
        /\ a.scope.mode = "reference" /\ a.attempts[i].status = "PASS" =>
              a.attempts[i].reference = a.scope.target

\* As long as nobody has edited the configuration by hand, every recorded
\* attempt was computed from the scope the workflow froze: its change contract
\* in actual mode, and for a PASS in reference mode its approved reference.
AttemptsJudgeFrozenScope == edits = 0 => \A r \in DOMAIN store : Judges(store[r])

\* A workflow-owned bindings file is selected only while some activation that
\* has not been restored says so: a failed activation leaves nothing behind.
NoOrphanActivation ==
    InFlight = {} /\ config.bindings \in Nat =>
        \E r \in DOMAIN store : /\ Active(store[r])
                                /\ ~Superseded(r)
                                /\ store[r].activation.after.bindings = config.bindings

\* As long as nobody has edited the configuration by hand, when a revision
\* that records an activation or a restoration is persisted, the configuration
\* on disk selects exactly what the revision says.
RecordedSelectionInEffect ==
    [][edits = 0 => \A c \in Client :
          /\ Persist(c) /\ req[c].op = "activate" =>
                Selected(config) = req[c].draft.activation.after
          /\ Persist(c) /\ req[c].op = "restore" =>
                Selected(config) = req[c].draft.activation.before]_vars

\* 'read-check-write sequences (stale revisions, contract promotion and
\* activation) cannot interleave': activation and restoration leave every part
\* of the configuration their scope's mode does not own as it is on disk when
\* they write, whatever another request has written since they read it.
UnrelatedConfigPreserved ==
    [][\A c \in Client :
          WriteConfig(c) /\ req[c].op \in {"activate", "restore"} =>
              /\ config'.baseline = config.baseline
              /\ IF req[c].draft.scope.mode = "reference"
                 THEN config'.change = config.change
                 ELSE config'.reference = config.reference /\ config'.bindings = config.bindings
      ]_vars

\* A check of a ready workflow is not turned away by the acceptance that its
\* own activation selected.
ReadyCheckIsNotBlocked ==
    [][\A c \in Client : CheckBlocked(c) => catalog[req[c].alias] = None]_vars

-----------------------------------------------------------------------------
(* The invariants behind the properties of serialized requests.            *)

OneHandler == \A c, d \in Client : c = d

\* A history is a line: what a request extends, no revision extends yet, and
\* of two revisions of one workflow the earlier has a successor.
ExtendsNewest(q) ==
    /\ q.op = "check" /\ q.step \notin {"idle", "persist"} => ~Superseded(q.source)
    /\ HasDraft(q) => q.draft.supersedes = 0 \/ ~Superseded(q.draft.supersedes)

LineInv ==
    /\ \A r \in DOMAIN store : store[r].supersedes < r
    /\ \A r, s \in DOMAIN store : r < s /\ RootOf[r] = RootOf[s] => Superseded(r)
    /\ FinalDecisionStands
    /\ \A c \in Client : ExtendsNewest(req[c])

\* From the readiness test to the attempt, the configuration a check judges
\* with is the one its workflow activated.
Selects(cfg, s) == /\ s.mode = "actual-frontend" => cfg.change = s.target
                   /\ s.mode = "reference" => cfg.reference = s.target

JudgesFrozenScope(q) ==
    /\ HasDraft(q) => Judges(q.draft)
    /\ q.op = "check" /\ q.step = "check" => Selects(config, store[q.source].scope)
    /\ q.op = "check" /\ q.step \in {"capture", "observe", "evaluate"} =>
          Selects(q.raw, store[q.source].scope)

JudgeInv == /\ \A r \in DOMAIN store : Judges(store[r])
            /\ \A c \in Client : JudgesFrozenScope(req[c])

\* Nobody writes the configuration between a request's read of it and its
\* own write, nor between that and the revision that records it.
Switches(q) ==
    /\ q.step = "write" => q.raw = config
    /\ q.step = "write" /\ q.op = "activate" =>
          /\ q.text = Switched(q.raw, q.draft.scope, q.draft.supersedes)
          /\ Selected(q.text) = q.draft.activation.after
    /\ q.step = "write" /\ q.op = "restore" =>
          /\ q.text = SwitchedBack(q.raw, q.draft.scope, q.draft.activation.before)
          /\ Selected(q.text) = q.draft.activation.before
    /\ q.step = "persist" /\ q.op = "activate" => Selected(config) = q.draft.activation.after
    /\ q.step = "persist" /\ q.op = "restore" => Selected(config) = q.draft.activation.before

SwitchInv == \A c \in Client : Switches(req[c])

\* The activations of reference workflows that are neither restored nor
\* superseded, and the bindings files each found and selected.
Open(history) == {r \in DOMAIN history :
                     /\ Active(history[r]) /\ history[r].scope.mode = "reference"
                     /\ \A s \in DOMAIN history : history[s].supersedes # r}
Found(history, r) == history[r].activation.before.bindings
Left(history, r) == history[r].activation.after.bindings

\* They are nested: the workflow-owned file an open activation found is the
\* one another open activation selected, and no two found the same one.
Nested(history) ==
    \A r \in Open(history) :
        /\ \E s \in DOMAIN history : history[s].supersedes = Left(history, r)
        /\ Found(history, r) # Left(history, r)
        /\ Found(history, r) \in Nat =>
              /\ \E s \in Open(history) : Left(history, s) = Found(history, r)
              /\ \A s \in Open(history) : Found(history, s) = Found(history, r) => s = r

\* The selected one belongs to the innermost activation.
Innermost(history, cfg) ==
    cfg.bindings \in Nat => /\ \E r \in Open(history) : Left(history, r) = cfg.bindings
                            /\ \A r \in Open(history) : Found(history, r) # cfg.bindings

\* The configuration is ahead of the store.
Ahead(q) == \/ q.step = "rollback"
            \/ q.step = "persist" /\ q.op \in {"activate", "restore"}

Nests(q, cfg) ==
    /\ HasDraft(q) => Nested(Append(store, q.draft))
    /\ q.step = "write" =>
          /\ q.op \in {"activate", "restore", "promote"}
          /\ Innermost(IF q.op = "promote" THEN store ELSE Append(store, q.draft), q.text)
    /\ q.step = "write" \/ Ahead(q) => Innermost(store, q.raw)
    /\ q.step = "persist" => Innermost(Append(store, q.draft), cfg)

NestInv ==
    /\ Nested(store)
    /\ (\A c \in Client : ~Ahead(req[c])) => Innermost(store, config)
    /\ \A c \in Client : Nests(req[c], config)
=============================================================================
