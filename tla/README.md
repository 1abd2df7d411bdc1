# Verification of the frontend observer

The frontend observer captures what a web frontend looks like (an
*observation*), compares observations, evaluates contracts and external
references against them, lets a person annotate the evidence in a local viewer,
and runs *visual-change workflows* in which an agent changes the frontend and
the observer checks the result. Everything it produces is an immutable artifact
directory under one evidence root; the only mutable files are the project
configuration (`frontend-observer.json`) and the alias catalog.

This directory holds TLA+ models of that program, the TLC runs that check them
on small instances, and proofs of the central theorems for every instance.
Source paths below are relative to the repository.

## 1. Inventory

| component | source | state it keeps | operations |
|---|---|---|---|
| visual-change workflow | `src/application/visualChange*Service.ts`, `src/domain/visualChange{Workflow,Cycle}.ts` | a chain of workflow revisions; rewrites `acceptance` in the configuration | create, activate, run check, review, restore, record governance |
| project configuration and aliases | `src/application/projectWorkflowService.ts`, `src/projectWorkflow/` | `frontend-observer.json`, `aliases.json` | init, named capture, current capture, activate a change contract |
| project check | `src/application/projectCheckService.ts`, `src/projectWorkflow/check*.ts` | none of its own; re-points the reserved alias | load acceptance, resolve baseline, capture, evaluate, roll up |
| viewer authoring writes | `src/viewerServer/*Authoring.ts`, `annotationContractPromotion.ts`, `annotationReferenceMaterialization.ts`, `referenceApproval.ts` | one write queue per session | save or revise an annotation, promote it, start a visual change, materialize, approve |
| artifact writers | `src/artifacts/*Writer.ts` | a temporary directory each | fill, rename, clean up |
| evidence discovery | `src/viewerServer/evidence/` | none: every pass walks the disk again | list, classify, find by identity |
| browser capture | `src/browser/`, `browserCaptureService.ts`, `observationPersistence.ts` | a browser, page and route handler for one capture | navigate, block, scroll, measure, close |
| request and safety | `src/request/`, `src/safety/` | none | normalise, classify URLs |
| scroll evidence, comparison, relationships, contracts | `src/domain/scrollEvidence.ts`, `relationships.ts`, `comparisonEngine.ts`, `frontendContract*.ts` | none | conclude who scrolled, derive relationships, compare two observations, evaluate a contract: pure functions of artifacts |
| references and corrections | `src/domain/externalReference*.ts`, `referenceCorrection*.ts` | none | regions, requirements, bindings, fidelity; prepare, review and trace a correction |
| agent context | `src/domain/boundedAgentContext*.ts`, `referenceFidelityProjection.ts` | none | project evidence under fixed bounds, judge its adequacy, derive and attach correlations |
| annotation drafts | `viewer/src/hooks/use*Annotation*`, `viewer/src/annotation/`, the annotation panels; on the server `src/domain/visualAnnotation.ts` | the draft, what Cancel restores, saves and uses on their way | draw, drag, associate, state an intent, confirm, save, promote, materialize |
| viewer server | `httpServer.ts`, `viewerService.ts`, `authoringSecurity.ts` | session token, expected host, a context read at start | route a request to the operations above |
| other viewer components, evidence views | `viewer/src/`, `src/viewerServer/evidence/` | the last answer fetched | show |
| handoff | `visualChangeAgentHandoffService.ts` | none | say what an agent may work on |
| command line | `src/cli.ts` | words, files, a temporary directory | read the words, drive the services, write one artifact, exit |

How they interact: the viewer server and the command line call the same
application services; the services share nothing in memory and meet only in the
evidence root, the configuration and the alias catalog. Configuration and
catalog are read, held across awaits and written back whole. Artifacts are
never changed, so reads of them commute with everything.

What is hard about it:

* *Interleaving.* The authoring writes of one viewer session wait for each
  other; workflow requests do not, neither do two viewers, nor the command
  line. Each reads, decides, and writes several awaits later.
* *Partial failure and crashes.* An activation writes two files, a start
  persists two artifacts, a check captures and re-points an alias before it
  evaluates. Any step can fail, and the process may die between two of them.
* *Staleness.* A request names a revision that may be superseded; a check reads
  the configuration the workflow froze a second time; a writer's clean-up may
  leave files a reader could take for evidence. A draft is edited while it is
  being saved, and answers arrive for drafts no longer shown.
* *Judgement.* A check passes on a contract only if every clause in force was
  judged on evidence that is there, holds, and accounts for all that changed.
  Clauses, relationships, differences, conflicts and results are matched to each
  other through several indirections, in configured order and by family. A design is compared
  with a page across a scale, through regions and bindings whose names are
  spelled in more than one way. Three pieces of code judge one correction.
* *Limits.* A pass over the evidence root sees at most 500 manifests, a
  workflow takes at most 20 attempts, a context keeps so many targets, pieces
  of evidence and even records of what it dropped.
* *Words.* A command line is read in one pass in which an option takes the next
  word as its value, whatever that is.

What makes each part right is stated next to its model (section 3); what can go
wrong, and which property is about it, is in PROJECT.json under "hazards".

## 2. Modules

| module | role |
|---|---|
| `VisualChangeArtifact` | the workflow artifact, the project configuration, the derived cycle, what one lawful lifecycle step is |
| `RevisionForest` | abstract specification: the persisted revisions as a growing forest of lawful steps |
| `VisualChangeWorkflow` | the workflow, review, check, capture and promotion handlers as racing, failing, crashing clients; implements `RevisionForest` |
| `MCVisualChangeWorkflow` | small instances of it |
| `VisualChangeArtifact_proofs`, `VisualChangeWorkflow_proofs` | theorems |
| `EvidenceArtifact` | the artifacts of the evidence root as authoring tells them apart |
| `EvidenceLog` | abstract specification: whole, grounded artifacts appear one at a time, revisions of an annotation form a line |
| `ViewerAuthoring` | sessions, their write queues, the authoring handlers and the writers; implements `EvidenceLog` |
| `MCViewerAuthoring` | small instances of it |
| `ViewerAuthoring_proofs` | theorems |
| `BrowserCapture` | one observation: the capture's awaits against a page that goes on running, up to the persisted artifact |
| `MCBrowserCapture` | small instances of it |
| `BrowserCapture_proofs` | theorems |
| `ScrollEvidence` | operators: the two measurements around a scroll, and who is said to have scrolled |
| `ObservationComparison` | operators: what one observation says of its layout, how two observations differ |
| `FrontendContractEvaluation` | operators: primitives, clauses, conflicts, supersession, scope, the verdict |
| `ReferenceFidelity` | operators: regions, requirements and their adequacy, bindings, the mapping into a design's coordinates, the verdicts |
| `ContractCheck` | one check, from its prepared acceptance to its status, and what its clauses and requirements mean told without the engines |
| `ReferenceCorrection` | operators: the handoff, the attempt and the review of a correction, on the evidence of a check |
| `MCContractCheck` | small instances of both |
| `ContractCheck_proofs` | theorems |
| `AgentContext` | one context: projected, judged, and correlations derived and attached |
| `MCAgentContext` | small instances of it |
| `AgentContext_proofs` | theorems |
| `AnnotationItems` | operators: the items of an annotation as the viewer builds them and as the server reads them |
| `AnnotationDraft` | one annotation workspace: the draft hook, the panels, the requests on their way and the server |
| `MCAnnotationDraft` | small instances of it |
| `AnnotationDraft_proofs` | theorems |
| `ObservationRequest` | operators: what an observation may be asked for, and its normalised form |
| `CommandSyntax` | operators: the options of every command and what its words are read as |
| `EvidenceCommands` | processes running commands on shared evidence directories, step by step |
| `MCEvidenceCommands` | small instances of it |
| `EvidenceCommands_proofs` | theorems |

```
VisualChangeArtifact <- VisualChangeWorkflow        RevisionForest  extends VisualChangeArtifact
EvidenceArtifact     <- ViewerAuthoring             EvidenceLog     extends EvidenceArtifact
ScrollEvidence <- ObservationComparison <- FrontendContractEvaluation, ReferenceFidelity
  both of these <- ContractCheck <- ReferenceCorrection
  both of these <- AnnotationItems <- AnnotationDraft
ObservationRequest, CommandSyntax <- EvidenceCommands
BrowserCapture, AgentContext alone
```

Each abstract specification (`RevisionForest`, `EvidenceLog`) is instantiated,
`INSTANCE ... WITH`, by the module that implements it, and is a PROPERTY of a
run. `BrowserCapture` stands alone: the other modules see a capture as one step
that yields an observation, whole or not at all, which is what it establishes.
To `VisualChangeWorkflow` a check is a step that yields a status; how that
status follows from what was observed is `ContractCheck`. `AnnotationDraft` uses
the same clauses and requirements that `ContractCheck` judges: what it promotes
is what a check reads. `AgentContext` takes results of evaluations as it finds them.

## 3. The models

### 3.1 Visual-change workflow

`config`, `catalog`, `captured` and `store` are the configuration file, the
alias catalog, the number of persisted observations and the persisted workflow
revisions. `req[c]` is the request handler `c`: the step it has reached and its
locals (the configuration it read, the text it is about to write, the revision
it is about to persist, the catalog it read before it observed). One action is
the code between two awaits that can interleave: `Activate` reads and validates,
`WriteConfig` replaces the file, `Persist` renames the revision into place, and
so for the others. Reads of immutable artifacts belong to the step that uses
them. A refused request changes nothing and is not a step.

A scope is reduced to the acceptance it froze (baseline contract, change
contract or approved reference) and its baseline observation; an evaluation to
the verdict it reached; identities, paths and digests to the artifact they
name. `EditConfig` is the project's owner re-initialising the project
("edit-contract") or configuring a reference by hand ("edit-reference"), which
no request can do; `edits` counts it, and nothing else. `Crash` forgets a
handler between two steps.

Checked:

* `ForestSpec` (refinement): whatever handlers race, fail or crash, and even if
  requests name superseded revisions, the store only grows, by revisions that
  are one lawful step from the one they supersede.
* `ReviewDiscipline`: every revision's earlier attempts were asked to be
  corrected, there are no more of them than the limit, acceptance rests on a
  PASS, governance on acceptance.
* `FinalDecisionStands`, `AttemptsJudgeFrozenScope`: when requests are
  serialized and name the newest revision, a final decision is never taken
  back and, until somebody edits the configuration, an attempt was computed
  from what the workflow froze.
* `NoOrphanActivation`, `RestoreSelectsBefore`, `RecordedSelectionInEffect`: the
  two-file write of activation and restoration, its compensation, and what is in
  effect when it is recorded.
* `UnrelatedConfigPreserved`: activation and restoration leave alone what the
  scope's mode does not own. It holds of one handler and not of two (below).
* `IInv`: the inductive invariant of the proofs, with well-formedness (`TypeOK`) in it.

| run | instance | shows |
|---|---|---|
| `serialized` | one client, two workflows in both entry modes over two contracts and a reference, seven revisions, three captures, two attempts at most, failing configuration and artifact writes, one hand edit | the properties a user who waits for each answer relies on, and the discipline across modes, attempts and governance |
| `concurrent` | two clients, stale requests, six revisions, every fault including crashes | histories stay lawful whatever happens |
| `unserialized_writes` | two clients creating, activating, restoring and promoting | *violation*: an activation undoes a promotion that was answered while it was under way |
| `reference_check` | one reference workflow | *violation*: a check of a ready reference workflow is turned away |

Seven revisions hold a creation, an activation, two attempts each with its
decision, and a restoration or a governance record after them; `MaxAttempts` is
2 there (20 in the code), so a third attempt is asked for and refused.
`MaxWorkflows` bounds the creations, of which more than two only repeat the
interplay of two: one that is nested in, supersedes or waits for the other. Two
clients are enough for every read-decide-write race because each race is between
one handler's read and one other's write. Three captures let a baseline alias be
re-pointed under a running check.

A check of a reference workflow is turned away (`reference_check`) unless
somebody configures the reference by hand while it runs, so of the two entry
modes it is the actual one whose workflows come to a second attempt in
`serialized`; reference workflows come to their first there.

What the serialized properties need. `docs/SECURITY.md` (256-262) says every
workflow route reuses the serialized writes; the handlers of activation, check
and restoration never enter the queue, which keeps promotions apart from each
other and not from them. `unserialized_writes` shows the lost update:
two workflow handlers, or one and a promotion, read the same configuration and
the later one writes back what it read. `AttemptsJudgeFrozenScope` fails in the
same way with a promotion racing a check (`checkProject` reads the acceptance
again). `FinalDecisionStands` needs requests to name the newest revision: a
review request that names a superseded attempt is taken, and a final decision can
so be followed by another on a sibling revision (the lineage stays lawful, which
is what `concurrent` checks).

### 3.2 Viewer authoring and the evidence root

`dirs` are the artifact directories ever made, each in its place ("temp", "final",
"gone") with the files it has; `selected` is the configured change contract;
`writes` are the authoring requests in arrival order with their handler's
locals. A session's write is decided (`Save`, `Promote`, `StartActual`,
`StartReference`, `Materialize`, `Approve`, or `Refuse`) only when every earlier
one of its session has settled, which is what `previous.then(write, write)`
gives. Deciding is one step: it reads only immutable artifacts, and one listing.
The writers follow file by file (`MakeTemp`, `WriteMedia`, `WriteManifest`,
`Publish`), with `WriterFails` at any point, a clean-up that removes one file at
a time and may fail, and `Crash`. `CommandLineCapture` is another process adding
an observation. `Listed` is discovery (no `.tmp-` directories); `Passes` is what
one bounded pass may have seen of it.

`Refuse` is always possible: what the handlers check beyond lineage (promotable
items, adequacy, bindings, aliases, baseline contracts) is not told apart. That
only adds behaviours.

Checked:

* `LogSpec` (refinement, one viewer): evidence is a log of whole artifacts, each
  grounded in earlier ones, and an annotation is never revised twice, even when
  the index is truncated, writers fail or the process dies.
* `ListedComplete`: what discovery lists has all its files.
* `SelectedContractListed`: the contract selected for check was persisted.
* `IInv` (two viewers): one running write per session, a directory of its own for
  each, filled in order (the manifest last); drafts and listed evidence rest on
  evidence that is listed. It is the inductive invariant of the proofs.
* `EveryWriteSettles` (two viewers): no request is stuck behind a refused or rejected one.

| run | instance | shows |
|---|---|---|
| `one_viewer` | one session, three writes of every kind, a capture, five manifests per pass, every fault | `LogSpec`, `ListedComplete`, `SelectedContractListed` |
| `two_viewers` | two sessions, two writes, no contract acceptance configured, every fault | `IInv`, `EveryWriteSettles` |

Three writes are the shortest history with a parent, its revision and a stale
second revision; with one captured observation the root then holds more
manifests than a pass sees, so truncation matters exactly there. `LogSpec` is a
property of one viewer: the queue is kept per session, so two viewer processes
on one project can both find a parent without a revision and both revise it.

Fairness: weak fairness on the steps of each write. The event loop runs every
continuation and file-system calls return or fail; nothing is assumed about new
requests, and a crash counts as settling.

### 3.3 Browser capture

One `captureViewport` call and the persistence that follows it. `pc` is the await
the observer is in; an action is what runs from one await to the next. `page` is
what Playwright would find now: for each locator the elements it matches, which
elements are visible and how many documents were committed. `infos`, `handles` and `records` are the locals of target resolution
and the evidence, `diagnostics` what was collected, `rejection` what the route
handler keeps.

The environment acts between any two awaits: `PageChanges` (the page's scripts,
any change at all), `PageLoads` (a main-frame navigation the policy allows, which
kills the handles of the old document), `RequestBlocked` (a prohibited redirect
or subresource), `PageNotice` (a popup or download). A request and what it
redirects to are one step. An observer's call that may throw has an alternative
that throws, at every place where the code can see it throw.

Evidence is reduced to whether it was read and, for a target, to its
resolution status, whether it was visible then and whether its `aria-current`
is a word the schema lists. Geometry, semantics, scroll metrics and URLs are
left out, and with them in which of its states the page was measured: the
screenshot and the measurements are separate awaits. How an observation is
classified (`status`) and whether the artifact is written at all is what
`isValidObservationArtifact` says of it: a page whose `aria-current` holds a
word outside the schema's list makes the whole observation invalid.

Checked:

* `CompleteMeansSeen`: completion is derived from diagnostics alone, so an
  observation that calls itself complete must have lost nothing on the way:
  page evidence was read and every target measured and visible.
* `FallbackOnlyAfterNothing`: an ambiguous or failing locator never lets a later
  one choose a different element.
* `HandlesReleased`: no way of ending keeps an element handle.
* `EveryCaptureEnds`, `BlockedLoadIsRefused`: the attempt answers and gives up
  its browser even when the page never becomes ready; a load during which
  something was blocked is a failure that names it.

| run | instance | shows |
|---|---|---|
| `capture` | two targets, one with a fallback, every scroll scenario, two page events, fairness | all of these |
| `popup_notice` | one target, no scenario | *violation*: one popup makes an observation, whose recorded states are all listed ones, invalid |

Two elements tell a unique match from an ambiguous one; two locators are enough
for a fallback, two targets for containment and for one target's failure beside
another's success. A page event may be any change, so two events are a change
before each of two reads, or a load and a change.

Fairness: weak fairness of the observer as a whole, none of the page. Playwright's
calls return or throw: navigation after the request's timeout, locator calls
after Playwright's own. `page.evaluate` has no timeout, so for it this is an
assumption about the page (its main thread is not blocked for ever).

### 3.4 Project check: comparison, contracts, references and corrections

An observation is the record of its context (all that two observations must
share to be comparable, declared states included), its configured targets in
order, what was found of each (not found, ambiguous, or measured: rectangle,
visibility, overflow, clipping styles, containers), the page's size and its
scroll scenario. A measured target is measured completely, since
`captureResolvedTargetRecord` reads geometry, style, layout and visibility in
one evaluation. `PairwiseRelationships` and `PageRelationship` are
`deriveLayoutRelationships`, `Compare` is `compareObservations`, `Evaluate` is
`evaluateFrontendContract`, `ReferenceFidelity` is
`evaluateReferenceCandidateFidelity` and all it rests on; helpers keep the names
of the source. Who scrolled is concluded by `ScrollEvidence` from the two
snapshots of the scenario, as the browser's adapter does. Evidence references
and texts are left out, and with them the expected-dependency evidence, which no
verdict reads.

`step` is where `checkProject` is; the other variables are its locals and the
fields of the result it fills. Every call that may fail has an action in which
it does (`AcceptanceRefused`, `CaptureFails`, `ComparisonFails`,
`EvaluationFails`, `ReferenceFails`), and as in the code the check then goes on
to the reference or to `Finalize`. Returns before the baseline is resolved
evaluate nothing and are part of `VisualChangeWorkflow`.

Coordinates are whole pixels and every comparison across the scale of image and
viewport is multiplied out. The code computes the same in floating point, which
is exact when the scale is a dyadic fraction; at other scales a value at the very
edge of its tolerance may round to either side, which the model does not show.

Target names are compared without regard to case (`SameName`) where two
observations are compared: `CommonTargets` is in the baseline's spelling, and
`Counterpart` finds the candidate's. Clauses name targets exactly, on either
side. So no clause can authorise what happens to a target that the candidate
spells otherwise: one in the baseline's spelling finds nothing to measure there.

Three facts are assumptions on the constants, because the code in front of a
check establishes them: the targets of an observation differ in more than case
(`NamesAreToldApart`: `normalizeRequest` refuses such a request), an observation
tells its viewport, and a design has whole coordinates and a size (`IsDesign`).
Two rectangles no wider than the tolerance can each lie left of, or above, the
other: the code then takes the pair in configured order for observations, and in
the order the regions are drawn for designs, and so do the meanings below.

`Measured`, `Holds` and `Demanded` say what a clause means in the pixels of the
observations, with no relationship graph, no families and no fallbacks, and the
corresponding operators say it of a requirement. Checked against them, and
against each other:

* `JudgedByGeometry`: every state clause is judged as the pixels say, and
  `unavailable` exactly when they are not there (or, for preservation, showed
  the opposite before). A clause to be preserved that was not measured before
  is left open: `evaluateClause` judges it by what is measured after, the
  comment above it says it is unavailable.
* `PassMeansHeld`: a check that passes judged every clause in force, and the
  observations are as each demands; what is preserved held before, if it was
  measured then.
* `PassKeepsOrder`, `ChangesAreAuthored`: scope. Nothing is reordered or nested
  under a passing contract; whatever moved, changed size, appeared, went, was
  shown or hidden has a clause in force about just that. Both speak of every
  target of either observation under its own name there, not of the pairs the
  comparison found.
* `ConflictsAreMutual`, `SupersessionRemoves`: conflicts, found by two loops,
  are reported on both sides; superseding a clause is never having written it.
* `MirroredComparison`: comparing the other way round reports the same subjects.
* `FidelityByGeometry`, `ReferencePassMeansFaithful`: what is said of each
  requirement is what the pixels of design and candidate say; a check that
  passes on a reference saw the viewport and the state it is about, and found
  in it every requirement selected, of which there was at least one.
* `ReviewAgreesWithCheck`: the handoff names a correction's review, the workflow
  records an attempt at it, `reviewReferenceCorrectionAttempt` judges it. An
  attempt is recorded at exactly the reviews that are named, and the review lets
  a candidate be approved exactly when the check says PASS.
* `StatusFollowsEvidence`: BLOCKED, FAIL and PASS tell whether all could be
  judged, and how, whatever the order in which blockers and results came.

| run | instance | shows |
|---|---|---|
| `contract_check` | two targets, tolerance 1, six baselines, some sixty candidates, of which eight spell a target in another case, contracts of every primitive and mode, conflicts, supersession, designs at twice the page's size with names in two spellings, corrections, every failure | all of these |

Two targets are enough: every relationship, clause, conflict, requirement and
difference is about one target or a pair. The candidates include each
difference alone and several together, targets inside, over, beneath and beside
each other, moves within and beyond the tolerance, reordered and removed
targets, other viewports and declared states, and missing page and scroll
evidence. Some rectangles are as thin as the tolerance or begin outside the
page, and one is not rendered at all.

Seen while modelling; of these, the second and the third disagree with a comment:

* A containment change and a change of order can be authorised by no clause, so
  a change that intends one never passes. A clause about a target's width also
  accounts for a change of its height (one difference, `resized`).
  `target-fits-inside` cannot be judged when the container is configured before
  its content, a `relationship-unchanged` clause on `follows-vertically` written
  against the configured order never fails, and an inverted vertical order is
  "unavailable", not a failure. A target that becomes ambiguous is no difference.
* The comment at `frontendContractEvaluation.ts` 324-331 says that `preserved`
  "additionally proves the invariant already held" before, and that what did not
  is "reported `unavailable`, never `pass`/`fail`". The code (335) only asks
  whether the clause failed before: one about a target that was not found then,
  or about a page or scroll that was not measured, is judged by the candidate
  alone, and may pass.
* A scroll target that is hidden in either snapshot is ignored by
  `deriveScrollOwner`, though the rules above it (`scrollEvidence.ts` 117-126)
  speak of any target's movement; the owner is then "none" or "document", and a
  `target-does-not-own-scroll` clause about it passes.
* A relationship requirement whose region is spelled in another case validates
  but is then inadequate: adequacy compares the names as they are spelled
  (`externalReferenceRequirements.ts` 406-412).
* A check evaluates a baseline contract whose source is another observation
  than the baseline; the review of a correction refuses it, and the handoff
  names no review then (`baseline-contract-source-mismatch`). An incomparable
  pair is a "fail" to the review and BLOCKED to the check. The identity of a
  review leaves out the comparison's configuration and the fidelity tolerance.

### 3.5 Bounded agent context

`context` is the artifact, `derived` the correlations derived from static
evidence and not attached yet; `Project`, `Derive` and `Attach` are the three
calls, the last two again and again; either of the first and last may refuse. Targets and evidence
paths are numbers in the order the code sorts their names, values of evidence
are left out, and which of several equally required records a full aggregate cap
drops is left open, since the code breaks that tie by text. What the artifact's
validator turns down is no artifact.

Checked:

* `LossIsVisible`: a context that lost something the task needs, to a bound or
  because the page or an evaluation did not have it, does not call itself
  adequate, and a record of a required loss survives both aggregate caps and any
  attachment.
* `RequiredFirst`: every context is one its readers take, and nothing the task
  needs less is kept while something it needs is left out.
* `CorrelationTold`: a target is called correlated only when a single candidate
  was ever supplied for it; a required one that lost a candidate, its record or
  had none makes the context inadequate.
* `NeverBetter`: attaching never improves a verdict.

| run | instance | shows |
|---|---|---|
| `bounded_context` | four targets, three paths, clauses, fidelity and neighbours; two targets, two paths, three omissions, two truncations, two records, two candidates, two mismatches and one protected context kept | all of these |

Each bound is below what the requests supply, and the aggregate caps below what
the other bounds can drop, so every cap cuts, alone and with others.
A note: the header of `referenceFidelityProjection.ts` (32-33) says that a
requirement that is not required "must never affect adequacy" when unavailable;
`boundedAgentContextProjection.ts` (544-547) makes the context partial for it.
The model follows the code.

### 3.6 Annotation drafts

`draft` and `baseline` are the state of `useAnnotationDraft`, `work` the panel's
promotion or materialization, `saves` and `uses` the requests on their way,
`store` the annotations the server has. The person acts between any two steps:
draws, drags, edits a note, associates, states an intent, confirms, deletes,
cancels, loads, starts anew, saves, promotes. The environment: the server
answers in any order, refuses (`SaveRefused`, `UseRefused`: content, a lost
session, a failing disk), another viewer revises what is saved
(`RevisedElsewhere`). A save is sent with the draft of its moment and answered
whenever: the answer replaces the whole draft by what was saved, also a draft
edited or started since.
`confirmed` is history: the meanings somebody confirmed.

Both sides judge items with `AnnotationItems`: `isValidVisualAnnotationContent`
for a save, the promotion and the materialization plans for a use.

Checked:

* `CleanMeansSaved`: a draft not called unsaved is exactly the annotation it
  revises, or empty, whatever saves, loads, cancels and late answers crossed; so
  what is promoted under its handle is what is shown.
* `ConfirmedMeaningStands`: an item is confirmed, in the draft, in what Cancel
  restores, on its way or saved, only with the mark, association and intent
  somebody confirmed.
* `OfferedIsTaken`: what the panel offers to promote or materialize, the server
  takes.

| run | instance | shows |
|---|---|---|
| `annotation_draft` | an observation and a reference, nothing or something already saved; two marks, six gestures, three annotations, two saves and one use at once, two items a draft | all of these |

Six gestures are: draw, associate, state an intent, confirm, edit it again,
save; two saves on their way are the least that can cross. A late answer to a
use sets the panel's message even when another annotation is shown by then; it
changes no evidence, and no property is about the message.

### 3.7 Command line

A process goes through the steps of `runCli`: `Start` (the words),
`Load` (the files they name), `ReadArtifact` (the directories they point at),
a decision per command (`Observe`, `Compare`, `ApproveBaseline`,
`SaveChangeContract`, `EvaluateContract`, `ImportReference`, `ApproveReference`,
`EvaluateReferenceFidelity`), then the writer (`Look`, `Clear`, `Make`,
`WriteMedia`, `WriteManifest`, `Expose`), and `Report`. Storage fails at any of
them, a process is killed between any two, and both processes share the
directories. The project commands are one step each, with any exit
status they can have; what they do is in `ContractCheck` and
`VisualChangeWorkflow`.

`CommandSyntax` is the table of options of every command and the one pass over
the words; what a word means as a number, a size or a path is given by constants.
`ObservationRequest` is `normalizeRequest`: every rule over structure and numbers,
with strings known by their length.

Checked:

* `ReadAsWritten`: the pass finds what a declarative reading of the words finds.
* `StatusTellsOutcome`: exit 0 means that the artifact is where it was said to
  be; 1 with an artifact means a fatal observation or an enforced FAIL; once
  decided, only a taken place or the storage keeps it from being written; no exit
  leaves anything staged. Processes that wrote to one place are excepted, and of
  those it says nothing.
* `EvidenceCoheres`: an exposed directory is whole, with the same exception, and
  what refers to something refers to it truly: an evaluation to the observations
  that its comparison compared, a baseline to the observation it was approved
  from, an approval to an import with the same content.

| run | instance | shows |
|---|---|---|
| `evidence_commands` | one process with every line that is one slip (a word lost, doubled, added, mistaken, or swapped with the next) from fourteen sound lines, a second with three sound lines, evidence of every family already there, a damaged reference, failures and kills anywhere | all of these |

Tolerances are counted in half pixels, so that the default of 0.5 is a whole
number. Assumed of the file system: a rename onto a directory that is not empty
fails, and the content of a file appears in one step. An image's limit in bytes
is left out.

Seen while modelling, the reason for the exceptions and for what the properties
do not say: two runs that save the same authored contract share
`.tmp-<id>`, so that one of them may expose an empty directory and report
success; an option takes the next word even if it is an option (`--output
--enforce`), while `--output` at the end of a line means the default;
`--help` anywhere answers help; a usage error of `check` exits with 1, as FAIL
does; `compare --config-file` passes over fields it does not know; a
requirements file whose value cannot be iterated makes `importExternalReference`
throw; an approval drops what the import superseded unless it is given again;
`evaluate-contract` does not ask whether the baseline was approved from the
observation it is evaluated against; the size of a lossy WebP is read big-endian
(`externalReferenceImage.ts` 112-116), so such images are as large as that says.

Deadlock checking is off in every run: all requests may be answered and every
bound reached, and then the modelled program has nothing left to do.

## 4. Proofs

Each module with theorems is named after the one it is about. Every invariant
and action property of a passing run, and both refinements, are theorems: the
run shows them on a small instance, the theorem for every value of the
constants. The assumptions are the named `ASSUME`s of the modules and, where a
theorem needs more, the hypotheses of the theorem. TLC evaluates each `ASSUME`
on its run; an instance that breaks one is not one the code can meet.

### 4.1 Visual-change workflow

`VisualChangeArtifact_proofs`: `DerivedDisciplined`, one lawful step from a
disciplined revision reaches a disciplined one.

`VisualChangeWorkflow_proofs`, for any number of clients, aliases, artifacts and
any bounds, racing, failing and crashing: `Invariance` (IInv), `TypeCorrect`,
`Discipline`, `Restoration` and `Implementation` (the workflow implements
`RevisionForest`). `ReviewDiscipline` alone is not inductive: what a handler
persists was decided steps ago, when the store was shorter. `IInv` therefore
carries, for every request in hand, `RequestInv`: its draft is one lawful step
from a revision in the store, which stays true because the store only grows
(`LegalMonotone`); an activation's text differs from what it read only in the
selection; a restoration's text selects what the activation recorded. The proof
has one lemma per action.

The serialized properties are theorems under what section 3.1 says they need.
All assume `OneHandler` (a client waits for each answer):

| theorem | also assumes | by the invariant |
|---|---|---|
| `DecisionStands` (`FinalDecisionStands`) | requests name the newest revision | `LineInv`: what a request extends, nothing extends yet; of two revisions of one workflow the earlier is superseded |
| `FrozenScopeJudged` (`AttemptsJudgeFrozenScope`) | | `JudgeInv`: from the readiness test to the attempt, the configuration is the one the workflow activated |
| `RecordedInEffect` (`RecordedSelectionInEffect`) | | `SwitchInv`: nobody writes the configuration between a request's read and its write, nor before it is recorded |
| `NoOrphan` (`NoOrphanActivation`) | requests name the newest revision, rollbacks do not fail in their turn, no crash | `NestInv`: activations not yet restored are nested, and the selected file belongs to the innermost |

The hypotheses are the conditions of the run `serialized`. The middle two speak,
as their properties do, of the time until the first hand edit, so their
invariants are claimed while `edits` is 0. Without its last hypotheses
`NoOrphanActivation` is false: a crash between the two files of an activation
leaves the selection behind.

### 4.2 Viewer authoring

`ViewerAuthoring_proofs`, for any number of sessions, writes and directories:
`Bookkeeping` (IInv), `ListedCompleteHolds`, `SelectedContractHolds` and
`OneRunningHolds`; for one session (`OneSession`), `Implementation` (`LogSpec`).
What a write persists was decided when the log was shorter, and what a
promotion selects was published some steps before: `IInv` says of each write in
hand what it rests on, that its directory is its own and filled in order
(`OwnDirectory`, `FilledInOrder`), and of the queue that a write has begun only
if all earlier ones of its session have settled (`QueueOrder`). For the
refinement, `NoRivals`: with one session, nothing that is listed revises
what the save in hand is about to revise. The rest is that each step
either leaves the log alone or adds one grounded artifact (`LogSteps`).

### 4.3 Browser capture

`BrowserCapture_proofs`, for any targets, locators, elements and number of page
events: `Invariance` (IInv), `CompleteObservations` (CompleteMeansSeen),
`NoHandleHeld` (HandlesReleased), `FallbackInOrder` (FallbackOnlyAfterNothing)
and `BlockedIsOnlyRefused`. `CompleteMeansSeen` speaks of the end only; what
makes it inductive is `MissingIsSaid`: at every point, if no diagnostic has been
collected, nothing is missing yet. That needs `ResolvedSoFar` (a target the
resolution went through has a handle or a status that will become a
diagnostic) and `CursorInRange`/`HandlesAreResolved` for the indices.
`FallbackInOrder` rests on the attempts of each target being, but for the last,
locators that matched nothing (`AttemptsInOrder`). `BlockedIsOnlyRefused` is the
safety half of `BlockedLoadIsRefused`: a load of which a request was turned away
never comes to anything but the failure that names it.

### 4.4 Project check, contracts, references and corrections

`ContractCheck_proofs`, for any well-formed observations, contracts, designs,
bindings and tolerance.

*The check.* `AlwaysProgress` (ProgressInvariant) says what each step may rely
on, above all that a configured contract which was not judged has left a blocker
on every path. `AlwaysRollup` adds what the summaries say of the evidence
gathered so far, from which `AlwaysFollowsEvidence` (StatusFollowsEvidence)
follows: status, clauses and blockers are rolled up by separate code, in an
order that depends on what failed.

*Contracts.* `AlwaysByGeometry` (JudgedByGeometry): `Measured` and `Holds` speak
of sets of pixels, the evaluation of edges and of records found by family in
either order. One lemma for each fact (overlap, containment, order, width)
relates an interval of pixels to its edges, by the cardinality of intervals;
one for each family says which record the graph holds of a pair.
`AlwaysHeld` (PassMeansHeld) takes it through the check's status.
`AlwaysKeepsOrder`, `AlwaysAuthored` (ChangesAreAuthored) and `AlwaysMutual`
(ConflictsAreMutual) are facts about `Evaluate` and `Compare`: a pass has no
unexpected change, so every difference has a clause that accounts for it, and no
primitive accounts for a change of order or containment. `PairedByName` says that
the comparison pairs what has one name, however it is spelled.
`SupersededAsIfNeverWritten` (SupersessionRemoves) and `AlwaysMirrored`
(MirroredComparison) are equalities of two evaluations.

*References.* `AlwaysFaithful` (FidelityByGeometry) and `AlwaysFaithfulPass`
(ReferencePassMeansFaithful): numbers are compared across the scale multiplied
out, the meaning by shares of image and viewport; relationships are derived for
the design and for the candidate from the same code, in two orders.
`MeasuredInvariant` says which evidence each result was measured on.
`AlwaysAgrees` (ReviewAgreesWithCheck) relates the handoff, the recorded attempt
and the review to the status of the check.

The assumptions: tolerance in whole pixels (`ToleranceInPixels`); primitives,
regions, requirements, designs and observations are valid as the validators have
it (`AcceptancesAreWellFormed`, `ObservationsAreWellFormed`, `NamesAreToldApart`);
absent evidence is no kind of relationship, no target, no number
(`UnavailableIsNoKind`, `UnavailableIsNoTarget`, `UnavailableIsNoNumber`). Six
theorems also assume `NothingIsNoResult`, in their statements: `None`, which
stands for "no result yet", is not a result of the engines. It quantifies over
all values, so that TLC cannot evaluate it; of TLC's model value it is true.

The proofs of fidelity found errors of the *meaning*: it did not say what of
two regions so thin that each lies before the other, nor that a relationship must
spell the regions as the design does, nor by which order `follows-vertically` is
read. Candidates with thin pairs and a misspelled requirement are in the run now.

### 4.5 Bounded agent context

`AgentContext_proofs`, for any requests, correlations and bounds: `AlwaysTold`
(LossIsVisible), `AlwaysNoBetter` (NeverBetter), `AlwaysRequiredFirst`
(RequiredFirst) and `AlwaysCorrelationTold` (CorrelationTold). The argument for
losses follows the records: a required loss leaves a required record where it
happens (one lemma for each of a target, its geometry, a path, a mismatch and
the fidelity itself), a cap that drops a required record keeps another one, since
it drops the others first (`CapKeepsOmission`, `CapKeepsTruncation`), and what is
attached later replaces neither. For what is kept: the first `n` of a finite set
in a strict order exist, are no more than `n`, and leave nothing out that comes
before what they hold (`FirstNames` and its like for each order a bound cuts by);
each list of a context is such a prefix (`ProjectionIs`), and `Held` is the
invariant that no attachment changes that. The assumptions: bounds are at least
one and more than one candidate fits (`ContextBounds`); requests and supplied
correlations are finite and carry the modes and results their schemas list
(`RequestShape`, `CorrelatingShape`).

### 4.6 Annotation drafts

`AnnotationDraft_proofs`, for any source, gestures, number of saves and uses:
`WorkspaceIsSound` (an inductive invariant), `CleanIsSaved` (CleanMeansSaved),
`ConfirmationStands` (ConfirmedMeaningStands) and `OfferIsTaken` (OfferedIsTaken).
The first part of the invariant, `Handles`, ties drafts and saves on their way
to the annotations stored: nothing stored changes, and the baseline is what the
draft's handle stands for. The second, `Contents`, says that whatever holds items
(draft, saves, store) holds them as the viewer makes them (`AsAuthored`),
drawn under ids not used yet; each edit of the panels must keep that
(`Sensible`). `OfferedIsTaken` then is a comparison of two readings of such
items, the panel's and the server's: regions chosen to be created or refined,
with what the source has, are valid regions, and the requirements that are
chosen together valid requirements over them (`RequirementsCompose`). The
assumptions: sources are valid artifacts (`SourcesAreValid`), what is saved of
them already was made by the viewer (`SavedAreAuthored`, an annotation written
by hand is beyond this), and the forms are the panels'.

### 4.7 Command line

`EvidenceCommands_proofs`, for any number of processes, any lines, files and
locations: `Invariance`, `AlwaysCoheres` (EvidenceCoheres), `AlwaysTells`
(StatusTellsOutcome), `ParsesAsSaid` and `AlwaysReadAsWritten` (ReadAsWritten).
The invariant says of each process what it has understood (`Asked`), gathered
(`Gathered`) and decided (`Committed`), and, unless another process writes to
its place (`Contested`), how far its writer has come (`Stage`). What was read
agrees with any larger body of evidence, and evidence only grows, so a decision
made steps ago is still true when its artifact is exposed.

That the parser finds what the words say, for a line of any length, is an
induction over how far the line has been read (`ReadTo`): whether a word is an
option or a value is decided by the parity of the options in front of it. The
library's induction theorems take an operator, which no installed prover can
instantiate; `NatSetInduction` states induction as a fact about sets and is
proved from the well-foundedness of the numbers.

The proof found a case the statement of `StatusTellsOutcome` had missed, right in
the code: a contract that is saved a second time is refused with exit 1 while
the same contract, saved before, is in its place.
The assumptions: what earlier commands left is coherent (`EarlierEvidenceCoheres`),
finitely many processes, locations and lines are sequences of strings.

## 5. Only model-checked, and not modelled

Only model-checked: the liveness properties `EveryWriteSettles`,
`EveryCaptureEnds` and `BlockedLoadIsRefused` (its safety half is
`BlockedIsOnlyRefused`), since fairness and ENABLED are beyond the provers; and
the three counterexamples.

Not modelled:

* the evidence views and the viewer's other components and fetch hooks: pure
  projections that keep nothing but the last answer;
* HTTP routing, headers, tokens and static files, how a port is chosen and a
  browser opened;
* the handoff's second mode, its validator and its texts;
* hashing: identities are assumed fresh, and equal exactly for equal content;
* decoding of images beyond their dimensions, help texts and what is printed;
* URL and path syntax beyond what is allowed and what is one segment;
* edits of files inside the evidence root, but for a damaged reference and two
  damaged contexts;
* geometry that changes while a page is measured (hazard at
  `chromiumAdapter.ts:178`): no later step reads the screenshot against the
  measurements, so there is nothing in the code to relate;
* two captures that write back one alias catalog (hazard at
  `projectWorkflowService.ts:73`): the loss is in the behaviours of `concurrent`,
  but nothing in the code promises that a concurrent alias is kept.

## 6. Plan

1. State and prove the safety halves of `EveryWriteSettles` (a write behind
   settled ones is never blocked) and `EveryCaptureEnds` (a capture only goes
   forward, bounded by its targets and locators).
2. Relate the check step of `VisualChangeWorkflow` to `ContractCheck` by a
   refinement, in place of the status taken as it comes.
3. Model the handoff's other mode and the coherence of its supplemental context.
