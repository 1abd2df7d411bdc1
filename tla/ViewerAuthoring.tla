--------------------------- MODULE ViewerAuthoring ---------------------------
(***************************************************************************)
(* The viewer's authoring writes: saving an annotation or a revision of    *)
(* one, promoting it into a change contract, starting a visual change from *)
(* it, materializing it into a reference, approving a reference.  Each     *)
(* reads the evidence root, decides, and persists artifacts through the    *)
(* same writer discipline: a temporary directory filled media first and    *)
(* manifest last, exposed by one rename.                                   *)
(*                                                                         *)
(* A viewer process (a session) runs its writes one after the other; two   *)
(* sessions of one project, and the command line, share nothing but the    *)
(* evidence root.                                                          *)
(***************************************************************************)
EXTENDS EvidenceArtifact, FiniteSets

CONSTANTS
    Session,          \* viewer processes opened on the project
    Ops,              \* the requests they send
    Faults,           \* what may go wrong: "writer", "cleanup", "throw", "crash"
    MaxIndex,         \* MAX_INDEX_RECORDS: manifests one pass classifies
    Configured,       \* the project configures acceptance.contract
    MaxWrites,        \* bound: authoring requests
    MaxDirs           \* bound: the command line captures up to this many directories

ASSUME BoundsAreNumbers == MaxIndex \in Nat /\ MaxWrites \in Nat /\ MaxDirs \in Nat
ASSUME ConfiguredIsBoolean == Configured \in BOOLEAN

VARIABLES
    dirs,       \* the artifact directories ever made, in that order
    selected,   \* acceptance.contract.changeArtifact (Nobody: the one set up by hand)
    writes      \* the authoring requests, in the order they arrived

vars == << dirs, selected, writes >>

Settled == {"answered", "threw", "dead"}
Step == {"queued", "create", "write", "cleanup", "activate"} \cup Settled

Directory == [art : Artifact, place : {"temp", "final", "gone"},
              media : BOOLEAN, manifest : BOOLEAN]

\* A request names its `target` and, for a revision, the parent annotation or,
\* for a reference visual change, the annotation behind it (`other`).  The
\* rest are the handler's locals: the artifact it is about to persist, that
\* artifact's directory, and the contract it has persisted before.
Write == [session : Session, op : Ops, target : Nat, other : Nat,
          activate : BOOLEAN, step : Step, draft : Artifact, dir : Nat]

Init == /\ dirs = [i \in DOMAIN AlreadyThere |->
                      [art |-> AlreadyThere[i], place |-> "final",
                       media |-> TRUE, manifest |-> TRUE]]
        /\ selected = Nobody
        /\ writes = << >>

-----------------------------------------------------------------------------
(* Discovery and the index                                                 *)

\* A walk that does not know the writers' temporary directories.
ListedWithTemporaries == {i \in DOMAIN dirs : dirs[i].place # "gone" /\ dirs[i].manifest}

\* A walk of the evidence root finds every manifest.json but those in a
\* writer's `.tmp-` directory.
Listed == {i \in DOMAIN dirs : dirs[i].place = "final" /\ dirs[i].manifest}

log == [i \in Listed |-> dirs[i].art]

\* Of a root with more manifests than it classifies, one pass sees only the
\* first of them by name.  Names are random, so any of them may be the first.
Truncated == Cardinality(Listed) > MaxIndex
Passes == IF Truncated THEN {seen \in SUBSET Listed : Cardinality(seen) = MaxIndex}
                       ELSE {Listed}

\* An identity is resolved when a pass sees the artifact that carries it.
Resolves(i) == \E seen \in Passes : i \in seen

\* A scan that answers from what it saw, however much there is.
ChildFreeAsFarAsSeen(parent) ==
    \E seen \in Passes :
        \A i \in seen : ~ ( /\ log[i].family = "visual-annotation"
                            /\ log[i].supersedes = parent )

\* The stale-revision scan: no annotation the pass sees supersedes the parent,
\* and the pass saw them all.
ChildFree(parent) ==
    \E seen \in Passes :
        /\ ~ Truncated
        /\ \A i \in seen : ~ ( /\ log[i].family = "visual-annotation"
                               /\ log[i].supersedes = parent )

\* Evidence that was annotated, when it can be found again.
AnnotatedSource(annotation, families) ==
    /\ Has(log, annotation, {"visual-annotation"})
    /\ Has(log, log[annotation].from, families)
    /\ Resolves(log[annotation].from)

-----------------------------------------------------------------------------
(* Requests                                                                *)

Request(s, op, target, other, activate) ==
    [session |-> s, op |-> op, target |-> target, other |-> other,
     activate |-> activate, step |-> "queued", draft |-> Captured, dir |-> Nobody]

\* A request names evidence the page has listed, and waits in its session's
\* queue.  A session that died takes none.
Submit(s) ==
    /\ Len(writes) < MaxWrites
    /\ \A n \in DOMAIN writes : writes[n].session = s => writes[n].step # "dead"
    /\ \E op \in Ops, target \in Listed, other \in Listed \cup {Nobody},
          activate \in BOOLEAN :
         /\ activate => op = "promote"
         /\ other # Nobody => op \in {"save", "start-reference"}
         /\ writes' = Append(writes, Request(s, op, target, other, activate))
    /\ UNCHANGED << dirs, selected >>

\* Writes that do not wait for each other.
MyTurnUnqueued(n) == writes[n].step = "queued"

\* `previous.then(write)`: a write after one that was rejected never runs.
MyTurnAfterSuccess(n) ==
    /\ writes[n].step = "queued"
    /\ \A m \in 1 .. n - 1 :
          writes[m].session = writes[n].session
              => writes[m].step \in {"answered", "dead"}

\* `previous.then(write, write)`: a write runs when the one before it in its
\* session has settled, well or not.
MyTurn(n) ==
    /\ writes[n].step = "queued"
    /\ \A m \in 1 .. n - 1 :
          writes[m].session = writes[n].session => writes[m].step \in Settled

\* A handler that is done has no locals any more.
Done(w, step) == [Request(w.session, w.op, Nobody, Nobody, FALSE) EXCEPT !.step = step]

\* The checks let the write through; it will persist `artifact`.
Persist(n, artifact) ==
    /\ writes' = [writes EXCEPT ![n].step = "create", ![n].draft = artifact]
    /\ UNCHANGED << dirs, selected >>

Save(n) ==
    /\ MyTurn(n) /\ writes[n].op = "save"
    /\ LET source == writes[n].target
           parent == writes[n].other
       IN /\ Has(log, source, Sources)
          /\ parent # Nobody => /\ Has(log, parent, {"visual-annotation"})
                                /\ log[parent].from = source
                                /\ ChildFree(parent)
          /\ Persist(n, Made("visual-annotation", source, Nobody, parent))

Promote(n) ==
    /\ MyTurn(n) /\ writes[n].op = "promote"
    /\ AnnotatedSource(writes[n].target, {"observation"})
    /\ Persist(n, Made("change-contract", writes[n].target, Nobody, Nobody))

\* The start of an actual-frontend visual change persists a contract first,
\* and only next to a configured baseline contract.
StartActual(n) ==
    /\ MyTurn(n) /\ writes[n].op = "start"
    /\ Configured
    /\ AnnotatedSource(writes[n].target, {"observation"})
    /\ Persist(n, Made("change-contract", writes[n].target, Nobody, Nobody))

StartReference(n) ==
    /\ MyTurn(n) /\ writes[n].op = "start-reference"
    /\ LET reference == writes[n].target
           annotation == writes[n].other
       IN /\ Has(log, reference, {"external-reference-approved"})
          /\ AnnotatedSource(annotation, {"external-reference-approved"})
          /\ log[annotation].from = reference
          /\ Persist(n, Made("visual-change-workflow", annotation, reference, Nobody))

\* The image of an approved reference is owned by the imported one behind it.
Materialize(n) ==
    /\ MyTurn(n) /\ writes[n].op = "materialize"
    /\ AnnotatedSource(writes[n].target, References)
    /\ LET source == log[writes[n].target].from
       IN /\ log[source].family = "external-reference-approved"
                => Resolves(log[source].from)
          /\ Persist(n, Made("external-reference-imported", Nobody, Nobody, source))

Approve(n) ==
    /\ MyTurn(n) /\ writes[n].op = "approve"
    /\ LET imported == writes[n].target
       IN /\ Has(log, imported, {"external-reference-imported"})
          /\ log[imported].supersedes # Nobody => Resolves(log[imported].supersedes)
          /\ Persist(n, Made("external-reference-approved", imported, Nobody,
                             log[imported].supersedes))

\* Every handler also refuses what this model does not tell apart: items that
\* are not promotable, a configuration or a catalog that does not fit, media
\* that is gone.
Refuse(n) ==
    /\ MyTurn(n)
    /\ writes' = [writes EXCEPT ![n] = Done(@, "answered")]
    /\ UNCHANGED << dirs, selected >>

\* An exception outside the writers rejects the handler's promise.
Throw(n) ==
    /\ "throw" \in Faults /\ MyTurn(n)
    /\ writes' = [writes EXCEPT ![n] = Done(@, "threw")]
    /\ UNCHANGED << dirs, selected >>

-----------------------------------------------------------------------------
(* The writers                                                             *)

\* Media the writer stores beside the manifest: an annotation's overlay, an
\* imported reference's image, the bindings of a reference workflow.
OwnsMedia(art) ==
    \/ art.family \in {"visual-annotation", "external-reference-imported"}
    \/ /\ art.family = "visual-change-workflow"
       /\ dirs[art.target].art.family = "external-reference-approved"

MakeTemp(n) ==
    /\ writes[n].step = "create"
    /\ dirs' = Append(dirs, [art |-> writes[n].draft, place |-> "temp",
                             media |-> FALSE, manifest |-> FALSE])
    /\ writes' = [writes EXCEPT ![n].step = "write", ![n].dir = Len(dirs) + 1]
    /\ UNCHANGED selected

WriteMedia(n) ==
    /\ writes[n].step = "write"
    /\ LET d == writes[n].dir
       IN /\ OwnsMedia(dirs[d].art) /\ ~ dirs[d].media
          /\ dirs' = [dirs EXCEPT ![d].media = TRUE]
    /\ UNCHANGED << selected, writes >>

WriteManifest(n) ==
    /\ writes[n].step = "write"
    /\ LET d == writes[n].dir
       IN /\ OwnsMedia(dirs[d].art) => dirs[d].media
          /\ ~ dirs[d].manifest
          /\ dirs' = [dirs EXCEPT ![d].manifest = TRUE]
    /\ UNCHANGED << selected, writes >>

\* What is left to do once the directory `d` has its name.
AfterPublishing(w) ==
    CASE w.op = "start" /\ w.draft.family = "change-contract" ->
             [w EXCEPT !.step = "create", !.dir = Nobody,
                       !.draft = Made("visual-change-workflow", w.target, w.dir, Nobody)]
      [] w.op = "promote" /\ w.activate -> [w EXCEPT !.step = "activate"]
      [] OTHER -> Done(w, "answered")

Publish(n) ==
    /\ writes[n].step = "write"
    /\ dirs[writes[n].dir].manifest
    /\ dirs' = [dirs EXCEPT ![writes[n].dir].place = "final"]
    /\ writes' = [writes EXCEPT ![n] = AfterPublishing(@)]
    /\ UNCHANGED selected

\* A promotion that goes on to activation although the writer failed.
WriterFailsYetSelects(n) ==
    /\ "writer" \in Faults
    /\ writes[n].step = "write"
    /\ writes' = [writes EXCEPT ![n].step =
                     IF writes[n].activate THEN "activate" ELSE "cleanup"]
    /\ UNCHANGED << dirs, selected >>

\* A writer that fails removes its temporary directory, file by file, and
\* answers the failure even when that fails too.  What was published before
\* stays.
WriterFails(n) ==
    /\ "writer" \in Faults
    /\ \/ /\ writes[n].step = "create"
          /\ writes' = [writes EXCEPT ![n] = Done(@, "answered")]
       \/ /\ writes[n].step = "write"
          /\ writes' = [writes EXCEPT ![n].step = "cleanup"]
    /\ UNCHANGED << dirs, selected >>

RemoveFile(n) ==
    /\ writes[n].step = "cleanup"
    /\ LET d == writes[n].dir
       IN \/ dirs[d].media /\ dirs' = [dirs EXCEPT ![d].media = FALSE]
          \/ dirs[d].manifest /\ dirs' = [dirs EXCEPT ![d].manifest = FALSE]
    /\ UNCHANGED << selected, writes >>

RemoveTemp(n) ==
    /\ writes[n].step = "cleanup"
    /\ LET d == writes[n].dir
       IN /\ ~ dirs[d].media /\ ~ dirs[d].manifest
          /\ dirs' = [dirs EXCEPT ![d].place = "gone"]
    /\ writes' = [writes EXCEPT ![n] = Done(@, "answered")]
    /\ UNCHANGED selected

CleanupFails(n) ==
    /\ "cleanup" \in Faults
    /\ writes[n].step = "cleanup"
    /\ writes' = [writes EXCEPT ![n] = Done(@, "answered")]
    /\ UNCHANGED << dirs, selected >>

\* Activation selects the persisted contract where the project configures
\* contract acceptance, and answers 'not-configured' or 'failed' otherwise;
\* the contract stays either way.
SelectContract(n) ==
    /\ writes[n].step = "activate"
    /\ \/ Configured /\ selected' = writes[n].dir
       \/ (~ Configured \/ "writer" \in Faults) /\ UNCHANGED selected
    /\ writes' = [writes EXCEPT ![n] = Done(@, "answered")]
    /\ UNCHANGED dirs

-----------------------------------------------------------------------------
(* The rest of the project                                                 *)

\* The command line adds an observation, through the same kind of writer.
CommandLineCapture ==
    /\ Len(dirs) < MaxDirs
    /\ dirs' = Append(dirs, [art |-> Captured, place |-> "final",
                             media |-> TRUE, manifest |-> TRUE])
    /\ UNCHANGED << selected, writes >>

\* The process dies between two steps: nothing of its writes is undone.
Crash(s) ==
    /\ "crash" \in Faults
    /\ \E n \in DOMAIN writes : writes[n].session = s /\ writes[n].step \notin Settled
    /\ writes' = [n \in DOMAIN writes |->
                     IF writes[n].session = s /\ writes[n].step \notin Settled
                     THEN Done(writes[n], "dead") ELSE writes[n]]
    /\ UNCHANGED << dirs, selected >>

Decide(n) == \/ Save(n) \/ Promote(n) \/ StartActual(n) \/ StartReference(n)
             \/ Materialize(n) \/ Approve(n) \/ Refuse(n) \/ Throw(n)
WriterStep(n) == \/ MakeTemp(n) \/ WriteMedia(n) \/ WriteManifest(n) \/ Publish(n)
                 \/ WriterFails(n) \/ RemoveFile(n) \/ RemoveTemp(n) \/ CleanupFails(n)
Proceed(n) == Decide(n) \/ WriterStep(n) \/ SelectContract(n)

Next == \/ \E s \in Session : Submit(s) \/ Crash(s)
        \/ \E n \in DOMAIN writes : Proceed(n)
        \/ CommandLineCapture

Spec == Init /\ [][Next]_vars

\* The event loop keeps running a write until it settles.
Fairness == \A n \in 1 .. MaxWrites : WF_vars(n \in DOMAIN writes /\ Proceed(n))
FairSpec == Spec /\ Fairness

-----------------------------------------------------------------------------
(* Properties                                                              *)

TypeOK == /\ dirs \in Seq(Directory)
          /\ selected \in Nat
          /\ writes \in Seq(Write)

Running(w) == w.step \in {"create", "write", "cleanup", "activate"}

\* A write leaves its queue only after those before it in its session settled,
\* so one write of a session at a time is past its checks.
QueueOrder ==
    \A m, n \in DOMAIN writes :
        /\ m < n /\ writes[m].session = writes[n].session
        /\ writes[n].step # "queued"
        => writes[m].step \in Settled

OneRunning ==
    \A m, n \in DOMAIN writes :
        /\ writes[m].session = writes[n].session
        /\ Running(writes[m]) /\ Running(writes[n])
        => m = n

\* A write that is filling or clearing a directory has it to itself, and
\* nobody has found it yet.
OwnDirectory ==
    \A n \in DOMAIN writes :
        writes[n].step \in {"write", "cleanup"} =>
            /\ writes[n].dir \in DOMAIN dirs
            /\ dirs[writes[n].dir].place = "temp"
            /\ dirs[writes[n].dir].art = writes[n].draft
            /\ \A m \in DOMAIN writes :
                  writes[m].step \in {"write", "cleanup"} /\ writes[m].dir = writes[n].dir
                      => m = n

\* What a write is about to persist rests on artifacts that are listed, and is
\* what its request asked for.
DraftRests(w) ==
    Running(w) =>
        /\ Rests(log, w.draft)
        /\ w.op = "promote" => w.draft.family = "change-contract"
        /\ w.op = "start" /\ w.draft.family = "change-contract" => w.draft.from = w.target

\* A promotion is activated after its contract has been published.
ActivatesPublished(w) == w.step = "activate" => Has(log, w.dir, {"change-contract"})

\* A directory being filled gets its manifest last.
FilledInOrder(w) ==
    w.step = "write" /\ dirs[w.dir].manifest
        => (OwnsMedia(dirs[w.dir].art) => dirs[w.dir].media)

\* The goal of a workflow has a directory, so what media it owns never changes.
GoalsExist ==
    \A i \in DOMAIN dirs :
        dirs[i].art.family = "visual-change-workflow" => dirs[i].art.target \in DOMAIN dirs

\* Whatever fails, is cleaned up half-way or is left by a crash, an artifact
\* that discovery lists has all the files its manifest speaks of
\* (discoverManifests against the writers' clean-up).
ListedComplete ==
    \A i \in Listed : OwnsMedia(dirs[i].art) => dirs[i].media

\* The change contract a promotion selects for `check` is one that was
\* persisted (performPromotion).
SelectedContractListed ==
    selected = Nobody \/ Has(log, selected, {"change-contract"})

\* Whatever discovery lists rests on listed evidence, but for the reference
\* that was imported before.
ListedRests == \A i \in Listed : Rests(log, log[i]) \/ log[i] = AlreadyThere[2]

\* The queue and the writers keep their books: state is well-formed, a write
\* waits for those before it in its session, no two writers share a temporary
\* directory, each fills its own in order, and what is about to be persisted
\* or has been persisted rests on listed evidence
\* (runSerializedAuthoringWrite, write*Artifact).
IInv ==
    /\ TypeOK
    /\ QueueOrder
    /\ OwnDirectory
    /\ GoalsExist
    /\ \A n \in DOMAIN writes :
          DraftRests(writes[n]) /\ ActivatesPublished(writes[n]) /\ FilledInOrder(writes[n])
    /\ ListedRests
    /\ ListedComplete
    /\ SelectedContractListed

\* With one viewer on the project the evidence root is a log of whole,
\* grounded artifacts in which the revisions of an annotation form a line.
Evidence == INSTANCE EvidenceLog WITH log <- log
LogSpec == Evidence!Spec

\* Every authoring request is answered or dies with its process, whatever the
\* requests queued before it did (`previous.then(write, write)`).
EveryWriteSettles ==
    \A n \in 1 .. MaxWrites :
        n \in DOMAIN writes ~> n \in DOMAIN writes /\ writes[n].step \in Settled
=============================================================================
