--------------------------- MODULE EvidenceCommands ---------------------------
(***************************************************************************)
(* The command line at work: processes, each running one command on the    *)
(* evidence directories they share.  A command reads its words, loads the  *)
(* files they name, reads the artifacts they point at, decides, and writes *)
(* at most one artifact: staged in a temporary directory beside its place  *)
(* and exposed by one rename.                                              *)
(*                                                                         *)
(* A directory is known by where it is: the segments of the output         *)
(* location and the artifact's id.  Ids are fresh, one per process, but    *)
(* for a contract, which is written under the id its author gave it.       *)
(***************************************************************************)
EXTENDS ObservationRequest, CommandSyntax

CONSTANTS
    Processes,
    Lines,       \* [process -> the lines a person may start it with]
    Files,       \* [word -> the file it names: what its root is, what it holds]
    Images,      \* [word -> the image it names: its width and height]
    Segments,    \* [word -> its segments], of the words that are not one name
    PathOf,      \* [word -> the artifact directory it names]
    Already      \* [place -> what earlier commands left there]

VARIABLES
    at,      \* [process -> the step it is about to take]
    job,     \* [process -> its words, the artifacts it has read, the one it
             \*  writes and where, the outcome it has to report, and what
             \*  kept it from writing]
    status,  \* [process -> its exit status]
    dirs,    \* [place -> the directory under its real name]
    temps    \* [place -> the temporary directory staged for it]
vars == <<at, job, status, dirs, temps>>

Running == -1      \* no exit status yet
Nowhere == << >>   \* no place yet
Idle == [line |-> <<>>, reading |-> Help, got |-> <<>>, artifact |-> Unset,
         place |-> Nowhere, outcome |-> Unset, trouble |-> "none"]

\* A directory is its files, by name: the manifest and, for the families that
\* have one, the image.
Owners == {"observation", "reference-imported"}
EmptyDir == << >>

-----------------------------------------------------------------------------
\* What the words said.
Command(j) == Head(j.line)
GivenTo(j, o) == j.reading.kept[o] # <<>>
ValueOf(j, o) == j.reading.kept[o][Len(j.reading.kept[o])]
Located(word) == IF word \in DOMAIN Segments THEN Segments[word] ELSE <<word>>
Output(j) == Located(ValueOf(j, "--output"))

\* Loading a file: it can be read as JSON, and its root is an object; for some
\* options the object must have exactly one field.
IsObject(word) == word \in DOMAIN Files /\ Files[word].root # "not-an-object"
HasOnly(word, field) == word \in DOMAIN Files /\ Files[word].root = field
loadTargetsFile(word) == HasOnly(word, "targets")
loadRegionsFile(word) == HasOnly(word, "regions")
loadRequirementsFile(word) == HasOnly(word, "requirements")
loadBindingsFile(word) == HasOnly(word, "bindings")
loadApplicabilityFile(word) == IsObject(word)
loadScrollScenarioFile(word) == IsObject(word)
loadStateFile(word) == IsObject(word)
loadComparisonConfigFile(word) == IsObject(word)
loadContractFile(word) == IsObject(word)

\* A context of a version the viewer does not read is shown as such; one of
\* its own version must be a valid one.
classifyContextFileContent(word) ==
    CASE Files[word].kind # "context"                                  -> "refused"
      [] Files[word].kind = "context" /\ Files[word].holds = "damaged" -> "refused"
      [] Files[word].kind = "context" /\ Files[word].holds = "older"   -> "unsupported-version"
      [] Files[word].kind = "context" /\ Files[word].holds = "current" -> "valid"
loadContextFile(word) == IsObject(word) /\ classifyContextFileContent(word) # "refused"

Loads(o, word) ==
    CASE o = "--targets-file" -> loadTargetsFile(word)
      [] o = "--regions-file" -> loadRegionsFile(word)
      [] o = "--requirements-file" -> loadRequirementsFile(word)
      [] o = "--bindings-file" -> loadBindingsFile(word)
      [] o = "--applicability-file" -> loadApplicabilityFile(word)
      [] o = "--scroll-scenario-file" -> loadScrollScenarioFile(word)
      [] o = "--state-file" -> loadStateFile(word)
      [] o = "--config-file" -> loadComparisonConfigFile(word)
      [] o = "--contract-file" -> loadContractFile(word)
      [] o = "--context-file" -> loadContextFile(word)
      [] OTHER -> TRUE

AllLoad(j) == \A o \in DOMAIN j.reading.kept :
                  GivenTo(j, o) => Loads(o, ValueOf(j, o))

\* What a loaded file holds for the option: a file written for something else
\* is, to the validators behind, an object with fields they do not know.
Held(j, o, kind) ==
    IF ~ GivenTo(j, o) THEN Unset
    ELSE IF Files[ValueOf(j, o)].kind = kind THEN Files[ValueOf(j, o)].holds
    ELSE Foreign

\* The request an observe line asks for.  It never says how to wait for the
\* page.
RawRequest(j) ==
    LET typed(o, meaning) == IF GivenTo(j, o) THEN meaning[ValueOf(j, o)] ELSE Unset
        named == j.reading.kept["--target"]
    IN  [targetUrl |-> ValueOf(j, "--url"),
         viewport |-> typed("--viewport", ViewportOf),
         targets |-> IF GivenTo(j, "--targets-file")
                     THEN Held(j, "--targets-file", "targets")
                     ELSE IF named = <<>> THEN Unset
                     ELSE [i \in DOMAIN named |-> TargetOf[named[i]]],
         outputLocation |-> IF GivenTo(j, "--output")
                            THEN Located(ValueOf(j, "--output")) ELSE Unset,
         timeoutMs |-> typed("--timeout", NumberOf),
         readiness |-> [condition |-> Unset, timeoutMs |-> Unset],
         scrollScenario |-> Held(j, "--scroll-scenario-file", "scroll"),
         explicitState |-> Held(j, "--state-file", "state")]

-----------------------------------------------------------------------------
\* Contracts: the file is the contract, and says of which class it is.
IsContract(j, class) ==
    LET c == Held(j, "--contract-file", "contract")
    IN  c # Foreign /\ c.class = class /\ c.sound

\* References: regions lie in the image under distinct names, requirements
\* speak of regions that are there and no two of the same subject.
MAX_REGIONS == 20
RegionsSound(regions, image) ==
    /\ regions # NotAList /\ Len(regions) <= MAX_REGIONS
    /\ \A i \in DOMAIN regions :
           LET r == regions[i]
           IN  /\ r.id \in WellFormedNames
               /\ r.x >= 0 /\ r.y >= 0 /\ r.width > 0 /\ r.height > 0
               /\ r.x + r.width <= image.width /\ r.y + r.height <= image.height
               /\ \A j \in DOMAIN regions :
                      LowerCase[r.id] = LowerCase[regions[j].id] => i = j

RequirementsSound(requirements, regions) ==
    /\ requirements # NotAList
    /\ \A i \in DOMAIN requirements :
           /\ requirements[i].sound
           /\ \A id \in requirements[i].regions : \E k \in DOMAIN regions :
                  LowerCase[regions[k].id] = LowerCase[id]
           /\ \A j \in DOMAIN requirements :
                  requirements[i].subject = requirements[j].subject => i = j

MAX_DIMENSION_PX == 8192
ImageSound(image) == {image.width, image.height} \subseteq 1..MAX_DIMENSION_PX

\* What an imported reference consists of, its identity; an approval carries
\* all of it over.
Content(j) ==
    [image |-> Images[j.reading.image],
     regions |-> Held(j, "--regions-file", "regions"),
     requirements |-> Held(j, "--requirements-file", "requirements"),
     applicability |-> Held(j, "--applicability-file", "applicability")]

SoundContent(c) ==
    /\ ImageSound(c.image)
    /\ c.regions # Unset => RegionsSound(c.regions, c.image)
    /\ c.requirements # Unset =>
           RequirementsSound(c.requirements, Given(c.regions, <<>>))
    /\ c.applicability # Unset => c.applicability = "valid"

Importable(j) == j.reading.image \in DOMAIN Images /\ SoundContent(Content(j))

-----------------------------------------------------------------------------
\* Artifacts.  `id` is fresh unless the author of a contract chose it.
Observation(id, request) == [family |-> "observation", id |-> id, request |-> request]
Comparison(id, before, after, tolerance) ==
    [family |-> "comparison", id |-> id, before |-> before.id, after |-> after.id,
     tolerance |-> tolerance]
Contract(c) ==
    [family |-> c.class, id |-> c.id, source |-> c.source]
Evaluation(id, got, verdict) ==
    [family |-> "evaluation", id |-> id, before |-> got[1].id, after |-> got[2].id,
     comparison |-> got[3].id, baseline |-> got[4].id, change |-> got[5].id,
     verdict |-> verdict]
Imported(id, content, supersedes) ==
    [family |-> "reference-imported", id |-> id, content |-> content,
     requestId |-> <<content, supersedes>>, supersedes |-> supersedes]
Approved(id, imported, supersedes) ==
    [family |-> "reference-approved", id |-> id, content |-> imported.content,
     requestId |-> imported.requestId, supersedes |-> supersedes,
     source |-> imported.id]
References == {"reference-imported", "reference-approved"}

\* The one gate of the writer and the readers of references: an import has no
\* source, an approval has one, and what either says of its image fits it.
SoundReference(a) ==
    /\ "source" \in DOMAIN a <=> a.family = "reference-approved"
    /\ SoundContent(a.content)

\* The artifacts a command reads, in the order it reads them: the option that
\* points at each, and the families its reader takes.
Read(o, families) == [option |-> o, families |-> families]
ReadsOf(command) ==
    CASE command = "compare" ->
             << Read("--before", {"observation"}), Read("--after", {"observation"}) >>
      [] command = "approve-baseline" -> << Read("--observation", {"observation"}) >>
      [] command = "evaluate-contract" ->
             << Read("--before", {"observation"}), Read("--after", {"observation"}),
                Read("--comparison", {"comparison"}),
                Read("--baseline", {"baseline"}), Read("--change", {"change"}) >>
      [] command = "import-reference" -> << Read("--supersedes", References) >>
      [] command = "approve-reference" ->
             << Read("--reference", References), Read("--supersedes", References) >>
      [] command = "evaluate-reference-fidelity" ->
             << Read("--reference", References), Read("--candidate", {"observation"}) >>
      [] OTHER -> << >>

\* An option that was not given is not read: nothing is superseded.
Manifest(word) == dirs[PathOf[word]].manifest
Readable(word, families) ==
    /\ word \in DOMAIN PathOf /\ PathOf[word] \in DOMAIN dirs
    /\ "manifest" \in DOMAIN dirs[PathOf[word]]
    /\ Manifest(word).family \in families
    /\ Manifest(word).family \in References => SoundReference(Manifest(word))

-----------------------------------------------------------------------------
Init ==
    /\ at = [p \in Processes |-> "idle"]
    /\ job = [p \in Processes |-> Idle]
    /\ status = [p \in Processes |-> Running]
    /\ dirs = Already
    /\ temps = << >>

Goto(p, step) == at' = [at EXCEPT ![p] = step]
Exit(p, code) ==
    /\ Goto(p, "exited")
    /\ status' = [status EXCEPT ![p] = code]

\* The words are read before anything else is.
Start(p) ==
    /\ at[p] = "idle"
    /\ \E line \in Lines[p] :
           LET reading == ParseLine(line)
           IN  /\ job' = [job EXCEPT ![p].line = line, ![p].reading = reading]
               /\ IF reading.answer = "accepted"
                  THEN Goto(p, "load") /\ UNCHANGED status
                  ELSE Exit(p, IF reading.answer = "help" THEN 0 ELSE 1)
    /\ UNCHANGED <<dirs, temps>>

\* What a command can tell to be wrong from its words and files alone.
SoundAlone(j) ==
    CASE Command(j) = "observe" -> Acceptable(RawRequest(j))
      [] Command(j) = "approve-baseline" -> IsContract(j, "baseline")
      [] Command(j) = "save-change-contract" -> IsContract(j, "change")
      [] Command(j) = "import-reference" -> Importable(j)
      [] Command(j) = "view" -> Held(j, "--bindings-file", "bindings") # NotAList
      [] OTHER -> TRUE

ProjectCommands == {"init", "capture", "check", "view"}

Load(p) ==
    /\ at[p] = "load"
    /\ IF ~ (AllLoad(job[p]) /\ SoundAlone(job[p])) THEN Exit(p, 1)
       ELSE /\ Goto(p, CASE Command(job[p]) = "observe" -> "capture"
                         [] Command(job[p]) \in ProjectCommands -> "project"
                         [] OTHER -> "read")
            /\ UNCHANGED status
    /\ UNCHANGED <<job, dirs, temps>>

\* What a project command comes to, and its exit status: a capture may be
\* kept and still count as failed, and a check has four answers.
StatusOf ==
    [outcome \in {"ok", "refused", "fatal", "PASS", "FAIL", "REVIEW_REQUIRED", "BLOCKED"} |->
        CASE outcome \in {"ok", "PASS"} -> 0
          [] outcome \in {"refused", "fatal", "FAIL"} -> 1
          [] outcome = "REVIEW_REQUIRED" -> 2
          [] outcome = "BLOCKED" -> 3]
ProjectOutcomes(command) ==
    CASE command \in {"init", "view"} -> {"ok", "refused"}
      [] command = "capture" -> {"ok", "refused", "fatal"}
      [] command = "check" -> {"PASS", "FAIL", "REVIEW_REQUIRED", "BLOCKED"}

Project(p) ==
    /\ at[p] = "project"
    /\ \E outcome \in ProjectOutcomes(Command(job[p])) :
           /\ job' = [job EXCEPT ![p].outcome = outcome]
           /\ Exit(p, StatusOf[outcome])
    /\ UNCHANGED <<dirs, temps>>

\* Artifacts are read one after the other.  Only an import can be approved.
Admits(j, manifest) ==
    Command(j) = "approve-reference" /\ j.got = <<>> =>
        manifest.family = "reference-imported"

ReadArtifact(p) ==
    /\ at[p] = "read"
    /\ LET j == job[p]
           reads == ReadsOf(Command(j))
           read == reads[Len(j.got) + 1]
           absent == ~ GivenTo(j, read.option)
           manifest == Manifest(ValueOf(j, read.option))
       IN  /\ Len(j.got) < Len(reads)
           /\ IF absent
              THEN /\ job' = [job EXCEPT ![p].got = Append(@, Unset)]
                   /\ UNCHANGED <<at, status>>
              ELSE IF /\ Readable(ValueOf(j, read.option), read.families)
                      /\ Admits(j, manifest)
              THEN /\ job' = [job EXCEPT ![p].got = Append(@, manifest)]
                   /\ UNCHANGED <<at, status>>
              ELSE Exit(p, 1) /\ UNCHANGED job
    /\ UNCHANGED <<dirs, temps>>

-----------------------------------------------------------------------------
\* With everything read, one decision, and an artifact to write if the output
\* location is a portable one and the writer accepts the artifact.
ToWrite(p, artifact, location, outcome) ==
    IF \/ ~ PortableLocation(location)
       \/ artifact.family \in References /\ ~ SoundReference(artifact)
    THEN Exit(p, 1) /\ UNCHANGED job
    ELSE /\ Goto(p, "look")
         /\ job' = [job EXCEPT
                ![p].artifact = artifact, ![p].outcome = outcome,
                ![p].place = <<CleanedLocation(location), artifact.id>>]
         /\ UNCHANGED status
Refuse(p) == Exit(p, 1) /\ UNCHANGED job

Deciding(p, command) ==
    /\ at[p] = "read" /\ Command(job[p]) = command
    /\ Len(job[p].got) = Len(ReadsOf(command))
    /\ UNCHANGED <<dirs, temps>>

\* The capture itself may fail; what it captured is kept however it ended.
Observe(p) ==
    /\ at[p] = "capture"
    /\ \/ Refuse(p)
       \/ \E completion \in {"complete", "partial", "fatal"} :
              LET request == Normalized(RawRequest(job[p]))
              IN  ToWrite(p, Observation(p, request), request.outputLocation, completion)
    /\ UNCHANGED <<dirs, temps>>

DEFAULT_TOLERANCE == 1   \* in half pixels
MAX_TOLERANCE == 20
\* A configuration names a tolerance in bounds; fields it does not know are
\* passed over.
ToleranceOf(j) ==
    LET config == Held(j, "--config-file", "comparison")
    IN  IF config \in {Unset, Foreign} THEN DEFAULT_TOLERANCE ELSE config

Compare(p) ==
    /\ Deciding(p, "compare")
    /\ LET j == job[p]
       IN  IF ToleranceOf(j) \in 0..MAX_TOLERANCE
           THEN ToWrite(p, Comparison(p, j.got[1], j.got[2], ToleranceOf(j)),
                        Output(j), "ok")
           ELSE Refuse(p)

\* A baseline is approved from the very observation it was written from.
MatchesObservation(contract, observation) ==
    contract.source = [id |-> observation.id, request |-> observation.request]

ApproveBaseline(p) ==
    /\ Deciding(p, "approve-baseline")
    /\ LET c == Held(job[p], "--contract-file", "contract")
       IN  IF MatchesObservation(c, job[p].got[1])
           THEN ToWrite(p, Contract(c), Output(job[p]), "ok")
           ELSE Refuse(p)

SaveChangeContract(p) ==
    /\ Deciding(p, "save-change-contract")
    /\ ToWrite(p, Contract(Held(job[p], "--contract-file", "contract")),
               Output(job[p]), "ok")

\* A mistake: the observation before the change is not asked about.
ComparesThoseAfter(got) == got[3].after = got[2].id
\* The comparison must be of the two observations given.  The baseline's own
\* observation is not asked about.
ComparesThose(got) == got[3].before = got[1].id /\ got[3].after = got[2].id

EvaluateContract(p) ==
    /\ Deciding(p, "evaluate-contract")
    /\ LET j == job[p]
       IN  IF ComparesThose(j.got)
           THEN \E verdict \in {"PASS", "FAIL"} :
                    ToWrite(p, Evaluation(p, j.got, verdict), Output(j), verdict)
           ELSE Refuse(p)

NameOf(artifact) == IF artifact = Unset THEN Unset ELSE artifact.id

ImportReference(p) ==
    /\ Deciding(p, "import-reference")
    /\ ToWrite(p, Imported(p, Content(job[p]), NameOf(job[p].got[1])),
               Output(job[p]), "ok")

ApproveReference(p) ==
    /\ Deciding(p, "approve-reference")
    /\ ToWrite(p, Approved(p, job[p].got[1], NameOf(job[p].got[2])),
               Output(job[p]), "ok")

\* Fidelity is judged and told, never kept.
EvaluateReferenceFidelity(p) ==
    /\ Deciding(p, "evaluate-reference-fidelity")
    /\ \/ Refuse(p)
       \/ \E state \in {"pass", "fail", "not-evaluated"} :
              /\ job' = [job EXCEPT ![p].outcome = state]
              /\ Exit(p, IF GivenTo(job[p], "--enforce") /\ state = "fail"
                         THEN 1 ELSE 0)

Decide(p) ==
    \/ Observe(p) \/ Compare(p) \/ ApproveBaseline(p) \/ SaveChangeContract(p)
    \/ EvaluateContract(p) \/ ImportReference(p) \/ ApproveReference(p)
    \/ EvaluateReferenceFidelity(p)

-----------------------------------------------------------------------------
\* Writing.  Every writer does the same: refuse a place that is taken, clear
\* and make the temporary directory beside it, fill it, rename it, and on any
\* failure remove it.  The steps of two processes may interleave.
Without(f, x) == Restrict(f, DOMAIN f \ {x})
With(f, x, value) == [y \in DOMAIN f \cup {x} |-> IF y = x THEN value ELSE f[y]]

Look(p) ==
    /\ at[p] = "look"
    /\ IF job[p].place \in DOMAIN dirs
       THEN /\ job' = [job EXCEPT ![p].trouble = "taken"]
            /\ Exit(p, 1)
       ELSE Goto(p, "clear") /\ UNCHANGED <<job, status>>
    /\ UNCHANGED <<dirs, temps>>

Clear(p) ==
    /\ at[p] = "clear"
    /\ temps' = Without(temps, job[p].place)
    /\ Goto(p, "make")
    /\ UNCHANGED <<job, status, dirs>>

\* Making a directory that is there already is no error.
Make(p) ==
    /\ at[p] = "make"
    /\ temps' = IF job[p].place \in DOMAIN temps THEN temps
                ELSE With(temps, job[p].place, EmptyDir)
    /\ Goto(p, IF job[p].artifact.family \in Owners THEN "media" ELSE "manifest")
    /\ UNCHANGED <<job, status, dirs>>

Fails(p) ==
    /\ Goto(p, "discard")
    /\ job' = [job EXCEPT ![p].trouble = "storage"]
    /\ UNCHANGED <<status, dirs, temps>>

WriteFile(p, file, value) ==
    IF job[p].place \in DOMAIN temps
    THEN /\ temps' = [temps EXCEPT ![job[p].place] = With(@, file, value)]
         /\ Goto(p, IF file = "media" THEN "manifest" ELSE "expose")
         /\ UNCHANGED <<job, status, dirs>>
    ELSE Fails(p)
WriteMedia(p) == at[p] = "media" /\ WriteFile(p, "media", job[p].artifact.id)
WriteManifest(p) == at[p] = "manifest" /\ WriteFile(p, "manifest", job[p].artifact)

\* A rename replaces an empty directory and fails on any other.
Expose(p) ==
    LET place == job[p].place
    IN  /\ at[p] = "expose"
        /\ IF /\ place \in DOMAIN temps
              /\ place \in DOMAIN dirs => dirs[place] = EmptyDir
           THEN /\ dirs' = With(dirs, place, temps[place])
                /\ temps' = Without(temps, place)
                /\ Goto(p, "report")
                /\ UNCHANGED <<job, status>>
           ELSE Fails(p)

StorageFails(p) ==
    at[p] \in {"clear", "make", "media", "manifest", "expose"} /\ Fails(p)

\* A mistake: what was staged stays after a failure.
LeaveStaged(p) ==
    /\ at[p] = "discard"
    /\ Exit(p, 1)
    /\ UNCHANGED <<job, dirs, temps>>
Discard(p) ==
    /\ at[p] = "discard"
    /\ temps' = Without(temps, job[p].place)
    /\ Exit(p, 1)
    /\ UNCHANGED <<job, dirs>>

\* The exit status is chosen after everything is kept.
Condemned(j) ==
    \/ Command(j) = "observe" /\ j.outcome = "fatal"
    \/ Command(j) = "evaluate-contract" /\ GivenTo(j, "--enforce") /\ j.outcome = "FAIL"

Report(p) ==
    /\ at[p] = "report"
    /\ Exit(p, IF Condemned(job[p]) THEN 1 ELSE 0)
    /\ UNCHANGED <<job, dirs, temps>>

\* The process is killed between any two steps.
Crash(p) ==
    /\ at[p] \notin {"idle", "exited", "crashed"}
    /\ Goto(p, "crashed")
    /\ UNCHANGED <<job, status, dirs, temps>>

Write(p) ==
    \/ Look(p) \/ Clear(p) \/ Make(p) \/ WriteMedia(p) \/ WriteManifest(p)
    \/ Expose(p) \/ StorageFails(p) \/ Discard(p) \/ Report(p)
Next == \E p \in Processes :
    Start(p) \/ Load(p) \/ Project(p) \/ ReadArtifact(p) \/ Decide(p) \/ Write(p)
    \/ Crash(p)
Spec == Init /\ [][Next]_vars

-----------------------------------------------------------------------------
Shared(place) == Cardinality({p \in Processes : job[p].place = place}) > 1
ManifestsOf(store) ==
    {store[place].manifest : place \in {x \in DOMAIN store : "manifest" \in DOMAIN store[x]}}
Left == ManifestsOf(dirs)

\* The one pass over the words finds what the words say: an option stands
\* where it is not the value of another, and a value is the word after its
\* option even if that word is an option too (cli.ts, the parse functions).
ReadAsWritten ==
    \A p \in Processes :
        /\ job[p].line # <<>>
        /\ Command(job[p]) \in DOMAIN OptionsOf
        /\ "--help" \notin Range(job[p].line)
        => SaysSo(Command(job[p]), Tail(job[p].line), job[p].reading)

\* What a process leaves agrees with the status it exits with, unless another
\* one wrote to the same place: 0 means that its artifact is where it said; 1
\* with the artifact in place means a fatal capture, an enforced FAIL or a
\* place that was taken, by the very contract it was to keep; once decided,
\* nothing but a taken place or the storage keeps an artifact from being
\* written; and no exit leaves anything staged (runCli, the writers).
StatusTellsOutcome ==
    \A p \in Processes :
        LET j == job[p]
            kept == /\ j.place \in DOMAIN dirs /\ "manifest" \in DOMAIN dirs[j.place]
                    /\ dirs[j.place].manifest = j.artifact
        IN  at[p] = "exited" /\ j.place # Nowhere /\ ~ Shared(j.place) =>
                /\ status[p] = 0 => kept
                /\ status[p] = 1 /\ kept => Condemned(j) \/ j.trouble = "taken"
                /\ ~ kept => j.trouble # "none"
                /\ j.place \notin DOMAIN temps

Whole(dir) ==
    /\ "manifest" \in DOMAIN dir
    /\ dir.manifest.family \in Owners =>
           "media" \in DOMAIN dir /\ dir.media = dir.manifest.id

Families == {"observation", "comparison", "baseline", "change", "evaluation"} \cup References
IsOne(left, family, id) == \E a \in left : a.family = family /\ a.id = id

\* What an artifact says of others is so, of artifacts that are left there.
Agrees(a, left) ==
    /\ a.family \in Families
    /\ a.family = "observation" => Coherent(a.request)
    /\ a.family = "comparison" =>
           \A id \in {a.before, a.after} : IsOne(left, "observation", id)
    /\ a.family = "baseline" =>
           \E o \in left : /\ o.family = "observation"
                           /\ a.source = [id |-> o.id, request |-> o.request]
    /\ a.family = "evaluation" =>
           /\ \E c \in left : /\ c.family = "comparison" /\ c.id = a.comparison
                              /\ <<c.before, c.after>> = <<a.before, a.after>>
           /\ IsOne(left, "baseline", a.baseline) /\ IsOne(left, "change", a.change)
    /\ a.family \in References /\ a.supersedes # Unset =>
           \E r \in left : r.family \in References /\ r.id = a.supersedes
    /\ a.family = "reference-approved" =>
           /\ SoundReference(a)
           /\ \E r \in left : /\ r.family = "reference-imported" /\ r.id = a.source
                              /\ <<r.content, r.requestId>> = <<a.content, a.requestId>>
Coheres(left) == \A a \in left : Agrees(a, left)

\* However the commands of several processes interleave and wherever they are
\* killed, an exposed directory is whole, unless two of them wrote to it, and
\* the artifacts form one consistent body of evidence: an evaluation speaks of
\* the observations its comparison compared, a baseline of the observation it
\* was approved from, an approval of an import with the same sound content, and
\* an observation of a request that holds together (the application services).
EvidenceCoheres ==
    /\ \A place \in DOMAIN dirs : ~ Shared(place) => Whole(dirs[place])
    /\ Coheres(Left)

\* What earlier commands left is such evidence; there are finitely many
\* processes, and locations and lines are sequences of strings.
ASSUME EarlierEvidenceCoheres ==
    /\ \A place \in DOMAIN Already : Whole(Already[place])
    /\ Coheres(ManifestsOf(Already))
ASSUME ProcessesAreFinite == IsFiniteSet(Processes)
ASSUME LocationsAreStrings == \A word \in DOMAIN Segments : Segments[word] \in Seq(STRING)
ASSUME LinesAreWords ==
    \A p \in Processes : \A line \in Lines[p] :
        line \in Seq(STRING) /\ NoWord \notin Range(line)
=============================================================================
