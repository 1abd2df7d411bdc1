----------------------- MODULE EvidenceCommands_proofs -----------------------
(***************************************************************************)
(* What commands sharing one store guarantee, for any number of processes, *)
(* any lines and files, any interleaving and any crash.                    *)
(***************************************************************************)
EXTENDS EvidenceCommands, FiniteSetTheorems, WellFoundedInduction, TLAPS

-----------------------------------------------------------------------------
(* Induction over the naturals, as a fact about sets of them.              *)

LEMMA NatMin ==
    ASSUME NEW T \in SUBSET Nat, T # {}
    PROVE  \E x \in T : \A y \in T : x <= y
<1>1. PICK x \in T : \A y \in T : ~ (<<y, x>> \in OpToRel(<, Nat))
  BY NatLessThanWellFounded, WFMin
<1>2. \A y \in T : ~ (y < x)
  BY <1>1 DEF OpToRel
<1> QED BY <1>2

\* Induction over the numbers, as a fact about sets.
LEMMA NatSetInduction ==
    ASSUME NEW T, 0 \in T, \A n \in Nat : n \in T => n + 1 \in T
    PROVE  Nat \subseteq T
<1> DEFINE M == {n \in Nat : n \notin T}
<1>1. CASE M = {}
  BY <1>1
<1>2. CASE M # {}
  <2>1. PICK x \in M : \A y \in M : x <= y
    BY <1>2, NatMin
  <2> QED BY <2>1
<1> QED BY <1>1, <1>2

-----------------------------------------------------------------------------
(* Requests                                                                *)

(* A cleaned location consists of the segments that lead somewhere.        *)
LEMMA CleanedIsClean ==
    ASSUME NEW S, NEW s \in Seq(S)
    PROVE  CleanedLocation(s) \in Seq({x \in S : x \notin {"", "."}})
<1> DEFINE C == {x \in S : x \notin {"", "."}}
           Next1(v, i) == IF s[i] \in {"", "."} THEN v ELSE Append(v, s[i])
           Eq(g, n) == g = [i \in 0..n |-> IF i = 0 THEN << >> ELSE Next1(g[i - 1], i)]
<1>1. Len(s) \in Nat /\ \A i \in 1..Len(s) : s[i] \in S
  OBVIOUS
<1>2. \A n \in Nat : \E g : Eq(g, n)
  <2> DEFINE T == {n \in Nat : \E g : Eq(g, n)}
  <2>1. 0 \in T
    <3>1. Eq([i \in 0..0 |-> << >>], 0)
      OBVIOUS
    <3> QED BY <3>1
  <2>2. \A n \in Nat : n \in T => n + 1 \in T
    <3> SUFFICES ASSUME NEW n \in Nat, n \in T PROVE n + 1 \in T
      OBVIOUS
    <3>1. PICK g : Eq(g, n)
      OBVIOUS
    <3> DEFINE h == [i \in 0..(n + 1) |-> IF i <= n THEN g[i] ELSE Next1(g[n], n + 1)]
    <3> HIDE DEF Next1
    <3>2. \A i \in 0..n : g[i] = IF i = 0 THEN << >> ELSE Next1(g[i - 1], i)
      BY <3>1
    <3>3. \A i \in 0..(n + 1) : h[i] = IF i = 0 THEN << >> ELSE Next1(h[i - 1], i)
      <4> SUFFICES ASSUME NEW i \in 0..(n + 1)
                   PROVE  h[i] = IF i = 0 THEN << >> ELSE Next1(h[i - 1], i)
        OBVIOUS
      <4>1. CASE i = 0
        BY <4>1, <3>2
      <4>2. CASE i # 0 /\ i <= n
        BY <4>2, <3>2
      <4>3. CASE i = n + 1
        BY <4>3
      <4> QED BY <4>1, <4>2, <4>3
    <3>4. Eq(h, n + 1)
      BY <3>3
    <3>5. \E k : Eq(k, n + 1)
      <4> HIDE DEF h, Eq
      <4> QED BY <3>4
    <3> QED BY <3>5
  <2>3. Nat \subseteq T
    <3> HIDE DEF T
    <3> QED BY <2>1, <2>2, NatSetInduction
  <2> QED BY <2>3
<1> DEFINE upto == CHOOSE g : Eq(g, Len(s))
<1>3. CleanedLocation(s) = upto[Len(s)]
  BY DEF CleanedLocation
<1>4. Eq(upto, Len(s))
  BY <1>1, <1>2
<1>5. \A i \in 0..Len(s) : upto[i] = IF i = 0 THEN << >> ELSE Next1(upto[i - 1], i)
  <2> HIDE DEF upto, Next1
  <2> QED BY <1>4
<1> HIDE DEF upto
<1>6. \A v \in Seq(C) : \A i \in 1..Len(s) : Next1(v, i) \in Seq(C)
  <2> SUFFICES ASSUME NEW v \in Seq(C), NEW i \in 1..Len(s) PROVE Next1(v, i) \in Seq(C)
    BY Zenon
  <2>1. s[i] \in {"", "."} \/ s[i] \in C
    BY <1>1
  <2> HIDE DEF C
  <2>2. CASE s[i] \in {"", "."}
    BY <2>2
  <2>3. CASE s[i] \notin {"", "."} /\ s[i] \in C
    <3>1. \A c \in C : Append(v, c) \in Seq(C)
      OBVIOUS
    <3>2. Append(v, s[i]) \in Seq(C)
      BY <2>3, <3>1, Zenon
    <3> QED BY <2>3, <3>2, Zenon
  <2> QED BY <2>1, <2>2, <2>3
<1>7. upto[0] \in Seq(C)
  <2> HIDE DEF C, Next1
  <2>1. upto[0] = << >>
    BY <1>1, <1>5
  <2> QED BY <2>1
<1> HIDE DEF C, Next1
<1>8. \A n \in Nat : n <= Len(s) => upto[n] \in Seq(C)
  <2> DEFINE T == {n \in Nat : n <= Len(s) => upto[n] \in Seq(C)}
  <2>1. 0 \in T
    BY <1>7
  <2>2. \A n \in Nat : n \in T => n + 1 \in T
    <3> SUFFICES ASSUME NEW n \in Nat, n \in T, n + 1 <= Len(s)
                 PROVE  upto[n + 1] \in Seq(C)
      BY <1>1
    <3>1. upto[n] \in Seq(C)
      BY <1>1
    <3>2. upto[n + 1] = Next1(upto[n], n + 1)
      BY <1>1, <1>5
    <3> QED BY <1>1, <1>6, <3>1, <3>2
  <2>3. Nat \subseteq T
    <3> HIDE DEF T
    <3> QED BY <2>1, <2>2, NatSetInduction
  <2> QED BY <2>3
<1>9. upto[Len(s)] \in Seq(C)
  BY <1>1, <1>8
<1> QED BY <1>3, <1>9 DEF C

(* What the gate lets through holds together once normalized: the rules    *)
(* normalizeRequest applies to the raw request are enough.                 *)
LEMMA AcceptedIsCoherent ==
    ASSUME NEW raw, Acceptable(raw), NEW S,
           raw.outputLocation # Unset => raw.outputLocation \in Seq(S)
    PROVE  Coherent(Normalized(raw))
<1> DEFINE n == Normalized(raw)
<1>1. n.readiness.timeoutMs <= n.timeoutMs
  <2>1. n.readiness.timeoutMs = ReadinessTimeoutOf(raw) /\ n.timeoutMs = TimeoutOf(raw)
    BY DEF Normalized
  <2>2. TimeoutOf(raw) \in Int
    <3>1. TimeoutOf(raw) \in TIMEOUT_MIN_MS..TIMEOUT_MAX_MS
      BY DEF Acceptable
    <3>2. TIMEOUT_MIN_MS \in Int /\ TIMEOUT_MAX_MS \in Int
      BY DEF TIMEOUT_MIN_MS, TIMEOUT_MAX_MS
    <3>3. \A t \in TIMEOUT_MIN_MS..TIMEOUT_MAX_MS : t \in Int
      BY <3>2
    <3> QED BY <3>1, <3>3, Zenon
  <2>3. CASE raw.readiness.timeoutMs = Unset
    <3>1. ReadinessTimeoutOf(raw) = AtMost(10000, TimeoutOf(raw))
      BY <2>3 DEF ReadinessTimeoutOf, Given, DEFAULT_READINESS_TIMEOUT_MS
    <3> QED BY <2>1, <2>2, <3>1 DEF AtMost
  <2>4. CASE raw.readiness.timeoutMs # Unset
    <3>1. ReadinessTimeoutOf(raw) = raw.readiness.timeoutMs
      BY <2>4 DEF ReadinessTimeoutOf, Given
    <3>2. raw.readiness.timeoutMs \in 500..TimeoutOf(raw)
      BY <2>4 DEF Acceptable, READINESS_TIMEOUT_MIN_MS
    <3> QED BY <2>1, <2>2, <3>1, <3>2
  <2> QED BY <2>3, <2>4
<1>2. /\ DOMAIN n.targets = DOMAIN TargetsOf(raw)
      /\ \A i \in DOMAIN TargetsOf(raw) : n.targets[i].name = TargetsOf(raw)[i].name
  BY DEF Normalized
<1>3. DistinctNames(n.targets)
  BY <1>2 DEF DistinctNames, Acceptable, TargetsSound
<1>4. n.scrollScenario # Unset =>
          n.scrollScenario.target = Unset \/ NamesTarget(n.targets, n.scrollScenario.target)
  <2>1. n.scrollScenario = raw.scrollScenario
    BY DEF Normalized
  <2> QED BY <1>2, <2>1 DEF Acceptable, ScrollSound, NamesTarget
<1>5. \A i \in DOMAIN n.outputLocation : n.outputLocation[i] \notin {"", ".", ".."}
  <2> DEFINE from == Given(raw.outputLocation, DEFAULT_OUTPUT_LOCATION)
             R == {x \in S \cup {"observations"} : x # ".."}
  <2>1. n.outputLocation = CleanedLocation(from)
    BY DEF Normalized
  <2>2. from \in Seq(R)
    <3>1. CASE raw.outputLocation = Unset
      BY <3>1 DEF Given, DEFAULT_OUTPUT_LOCATION
    <3>2. CASE raw.outputLocation # Unset
      <4>1. from = raw.outputLocation /\ from \in Seq(S)
        BY <3>2 DEF Given
      <4>2. \A i \in DOMAIN from : from[i] # ".."
        BY <3>2, <4>1 DEF Acceptable, PortableLocation
      <4>3. from = [i \in 1..Len(from) |-> from[i]] /\ Len(from) \in Nat /\ DOMAIN from = 1..Len(from)
            /\ \A i \in 1..Len(from) : from[i] \in S
        BY <4>1
      <4>4. \A i \in 1..Len(from) : from[i] \in R
        BY <4>2, <4>3
      <4> HIDE DEF from
      <4> QED BY <4>3, <4>4
    <3> QED BY <3>1, <3>2
  <2> HIDE DEF from
  <2> DEFINE Q == {x \in R : x \notin {"", "."}}
  <2>3. CleanedLocation(from) \in Seq(Q)
    BY <2>2, CleanedIsClean
  <2>4. \A x \in Q : x \notin {"", ".", ".."}
    OBVIOUS
  <2> HIDE DEF Q
  <2>5. DOMAIN CleanedLocation(from) = 1..Len(CleanedLocation(from))
        /\ \A i \in 1..Len(CleanedLocation(from)) : CleanedLocation(from)[i] \in Q
    BY <2>3
  <2> QED BY <2>1, <2>4, <2>5
<1> QED BY <1>1, <1>3, <1>4, <1>5 DEF Coherent

-----------------------------------------------------------------------------
(* The inductive invariant                                                 *)

Steps == {"idle", "load", "capture", "project", "read", "look", "clear", "make", "media",
          "manifest", "expose", "discard", "report", "exited", "crashed"}
Before == {"idle", "load", "capture", "project", "read"}
Writing == {"look", "clear", "make", "media", "manifest", "expose", "discard", "report"}

IsJob(j) == j = [line |-> j.line, reading |-> j.reading, got |-> j.got, artifact |-> j.artifact,
                 place |-> j.place, outcome |-> j.outcome, trouble |-> j.trouble]
WellFormedState ==
    /\ at \in [Processes -> Steps]
    /\ job = [p \in Processes |-> job[p]] /\ \A p \in Processes : IsJob(job[p])
    /\ status \in [Processes -> Int]

\* What has been understood of the line, before there is a place to write to.
Asked(step, j) ==
    /\ step \in Before => j.place = Nowhere
    /\ step \in {"idle", "load"} => j.got = << >>
    /\ step \in {"load", "capture", "project", "read"} =>
           j.reading = ParseLine(j.line) /\ j.reading.answer = "accepted"
    /\ step = "load" => j.line # << >> /\ Command(j) \in Commands
    /\ step = "capture" => SoundAlone(j) /\ Command(j) = "observe"
    /\ step = "project" => Command(j) \in ProjectCommands
    /\ step = "read" => /\ SoundAlone(j)
                        /\ Command(j) \in Commands \ (ProjectCommands \cup {"observe"})

\* What was read is there, and of the families that were asked for.
Got(j, read, got, first, left) ==
    IF ~ GivenTo(j, read.option) THEN got = Unset
    ELSE /\ got \in left /\ got.family \in read.families
         /\ got.family \in References => SoundReference(got)
         /\ Command(j) = "approve-reference" /\ first => got.family = "reference-imported"
Gathered(step, j, left) ==
    step = "read" =>
        /\ j.got \in Seq(left \cup {Unset})
        /\ \A i \in 1..Len(j.got) : Got(j, ReadsOf(Command(j))[i], j.got[i], i = 1, left)

\* What is being written is evidence.
Committed(step, j, left) ==
    step \in Writing => Agrees(j.artifact, left) /\ j.place # Nowhere

\* Two processes write to the same place.
Contested(place) ==
    place # Nowhere /\ \E p, q \in Processes : p # q /\ job[p].place = place /\ job[q].place = place

HasManifest(store, place, artifact) ==
    place \in DOMAIN store /\ "manifest" \in DOMAIN store[place] /\ store[place].manifest = artifact

\* How far a process that has its place to itself has come.
Stage(step, j, code, dir, temp) ==
    /\ step \in {"look", "clear", "make", "report", "exited"} => j.place \notin DOMAIN temp
    /\ step \in {"clear", "make", "media", "manifest", "expose", "discard"} => j.place \notin DOMAIN dir
    /\ step \in {"media", "manifest", "expose"} => j.place \in DOMAIN temp
    /\ step \in {"manifest", "expose"} /\ j.artifact.family \in Owners =>
           "media" \in DOMAIN temp[j.place] /\ temp[j.place].media = j.artifact.id
    /\ step = "expose" => HasManifest(temp, j.place, j.artifact)
    /\ step = "discard" => j.trouble = "storage"
    /\ step = "report" => HasManifest(dir, j.place, j.artifact)
    /\ step = "exited" =>
           \/ code = 1 /\ j.trouble = "taken"
           \/ code = 1 /\ j.trouble = "storage" /\ j.place \notin DOMAIN dir
           \/ HasManifest(dir, j.place, j.artifact) /\ (code = 1 => Condemned(j))

Process(p) ==
    /\ Asked(at[p], job[p])
    /\ Gathered(at[p], job[p], Left)
    /\ Committed(at[p], job[p], Left)
    /\ job[p].place # Nowhere /\ ~ Contested(job[p].place) =>
           Stage(at[p], job[p], status[p], dirs, temps)

Staged(place) ==
    /\ place # Nowhere /\ \E q \in Processes : job[q].place = place
    /\ "manifest" \in DOMAIN temps[place] => Agrees(temps[place].manifest, Left)

IInv ==
    /\ WellFormedState
    /\ Coheres(Left)
    /\ \A place \in DOMAIN dirs : Whole(dirs[place]) \/ Contested(place)
    /\ \A place \in DOMAIN temps : Staged(place)
    /\ \A p \in Processes : Process(p)

-----------------------------------------------------------------------------
(* What more evidence cannot undo                                          *)

LEMMA AgreesGrows ==
    ASSUME NEW a, NEW left, NEW more, left \subseteq more, Agrees(a, left)
    PROVE  Agrees(a, more)
BY DEF Agrees, IsOne

\* What was read agrees with any larger body of evidence.
LEMMA GatheredGrows ==
    ASSUME NEW step, NEW j, NEW left, NEW more, left \subseteq more, Gathered(step, j, left)
    PROVE  Gathered(step, j, more)
<1>1. left \cup {Unset} \subseteq more \cup {Unset}
  OBVIOUS
<1>2. ASSUME NEW S, NEW T, S \subseteq T, NEW s \in Seq(S) PROVE s \in Seq(T)
  <2>1. s = [i \in 1..Len(s) |-> s[i]] /\ Len(s) \in Nat /\ \A i \in 1..Len(s) : s[i] \in S
    OBVIOUS
  <2>2. \A i \in 1..Len(s) : s[i] \in T
    BY <2>1, <1>2
  <2> QED BY <2>1, <2>2
<1>3. step = "read" => j.got \in Seq(more \cup {Unset})
  BY <1>1, <1>2 DEF Gathered
<1>4. \A read, got, first : Got(j, read, got, first, left) => Got(j, read, got, first, more)
  BY DEF Got
<1> QED BY <1>3, <1>4 DEF Gathered

\* What was decided to be written does.
LEMMA CommittedGrows ==
    ASSUME NEW step, NEW j, NEW left, NEW more, left \subseteq more, Committed(step, j, left)
    PROVE  Committed(step, j, more)
BY AgreesGrows DEF Committed

(* A place two processes write to is one they share.                       *)
LEMMA ContestedIsShared ==
    ASSUME NEW place, Contested(place)
    PROVE  Shared(place)
<1> DEFINE there == {p \in Processes : job[p].place = place}
<1>1. PICK p \in Processes, q \in Processes : p # q /\ job[p].place = place /\ job[q].place = place
  BY DEF Contested
<1>2. IsFiniteSet(there) /\ {p, q} \subseteq there
  BY <1>1, ProcessesAreFinite, FS_Subset
<1>3. Cardinality({p, q}) = 2 /\ IsFiniteSet({p, q})
  <2>1. Cardinality({q}) = 1 /\ IsFiniteSet({q}) /\ p \notin {q}
    BY <1>1, FS_Singleton
  <2>2. {q} \cup {p} = {p, q}
    OBVIOUS
  <2>3. Cardinality({q} \cup {p}) = Cardinality({q}) + 1 /\ IsFiniteSet({q} \cup {p})
    BY <2>1, FS_AddElement
  <2> QED BY <2>1, <2>2, <2>3
<1>4. Cardinality({p, q}) <= Cardinality(there) /\ Cardinality(there) \in Nat
  <2> HIDE DEF there
  <2> QED BY <1>2, FS_Subset, FS_CardinalityType
<1> QED BY <1>3, <1>4 DEF Shared

-----------------------------------------------------------------------------
(* One process moves                                                       *)

\* The others stay, and the mover keeps its place once it has one.
Moves(p) ==
    /\ \A q \in Processes \ {p} : job'[q] = job[q] /\ at'[q] = at[q] /\ status'[q] = status[q]
    /\ job[p].place = Nowhere \/ job'[p].place = job[p].place

\* A store changes at most at one place.
OnlyAt(place, store, after) ==
    \A x : x # place => /\ x \in DOMAIN after <=> x \in DOMAIN store
                        /\ x \in DOMAIN store => after[x] = store[x]

\* A place two processes wrote to stays contested.
LEMMA ContestedStays ==
    ASSUME NEW p \in Processes, Moves(p), NEW place, Contested(place)
    PROVE  Contested(place)'
BY DEF Contested, Moves

\* A step in one place leaves alone who works in another.
LEMMA OthersStay ==
    ASSUME IInv, NEW p \in Processes, Moves(p), Left \subseteq Left',
           OnlyAt(job[p].place, dirs, dirs'), OnlyAt(job[p].place, temps, temps'),
           job[p].place = Nowhere => dirs' = dirs /\ temps' = temps,
           NEW q \in Processes \ {p}
    PROVE  Process(q)'
<1>1. Process(q) /\ job'[q] = job[q] /\ at'[q] = at[q] /\ status'[q] = status[q]
  BY DEF IInv, Moves
<1>2. Asked(at'[q], job'[q]) /\ Gathered(at'[q], job'[q], Left') /\ Committed(at'[q], job'[q], Left')
  BY <1>1, GatheredGrows, CommittedGrows DEF Process
<1>3. ASSUME job'[q].place # Nowhere, ~ Contested(job[q].place)'
      PROVE  Stage(at'[q], job'[q], status'[q], dirs', temps')
  <2>1. ~ Contested(job[q].place)
    BY <1>1, <1>3 DEF Contested, Moves
  <2>2. Stage(at[q], job[q], status[q], dirs, temps)
    BY <1>1, <1>3, <2>1 DEF Process
  <2>3. CASE job[p].place = Nowhere
    BY <1>1, <2>2, <2>3
  <2>4. CASE job[p].place # Nowhere
    <3>1. job[q].place # job[p].place
      BY <2>1, <2>4 DEF Contested
    <3> DEFINE x == job[q].place
    <3>2. /\ x \in DOMAIN dirs' <=> x \in DOMAIN dirs
          /\ x \in DOMAIN dirs => dirs'[x] = dirs[x]
          /\ x \in DOMAIN temps' <=> x \in DOMAIN temps
          /\ x \in DOMAIN temps => temps'[x] = temps[x]
      BY <3>1 DEF OnlyAt
    <3> QED BY <1>1, <2>2, <3>2 DEF Stage, HasManifest
  <2> QED BY <2>3, <2>4
<1> QED BY <1>1, <1>2, <1>3 DEF Process

\* What a step must establish of its own process, so that the invariant holds of all.
LEMMA Together ==
    ASSUME IInv, NEW p \in Processes, Moves(p), WellFormedState', Left \subseteq Left', Coheres(Left)',
           OnlyAt(job[p].place, dirs, dirs'), OnlyAt(job[p].place, temps, temps'),
           job[p].place = Nowhere => dirs' = dirs /\ temps' = temps,
           job[p].place \in DOMAIN dirs' /\ job[p].place # Nowhere =>
               Whole(dirs'[job[p].place]) \/ Contested(job[p].place)',
           job[p].place \in DOMAIN temps' /\ job[p].place # Nowhere
               /\ "manifest" \in DOMAIN temps'[job[p].place] =>
               Agrees(temps'[job[p].place].manifest, Left'),
           Process(p)'
    PROVE  IInv'
<1>1. \A q \in Processes : Process(q)'
  BY OthersStay
<1>2. ASSUME NEW place \in DOMAIN dirs' PROVE Whole(dirs'[place]) \/ Contested(place)'
  <2>1. CASE place # job[p].place \/ job[p].place = Nowhere
    <3>1. place \in DOMAIN dirs /\ dirs'[place] = dirs[place]
      BY <2>1 DEF OnlyAt
    <3> QED BY <3>1, ContestedStays DEF IInv
  <2>2. CASE place = job[p].place /\ job[p].place # Nowhere
    <3>1. job'[p].place = job[p].place
      BY <2>2 DEF Moves
    <3> QED BY <2>2, <3>1, <1>2 DEF Contested
  <2> QED BY <2>1, <2>2
<1>3. ASSUME NEW place \in DOMAIN temps' PROVE Staged(place)'
  <2>1. CASE place # job[p].place \/ job[p].place = Nowhere
    <3>1. place \in DOMAIN temps /\ temps'[place] = temps[place]
      BY <2>1 DEF OnlyAt
    <3>2. Staged(place)
      BY <3>1 DEF IInv
    <3>3. PICK q \in Processes : job[q].place = place /\ place # Nowhere
      BY <3>2 DEF Staged
    <3>4. job'[q].place = place
      BY <2>1, <3>3 DEF Moves
    <3>5. "manifest" \in DOMAIN temps[place] => Agrees(temps[place].manifest, Left')
      BY <3>2, AgreesGrows DEF Staged
    <3> QED BY <3>1, <3>3, <3>4, <3>5 DEF Staged
  <2>2. CASE place = job[p].place /\ job[p].place # Nowhere
    <3>1. job'[p].place = place
      BY <2>2 DEF Moves
    <3>2. "manifest" \in DOMAIN temps'[place] => Agrees(temps'[place].manifest, Left')
      BY <2>2, <1>3
    <3> QED BY <2>2, <3>1, <3>2 DEF Staged
  <2> QED BY <2>1, <2>2
<1> QED BY <1>1, <1>2, <1>3 DEF IInv

(* A step that leaves the store alone needs only look at its own process.  *)
LEMMA Quiet ==
    ASSUME IInv, NEW p \in Processes, Moves(p), WellFormedState', dirs' = dirs, temps' = temps, Process(p)'
    PROVE  IInv'
<1>1. Left' = Left
  BY DEF Left, ManifestsOf
<1>2. OnlyAt(job[p].place, dirs, dirs') /\ OnlyAt(job[p].place, temps, temps')
  BY DEF OnlyAt
<1>3. Coheres(Left)'
  BY <1>1 DEF IInv, Coheres
<1>4. job[p].place \in DOMAIN dirs' /\ job[p].place # Nowhere =>
          Whole(dirs'[job[p].place]) \/ Contested(job[p].place)'
  <2> SUFFICES ASSUME job[p].place \in DOMAIN dirs, job[p].place # Nowhere, ~ Whole(dirs[job[p].place])
               PROVE  Contested(job[p].place)'
    OBVIOUS
  <2>1. Contested(job[p].place)
    BY DEF IInv
  <2> QED BY <2>1 DEF Contested, Moves
<1>5. job[p].place \in DOMAIN temps' /\ job[p].place # Nowhere
          /\ "manifest" \in DOMAIN temps'[job[p].place] => Agrees(temps'[job[p].place].manifest, Left')
  BY <1>1 DEF IInv, Staged
<1> QED BY <1>1, <1>2, <1>3, <1>4, <1>5, Together

\* A process that goes on to a step stays well-formed.
LEMMA Mover ==
    ASSUME WellFormedState, NEW p \in Processes, NEW j, NEW step \in Steps, NEW code \in Int, IsJob(j),
           job' = [job EXCEPT ![p] = j], at' = [at EXCEPT ![p] = step],
           status' = [status EXCEPT ![p] = code],
           job[p].place = Nowhere \/ j.place = job[p].place
    PROVE  /\ WellFormedState' /\ Moves(p)
           /\ job'[p] = j /\ at'[p] = step /\ status'[p] = code
<1>1. /\ job'[p] = j /\ at'[p] = step /\ status'[p] = code
      /\ \A q \in Processes \ {p} : job'[q] = job[q] /\ at'[q] = at[q] /\ status'[q] = status[q]
  BY DEF WellFormedState
<1>2. at' \in [Processes -> Steps] /\ status' \in [Processes -> Int]
  BY DEF WellFormedState
<1>3. job' = [q \in Processes |-> job'[q]]
  BY DEF WellFormedState
<1>4. \A q \in Processes : IsJob(job'[q])
  BY <1>1 DEF WellFormedState
<1> QED BY <1>1, <1>2, <1>3, <1>4 DEF WellFormedState, Moves

(* The same for a process that keeps its place.                            *)
LEMMA Stayer ==
    ASSUME WellFormedState, NEW p \in Processes, NEW j, NEW step \in Steps, NEW code \in Int, IsJob(j),
           job' = [job EXCEPT ![p] = j], at' = [at EXCEPT ![p] = step],
           status' = [status EXCEPT ![p] = code], j.place = job[p].place
    PROVE  /\ WellFormedState' /\ Moves(p)
           /\ job'[p] = j /\ at'[p] = step /\ status'[p] = code
<1>1. job[p].place = Nowhere \/ j.place = job[p].place
  OBVIOUS
<1> QED BY <1>1, Mover

(* And for one that only takes its next step.                              *)
LEMMA StepsOnly ==
    ASSUME WellFormedState, NEW p \in Processes, NEW step \in Steps, Goto(p, step), UNCHANGED <<job, status>>
    PROVE  /\ WellFormedState' /\ Moves(p)
           /\ job'[p] = job[p] /\ at'[p] = step /\ status'[p] = status[p]
<1>1. /\ at'[p] = step /\ \A q \in Processes \ {p} : at'[q] = at[q]
      /\ at' \in [Processes -> Steps] /\ job' = job /\ status' = status
  BY DEF WellFormedState, Goto
<1>2. WellFormedState'
  BY <1>1 DEF WellFormedState
<1> QED BY <1>1, <1>2 DEF Moves

(* The invariant holds when nothing has been started.                      *)
LEMMA InvariantInit == Init => IInv
<1> SUFFICES ASSUME Init PROVE IInv
  OBVIOUS
<1>1. WellFormedState
  BY DEF Init, WellFormedState, Idle, IsJob, Steps, Running
<1>2. Coheres(Left) /\ \A place \in DOMAIN dirs : Whole(dirs[place])
  BY EarlierEvidenceCoheres DEF Init, Left
<1>3. DOMAIN temps = {}
  BY DEF Init
<1>4. \A p \in Processes : Process(p)
  BY DEF Init, Process, Asked, Gathered, Committed, Idle, Before, Writing
<1> QED BY <1>1, <1>2, <1>3, <1>4 DEF IInv

-----------------------------------------------------------------------------
(* Reading the line, the files and the artifacts                           *)

(* A line that is accepted begins with a command, and has what it requires.*)
LEMMA AcceptedLine ==
    ASSUME NEW line, ParseLine(line).answer = "accepted"
    PROVE  /\ line # << >> /\ Head(line) \in Commands
           /\ Head(line) \in DOMAIN OptionsOf =>
                  \A o \in RequiredOf[Head(line)] : ParseLine(line).kept[o] # << >>
<1>1. line # << >> /\ Head(line) \in Commands /\ ~ "--help" \in Range(Tail(line))
      /\ Head(line) \notin {"--help", "-h", "--version"}
  BY DEF ParseLine, Refused, Help
<1>2. ASSUME Head(line) \in DOMAIN OptionsOf
      PROVE  \A o \in RequiredOf[Head(line)] : ParseLine(line).kept[o] # << >>
  <2>1. Head(line) \notin {"capture", "check"}
    BY <1>2 DEF OptionsOf
  <2>2. ParseLine(line) = ParseOptions(Head(line), Tail(line))
    BY <1>1, <2>1 DEF ParseLine
  <2> QED BY <2>2 DEF ParseOptions, Refused, Accepted
<1> QED BY <1>1, <1>2

\* Reading the words keeps the invariant.
LEMMA StartKeeps ==
    ASSUME IInv, NEW p \in Processes, Start(p)
    PROVE  IInv'
<1>1. PICK line \in Lines[p] :
          /\ job' = [job EXCEPT ![p].line = line, ![p].reading = ParseLine(line)]
          /\ IF ParseLine(line).answer = "accepted" THEN Goto(p, "load") /\ UNCHANGED status
             ELSE Exit(p, IF ParseLine(line).answer = "help" THEN 0 ELSE 1)
  BY DEF Start
<1>2. PICK j : j = [job[p] EXCEPT !.line = line, !.reading = ParseLine(line)]
  OBVIOUS
<1>3. WellFormedState /\ IsJob(job[p]) /\ at[p] = "idle" /\ status[p] \in Int /\ Asked(at[p], job[p])
  BY DEF IInv, WellFormedState, Process, Start
<1>4. /\ IsJob(j) /\ j.line = line /\ j.reading = ParseLine(line)
      /\ j.place = job[p].place /\ j.got = job[p].got
  BY <1>2, <1>3 DEF IsJob
<1>5. job' = [job EXCEPT ![p] = j]
  BY <1>1, <1>2, <1>3 DEF WellFormedState
<1>6. j.place = Nowhere /\ j.got = << >>
  BY <1>3, <1>4 DEF Asked, Before
<1>7. dirs' = dirs /\ temps' = temps
  BY DEF Start
<1>8. CASE ParseLine(line).answer = "accepted"
  <2>1. at' = [at EXCEPT ![p] = "load"] /\ status' = [status EXCEPT ![p] = status[p]]
    BY <1>1, <1>3, <1>8 DEF Goto, WellFormedState
  <2>2. WellFormedState' /\ Moves(p) /\ job'[p] = j /\ at'[p] = "load"
    BY <1>3, <1>4, <1>5, <2>1, Mover DEF Steps
  <2>3. j.line # << >> /\ Command(j) \in Commands
    BY <1>4, <1>8, AcceptedLine DEF Command
  <2>4. Process(p)'
    BY <1>4, <1>6, <1>8, <2>2, <2>3 DEF Process, Asked, Gathered, Committed, Before, Writing
  <2> QED BY <1>7, <2>2, <2>4, Quiet
<1>9. CASE ParseLine(line).answer # "accepted"
  <2>1. PICK code \in Int : at' = [at EXCEPT ![p] = "exited"] /\ status' = [status EXCEPT ![p] = code]
    BY <1>1, <1>9 DEF Goto, Exit
  <2>2. WellFormedState' /\ Moves(p) /\ job'[p] = j /\ at'[p] = "exited"
    BY <1>3, <1>4, <1>5, <2>1, Mover DEF Steps
  <2>4. Process(p)'
    BY <1>6, <2>2 DEF Process, Asked, Gathered, Committed, Before, Writing
  <2> QED BY <1>7, <2>2, <2>4, Quiet
<1> QED BY <1>8, <1>9

(* A process that leaves before it has a place leaves nothing.             *)
LEMMA LeavingEarlyKeeps ==
    ASSUME IInv, NEW p \in Processes, at[p] \in Before, NEW code \in Int, Exit(p, code),
           NEW j, IsJob(j), j.place = job[p].place, job' = [job EXCEPT ![p] = j],
           dirs' = dirs, temps' = temps
    PROVE  IInv'
<1>1. WellFormedState /\ j.place = Nowhere
  BY DEF IInv, Process, Asked
<1>2. at' = [at EXCEPT ![p] = "exited"] /\ status' = [status EXCEPT ![p] = code]
  BY DEF Exit, Goto
<1>3. WellFormedState' /\ Moves(p) /\ job'[p] = j /\ at'[p] = "exited"
  BY <1>1, <1>2, Mover DEF Steps
<1>4. Process(p)'
  BY <1>1, <1>3 DEF Process, Asked, Gathered, Committed, Before, Writing
<1> QED BY <1>3, <1>4, Quiet

\* What a step leaves alone is what it was.
LEMMA Unmoved ==
    ASSUME WellFormedState, NEW p \in Processes
    PROVE  /\ UNCHANGED job => job' = [job EXCEPT ![p] = job[p]]
           /\ UNCHANGED status => status' = [status EXCEPT ![p] = status[p]]
           /\ IsJob(job[p]) /\ at[p] \in Steps /\ status[p] \in Int
BY DEF WellFormedState

\* Loading the files does.
LEMMA LoadKeeps ==
    ASSUME IInv, NEW p \in Processes, Load(p)
    PROVE  IInv'
<1>1. WellFormedState /\ at[p] = "load" /\ Asked(at[p], job[p])
  BY DEF IInv, Process, Load
<1>2. IsJob(job[p]) /\ job' = [job EXCEPT ![p] = job[p]] /\ status[p] \in Int /\ dirs' = dirs /\ temps' = temps
  BY <1>1, Unmoved DEF Load
<1>3. CASE ~ (AllLoad(job[p]) /\ SoundAlone(job[p]))
  <2>1. Exit(p, 1)
    BY <1>3 DEF Load
  <2>2. PICK j : j = job[p]
    OBVIOUS
  <2>3. at[p] \in Before /\ 1 \in Int
    BY <1>1 DEF Before
  <2>4. IsJob(j) /\ j.place = job[p].place /\ job' = [job EXCEPT ![p] = j]
    BY <1>2, <2>2
  <2> QED BY <1>2, <2>1, <2>3, <2>4, LeavingEarlyKeeps
<1>4. CASE AllLoad(job[p]) /\ SoundAlone(job[p])
  <2> DEFINE next == CASE Command(job[p]) = "observe" -> "capture"
                       [] Command(job[p]) \in ProjectCommands -> "project"
                       [] OTHER -> "read"
  <2>1. PICK step : step = next
    OBVIOUS
  <2>2. /\ step \in {"capture", "project", "read"}
        /\ step = "capture" => Command(job[p]) = "observe"
        /\ step = "project" => Command(job[p]) \in ProjectCommands
        /\ step = "read" => Command(job[p]) \notin ProjectCommands \cup {"observe"}
    BY <2>1 DEF ProjectCommands
  <2>3. at' = [at EXCEPT ![p] = step] /\ status' = [status EXCEPT ![p] = status[p]]
    BY <1>1, <1>4, <2>1, Unmoved DEF Load, Goto
  <2>4. WellFormedState' /\ Moves(p) /\ job'[p] = job[p] /\ at'[p] = step
    BY <1>1, <1>2, <2>2, <2>3, Mover DEF Steps
  <2>5. job[p].got = << >> /\ job[p].place = Nowhere /\ Command(job[p]) \in Commands
        /\ job[p].reading = ParseLine(job[p].line) /\ job[p].reading.answer = "accepted"
    BY <1>1 DEF Asked, Before
  <2>6. Asked(step, job[p])
    BY <1>4, <2>2, <2>5 DEF Asked
  <2>7. Gathered(step, job[p], Left') /\ Committed(step, job[p], Left')
    BY <2>2, <2>5 DEF Gathered, Committed, Writing
  <2> QED BY <1>2, <2>4, <2>5, <2>6, <2>7, Quiet DEF Process
<1> QED BY <1>3, <1>4

\* A project command does.
LEMMA ProjectKeeps ==
    ASSUME IInv, NEW p \in Processes, Project(p)
    PROVE  IInv'
<1>1. WellFormedState /\ at[p] = "project" /\ IsJob(job[p])
  BY DEF IInv, WellFormedState, Project
<1>2. PICK outcome \in ProjectOutcomes(Command(job[p])) :
          job' = [job EXCEPT ![p].outcome = outcome] /\ Exit(p, StatusOf[outcome])
  BY DEF Project
<1>3. Command(job[p]) \in ProjectCommands
  BY <1>1 DEF IInv, Process, Asked
<1>4. StatusOf[outcome] \in Int
  <2>1. outcome \in {"ok", "refused", "fatal", "PASS", "FAIL", "REVIEW_REQUIRED", "BLOCKED"}
    BY <1>2, <1>3 DEF ProjectOutcomes, ProjectCommands
  <2> QED BY <2>1 DEF StatusOf
<1>5. PICK j : j = [job[p] EXCEPT !.outcome = outcome]
  OBVIOUS
<1>6. IsJob(j) /\ j.place = job[p].place /\ job' = [job EXCEPT ![p] = j]
  BY <1>1, <1>2, <1>5 DEF IsJob, WellFormedState
<1> QED BY <1>1, <1>2, <1>4, <1>6, LeavingEarlyKeeps DEF Before, Project

(* What has been read stays read when one more is appended.                *)
LEMMA AppendedGot ==
    ASSUME NEW left, NEW j, Gathered("read", j, left), NEW k,
           k.line = j.line, k.reading = j.reading, NEW got \in left \cup {Unset},
           k.got = Append(j.got, got),
           Got(j, ReadsOf(Command(j))[Len(j.got) + 1], got, j.got = << >>, left)
    PROVE  Gathered("read", k, left)
<1> DEFINE reads == ReadsOf(Command(j))
           n == Len(j.got)
<1>1. j.got \in Seq(left \cup {Unset}) /\ \A i \in 1..n : Got(j, reads[i], j.got[i], i = 1, left)
  BY DEF Gathered
<1>2. PICK all : all = left \cup {Unset}
  OBVIOUS
<1>3. n \in Nat /\ k.got \in Seq(all) /\ Len(k.got) = n + 1 /\ k.got[n + 1] = got
      /\ \A i \in 1..n : k.got[i] = j.got[i]
  BY <1>1, <1>2
<1>4. Command(k) = Command(j) /\ \A o : GivenTo(k, o) <=> GivenTo(j, o)
  BY DEF Command, GivenTo
<1>5. \A read, g, first : Got(j, read, g, first, left) => Got(k, read, g, first, left)
  BY <1>4 DEF Got
<1>6. (n + 1 = 1) <=> (j.got = << >>)
  BY <1>1, <1>2
<1>7. \A i \in 1..(n + 1) : Got(j, reads[i], k.got[i], i = 1, left)
  <2> SUFFICES ASSUME NEW i \in 1..(n + 1) PROVE Got(j, reads[i], k.got[i], i = 1, left)
    OBVIOUS
  <2>1. CASE i \in 1..n
    BY <1>1, <1>3, <2>1
  <2>2. CASE i = n + 1
    <3>1. CASE j.got = << >>
      BY <1>3, <1>6, <2>2, <3>1 DEF Got
    <3>2. CASE j.got # << >>
      BY <1>3, <1>6, <2>2, <3>2 DEF Got
    <3> QED BY <3>1, <3>2
  <2> QED BY <1>3, <2>1, <2>2
<1> QED BY <1>2, <1>3, <1>4, <1>5, <1>7 DEF Gathered

\* Reading an artifact does: what was read is what was left there.
LEMMA ReadArtifactKeeps ==
    ASSUME IInv, NEW p \in Processes, ReadArtifact(p)
    PROVE  IInv'
<1> DEFINE read == ReadsOf(Command(job[p]))[Len(job[p].got) + 1]
           word == ValueOf(job[p], read.option)
<1>1. WellFormedState /\ at[p] = "read" /\ IsJob(job[p]) /\ at[p] \in Before
  BY DEF IInv, WellFormedState, ReadArtifact, Before
<1>2. Asked(at[p], job[p]) /\ Gathered("read", job[p], Left)
  BY <1>1 DEF IInv, Process
<1>3. dirs' = dirs /\ temps' = temps
  BY DEF ReadArtifact
<1>4. ASSUME NEW got \in Left \cup {Unset}, job' = [job EXCEPT ![p].got = Append(@, got)],
             UNCHANGED <<at, status>>, Got(job[p], read, got, job[p].got = << >>, Left)
      PROVE  IInv'
  <2>1. PICK j : j = [job[p] EXCEPT !.got = Append(@, got)]
    OBVIOUS
  <2>2. /\ IsJob(j) /\ job' = [job EXCEPT ![p] = j] /\ j.line = job[p].line
        /\ j.reading = job[p].reading /\ j.place = job[p].place /\ j.got = Append(job[p].got, got)
    BY <1>1, <1>4, <2>1 DEF IsJob, WellFormedState
  <2>3. PICK code \in Int : code = status[p]
    BY <1>1, Unmoved
  <2>4. at' = [at EXCEPT ![p] = "read"] /\ status' = [status EXCEPT ![p] = code]
    BY <1>1, <1>4, <2>3 DEF WellFormedState
  <2>5. WellFormedState' /\ Moves(p) /\ job'[p] = j /\ at'[p] = "read"
    BY <1>1, <2>2, <2>4, Mover DEF Steps
  <2>6. PICK left : left = Left
    OBVIOUS
  <2>7. PICK old : old = job[p]
    OBVIOUS
  <2>8. Got(old, ReadsOf(Command(old))[Len(old.got) + 1], got, old.got = << >>, left)
    BY <1>4, <2>6, <2>7
  <2>9. Gathered("read", old, left) /\ got \in left \cup {Unset} /\ j.line = old.line
        /\ j.reading = old.reading /\ j.got = Append(old.got, got)
    BY <1>2, <1>4, <2>2, <2>6, <2>7
  <2>10. Gathered("read", j, left)
    BY <2>8, <2>9, AppendedGot
  <2>11. SoundAlone(j) <=> SoundAlone(job[p])
    BY <2>2 DEF SoundAlone, Command, RawRequest, IsContract, Importable, Content, Held, GivenTo, ValueOf
  <2>12. Asked("read", j)
    BY <1>1, <1>2, <2>2, <2>11 DEF Asked, Command
  <2>13. Left' = left
    BY <1>3, <2>6 DEF Left
  <2>14. j.place = Nowhere
    BY <2>12 DEF Asked, Before
  <2>15. Process(p)'
    BY <2>5, <2>10, <2>12, <2>13, <2>14 DEF Process, Committed, Writing
  <2> QED BY <1>3, <2>5, <2>15, Quiet
<1>5. CASE ~ GivenTo(job[p], read.option)
  <2>1. job' = [job EXCEPT ![p].got = Append(@, Unset)] /\ UNCHANGED <<at, status>>
    BY <1>5 DEF ReadArtifact
  <2>2. Got(job[p], read, Unset, job[p].got = << >>, Left)
    BY <1>5 DEF Got
  <2>3. PICK got \in Left \cup {Unset} : got = Unset
    OBVIOUS
  <2> HIDE DEF read
  <2> QED BY <1>4, <2>1, <2>2, <2>3
<1>6. CASE /\ GivenTo(job[p], read.option)
           /\ Readable(word, read.families) /\ Admits(job[p], Manifest(word))
  <2>1. PICK got : got = Manifest(word)
    OBVIOUS
  <2>2. job' = [job EXCEPT ![p].got = Append(@, got)] /\ UNCHANGED <<at, status>>
    BY <1>6, <2>1 DEF ReadArtifact
  <2>3. /\ got \in Left /\ got.family \in read.families
        /\ got.family \in References => SoundReference(got)
    BY <1>6, <2>1 DEF Readable, Manifest, Left, ManifestsOf
  <2>4. Command(job[p]) = "approve-reference" /\ job[p].got = << >> => got.family = "reference-imported"
    BY <1>6, <2>1 DEF Admits
  <2>5. Got(job[p], read, got, job[p].got = << >>, Left)
    <3>1. CASE job[p].got = << >>
      BY <1>6, <2>3, <2>4, <3>1 DEF Got
    <3>2. CASE job[p].got # << >>
      BY <1>6, <2>3, <3>2 DEF Got
    <3> QED BY <3>1, <3>2
  <2>6. got \in Left \cup {Unset}
    BY <2>3
  <2> HIDE DEF read
  <2> QED BY <1>4, <2>2, <2>5, <2>6
<1>7. CASE /\ GivenTo(job[p], read.option)
           /\ ~ (Readable(word, read.families) /\ Admits(job[p], Manifest(word)))
  <2>1. Exit(p, 1) /\ UNCHANGED job
    BY <1>7 DEF ReadArtifact
  <2>2. PICK j : j = job[p]
    OBVIOUS
  <2>3. IsJob(j) /\ j.place = job[p].place /\ job' = [job EXCEPT ![p] = j]
    BY <1>1, <2>1, <2>2 DEF WellFormedState
  <2>4. 1 \in Int
    OBVIOUS
  <2> QED BY <1>1, <1>3, <2>1, <2>3, <2>4, LeavingEarlyKeeps
<1> QED BY <1>5, <1>6, <1>7

-----------------------------------------------------------------------------
(* Deciding                                                                *)

LEMMA RefuseKeeps ==
    ASSUME IInv, NEW p \in Processes, at[p] \in Before, Refuse(p), dirs' = dirs, temps' = temps
    PROVE  IInv'
<1>1. PICK j : j = job[p]
  OBVIOUS
<1>2. IsJob(j) /\ j.place = job[p].place /\ job' = [job EXCEPT ![p] = j] /\ 1 \in Int
  BY <1>1, Unmoved DEF Refuse, IInv
<1> QED BY <1>2, LeavingEarlyKeeps DEF Refuse

\* Deciding to write what agrees with the evidence does.
LEMMA ToWriteKeeps ==
    ASSUME IInv, NEW p \in Processes, at[p] \in Before, dirs' = dirs, temps' = temps,
           NEW artifact, NEW location, NEW outcome, ToWrite(p, artifact, location, outcome),
           ~ (artifact.family \in References /\ ~ SoundReference(artifact)) => Agrees(artifact, Left)
    PROVE  IInv'
<1>1. WellFormedState /\ IsJob(job[p]) /\ Asked(at[p], job[p])
  BY DEF IInv, WellFormedState, Process
<1>2. CASE \/ ~ PortableLocation(location)
           \/ artifact.family \in References /\ ~ SoundReference(artifact)
  <2>1. Refuse(p)
    BY <1>2 DEF ToWrite, Refuse
  <2> QED BY <2>1, RefuseKeeps
<1>3. CASE ~ (\/ ~ PortableLocation(location)
              \/ artifact.family \in References /\ ~ SoundReference(artifact))
  <2> DEFINE place == <<CleanedLocation(location), artifact.id>>
  <2>1. job' = [job EXCEPT ![p].artifact = artifact, ![p].outcome = outcome, ![p].place = place]
        /\ at' = [at EXCEPT ![p] = "look"] /\ UNCHANGED status
    BY <1>3 DEF ToWrite, Goto
  <2>2. place # Nowhere
    BY DEF Nowhere
  <2> HIDE DEF place
  <2>3. PICK j : j = [job[p] EXCEPT !.artifact = artifact, !.outcome = outcome, !.place = place]
    OBVIOUS
  <2>4. IsJob(j) /\ j.artifact = artifact /\ j.place = place
    BY <1>1, <2>3 DEF IsJob
  <2>5. job' = [job EXCEPT ![p] = j]
    BY <1>1, <2>1, <2>3 DEF WellFormedState
  <2>6. PICK code \in Int : code = status[p]
    BY <1>1, Unmoved
  <2>7. status' = [status EXCEPT ![p] = code] /\ job[p].place = Nowhere
    BY <1>1, <2>1, <2>6 DEF WellFormedState, Asked
  <2>8. WellFormedState' /\ Moves(p) /\ job'[p] = j /\ at'[p] = "look"
    <3>1. "look" \in Steps
      BY DEF Steps
    <3>2. at' = [at EXCEPT ![p] = "look"] /\ (job[p].place = Nowhere \/ j.place = job[p].place)
      BY <2>1, <2>7
    <3> QED BY <1>1, <2>4, <2>5, <2>7, <3>1, <3>2, Mover
  <2>9. Left' = Left
    BY DEF Left
  <2>10. Agrees(artifact, Left')
    BY <1>3, <2>9
  <2>11. ASSUME ~ Contested(job[p].place)' PROVE place \notin DOMAIN temps
    <3> SUFFICES ASSUME place \in DOMAIN temps PROVE FALSE
      OBVIOUS
    <3>1. PICK q \in Processes : job[q].place = place
      BY DEF IInv, Staged
    <3>2. q # p /\ job'[q].place = place
      BY <2>2, <2>7, <2>8, <3>1 DEF Moves
    <3> QED BY <2>2, <2>4, <2>8, <2>11, <3>2 DEF Contested
  <2>12. Asked("look", j) /\ Gathered("look", j, Left') /\ Committed("look", j, Left')
    BY <2>2, <2>4, <2>10 DEF Asked, Before, Gathered, Committed
  <2>13. ~ Contested(job[p].place)' => Stage("look", j, status'[p], dirs', temps')
    BY <2>4, <2>11 DEF Stage
  <2>14. Process(p)'
    BY <2>8, <2>12, <2>13 DEF Process
  <2> QED BY <2>8, <2>14, Quiet
<1> QED BY <1>2, <1>3

\* An accepted line gives every required option.
LEMMA RequiredIsGiven ==
    ASSUME NEW j, Asked("read", j), Command(j) \in DOMAIN OptionsOf, NEW o \in RequiredOf[Command(j)]
    PROVE  GivenTo(j, o)
<1>1. j.reading = ParseLine(j.line) /\ j.reading.answer = "accepted"
  BY DEF Asked
<1>2. j.reading.kept[o] # << >>
  BY <1>1, AcceptedLine DEF Command
<1> QED BY <1>2 DEF GivenTo

(* What each command has in hand once it has read everything.              *)
LEMMA InHand ==
    ASSUME NEW p, at[p] = "read", Process(p), NEW command, Deciding(p, command)
    PROVE  LET j == job[p] IN
           /\ Command(j) = command /\ Asked("read", j) /\ dirs' = dirs /\ temps' = temps
           /\ \A i \in 1..Len(ReadsOf(command)) :
                  Got(j, ReadsOf(command)[i], j.got[i], i = 1, Left)
BY DEF Deciding, Process, Gathered

\* A comparison names the two observations it read.
LEMMA CompareKeeps ==
    ASSUME IInv, NEW p \in Processes, Compare(p)
    PROVE  IInv'
<1> DEFINE j == job[p]
<1>1. Process(p) /\ at[p] = "read" /\ at[p] \in Before /\ Deciding(p, "compare")
  BY DEF IInv, Compare, Deciding, Before
<1>2. /\ Command(j) = "compare" /\ Asked("read", j) /\ dirs' = dirs /\ temps' = temps
      /\ \A i \in 1..2 : Got(j, ReadsOf("compare")[i], j.got[i], i = 1, Left)
  BY <1>1, InHand DEF ReadsOf
<1>3. GivenTo(j, "--before") /\ GivenTo(j, "--after")
  BY <1>2, RequiredIsGiven DEF OptionsOf, RequiredOf
<1>4. /\ j.got[1] \in Left /\ j.got[1].family = "observation"
      /\ j.got[2] \in Left /\ j.got[2].family = "observation"
  <2>1. /\ ReadsOf("compare")[1] = Read("--before", {"observation"})
        /\ ReadsOf("compare")[2] = Read("--after", {"observation"})
    BY DEF ReadsOf
  <2>2. /\ ReadsOf("compare")[1].option = "--before" /\ ReadsOf("compare")[1].families = {"observation"}
        /\ ReadsOf("compare")[2].option = "--after" /\ ReadsOf("compare")[2].families = {"observation"}
    BY <2>1 DEF Read
  <2>3. 1 \in 1..2 /\ 2 \in 1..2
    OBVIOUS
  <2> QED BY <1>2, <1>3, <2>2, <2>3 DEF Got
<1>5. CASE ToleranceOf(j) \in 0..MAX_TOLERANCE
  <2>1. PICK artifact : artifact = Comparison(p, j.got[1], j.got[2], ToleranceOf(j))
    OBVIOUS
  <2>2. PICK location : location = Output(j)
    OBVIOUS
  <2>3. ToWrite(p, artifact, location, "ok")
    BY <1>5, <2>1, <2>2 DEF Compare
  <2>4. artifact.family = "comparison" /\ artifact.before = j.got[1].id /\ artifact.after = j.got[2].id
    BY <2>1 DEF Comparison
  <2>5. Agrees(artifact, Left)
    BY <1>4, <2>4 DEF Agrees, IsOne, Families, References
  <2> QED BY <1>1, <1>2, <2>3, <2>5, ToWriteKeeps
<1>6. CASE ~ (ToleranceOf(j) \in 0..MAX_TOLERANCE)
  <2>1. Refuse(p)
    BY <1>6 DEF Compare
  <2> QED BY <1>1, <1>2, <2>1, RefuseKeeps
<1> QED BY <1>5, <1>6

\* An observation refers to nothing.
LEMMA ObserveKeeps ==
    ASSUME IInv, NEW p \in Processes, Observe(p)
    PROVE  IInv'
<1>1. at[p] \in Before /\ dirs' = dirs /\ temps' = temps
  BY DEF Observe, Before
<1>2. SoundAlone(job[p]) /\ Command(job[p]) = "observe"
  BY DEF IInv, Process, Asked, Observe
<1>3. PICK raw : raw = RawRequest(job[p])
  OBVIOUS
<1>4. Acceptable(raw)
  BY <1>2, <1>3 DEF SoundAlone
<1>5. \E S : raw.outputLocation # Unset => raw.outputLocation \in Seq(S)
  <2>1. PICK word : word = ValueOf(job[p], "--output")
    OBVIOUS
  <2>2. raw.outputLocation = Unset \/ raw.outputLocation = Located(word)
    BY <1>3, <2>1 DEF RawRequest
  <2>3. CASE word \in DOMAIN Segments
    BY <2>2, <2>3, LocationsAreStrings DEF Located
  <2>4. CASE word \notin DOMAIN Segments
    <3>1. Located(word) = <<word>> /\ <<word>> \in Seq({word})
      BY <2>4 DEF Located
    <3> QED BY <2>2, <3>1
  <2> QED BY <2>3, <2>4
<1>6. PICK request : request = Normalized(raw)
  OBVIOUS
<1>7. Coherent(request)
  BY <1>4, <1>5, <1>6, AcceptedIsCoherent
<1>8. CASE Refuse(p)
  BY <1>1, <1>8, RefuseKeeps
<1>9. CASE \E completion \in {"complete", "partial", "fatal"} :
               ToWrite(p, Observation(p, request), request.outputLocation, completion)
  <2>1. PICK completion : ToWrite(p, Observation(p, request), request.outputLocation, completion)
    BY <1>9
  <2>2. PICK artifact : artifact = Observation(p, request)
    OBVIOUS
  <2>3. PICK location : location = request.outputLocation
    OBVIOUS
  <2>4. artifact.family = "observation" /\ artifact.request = request
    BY <2>2 DEF Observation
  <2>5. Agrees(artifact, Left)
    BY <1>7, <2>4 DEF Agrees, Families, References
  <2>6. ToWrite(p, artifact, location, completion)
    BY <2>1, <2>2, <2>3
  <2> QED BY <1>1, <2>5, <2>6, ToWriteKeeps
<1> QED BY <1>3, <1>6, <1>8, <1>9 DEF Observe

\* A baseline names the observation it read.
LEMMA ApproveBaselineKeeps ==
    ASSUME IInv, NEW p \in Processes, ApproveBaseline(p)
    PROVE  IInv'
<1> DEFINE j == job[p]
           c == Held(j, "--contract-file", "contract")
<1>1. Process(p) /\ at[p] = "read" /\ at[p] \in Before /\ Deciding(p, "approve-baseline")
  BY DEF IInv, ApproveBaseline, Deciding, Before
<1>2. /\ Command(j) = "approve-baseline" /\ Asked("read", j) /\ dirs' = dirs /\ temps' = temps
      /\ \A i \in 1..1 : Got(j, ReadsOf("approve-baseline")[i], j.got[i], i = 1, Left)
  BY <1>1, InHand DEF ReadsOf
<1>3. GivenTo(j, "--observation")
  BY <1>2, RequiredIsGiven DEF OptionsOf, RequiredOf, ApproveBaselineOptions, AllOnce
<1>4. j.got[1] \in Left /\ j.got[1].family = "observation"
  <2>1. ReadsOf("approve-baseline")[1] = Read("--observation", {"observation"})
    BY DEF ReadsOf
  <2>2. /\ ReadsOf("approve-baseline")[1].option = "--observation"
        /\ ReadsOf("approve-baseline")[1].families = {"observation"}
    BY <2>1 DEF Read
  <2>3. 1 \in 1..1
    OBVIOUS
  <2> QED BY <1>2, <1>3, <2>2, <2>3 DEF Got
<1>5. c.class = "baseline"
  BY <1>2 DEF Asked, SoundAlone, IsContract
<1>6. CASE MatchesObservation(c, j.got[1])
  <2>1. PICK artifact : artifact = Contract(c)
    OBVIOUS
  <2>2. PICK location : location = Output(j)
    OBVIOUS
  <2>3. ToWrite(p, artifact, location, "ok")
    BY <1>6, <2>1, <2>2 DEF ApproveBaseline
  <2>4. artifact.family = "baseline" /\ artifact.source = [id |-> j.got[1].id, request |-> j.got[1].request]
    BY <1>5, <1>6, <2>1 DEF Contract, MatchesObservation
  <2>5. Agrees(artifact, Left)
    BY <1>4, <2>4 DEF Agrees, Families, References
  <2> QED BY <1>1, <1>2, <2>3, <2>5, ToWriteKeeps
<1>7. CASE ~ MatchesObservation(c, j.got[1])
  <2>1. Refuse(p)
    BY <1>7 DEF ApproveBaseline
  <2> QED BY <1>1, <1>2, <2>1, RefuseKeeps
<1> QED BY <1>6, <1>7

\* A change contract refers to nothing.
LEMMA SaveChangeContractKeeps ==
    ASSUME IInv, NEW p \in Processes, SaveChangeContract(p)
    PROVE  IInv'
<1> DEFINE j == job[p]
           c == Held(j, "--contract-file", "contract")
<1>1. Process(p) /\ at[p] = "read" /\ at[p] \in Before /\ Deciding(p, "save-change-contract")
  BY DEF IInv, SaveChangeContract, Deciding, Before
<1>2. Command(j) = "save-change-contract" /\ Asked("read", j) /\ dirs' = dirs /\ temps' = temps
  BY <1>1, InHand
<1>3. c.class = "change"
  BY <1>2 DEF Asked, SoundAlone, IsContract
<1>4. PICK artifact : artifact = Contract(c)
  OBVIOUS
<1>5. PICK location : location = Output(j)
  OBVIOUS
<1>6. ToWrite(p, artifact, location, "ok")
  BY <1>4, <1>5 DEF SaveChangeContract
<1>7. artifact.family = "change"
  BY <1>3, <1>4 DEF Contract
<1>8. Agrees(artifact, Left)
  BY <1>7 DEF Agrees, Families, References
<1> QED BY <1>1, <1>2, <1>6, <1>8, ToWriteKeeps

\* A fidelity evaluation, written nowhere, adds nothing.
LEMMA EvaluateReferenceFidelityKeeps ==
    ASSUME IInv, NEW p \in Processes, EvaluateReferenceFidelity(p)
    PROVE  IInv'
<1>1. WellFormedState /\ at[p] = "read" /\ at[p] \in Before /\ dirs' = dirs /\ temps' = temps
  BY DEF IInv, EvaluateReferenceFidelity, Deciding, Before
<1>2. CASE Refuse(p)
  BY <1>1, <1>2, RefuseKeeps
<1>3. ASSUME NEW state, job' = [job EXCEPT ![p].outcome = state],
             Exit(p, IF GivenTo(job[p], "--enforce") /\ state = "fail" THEN 1 ELSE 0)
      PROVE  IInv'
  <2>1. PICK j : j = [job[p] EXCEPT !.outcome = state]
    OBVIOUS
  <2>2. IsJob(job[p])
    BY <1>1 DEF WellFormedState
  <2>3. IsJob(j) /\ j.place = job[p].place /\ job' = [job EXCEPT ![p] = j]
    BY <1>1, <1>3, <2>1, <2>2 DEF IsJob, WellFormedState
  <2>4. PICK code \in Int : Exit(p, code)
    BY <1>3
  <2> QED BY <1>1, <2>3, <2>4, LeavingEarlyKeeps
<1> QED BY <1>2, <1>3 DEF EvaluateReferenceFidelity

\* An evaluation names the observations its comparison compared.
LEMMA EvaluateContractKeeps ==
    ASSUME IInv, NEW p \in Processes, EvaluateContract(p)
    PROVE  IInv'
<1> DEFINE j == job[p]
           reads == ReadsOf("evaluate-contract")
<1>1. Process(p) /\ at[p] = "read" /\ at[p] \in Before /\ Deciding(p, "evaluate-contract")
  BY DEF IInv, EvaluateContract, Deciding, Before
<1>2. /\ Command(j) = "evaluate-contract" /\ Asked("read", j) /\ dirs' = dirs /\ temps' = temps
      /\ \A i \in 1..5 : Got(j, reads[i], j.got[i], i = 1, Left)
  <2>1. Len(ReadsOf("evaluate-contract")) = 5
    BY DEF ReadsOf
  <2> QED BY <1>1, <2>1, InHand
<1>3. \A o \in {"--before", "--after", "--comparison", "--baseline", "--change"} : GivenTo(j, o)
  <2>1. {"--before", "--after", "--comparison", "--baseline", "--change"} \subseteq RequiredOf["evaluate-contract"]
    BY DEF OptionsOf, RequiredOf, EvaluateContractOptions, OnceOr
  <2>2. "evaluate-contract" \in DOMAIN OptionsOf
    BY DEF OptionsOf
  <2> QED BY <1>2, <2>1, <2>2, RequiredIsGiven
<1>4. /\ j.got[1] \in Left /\ j.got[1].family = "observation"
      /\ j.got[2] \in Left /\ j.got[2].family = "observation"
      /\ j.got[3] \in Left /\ j.got[3].family = "comparison"
      /\ j.got[4] \in Left /\ j.got[4].family = "baseline"
      /\ j.got[5] \in Left /\ j.got[5].family = "change"
  <2>1. /\ reads[1].option = "--before" /\ reads[1].families = {"observation"}
        /\ reads[2].option = "--after" /\ reads[2].families = {"observation"}
        /\ reads[3].option = "--comparison" /\ reads[3].families = {"comparison"}
        /\ reads[4].option = "--baseline" /\ reads[4].families = {"baseline"}
        /\ reads[5].option = "--change" /\ reads[5].families = {"change"}
    BY DEF ReadsOf, Read
  <2>2. ASSUME NEW i \in 1..5 PROVE Got(j, reads[i], j.got[i], i = 1, Left)
    BY <1>2
  <2> HIDE DEF reads
  <2>3. \A i \in 1..5 : GivenTo(j, reads[i].option) => j.got[i] \in Left /\ j.got[i].family \in reads[i].families
    BY <2>2 DEF Got
  <2> QED BY <1>3, <2>1, <2>3
<1>5. CASE ComparesThose(j.got)
  <2>1. PICK verdict : ToWrite(p, Evaluation(p, j.got, verdict), Output(j), verdict)
    BY <1>5 DEF EvaluateContract
  <2>2. PICK artifact : artifact = Evaluation(p, j.got, verdict)
    OBVIOUS
  <2>3. PICK location : location = Output(j)
    OBVIOUS
  <2>4. ToWrite(p, artifact, location, verdict)
    BY <2>1, <2>2, <2>3
  <2>5. /\ artifact.family = "evaluation" /\ artifact.before = j.got[1].id /\ artifact.after = j.got[2].id
        /\ artifact.comparison = j.got[3].id /\ artifact.baseline = j.got[4].id
        /\ artifact.change = j.got[5].id
    BY <2>2 DEF Evaluation
  <2>6. /\ j.got[3].id = artifact.comparison
        /\ <<j.got[3].before, j.got[3].after>> = <<artifact.before, artifact.after>>
    BY <1>5, <2>5 DEF ComparesThose
  <2>7. IsOne(Left, "baseline", artifact.baseline) /\ IsOne(Left, "change", artifact.change)
    BY <1>4, <2>5 DEF IsOne
  <2>8. Agrees(artifact, Left)
    BY <1>4, <2>5, <2>6, <2>7 DEF Agrees, Families, References
  <2> QED BY <1>1, <1>2, <2>4, <2>8, ToWriteKeeps
<1>6. CASE ~ ComparesThose(j.got)
  <2>1. Refuse(p)
    BY <1>6 DEF EvaluateContract
  <2> QED BY <1>1, <1>2, <2>1, RefuseKeeps
<1> QED BY <1>5, <1>6

(* What an artifact supersedes is a reference that is there.               *)
LEMMA Superseded ==
    ASSUME NEW j, NEW o, NEW got, NEW first, NEW left, Got(j, Read(o, References), got, first, left),
           NameOf(got) # Unset
    PROVE  \E r \in left : r.family \in References /\ r.id = NameOf(got)
<1>1. got # Unset /\ NameOf(got) = got.id
  BY DEF NameOf
<1>2. GivenTo(j, o) /\ got \in left /\ got.family \in References
  BY <1>1 DEF Got, Read
<1> QED BY <1>1, <1>2

\* An import agrees with the one it supersedes.
LEMMA ImportReferenceKeeps ==
    ASSUME IInv, NEW p \in Processes, ImportReference(p)
    PROVE  IInv'
<1> DEFINE j == job[p]
<1>1. Process(p) /\ at[p] = "read" /\ at[p] \in Before /\ Deciding(p, "import-reference")
  BY DEF IInv, ImportReference, Deciding, Before
<1>2. /\ dirs' = dirs /\ temps' = temps
      /\ \A i \in 1..1 : Got(j, ReadsOf("import-reference")[i], j.got[i], i = 1, Left)
  BY <1>1, InHand DEF ReadsOf
<1>3. Got(j, Read("--supersedes", References), j.got[1], TRUE, Left)
  <2>1. ReadsOf("import-reference")[1] = Read("--supersedes", References) /\ 1 \in 1..1
    BY DEF ReadsOf
  <2>2. Got(j, ReadsOf("import-reference")[1], j.got[1], 1 = 1, Left)
    BY <1>2
  <2> QED BY <2>1, <2>2 DEF Got
<1>4. PICK artifact : artifact = Imported(p, Content(j), NameOf(j.got[1]))
  OBVIOUS
<1>5. PICK location : location = Output(j)
  OBVIOUS
<1>6. ToWrite(p, artifact, location, "ok")
  BY <1>4, <1>5 DEF ImportReference
<1>7. artifact.family = "reference-imported" /\ artifact.supersedes = NameOf(j.got[1])
  BY <1>4 DEF Imported
<1>8. artifact.supersedes # Unset => \E r \in Left : r.family \in References /\ r.id = artifact.supersedes
  <2>1. PICK k : k = j
    OBVIOUS
  <2>2. PICK got : got = j.got[1]
    OBVIOUS
  <2>3. PICK left : left = Left
    OBVIOUS
  <2>4. Got(k, Read("--supersedes", References), got, TRUE, left)
    BY <1>3, <2>1, <2>2, <2>3
  <2>5. NameOf(got) # Unset => \E r \in left : r.family \in References /\ r.id = NameOf(got)
    BY <2>4, Superseded
  <2> QED BY <1>7, <2>2, <2>3, <2>5
<1>9. Agrees(artifact, Left)
  BY <1>7, <1>8 DEF Agrees, Families, References
<1> QED BY <1>1, <1>2, <1>6, <1>9, ToWriteKeeps

\* An approval has the content of its import.
LEMMA ApproveReferenceKeeps ==
    ASSUME IInv, NEW p \in Processes, ApproveReference(p)
    PROVE  IInv'
<1> DEFINE j == job[p]
           reads == ReadsOf("approve-reference")
<1>1. Process(p) /\ at[p] = "read" /\ at[p] \in Before /\ Deciding(p, "approve-reference")
  BY DEF IInv, ApproveReference, Deciding, Before
<1>2. /\ Command(j) = "approve-reference" /\ Asked("read", j) /\ dirs' = dirs /\ temps' = temps
      /\ \A i \in 1..2 : Got(j, reads[i], j.got[i], i = 1, Left)
  <2>1. Len(ReadsOf("approve-reference")) = 2
    BY DEF ReadsOf
  <2> QED BY <1>1, <2>1, InHand
<1>3. GivenTo(j, "--reference")
  <2>1. "--reference" \in RequiredOf["approve-reference"] /\ "approve-reference" \in DOMAIN OptionsOf
    BY DEF OptionsOf, RequiredOf
  <2> QED BY <1>2, <2>1, RequiredIsGiven
<1>4. /\ Got(j, Read("--reference", References), j.got[1], TRUE, Left)
      /\ Got(j, Read("--supersedes", References), j.got[2], FALSE, Left)
  <2>1. reads[1] = Read("--reference", References) /\ reads[2] = Read("--supersedes", References)
    BY DEF ReadsOf
  <2> HIDE DEF reads
  <2>2. Got(j, reads[1], j.got[1], 1 = 1, Left) /\ Got(j, reads[2], j.got[2], 2 = 1, Left)
    BY <1>2
  <2> QED BY <2>1, <2>2 DEF Got
<1>5. j.got[1] \in Left /\ j.got[1].family = "reference-imported"
  BY <1>2, <1>3, <1>4 DEF Got, Read
<1>6. PICK artifact : artifact = Approved(p, j.got[1], NameOf(j.got[2]))
  OBVIOUS
<1>7. PICK location : location = Output(j)
  OBVIOUS
<1>8. ToWrite(p, artifact, location, "ok")
  BY <1>6, <1>7 DEF ApproveReference
<1>9. /\ artifact.family = "reference-approved" /\ artifact.supersedes = NameOf(j.got[2])
      /\ artifact.source = j.got[1].id /\ artifact.content = j.got[1].content
      /\ artifact.requestId = j.got[1].requestId
  BY <1>6 DEF Approved
<1>10. artifact.supersedes # Unset => \E r \in Left : r.family \in References /\ r.id = artifact.supersedes
  <2>1. PICK k : k = j
    OBVIOUS
  <2>2. PICK got : got = j.got[2]
    OBVIOUS
  <2>3. PICK left : left = Left
    OBVIOUS
  <2>4. Got(k, Read("--supersedes", References), got, FALSE, left)
    BY <1>4, <2>1, <2>2, <2>3
  <2>5. NameOf(got) # Unset => \E r \in left : r.family \in References /\ r.id = NameOf(got)
    BY <2>4, Superseded
  <2> QED BY <1>9, <2>2, <2>3, <2>5
<1>11. SoundReference(artifact) => Agrees(artifact, Left)
  BY <1>5, <1>9, <1>10 DEF Agrees, Families, References
<1>12. artifact.family \in References
  BY <1>9 DEF References
<1> QED BY <1>1, <1>2, <1>8, <1>11, <1>12, ToWriteKeeps

\* So every decision keeps the invariant.
LEMMA DecideKeeps ==
    ASSUME IInv, NEW p \in Processes, Decide(p)
    PROVE  IInv'
BY ObserveKeeps, CompareKeeps, ApproveBaselineKeeps, SaveChangeContractKeeps, EvaluateContractKeeps,
   ImportReferenceKeeps, ApproveReferenceKeeps, EvaluateReferenceFidelityKeeps DEF Decide

-----------------------------------------------------------------------------
(* Writing                                                                 *)

\* A step of a writer: it keeps its artifact and its place.
WritesOn(p) ==
    /\ Moves(p) /\ at[p] \in Writing /\ at'[p] \in Writing \cup {"exited", "crashed"}
    /\ job'[p].place = job[p].place /\ job'[p].artifact = job[p].artifact

\* What a writer's step must establish of its place.
LEMMA WriterKeeps ==
    ASSUME IInv, NEW p \in Processes, WritesOn(p), WellFormedState', Left \subseteq Left', Coheres(Left)',
           OnlyAt(job[p].place, dirs, dirs'), OnlyAt(job[p].place, temps, temps'),
           job[p].place \in DOMAIN dirs' => Whole(dirs'[job[p].place]) \/ Contested(job[p].place),
           job[p].place \in DOMAIN temps' /\ "manifest" \in DOMAIN temps'[job[p].place] =>
               Agrees(temps'[job[p].place].manifest, Left'),
           ~ Contested(job[p].place) => Stage(at'[p], job'[p], status'[p], dirs', temps')
    PROVE  IInv'
<1>1. job[p].place # Nowhere /\ Agrees(job[p].artifact, Left)
  BY DEF IInv, Process, Committed, WritesOn
<1>2. Contested(job[p].place) => Contested(job[p].place)'
  BY DEF Contested, WritesOn, Moves
<1>3. Contested(job[p].place)' => Contested(job[p].place)
  <2>1. \A q \in Processes : job'[q].place = job[q].place
    BY DEF WritesOn, Moves
  <2> QED BY <2>1 DEF Contested
<1>4. Agrees(job[p].artifact, Left')
  <2>1. PICK a : a = job[p].artifact
    OBVIOUS
  <2> QED BY <1>1, <2>1, AgreesGrows
<1>5. Process(p)'
  <2>1. Asked(at'[p], job'[p]) /\ Gathered(at'[p], job'[p], Left')
    BY DEF WritesOn, Asked, Gathered, Before, Writing
  <2>2. Committed(at'[p], job'[p], Left')
    BY <1>1, <1>4 DEF WritesOn, Committed
  <2>3. ~ Contested(job[p].place)' => Stage(at'[p], job'[p], status'[p], dirs', temps')
    BY <1>2, <1>3
  <2> QED BY <2>1, <2>2, <2>3 DEF Process
<1>6. job[p].place \in DOMAIN dirs' => Whole(dirs'[job[p].place]) \/ Contested(job[p].place)'
  BY <1>2
<1> QED BY <1>1, <1>5, <1>6, Together DEF WritesOn

(* When nothing is exposed, the evidence is what it was.                   *)
LEMMA StagingKeeps ==
    ASSUME IInv, NEW p \in Processes, WritesOn(p), WellFormedState', dirs' = dirs,
           OnlyAt(job[p].place, temps, temps'),
           job[p].place \in DOMAIN temps' /\ "manifest" \in DOMAIN temps'[job[p].place] =>
               Agrees(temps'[job[p].place].manifest, Left),
           ~ Contested(job[p].place) => Stage(at'[p], job'[p], status'[p], dirs', temps')
    PROVE  IInv'
<1>1. Left' = Left
  BY DEF Left
<1>2. Coheres(Left)'
  BY <1>1 DEF IInv, Coheres
<1>3. OnlyAt(job[p].place, dirs, dirs')
  BY DEF OnlyAt
<1>4. job[p].place \in DOMAIN dirs' => Whole(dirs'[job[p].place]) \/ Contested(job[p].place)
  BY DEF IInv
<1> QED BY <1>1, <1>2, <1>3, <1>4, WriterKeeps

(* What a writer has to go on.                                             *)
LEMMA Writer ==
    ASSUME IInv, NEW p \in Processes, at[p] \in Writing
    PROVE  /\ WellFormedState /\ IsJob(job[p]) /\ Agrees(job[p].artifact, Left)
           /\ ~ Contested(job[p].place) => Stage(at[p], job[p], status[p], dirs, temps)
           /\ \A place \in DOMAIN temps :
                  "manifest" \in DOMAIN temps[place] => Agrees(temps[place].manifest, Left)
           /\ OnlyAt(job[p].place, temps, temps)
BY DEF IInv, WellFormedState, Process, Committed, Staged, OnlyAt

\* A writer that goes on keeps its job.
LEMMA GoesOn ==
    ASSUME IInv, NEW p \in Processes, at[p] \in Writing, NEW step \in Writing \cup {"exited", "crashed"},
           Goto(p, step), UNCHANGED <<job, status>>
    PROVE  /\ WritesOn(p) /\ WellFormedState' /\ job'[p] = job[p] /\ at'[p] = step /\ status'[p] = status[p]
<1>1. WellFormedState /\ step \in Steps
  BY DEF IInv, Steps, Writing
<1>2. /\ WellFormedState' /\ Moves(p)
      /\ job'[p] = job[p] /\ at'[p] = step /\ status'[p] = status[p]
  BY <1>1, StepsOnly
<1> QED BY <1>2 DEF WritesOn

\* Clearing a stale temporary directory keeps the invariant.
LEMMA ClearKeeps ==
    ASSUME IInv, NEW p \in Processes, Clear(p)
    PROVE  IInv'
<1>1. at[p] = "clear" /\ at[p] \in Writing /\ "make" \in Writing \cup {"exited", "crashed"}
  BY DEF Clear, Writing
<1>2. /\ WritesOn(p) /\ WellFormedState' /\ job'[p] = job[p] /\ at'[p] = "make"
  BY <1>1, GoesOn DEF Clear
<1>3. /\ dirs' = dirs /\ job[p].place \notin DOMAIN temps'
      /\ OnlyAt(job[p].place, temps, temps')
  BY DEF Clear, Without, Restrict, OnlyAt
<1>4. ~ Contested(job[p].place) => Stage(at'[p], job'[p], status'[p], dirs', temps')
  BY <1>1, <1>2, <1>3, Writer DEF Stage
<1> QED BY <1>2, <1>3, <1>4, StagingKeeps

\* Making the temporary directory does.
LEMMA MakeKeeps ==
    ASSUME IInv, NEW p \in Processes, Make(p)
    PROVE  IInv'
<1> DEFINE next == IF job[p].artifact.family \in Owners THEN "media" ELSE "manifest"
<1>1. at[p] = "make" /\ at[p] \in Writing
  BY DEF Make, Writing
<1>2. PICK step \in {"media", "manifest"} :
          Goto(p, step) /\ (step = "manifest" => job[p].artifact.family \notin Owners)
  BY DEF Make
<1>3. step \in Writing \cup {"exited", "crashed"}
  BY DEF Writing
<1>4. /\ WritesOn(p) /\ WellFormedState' /\ job'[p] = job[p] /\ at'[p] = step
  BY <1>1, <1>2, <1>3, GoesOn DEF Make
<1>5. CASE job[p].place \in DOMAIN temps
  <2>1. dirs' = dirs /\ temps' = temps
    BY <1>5 DEF Make
  <2>2. Contested(job[p].place)
    BY <1>1, <1>5, Writer DEF Stage
  <2> QED BY <1>1, <1>4, <2>1, <2>2, Writer, StagingKeeps
<1>6. CASE job[p].place \notin DOMAIN temps
  <2>1. dirs' = dirs /\ temps' = With(temps, job[p].place, EmptyDir)
    BY <1>6 DEF Make
  <2>2. /\ OnlyAt(job[p].place, temps, temps') /\ job[p].place \in DOMAIN temps'
        /\ temps'[job[p].place] = EmptyDir
    BY <2>1 DEF With, OnlyAt
  <2>3. "manifest" \notin DOMAIN EmptyDir
    BY DEF EmptyDir
  <2>4. ~ Contested(job[p].place) => Stage(at'[p], job'[p], status'[p], dirs', temps')
    BY <1>1, <1>2, <1>4, <2>1, <2>2, Writer DEF Stage
  <2> QED BY <1>4, <2>1, <2>2, <2>3, <2>4, StagingKeeps
<1> QED BY <1>5, <1>6

(* The store or the storage fails: what was staged is to be discarded.     *)
LEMMA FailsKeeps ==
    ASSUME IInv, NEW p \in Processes, at[p] \in {"clear", "make", "media", "manifest", "expose"}, Fails(p)
    PROVE  IInv'
<1>1. at[p] \in Writing /\ dirs' = dirs /\ temps' = temps
  BY DEF Writing, Fails
<1>2. WellFormedState /\ IsJob(job[p]) /\ job' = [job EXCEPT ![p].trouble = "storage"]
      /\ at' = [at EXCEPT ![p] = "discard"] /\ UNCHANGED status
  BY <1>1, Writer DEF Fails, Goto
<1>3. PICK j : j = [job[p] EXCEPT !.trouble = "storage"]
  OBVIOUS
<1>4. IsJob(j) /\ j.trouble = "storage" /\ j.place = job[p].place /\ j.artifact = job[p].artifact
  BY <1>2, <1>3 DEF IsJob
<1>5. PICK code \in Int : code = status[p]
  BY <1>2, Unmoved
<1>6. /\ job' = [job EXCEPT ![p] = j] /\ status' = [status EXCEPT ![p] = code] /\ "discard" \in Steps
  BY <1>2, <1>3, <1>5 DEF WellFormedState, Steps
<1>7. WellFormedState' /\ Moves(p) /\ job'[p] = j /\ at'[p] = "discard"
  <2>1. WellFormedState /\ IsJob(j) /\ j.place = job[p].place /\ at' = [at EXCEPT ![p] = "discard"]
    BY <1>2, <1>4
  <2> QED BY <1>6, <2>1, Stayer
<1>8. WritesOn(p)
  BY <1>1, <1>4, <1>7 DEF WritesOn, Writing
<1>9. ~ Contested(job[p].place) => Stage(at'[p], job'[p], status'[p], dirs', temps')
  BY <1>1, <1>4, <1>7, Writer DEF Stage
<1> QED BY <1>1, <1>7, <1>8, <1>9, Writer, StagingKeeps

\* Writing a file into it does.
LEMMA WriteFileKeeps ==
    ASSUME IInv, NEW p \in Processes, NEW file, NEW value, WriteFile(p, file, value),
           \/ at[p] = "media" /\ file = "media" /\ value = job[p].artifact.id
           \/ at[p] = "manifest" /\ file = "manifest" /\ value = job[p].artifact
    PROVE  IInv'
<1> DEFINE place == job[p].place
<1>1. at[p] \in Writing
  BY DEF Writing
<1>2. CASE place \notin DOMAIN temps
  BY <1>2, FailsKeeps DEF WriteFile
<1>3. CASE place \in DOMAIN temps
  <2>1. /\ temps' = [temps EXCEPT ![place] = With(temps[place], file, value)]
        /\ Goto(p, IF file = "media" THEN "manifest" ELSE "expose") /\ UNCHANGED <<job, status>>
        /\ dirs' = dirs
    BY <1>3 DEF WriteFile
  <2>2. PICK step : step = IF file = "media" THEN "manifest" ELSE "expose"
    OBVIOUS
  <2>3. step \in Writing \cup {"exited", "crashed"} /\ Goto(p, step)
    BY <2>1, <2>2 DEF Writing
  <2>4. WritesOn(p) /\ WellFormedState' /\ job'[p] = job[p] /\ at'[p] = step
    BY <1>1, <2>1, <2>3, GoesOn
  <2>5. /\ OnlyAt(place, temps, temps') /\ place \in DOMAIN temps'
        /\ temps'[place] = With(temps[place], file, value)
    BY <1>3, <2>1 DEF OnlyAt
  <2>6. /\ DOMAIN temps'[place] = DOMAIN temps[place] \cup {file}
        /\ temps'[place][file] = value
        /\ \A f \in DOMAIN temps[place] : f # file => temps'[place][f] = temps[place][f]
    BY <2>5 DEF With
  <2>7. "manifest" \in DOMAIN temps'[place] => Agrees(temps'[place].manifest, Left)
    <3>1. CASE file = "manifest"
      BY <1>1, <2>6, <3>1, Writer
    <3>2. CASE file = "media"
      BY <1>1, <1>3, <2>6, <3>2, Writer
    <3> QED BY <3>1, <3>2
  <2>8. ASSUME ~ Contested(place) PROVE Stage(at'[p], job'[p], status'[p], dirs', temps')
    <3>1. Stage(at[p], job[p], status[p], dirs, temps)
      BY <1>1, <2>8, Writer
    <3>2. CASE file = "media"
      BY <2>1, <2>2, <2>4, <2>5, <2>6, <3>1, <3>2 DEF Stage
    <3>3. CASE file = "manifest"
      BY <2>1, <2>2, <2>4, <2>5, <2>6, <3>1, <3>3 DEF Stage, HasManifest
    <3> QED BY <3>2, <3>3
  <2> QED BY <2>1, <2>4, <2>5, <2>7, <2>8, StagingKeeps
<1> QED BY <1>2, <1>3

\* Discarding it does.
LEMMA DiscardKeeps ==
    ASSUME IInv, NEW p \in Processes, Discard(p)
    PROVE  IInv'
<1>1. at[p] = "discard" /\ at[p] \in Writing
  BY DEF Discard, Writing
<1>2. WellFormedState /\ at' = [at EXCEPT ![p] = "exited"] /\ status' = [status EXCEPT ![p] = 1]
      /\ UNCHANGED job /\ dirs' = dirs
  BY <1>1, Writer DEF Discard, Exit, Goto
<1>3. PICK j : j = job[p]
  OBVIOUS
<1>4. IsJob(j) /\ job' = [job EXCEPT ![p] = j] /\ j.place = job[p].place
  BY <1>2, <1>3, Unmoved
<1>5. WellFormedState' /\ Moves(p) /\ job'[p] = j /\ at'[p] = "exited" /\ status'[p] = 1
  <2>1. "exited" \in Steps /\ 1 \in Int
    BY DEF Steps
  <2>2. /\ WellFormedState /\ IsJob(j) /\ j.place = job[p].place
        /\ job' = [job EXCEPT ![p] = j] /\ at' = [at EXCEPT ![p] = "exited"]
        /\ status' = [status EXCEPT ![p] = 1]
    BY <1>2, <1>4
  <2> QED BY <2>1, <2>2, Stayer, ZenonT(30)
<1>6. WritesOn(p)
  BY <1>1, <1>3, <1>5 DEF WritesOn
<1>7. job[p].place \notin DOMAIN temps' /\ OnlyAt(job[p].place, temps, temps')
  BY DEF Discard, Without, Restrict, OnlyAt
<1>8. ~ Contested(job[p].place) => Stage(at'[p], job'[p], status'[p], dirs', temps')
  BY <1>1, <1>2, <1>3, <1>5, <1>7, Writer DEF Stage
<1> QED BY <1>2, <1>5, <1>6, <1>7, <1>8, StagingKeeps

\* Reporting does.
LEMMA ReportKeeps ==
    ASSUME IInv, NEW p \in Processes, Report(p)
    PROVE  IInv'
<1>1. at[p] = "report" /\ at[p] \in Writing
  BY DEF Report, Writing
<1>2. PICK code \in {0, 1} : /\ code = 1 => Condemned(job[p])
                            /\ at' = [at EXCEPT ![p] = "exited"]
                            /\ status' = [status EXCEPT ![p] = code]
  <2>1. CASE Condemned(job[p])
    BY <2>1 DEF Report, Exit, Goto
  <2>2. CASE ~ Condemned(job[p])
    BY <2>2 DEF Report, Exit, Goto
  <2> QED BY <2>1, <2>2
<1>3. PICK j : j = job[p]
  OBVIOUS
<1>4. /\ WellFormedState /\ IsJob(j) /\ job' = [job EXCEPT ![p] = j] /\ j.place = job[p].place
  BY <1>1, <1>3, Unmoved, Writer DEF Report
<1>5. WellFormedState' /\ Moves(p) /\ job'[p] = j /\ at'[p] = "exited" /\ status'[p] = code
  <2>1. "exited" \in Steps /\ code \in Int
    BY DEF Steps
  <2> QED BY <1>2, <1>4, <2>1, Stayer
<1>6. WritesOn(p) /\ dirs' = dirs /\ temps' = temps
  BY <1>1, <1>3, <1>5 DEF WritesOn, Report
<1>7. ~ Contested(job[p].place) => Stage(at'[p], job'[p], status'[p], dirs', temps')
  BY <1>1, <1>2, <1>3, <1>5, <1>6, Writer DEF Stage
<1> QED BY <1>1, <1>5, <1>6, <1>7, Writer, StagingKeeps

\* Looking whether the place is taken does.
LEMMA LookKeeps ==
    ASSUME IInv, NEW p \in Processes, Look(p)
    PROVE  IInv'
<1>1. at[p] = "look" /\ at[p] \in Writing /\ dirs' = dirs /\ temps' = temps
  BY DEF Look, Writing
<1>2. CASE job[p].place \notin DOMAIN dirs
  <2>1. Goto(p, "clear") /\ UNCHANGED <<job, status>> /\ "clear" \in Writing \cup {"exited", "crashed"}
    BY <1>2 DEF Look, Writing
  <2>2. WritesOn(p) /\ WellFormedState' /\ job'[p] = job[p] /\ at'[p] = "clear"
    BY <1>1, <2>1, GoesOn
  <2>3. ~ Contested(job[p].place) => Stage(at'[p], job'[p], status'[p], dirs', temps')
    BY <1>1, <1>2, <2>2, Writer DEF Stage
  <2> QED BY <1>1, <2>2, <2>3, Writer, StagingKeeps
<1>3. CASE job[p].place \in DOMAIN dirs
  <2>1. WellFormedState /\ IsJob(job[p]) /\ job' = [job EXCEPT ![p].trouble = "taken"]
        /\ at' = [at EXCEPT ![p] = "exited"] /\ status' = [status EXCEPT ![p] = 1]
    BY <1>1, <1>3, Writer DEF Look, Exit, Goto
  <2>2. PICK j : j = [job[p] EXCEPT !.trouble = "taken"]
    OBVIOUS
  <2>3. IsJob(j) /\ j.trouble = "taken" /\ j.place = job[p].place /\ j.artifact = job[p].artifact
    BY <2>1, <2>2 DEF IsJob
  <2>4. /\ job' = [job EXCEPT ![p] = j] /\ "exited" \in Steps /\ 1 \in Int
    BY <2>1, <2>2 DEF WellFormedState, Steps
  <2>5. WellFormedState' /\ Moves(p) /\ job'[p] = j /\ at'[p] = "exited" /\ status'[p] = 1
    <3>1. WellFormedState /\ IsJob(j) /\ j.place = job[p].place
          /\ at' = [at EXCEPT ![p] = "exited"] /\ status' = [status EXCEPT ![p] = 1]
      BY <2>1, <2>3
    <3> QED BY <2>4, <3>1, Stayer, ZenonT(60)
  <2>6. WritesOn(p)
    BY <1>1, <2>3, <2>5 DEF WritesOn
  <2>7. ~ Contested(job[p].place) => Stage(at'[p], job'[p], status'[p], dirs', temps')
    BY <1>1, <2>3, <2>5, Writer DEF Stage
  <2> QED BY <1>1, <2>5, <2>6, <2>7, Writer, StagingKeeps
<1> QED BY <1>2, <1>3

(* A rename puts what was staged in place of nothing or of an empty        *)
(* directory, so no evidence is lost by it.                                *)
LEMMA ExposeKeeps ==
    ASSUME IInv, NEW p \in Processes, Expose(p)
    PROVE  IInv'
<1> DEFINE place == job[p].place
<1>1. at[p] = "expose" /\ at[p] \in Writing
  BY DEF Expose, Writing
<1>2. CASE ~ (place \in DOMAIN temps /\ (place \in DOMAIN dirs => dirs[place] = EmptyDir))
  <2>1. Fails(p)
    BY <1>2 DEF Expose
  <2>2. at[p] \in {"clear", "make", "media", "manifest", "expose"}
    BY <1>1
  <2> QED BY <2>1, <2>2, FailsKeeps
<1>3. CASE place \in DOMAIN temps /\ (place \in DOMAIN dirs => dirs[place] = EmptyDir)
  <2>1. /\ dirs' = With(dirs, place, temps[place]) /\ temps' = Without(temps, place)
        /\ Goto(p, "report") /\ UNCHANGED <<job, status>>
    BY <1>3 DEF Expose
  <2>2. "report" \in Writing \cup {"exited", "crashed"}
    BY DEF Writing
  <2>3. WritesOn(p) /\ WellFormedState' /\ job'[p] = job[p] /\ at'[p] = "report"
    BY <1>1, <2>1, <2>2, GoesOn
  <2>4. /\ DOMAIN dirs' = DOMAIN dirs \cup {place} /\ dirs'[place] = temps[place]
        /\ \A x \in DOMAIN dirs : x # place => dirs'[x] = dirs[x]
    BY <2>1 DEF With
  <2>5. place \notin DOMAIN temps' /\ OnlyAt(place, temps, temps')
    BY <2>1 DEF Without, Restrict, OnlyAt
  <2>6. OnlyAt(place, dirs, dirs')
    BY <2>4 DEF OnlyAt
  <2>7. Left \subseteq Left'
    <3> SUFFICES ASSUME NEW x \in DOMAIN dirs, "manifest" \in DOMAIN dirs[x]
                 PROVE  dirs[x].manifest \in Left'
      BY DEF Left, ManifestsOf
    <3>1. x # place
      BY <1>3 DEF EmptyDir
    <3> QED BY <2>4, <3>1 DEF Left, ManifestsOf
  <2>8. \A a \in Left' : a \in Left \/ ("manifest" \in DOMAIN temps[place] /\ a = temps[place].manifest)
    <3> SUFFICES ASSUME NEW a \in Left'
                 PROVE  a \in Left \/ ("manifest" \in DOMAIN temps[place] /\ a = temps[place].manifest)
      OBVIOUS
    <3>1. PICK x \in DOMAIN dirs' : "manifest" \in DOMAIN dirs'[x] /\ a = dirs'[x].manifest
      BY DEF Left, ManifestsOf
    <3>2. CASE x = place
      BY <2>4, <3>1, <3>2
    <3>3. CASE x # place
      <4>1. x \in {y \in DOMAIN dirs : "manifest" \in DOMAIN dirs[y]} /\ a = dirs[x].manifest
        BY <2>4, <3>1, <3>3
      <4> QED BY <4>1 DEF Left, ManifestsOf
    <3> QED BY <3>2, <3>3
  <2>9. "manifest" \in DOMAIN temps[place] => Agrees(temps[place].manifest, Left)
    BY <1>1, <1>3, Writer
  <2>10. Coheres(Left')
    <3> SUFFICES ASSUME NEW a \in Left' PROVE Agrees(a, Left')
      BY DEF Coheres
    <3>1. Agrees(a, Left)
      <4>1. CASE a \in Left
        BY <4>1 DEF IInv, Coheres
      <4>2. CASE "manifest" \in DOMAIN temps[place] /\ a = temps[place].manifest
        BY <4>2, <2>9
      <4> QED BY <2>8, <4>1, <4>2
    <3> QED BY <2>7, <3>1, AgreesGrows
  <2>11. ASSUME ~ Contested(place)
         PROVE  Whole(dirs'[place]) /\ Stage(at'[p], job'[p], status'[p], dirs', temps')
    <3>1. Stage(at[p], job[p], status[p], dirs, temps)
      BY <1>1, <2>11, Writer
    <3>2. /\ HasManifest(temps, place, job[p].artifact)
          /\ job[p].artifact.family \in Owners =>
                 "media" \in DOMAIN temps[place] /\ temps[place].media = job[p].artifact.id
      BY <1>1, <3>1 DEF Stage
    <3>3. Whole(dirs'[place])
      BY <2>4, <3>2 DEF Whole, HasManifest
    <3>4. HasManifest(dirs', place, job[p].artifact)
      BY <2>4, <3>2 DEF HasManifest
    <3>5. Stage("report", job[p], status'[p], dirs', temps')
      BY <2>5, <3>4 DEF Stage
    <3> QED BY <2>3, <3>3, <3>5
  <2>12. Coheres(Left)'
    BY <2>10 DEF Coheres
  <2>13. place \in DOMAIN dirs' => Whole(dirs'[place]) \/ Contested(place)
    BY <2>11
  <2> QED BY <2>3, <2>5, <2>6, <2>7, <2>11, <2>12, <2>13, WriterKeeps
<1> QED BY <1>2, <1>3

(* A process that is killed leaves what it had staged, and no evidence.    *)
LEMMA CrashKeeps ==
    ASSUME IInv, NEW p \in Processes, Crash(p)
    PROVE  IInv'
<1>1. WellFormedState /\ at[p] \notin {"idle", "exited", "crashed"} /\ dirs' = dirs /\ temps' = temps
      /\ Goto(p, "crashed") /\ UNCHANGED <<job, status>>
  BY DEF IInv, Crash
<1>2. CASE at[p] \in Writing
  <2>1. "crashed" \in Writing \cup {"exited", "crashed"}
    OBVIOUS
  <2>2. WritesOn(p) /\ WellFormedState' /\ job'[p] = job[p] /\ at'[p] = "crashed"
    BY <1>1, <1>2, <2>1, GoesOn
  <2>3. Stage(at'[p], job'[p], status'[p], dirs', temps')
    BY <2>2 DEF Stage
  <2> QED BY <1>1, <1>2, <2>2, <2>3, Writer, StagingKeeps
<1>3. CASE at[p] \notin Writing
  <2>1. at[p] \in Before
    BY <1>1, <1>3, Unmoved DEF Before, Writing, Steps
  <2>2. WellFormedState' /\ Moves(p) /\ job'[p] = job[p] /\ at'[p] = "crashed"
    <3>1. "crashed" \in Steps
      BY DEF Steps
    <3> QED BY <1>1, <3>1, StepsOnly
  <2>3. job'[p].place = Nowhere
    BY <2>1, <2>2 DEF IInv, Process, Asked
  <2>4. Process(p)'
    BY <2>2, <2>3 DEF Process, Asked, Gathered, Committed, Before, Writing
  <2> QED BY <1>1, <2>2, <2>4, Quiet
<1> QED BY <1>2, <1>3

\* So does every step.
LEMMA InvariantNext ==
    ASSUME IInv, [Next]_vars
    PROVE  IInv'
<1>1. ASSUME NEW p \in Processes, Write(p) PROVE IInv'
  <2>1. CASE WriteMedia(p)
    <3>1. PICK value : value = job[p].artifact.id
      OBVIOUS
    <3> QED BY <2>1, <3>1, WriteFileKeeps DEF WriteMedia
  <2>2. CASE WriteManifest(p)
    <3>1. PICK value : value = job[p].artifact
      OBVIOUS
    <3> QED BY <2>2, <3>1, WriteFileKeeps DEF WriteManifest
  <2>3. CASE StorageFails(p)
    BY <2>3, FailsKeeps DEF StorageFails
  <2> QED BY <1>1, <2>1, <2>2, <2>3, LookKeeps, ClearKeeps, MakeKeeps, ExposeKeeps, DiscardKeeps,
             ReportKeeps DEF Write
<1>2. CASE UNCHANGED vars
  BY <1>2 DEF vars, IInv, WellFormedState, Coheres, Left, Contested, Staged, Process
<1>3. CASE Next
  BY <1>1, <1>3, StartKeeps, LoadKeeps, ProjectKeeps, ReadArtifactKeeps, DecideKeeps, CrashKeeps DEF Next
<1> QED BY <1>2, <1>3

(* However the commands of several processes interleave and wherever they  *)
(* are killed, each writer is as far as its step says, unless another one  *)
(* writes to its place, and all that is staged or exposed is evidence of   *)
(* what was read (runCli, the application services, the writers).          *)
THEOREM Invariance == Spec => []IInv
<1>1. Init => IInv
  BY InvariantInit
<1>2. IInv /\ [Next]_vars => IInv'
  BY InvariantNext
<1> QED BY <1>1, <1>2, PTL DEF Spec

(* EvidenceCoheres: an exposed directory is whole, unless two processes    *)
(* wrote to it, and the artifacts of all commands together are one         *)
(* consistent body of evidence.                                            *)
THEOREM AlwaysCoheres == Spec => []EvidenceCoheres
<1>1. IInv => EvidenceCoheres
  BY ContestedIsShared DEF IInv, EvidenceCoheres
<1> QED BY <1>1, Invariance, PTL

(* StatusTellsOutcome: what a process leaves agrees with the status it     *)
(* exits with, unless another one wrote to the same place.                 *)
THEOREM AlwaysTells == Spec => []StatusTellsOutcome
<1>1. ASSUME IInv PROVE StatusTellsOutcome
  <2> SUFFICES ASSUME NEW p \in Processes, at[p] = "exited", job[p].place # Nowhere, ~ Shared(job[p].place)
               PROVE  LET j == job[p]
                          kept == /\ j.place \in DOMAIN dirs /\ "manifest" \in DOMAIN dirs[j.place]
                                  /\ dirs[j.place].manifest = j.artifact
                      IN  /\ status[p] = 0 => kept
                          /\ status[p] = 1 /\ kept => Condemned(j) \/ j.trouble = "taken"
                          /\ ~ kept => j.trouble # "none"
                          /\ j.place \notin DOMAIN temps
    BY DEF StatusTellsOutcome
  <2>1. ~ Contested(job[p].place)
    BY ContestedIsShared
  <2>2. Stage(at[p], job[p], status[p], dirs, temps)
    BY <1>1, <2>1 DEF IInv, Process
  <2> QED BY <2>2 DEF Stage, HasManifest
<1> QED BY <1>1, Invariance, PTL

-----------------------------------------------------------------------------
(* Words                                                                   *)

LEMMA Parity ==
    ASSUME NEW n \in Nat
    PROVE  (n + 1) % 2 = 1 <=> n % 2 # 1
OBVIOUS

(* A word is a value exactly when the word before it takes one and is not  *)
(* one itself: the parity of the row before it is settled one by one.      *)
LEMMA ValueAfter ==
    ASSUME NEW options, NEW words, NEW i \in Nat
    PROVE  IsValue(options, words, i + 1) <=>
               i >= 1 /\ ~ IsValue(options, words, i) /\ TakesValue(options, words[i])
<1> DEFINE Row(first, n) == /\ first \in 1..n
                            /\ \A j \in first..n : TakesValue(options, words[j])
                            /\ first = 1 \/ ~ TakesValue(options, words[first - 1])
<1>1. /\ IsValue(options, words, i + 1) <=> \E first : Row(first, i) /\ ((i + 1) - first) % 2 = 1
      /\ IsValue(options, words, i) <=> \E first : Row(first, i - 1) /\ (i - first) % 2 = 1
  <2>1. \A n \in Int : IsValue(options, words, n) <=> \E first : Row(first, n - 1) /\ (n - first) % 2 = 1
    <3>1. \A n \in Int : IsValue(options, words, n) <=> \E first \in 1..(n - 1) : Row(first, n - 1) /\ (n - first) % 2 = 1
      BY Zenon DEF IsValue
    <3> QED BY <3>1
  <2>2. (i + 1) - 1 = i
    OBVIOUS
  <2> HIDE DEF Row
  <2>3. IsValue(options, words, i + 1) <=> \E first : Row(first, i) /\ ((i + 1) - first) % 2 = 1
    <3>1. i + 1 \in Int
      OBVIOUS
    <3>2. IsValue(options, words, i + 1) <=> \E first : Row(first, (i + 1) - 1) /\ ((i + 1) - first) % 2 = 1
      BY <2>1, <3>1, Zenon
    <3> QED BY <2>2, <3>2
  <2> QED BY <2>1, <2>3
<1>2. ASSUME NEW n \in Nat, NEW first, Row(first, n), NEW other, Row(other, n)
      PROVE  first = other
  BY <1>2
<1>3. ASSUME i >= 1, TakesValue(options, words[i]) PROVE \E first : Row(first, i)
  <2> DEFINE T == {k \in 1..i : \A j \in k..i : TakesValue(options, words[j])}
  <2>1. T \in SUBSET Nat /\ i \in T
    BY <1>3
  <2>2. PICK first \in T : \A y \in T : first <= y
    <3> HIDE DEF T
    <3> QED BY <2>1, NatMin
  <2>3. first = 1 \/ ~ TakesValue(options, words[first - 1])
    <3> SUFFICES ASSUME first # 1, TakesValue(options, words[first - 1]) PROVE first - 1 \in T
      BY <2>2
    <3>1. \A j \in (first - 1)..i : j = first - 1 \/ j \in first..i
      BY <2>2
    <3> QED BY <2>2, <3>1
  <2> QED BY <2>2, <2>3
<1>4. ASSUME NEW first, Row(first, i), i # first PROVE i >= 2 /\ Row(first, i - 1)
  BY <1>4
<1>5. ASSUME i >= 1, ~ IsValue(options, words, i), TakesValue(options, words[i])
      PROVE  IsValue(options, words, i + 1)
  <2>1. PICK first : Row(first, i)
    BY <1>3, <1>5
  <2>2. CASE first = i
    <3>1. ((i + 1) - first) % 2 = 1
      BY <2>2
    <3> QED BY <1>1, <2>1, <3>1
  <2>3. CASE first # i
    <3>1. i >= 2 /\ Row(first, i - 1)
      BY <1>4, <2>1, <2>3
    <3>2. i - first \in Nat
      BY <2>1, <3>1
    <3>3. (i - first) % 2 # 1
      <4> HIDE DEF Row
      <4> QED BY <1>1, <1>5, <3>1
    <3>4. (i - first) + 1 = (i + 1) - first
      BY <2>1
    <3>5. ((i + 1) - first) % 2 = 1
      BY <3>2, <3>3, <3>4, Parity
    <3> HIDE DEF Row
    <3> QED BY <1>1, <2>1, <3>5
  <2> QED BY <2>2, <2>3
<1>6. ASSUME IsValue(options, words, i + 1)
      PROVE  i >= 1 /\ ~ IsValue(options, words, i) /\ TakesValue(options, words[i])
  <2>1. PICK first : Row(first, i) /\ ((i + 1) - first) % 2 = 1
    BY <1>1, <1>6
  <2>2. i >= 1 /\ TakesValue(options, words[i])
    BY <2>1
  <2>3. ASSUME IsValue(options, words, i) PROVE FALSE
    <3>2. PICK other : Row(other, i - 1) /\ (i - other) % 2 = 1
      <4> HIDE DEF Row
      <4> QED BY <1>1, <2>3
    <3>3. Row(other, i)
      BY <2>2, <3>2
    <3>4. other = first
      <4> HIDE DEF Row
      <4> QED BY <1>2, <2>1, <3>3
    <3>5. i - first \in Nat /\ (i - first) + 1 = (i + 1) - first
      BY <2>1
    <3> QED BY <2>1, <3>2, <3>4, <3>5, Parity
  <2> QED BY <2>2, <2>3
<1> QED BY <1>5, <1>6

(* Every row of the tables has one of the five rules.                      *)
LEMMA TablesAreSound ==
    ASSUME NEW command \in DOMAIN OptionsOf, NEW o \in DOMAIN OptionsOf[command]
    PROVE  /\ OptionsOf[command][o].rule \in {"once", "last", "many", "loose", "switch"}
           /\ OptionsOf[command][o].rule = "loose" => OptionsOf[command][o].kind = "text"
<1>1. command \in {"observe", "init", "compare", "approve-baseline",
                   "save-change-contract", "evaluate-contract",
                   "import-reference", "approve-reference",
                   "evaluate-reference-fidelity", "view"}
  BY DEF OptionsOf
<1>2. CASE command = "observe"
  BY <1>2 DEF OptionsOf, ObserveOptions, Option, Once, Switch
<1>3. CASE command = "init"
  BY <1>3 DEF OptionsOf, InitOptions, Option, Once, Switch
<1>4. CASE command = "view"
  BY <1>4 DEF OptionsOf, ViewOptions, Option, Once, Switch
<1>5. CASE command \in {"evaluate-contract", "evaluate-reference-fidelity"}
  BY <1>5 DEF OptionsOf, EvaluateContractOptions, EvaluateReferenceFidelityOptions, OnceOr, Option, Once, Switch
<1>6. CASE command \in {"compare", "approve-baseline", "save-change-contract", "import-reference",
                        "approve-reference"}
  BY <1>6 DEF OptionsOf, CompareOptions, ApproveBaselineOptions, SaveChangeContractOptions,
              ImportReferenceOptions, ApproveReferenceOptions, AllOnce, Option, Once
<1> QED BY <1>1, <1>2, <1>3, <1>4, <1>5, <1>6

(* The words are read one after the other.                                 *)
LEMMA ReadOneByOne ==
    ASSUME NEW command, NEW S, NEW words \in Seq(S)
    PROVE  \E upto : /\ ReadWords(command, words) = upto[Len(words)]
                     /\ upto[0] = Unread(OptionsOf[command])
                     /\ \A i \in 1..Len(words) : upto[i] = ReadWord(command, words, i, upto[i - 1])
<1> DEFINE Eq(g, n) == g = [i \in 0..n |-> IF i = 0 THEN Unread(OptionsOf[command])
                                           ELSE ReadWord(command, words, i, g[i - 1])]
<1>1. Len(words) \in Nat
  OBVIOUS
<1>2. \A n \in Nat : \E g : Eq(g, n)
  <2> DEFINE T == {n \in Nat : \E g : Eq(g, n)}
  <2>1. 0 \in T
    <3>1. Eq([i \in 0..0 |-> Unread(OptionsOf[command])], 0)
      OBVIOUS
    <3> QED BY <3>1
  <2>2. \A n \in Nat : n \in T => n + 1 \in T
    <3> SUFFICES ASSUME NEW n \in Nat, n \in T PROVE n + 1 \in T
      OBVIOUS
    <3>1. PICK g : Eq(g, n)
      OBVIOUS
    <3> DEFINE h == [i \in 0..(n + 1) |-> IF i <= n THEN g[i] ELSE ReadWord(command, words, n + 1, g[n])]
    <3>2. \A i \in 0..n : g[i] = IF i = 0 THEN Unread(OptionsOf[command])
                                 ELSE ReadWord(command, words, i, g[i - 1])
      BY <3>1
    <3>3. \A i \in 0..(n + 1) : h[i] = IF i = 0 THEN Unread(OptionsOf[command])
                                       ELSE ReadWord(command, words, i, h[i - 1])
      <4> SUFFICES ASSUME NEW i \in 0..(n + 1)
                   PROVE  h[i] = IF i = 0 THEN Unread(OptionsOf[command])
                                 ELSE ReadWord(command, words, i, h[i - 1])
        OBVIOUS
      <4>1. CASE i = 0
        BY <4>1, <3>2
      <4>2. CASE i # 0 /\ i <= n
        BY <4>2, <3>2
      <4>3. CASE i = n + 1
        BY <4>3
      <4> QED BY <4>1, <4>2, <4>3
    <3>4. Eq(h, n + 1)
      BY <3>3
    <3>5. \E k : Eq(k, n + 1)
      <4> HIDE DEF h, Eq
      <4> QED BY <3>4
    <3> HIDE DEF Eq
    <3> QED BY <3>5
  <2>3. Nat \subseteq T
    <3> HIDE DEF T
    <3> QED BY <2>1, <2>2, NatSetInduction
  <2> QED BY <2>3
<1> DEFINE upto == CHOOSE g : Eq(g, Len(words))
<1>3. ReadWords(command, words) = upto[Len(words)]
  BY DEF ReadWords
<1>4. Eq(upto, Len(words))
  BY <1>1, <1>2
<1>5. \A i \in 0..Len(words) : upto[i] = IF i = 0 THEN Unread(OptionsOf[command])
                                         ELSE ReadWord(command, words, i, upto[i - 1])
  <2> HIDE DEF upto
  <2> QED BY <1>4
<1>6. /\ upto[0] = Unread(OptionsOf[command])
      /\ \A i \in 1..Len(words) : upto[i] = ReadWord(command, words, i, upto[i - 1])
  <2> HIDE DEF upto
  <2> QED BY <1>1, <1>5
<1> HIDE DEF upto
<1> QED BY <1>3, <1>6
-----------------------------------------------------------------------------
(* How far a line has been read                                            *)

\* The places up to i where an option stands, or a word that is none; and
\* whether the option at a place has a value of its kind.
StandingTo(options, words, i) == {k \in Standing(options, words) : k <= i}
PlacesTo(options, words, i, o) == {k \in StandingTo(options, words, i) : words[k] = o}
FreeTo(options, words, i) == {k \in StandingTo(options, words, i) : words[k] \notin DOMAIN options}
Valued(options, words, k) == k < Len(words) /\ WellFormed(options[words[k]].kind, words[k + 1])
IsLast(l, places) == l \in places /\ \A k \in places : k <= l
Strict == {"once", "last", "many"}
Rules == Strict \cup {"loose", "switch"}

SoundTo(command, words, i) ==
    LET options == OptionsOf[command]
        free == FreeTo(options, words, i)
    IN  /\ \A o \in DOMAIN options : \A k \in PlacesTo(options, words, i, o) :
               /\ options[o].rule \in Strict => Valued(options, words, k)
               /\ options[o].rule = "once" => \A l \in PlacesTo(options, words, i, o) : k = l
        /\ command # "import-reference" => free = {}
        /\ \A k \in free : words[k] \notin Dashed /\ \A l \in free : k = l

KeptTo(option, words, places, kept) ==
    /\ places = {} => kept = << >>
    /\ \A l : IsLast(l, places) =>
           /\ option.rule = "switch" => kept = <<TRUE>>
           /\ option.rule = "loose" => kept = IF l < Len(words) THEN <<words[l + 1]>> ELSE << >>
           /\ option.rule \in {"once", "last"} => kept = <<words[l + 1]>>
           /\ option.rule = "many" => kept # << >> /\ kept[Len(kept)] = words[l + 1]
    /\ option.rule = "many" => kept \in Seq(STRING) /\ Len(kept) = Cardinality(places)

IsReading(options, r) ==
    /\ r = [wrong |-> r.wrong, taken |-> r.taken, image |-> r.image, kept |-> r.kept, seen |-> r.seen]
    /\ r.kept = [o \in DOMAIN options |-> r.kept[o]]
    /\ r.seen \in [DOMAIN options -> Nat] /\ r.wrong \in BOOLEAN /\ r.taken \in BOOLEAN

ReadTo(command, words, i, r) ==
    LET options == OptionsOf[command]
        free == FreeTo(options, words, i)
    IN  /\ IsReading(options, r)
        /\ r.taken <=> IsValue(options, words, i + 1)
        /\ r.wrong <=> ~ SoundTo(command, words, i)
        /\ \A o \in DOMAIN options : r.seen[o] = 0 <=> PlacesTo(options, words, i, o) = {}
        /\ ~ r.wrong => /\ \A o \in DOMAIN options :
                               KeptTo(options[o], words, PlacesTo(options, words, i, o), r.kept[o])
                        /\ r.image = NoWord <=> free = {}
                        /\ \A k \in free : r.image = words[k]

\* What is wrong with the option at place i, and what is kept of it if
\* nothing is.
Refuses(options, words, i, r) ==
    /\ options[words[i]].rule \in Strict
    /\ ~ Valued(options, words, i) \/ (options[words[i]].rule = "once" /\ r.seen[words[i]] > 0)
Keeps(rule, words, i, kept, now) ==
    /\ rule \in Strict => i < Len(words)
    /\ rule = "switch" => now = <<TRUE>>
    /\ rule = "loose" => now = IF i < Len(words) THEN <<words[i + 1]>> ELSE << >>
    /\ rule \in {"once", "last"} => now = <<words[i + 1]>>
    /\ rule = "many" => now = Append(kept, words[i + 1])

\* Where options stand up to a word, from where they stand up to the one before.
LEMMA StandsNext ==
    ASSUME NEW options, NEW words \in Seq(STRING), NEW i \in 1..Len(words)
    PROVE  /\ i \in Standing(options, words) <=> ~ IsValue(options, words, i)
           /\ IsValue(options, words, i) => StandingTo(options, words, i) = StandingTo(options, words, i - 1)
           /\ ~ IsValue(options, words, i) =>
                  StandingTo(options, words, i) = StandingTo(options, words, i - 1) \cup {i}
           /\ i \notin StandingTo(options, words, i - 1)
<1>1. DOMAIN words = 1..Len(words) /\ Len(words) \in Nat
  OBVIOUS
<1>2. i \in Standing(options, words) <=> ~ IsValue(options, words, i)
  BY <1>1 DEF Standing
<1>3. \A k \in Standing(options, words) : k \in Nat
  BY <1>1 DEF Standing
<1>4. \A k \in Standing(options, words) : k <= i <=> k <= i - 1 \/ k = i
  BY <1>3
<1> QED BY <1>2, <1>4 DEF StandingTo

\* An option's value is passed over.
LEMMA ValuePassed ==
    ASSUME NEW command, NEW words, NEW i, NEW r, IsReading(OptionsOf[command], r), r.taken,
           NEW t, t = ReadWord(command, words, i, r)
    PROVE  /\ IsReading(OptionsOf[command], t) /\ ~ t.taken
           /\ t.wrong <=> r.wrong
           /\ t.image = r.image /\ t.kept = r.kept /\ t.seen = r.seen
<1>1. t = [r EXCEPT !.taken = FALSE]
  BY DEF ReadWord
<1>2. t = [wrong |-> r.wrong, taken |-> FALSE, image |-> r.image, kept |-> r.kept, seen |-> r.seen]
  BY <1>1 DEF IsReading
<1> QED BY <1>2 DEF IsReading

\* An option is counted, kept and takes the next word unless it is a switch.
LEMMA OptionRead ==
    ASSUME NEW command \in DOMAIN OptionsOf, NEW words, NEW i, NEW r, IsReading(OptionsOf[command], r), ~ r.taken,
           words[i] \in DOMAIN OptionsOf[command], NEW t, t = ReadWord(command, words, i, r)
    PROVE  /\ IsReading(OptionsOf[command], t) /\ t.image = r.image
           /\ t.wrong <=> (r.wrong \/ Refuses(OptionsOf[command], words, i, r))
           /\ t.taken <=> OptionsOf[command][words[i]].rule # "switch"
           /\ t.seen[words[i]] = r.seen[words[i]] + 1
           /\ \A x \in DOMAIN OptionsOf[command] \ {words[i]} : t.seen[x] = r.seen[x] /\ t.kept[x] = r.kept[x]
           /\ ~ Refuses(OptionsOf[command], words, i, r) =>
                  Keeps(OptionsOf[command][words[i]].rule, words, i, r.kept[words[i]], t.kept[words[i]])
<1> DEFINE options == OptionsOf[command]
           o == words[i]
           rule == options[o].rule
           refused == Refuses(options, words, i, r)
           wrong2 == r.wrong \/ refused
           value == IF i < Len(words) THEN words[i + 1] ELSE NoWord
           kept == CASE rule = "switch" -> <<TRUE>>
                     [] rule = "loose" -> IF i < Len(words) THEN <<value>> ELSE <<>>
                     [] refused -> r.kept[o]
                     [] rule = "many" /\ ~ refused -> Append(r.kept[o], value)
                     [] rule \in {"once", "last"} /\ ~ refused -> <<value>>
<1>1. rule \in {"once", "last", "many", "loose", "switch"}
  BY TablesAreSound
<1>2. t = [wrong |-> wrong2, taken |-> (rule # "switch"), image |-> r.image,
           kept |-> [r.kept EXCEPT ![o] = kept], seen |-> [r.seen EXCEPT ![o] = r.seen[o] + 1]]
  BY <1>1 DEF ReadWord, TakeOption, IsReading, Refuses, Valued, Strict
<1>3. ~ refused => Keeps(rule, words, i, r.kept[o], kept)
  <2>1. ~ refused /\ rule \in Strict => i < Len(words)
    BY DEF Refuses, Valued
  <2>2. rule \in {"switch", "loose"} => ~ refused
    BY DEF Refuses, Strict
  <2>3. rule \in {"once", "last", "many"} <=> rule \in Strict
    BY DEF Strict
  <2> HIDE DEF refused, rule, o, options
  <2> QED BY <1>1, <2>1, <2>2, <2>3 DEF Keeps
<1> HIDE DEF kept
<1>4. PICK b \in BOOLEAN : b <=> (r.wrong \/ refused)
  OBVIOUS
<1>5. PICK c \in BOOLEAN : c <=> rule # "switch"
  OBVIOUS
<1>6. t = [wrong |-> b, taken |-> c, image |-> r.image,
            kept |-> [r.kept EXCEPT ![o] = kept], seen |-> [r.seen EXCEPT ![o] = r.seen[o] + 1]]
  <2> HIDE DEF refused, rule, o
  <2>1. b = (r.wrong \/ refused) /\ c = (rule # "switch")
    BY <1>4, <1>5
  <2> QED BY <1>2, <2>1
<1>7. t.wrong = b /\ t.taken = c
  BY <1>6
<1>8. /\ t.image = r.image /\ t.kept = [r.kept EXCEPT ![o] = kept] /\ t.seen = [r.seen EXCEPT ![o] = r.seen[o] + 1]
  BY <1>6
<1>9. /\ t.kept[o] = kept /\ t.seen[o] = r.seen[o] + 1
      /\ \A x \in DOMAIN options \ {o} : t.seen[x] = r.seen[x] /\ t.kept[x] = r.kept[x]
      /\ t.kept = [x \in DOMAIN options |-> t.kept[x]]
      /\ t.seen \in [DOMAIN options -> Nat]
  BY <1>8 DEF IsReading
<1>10. IsReading(options, t)
  BY <1>6, <1>9 DEF IsReading
<1>11. /\ t.wrong <=> (r.wrong \/ refused)
       /\ t.taken <=> rule # "switch"
  BY <1>4, <1>5, <1>7
<1> QED BY <1>3, <1>8, <1>9, <1>10, <1>11

\* A word that is no option is the image to import, or wrong.
LEMMA WordRead ==
    ASSUME NEW command, NEW words, NEW i, NEW r, IsReading(OptionsOf[command], r), ~ r.taken,
           words[i] \notin DOMAIN OptionsOf[command], NEW t, t = ReadWord(command, words, i, r)
    PROVE  LET good == command = "import-reference" /\ words[i] \notin Dashed /\ r.image = NoWord
           IN  /\ IsReading(OptionsOf[command], t) /\ ~ t.taken
               /\ t.wrong <=> (r.wrong \/ ~ good)
               /\ good => t.image = words[i]
               /\ t.kept = r.kept /\ t.seen = r.seen
<1> DEFINE good == command = "import-reference" /\ words[i] \notin Dashed /\ r.image = NoWord
<1>1. CASE good
  <2>1. t = [r EXCEPT !.image = words[i]]
    BY <1>1 DEF ReadWord, TakeWord
  <2>2. t = [wrong |-> r.wrong, taken |-> r.taken, image |-> words[i], kept |-> r.kept, seen |-> r.seen]
    BY <2>1 DEF IsReading
  <2>3. t.wrong = r.wrong /\ t.taken = r.taken /\ t.image = words[i] /\ t.kept = r.kept /\ t.seen = r.seen
    BY <2>2
  <2>4. IsReading(OptionsOf[command], t)
    BY <2>2, <2>3 DEF IsReading
  <2> QED BY <1>1, <2>3, <2>4
<1>2. CASE ~ good
  <2>1. t = [r EXCEPT !.wrong = TRUE]
    BY <1>2 DEF ReadWord, TakeWord
  <2>2. t = [wrong |-> TRUE, taken |-> r.taken, image |-> r.image, kept |-> r.kept, seen |-> r.seen]
    BY <2>1 DEF IsReading
  <2>3. t.wrong = TRUE /\ t.taken = r.taken /\ t.image = r.image /\ t.kept = r.kept /\ t.seen = r.seen
    BY <2>2
  <2>4. IsReading(OptionsOf[command], t)
    BY <2>2, <2>3 DEF IsReading
  <2> QED BY <1>2, <2>3, <2>4
<1> QED BY <1>1, <1>2

(* When nothing more stands, nothing more has been said.                   *)
LEMMA ReadToSame ==
    ASSUME NEW command, NEW words, NEW i, NEW n, NEW r, NEW t,
           StandingTo(OptionsOf[command], words, n) = StandingTo(OptionsOf[command], words, i),
           ReadTo(command, words, i, r), IsReading(OptionsOf[command], t),
           t.taken <=> IsValue(OptionsOf[command], words, n + 1),
           t.wrong <=> r.wrong, t.image = r.image, t.kept = r.kept, t.seen = r.seen
    PROVE  ReadTo(command, words, n, t)
<1>1. \A o : PlacesTo(OptionsOf[command], words, n, o) = PlacesTo(OptionsOf[command], words, i, o)
  BY DEF PlacesTo
<1>2. FreeTo(OptionsOf[command], words, n) = FreeTo(OptionsOf[command], words, i)
  BY DEF FreeTo
<1>3. SoundTo(command, words, n) <=> SoundTo(command, words, i)
  BY <1>1, <1>2 DEF SoundTo
<1> QED BY <1>1, <1>2, <1>3 DEF ReadTo

\* A sequence with one more member.
LEMMA AppendFacts ==
    ASSUME NEW C, NEW s \in Seq(C), NEW w \in C
    PROVE  LET now == Append(s, w)
           IN  now \in Seq(C) /\ Len(now) = Len(s) + 1 /\ now[Len(now)] = w /\ now # << >>
OBVIOUS

(* An option that stands adds its place to those it has been found at.     *)
LEMMA KeptNext ==
    ASSUME NEW option, option.rule \in Rules,
           NEW words \in Seq(STRING), NEW i \in 1..Len(words),
           NEW before \in SUBSET (1..(i - 1)), NEW kept, KeptTo(option, words, before, kept),
           NEW now, Keeps(option.rule, words, i, kept, now)
    PROVE  KeptTo(option, words, before \cup {i}, now)
<1>1. \A l : IsLast(l, before \cup {i}) => l = i
  BY DEF IsLast
<1>2. ASSUME option.rule = "many"
      PROVE  /\ now \in Seq(STRING) /\ Len(now) = Cardinality(before \cup {i})
             /\ now # << >> /\ now[Len(now)] = words[i + 1]
  <2>1. i + 1 \in 1..Len(words)
    BY <1>2 DEF Keeps, Strict
  <2>2. words[i + 1] \in STRING
    BY <2>1
  <2>3. kept \in Seq(STRING) /\ Len(kept) = Cardinality(before) /\ now = Append(kept, words[i + 1])
    BY <1>2 DEF KeptTo, Keeps
  <2>4. now \in Seq(STRING) /\ Len(now) = Len(kept) + 1 /\ now[Len(now)] = words[i + 1] /\ now # << >>
    BY <2>2, <2>3, AppendFacts
  <2>5. IsFiniteSet(before) /\ i \notin before
    <3>1. IsFiniteSet(1..(i - 1))
      BY FS_Interval
    <3>2. IsFiniteSet(before)
      BY <3>1, FS_Subset
    <3>3. i \notin 1..(i - 1)
      OBVIOUS
    <3> QED BY <3>2, <3>3
  <2>6. Cardinality(before \cup {i}) = Cardinality(before) + 1
    BY <2>5, FS_AddElement
  <2> QED BY <2>3, <2>4, <2>6
<1> QED BY <1>1, <1>2 DEF KeptTo, Keeps

\* One word further, the reading is still what the words before say.
LEMMA ReadToNext ==
    ASSUME NEW command \in DOMAIN OptionsOf, NEW words \in Seq(STRING), NEW i \in 1..Len(words),
           words[i] # NoWord, NEW r, ReadTo(command, words, i - 1, r),
           NEW t, t = ReadWord(command, words, i, r)
    PROVE  ReadTo(command, words, i, t)
<1> DEFINE options == OptionsOf[command]
           o == words[i]
           places(x) == PlacesTo(options, words, i - 1, x)
           free == FreeTo(options, words, i - 1)
<1>1. /\ IsReading(options, r)
      /\ r.taken <=> IsValue(options, words, i)
  <2>1. (i - 1) + 1 = i
    OBVIOUS
  <2> QED BY <2>1 DEF ReadTo
<1>2. i \in Nat /\ i >= 1
  OBVIOUS
<1>3. IsValue(options, words, i + 1) <=> ~ IsValue(options, words, i) /\ TakesValue(options, words[i])
  BY <1>2, ValueAfter
<1>4. CASE r.taken
  <2>1. StandingTo(options, words, i) = StandingTo(options, words, i - 1)
    BY <1>1, <1>4, StandsNext
  <2>2. /\ IsReading(options, t) /\ ~ t.taken
        /\ t.wrong <=> r.wrong
        /\ t.image = r.image /\ t.kept = r.kept /\ t.seen = r.seen
    BY <1>1, <1>4, ValuePassed
  <2>3. t.taken <=> IsValue(options, words, i + 1)
    BY <1>1, <1>3, <1>4, <2>2
  <2> QED BY <2>1, <2>2, <2>3, ReadToSame
<1>5. CASE ~ r.taken
  <2>1. /\ StandingTo(options, words, i) = StandingTo(options, words, i - 1) \cup {i}
        /\ i \notin StandingTo(options, words, i - 1)
        /\ \A k \in StandingTo(options, words, i - 1) : k \in 1..(i - 1)
    <3>1. \A k \in StandingTo(options, words, i - 1) : k \in 1..(i - 1)
      BY DEF StandingTo, Standing
    <3> QED BY <1>1, <1>5, <3>1, StandsNext, ZenonT(30)
  <2>2. /\ \A x : x # o => PlacesTo(options, words, i, x) = places(x)
        /\ PlacesTo(options, words, i, o) = places(o) \cup {i}
        /\ \A x : places(x) \subseteq 1..(i - 1) /\ i \notin places(x)
    BY <2>1 DEF PlacesTo
  <2>3. CASE o \in DOMAIN options
    <3> DEFINE refused == Refuses(options, words, i, r)
    <3>1. /\ IsReading(options, t) /\ t.image = r.image
          /\ t.wrong <=> (r.wrong \/ refused)
          /\ t.taken <=> options[o].rule # "switch"
          /\ t.seen[o] = r.seen[o] + 1
          /\ \A x \in DOMAIN options \ {o} : t.seen[x] = r.seen[x] /\ t.kept[x] = r.kept[x]
          /\ ~ refused => Keeps(options[o].rule, words, i, r.kept[o], t.kept[o])
      BY <1>1, <1>5, <2>3, OptionRead
    <3>2. t.taken <=> IsValue(options, words, i + 1)
      BY <1>1, <1>3, <1>5, <2>3, <3>1 DEF TakesValue
    <3>3. FreeTo(options, words, i) = free
      BY <2>1, <2>3 DEF FreeTo
    <3>4. /\ r.seen \in [DOMAIN options -> Nat]
          /\ \A x \in DOMAIN options : r.seen[x] = 0 <=> places(x) = {}
      BY <1>1 DEF IsReading, ReadTo
    <3>5. \A x \in DOMAIN options : t.seen[x] = 0 <=> PlacesTo(options, words, i, x) = {}
      <4> SUFFICES ASSUME NEW x \in DOMAIN options
                   PROVE  t.seen[x] = 0 <=> PlacesTo(options, words, i, x) = {}
        OBVIOUS
      <4>1. CASE x = o
        <5>1. r.seen[o] \in Nat /\ t.seen[o] = r.seen[o] + 1
          BY <2>3, <3>1, <3>4
        <5>2. t.seen[o] # 0
          BY <5>1
        <5> QED BY <2>2, <4>1, <5>2
      <4>2. CASE x # o
        BY <2>2, <3>1, <3>4, <4>2
      <4> QED BY <4>1, <4>2
    <3>6. SoundTo(command, words, i) <=> SoundTo(command, words, i - 1) /\ ~ refused
      <4> DEFINE Fit(x, P) == \A k \in P : /\ options[x].rule \in Strict => Valued(options, words, k)
                                           /\ options[x].rule = "once" => \A l \in P : k = l
                 FreeFit == /\ command # "import-reference" => free = {}
                            /\ \A k \in free : words[k] \notin Dashed /\ \A l \in free : k = l
      <4>1. SoundTo(command, words, i - 1) <=> (\A x \in DOMAIN options : Fit(x, places(x))) /\ FreeFit
        BY DEF SoundTo
      <4>2. SoundTo(command, words, i) <=>
                (\A x \in DOMAIN options : Fit(x, PlacesTo(options, words, i, x))) /\ FreeFit
        BY <3>3 DEF SoundTo
      <4>3. Fit(o, places(o) \cup {i}) <=> Fit(o, places(o)) /\ ~ refused
        <5>1. r.seen[o] > 0 <=> places(o) # {}
          BY <2>3, <3>4
        <5>2. i \notin places(o)
          BY <2>2
        <5> HIDE DEF places
        <5> QED BY <5>1, <5>2 DEF Refuses, Strict
      <4> HIDE DEF Fit, FreeFit
      <4> QED BY <2>2, <2>3, <4>1, <4>2, <4>3
    <3>7. t.wrong <=> ~ SoundTo(command, words, i)
      BY <3>1, <3>6 DEF ReadTo
    <3>8. ASSUME ~ t.wrong, NEW x \in DOMAIN options
          PROVE  KeptTo(options[x], words, PlacesTo(options, words, i, x), t.kept[x])
      <4>1. ~ r.wrong /\ ~ refused
        BY <3>1, <3>8
      <4>2. KeptTo(options[x], words, places(x), r.kept[x])
        BY <4>1 DEF ReadTo
      <4>3. CASE x # o
        BY <2>2, <3>1, <4>2, <4>3
      <4>4. CASE x = o
        <5>1. PICK option : option = options[o]
          OBVIOUS
        <5>2. PICK before : before = places(o)
          OBVIOUS
        <5>3. PICK kept : kept = r.kept[o]
          OBVIOUS
        <5>4. PICK now : now = t.kept[o]
          OBVIOUS
        <5>5. option.rule \in Rules
          BY <2>3, <5>1, TablesAreSound DEF Rules, Strict
        <5>6. before \in SUBSET (1..(i - 1)) /\ KeptTo(option, words, before, kept)
          BY <2>2, <4>2, <4>4, <5>1, <5>2, <5>3
        <5>7. Keeps(option.rule, words, i, kept, now)
          BY <3>1, <4>1, <5>1, <5>3, <5>4
        <5>8. KeptTo(option, words, before \cup {i}, now)
          BY <5>5, <5>6, <5>7, KeptNext
        <5> QED BY <2>2, <4>4, <5>1, <5>2, <5>4, <5>8
      <4> QED BY <4>3, <4>4
    <3>9. ~ t.wrong => /\ t.image = NoWord <=> free = {}
                       /\ \A k \in free : t.image = words[k]
      BY <3>1 DEF ReadTo
    <3> HIDE DEF refused, places, o, free
    <3> QED BY <3>1, <3>2, <3>3, <3>5, <3>7, <3>8, <3>9 DEF ReadTo, free
  <2>4. CASE o \notin DOMAIN options
    <3> DEFINE good == command = "import-reference" /\ words[i] \notin Dashed /\ r.image = NoWord
    <3>1. /\ IsReading(options, t) /\ ~ t.taken
          /\ t.wrong <=> (r.wrong \/ ~ good)
          /\ good => t.image = words[i]
          /\ t.kept = r.kept /\ t.seen = r.seen
      BY <1>1, <1>5, <2>4, WordRead
    <3>2. t.taken <=> IsValue(options, words, i + 1)
      BY <1>1, <1>3, <1>5, <2>4, <3>1 DEF TakesValue
    <3>3. FreeTo(options, words, i) = free \cup {i} /\ i \notin free
      BY <2>1, <2>4 DEF FreeTo
    <3>4. \A x \in DOMAIN options : PlacesTo(options, words, i, x) = places(x)
      BY <2>2, <2>4
    <3>5. ~ r.wrong => /\ r.image = NoWord <=> free = {}
                       /\ \A k \in free : r.image = words[k]
      BY DEF ReadTo
    <3>6. SoundTo(command, words, i) <=> SoundTo(command, words, i - 1) /\ good
      <4> DEFINE Fit == \A x \in DOMAIN options : \A k \in places(x) :
                            /\ options[x].rule \in Strict => Valued(options, words, k)
                            /\ options[x].rule = "once" => \A l \in places(x) : k = l
                 FreeFit(P) == /\ command # "import-reference" => P = {}
                               /\ \A k \in P : words[k] \notin Dashed /\ \A l \in P : k = l
      <4>1. SoundTo(command, words, i - 1) <=> Fit /\ FreeFit(free)
        BY DEF SoundTo
      <4>2. SoundTo(command, words, i) <=> Fit /\ FreeFit(free \cup {i})
        BY <3>3, <3>4 DEF SoundTo
      <4>3. r.wrong <=> ~ SoundTo(command, words, i - 1)
        BY DEF ReadTo
      <4>4. Fit => (FreeFit(free \cup {i}) <=> FreeFit(free) /\ good)
        <5>1. Fit /\ FreeFit(free) => (r.image = NoWord <=> free = {})
          <6> HIDE DEF Fit, FreeFit, free
          <6> QED BY <3>5, <4>1, <4>3
        <5>2. FreeFit(free \cup {i}) => FreeFit(free)
          OBVIOUS
        <5>3. i \notin free
          BY <3>3
        <5> HIDE DEF Fit, free
        <5> QED BY <5>1, <5>2, <5>3
      <4> HIDE DEF Fit, FreeFit, good
      <4> QED BY <4>1, <4>2, <4>4
    <3>7. t.wrong <=> ~ SoundTo(command, words, i)
      BY <3>1, <3>6 DEF ReadTo
    <3>8. \A x \in DOMAIN options : t.seen[x] = 0 <=> PlacesTo(options, words, i, x) = {}
      BY <3>1, <3>4 DEF ReadTo
    <3>9. ASSUME ~ t.wrong, NEW x \in DOMAIN options
          PROVE  KeptTo(options[x], words, PlacesTo(options, words, i, x), t.kept[x])
      BY <3>1, <3>4, <3>9 DEF ReadTo
    <3>10. ~ t.wrong => /\ t.image = NoWord <=> free \cup {i} = {}
                        /\ \A k \in free \cup {i} : t.image = words[k]
      <4> SUFFICES ASSUME ~ t.wrong PROVE t.image = words[i] /\ free = {}
        OBVIOUS
      <4> QED BY <3>1, <3>5
    <3> HIDE DEF good, places, o, free
    <3> QED BY <3>1, <3>2, <3>3, <3>7, <3>8, <3>9, <3>10 DEF ReadTo
  <2> QED BY <2>3, <2>4
<1> QED BY <1>4, <1>5

\* So it is at the end of the line.
LEMMA ReadToTheEnd ==
    ASSUME NEW command \in DOMAIN OptionsOf, NEW words \in Seq(STRING), NoWord \notin Range(words)
    PROVE  ReadTo(command, words, Len(words), ReadWords(command, words))
<1> DEFINE options == OptionsOf[command]
<1>1. PICK upto : /\ ReadWords(command, words) = upto[Len(words)]
                  /\ upto[0] = Unread(options)
                  /\ \A i \in 1..Len(words) : upto[i] = ReadWord(command, words, i, upto[i - 1])
  <2>1. PICK S : S = STRING
    OBVIOUS
  <2>2. words \in Seq(S)
    BY <2>1
  <2> QED BY <2>2, ReadOneByOne
<1>2. Len(words) \in Nat /\ DOMAIN words = 1..Len(words) /\ \A i \in 1..Len(words) : words[i] # NoWord
  BY DEF Range
<1>3. ReadTo(command, words, 0, upto[0])
  <2> DEFINE r == Unread(options)
  <2>1. /\ IsReading(options, r) /\ ~ r.taken /\ ~ r.wrong /\ r.image = NoWord
        /\ \A o \in DOMAIN options : r.kept[o] = << >> /\ r.seen[o] = 0
    BY DEF Unread, IsReading
  <2>2. StandingTo(options, words, 0) = {}
    BY <1>2 DEF StandingTo, Standing
  <2>3. FreeTo(options, words, 0) = {} /\ \A o : PlacesTo(options, words, 0, o) = {}
    BY <2>2 DEF FreeTo, PlacesTo
  <2>4. ~ IsValue(options, words, 0 + 1)
    <3>1. 0 \in Nat /\ ~ (0 >= 1)
      OBVIOUS
    <3> QED BY <3>1, ValueAfter
  <2>5. SoundTo(command, words, 0)
    BY <2>3 DEF SoundTo
  <2>6. \A o \in DOMAIN options : KeptTo(options[o], words, {}, << >>)
    <3>1. << >> \in Seq(STRING) /\ Len(<< >>) = 0 /\ Cardinality({}) = 0
      BY FS_EmptySet
    <3>2. \A l : ~ IsLast(l, {})
      BY DEF IsLast
    <3> QED BY <3>1, <3>2 DEF KeptTo
  <2> HIDE DEF r
  <2>7. ReadTo(command, words, 0, r)
    BY <2>1, <2>3, <2>4, <2>5, <2>6 DEF ReadTo
  <2> QED BY <1>1, <2>7 DEF r
<1> DEFINE T == {n \in Nat : n <= Len(words) => ReadTo(command, words, n, upto[n])}
<1>4. 0 \in T
  BY <1>3
<1>5. \A n \in Nat : n \in T => n + 1 \in T
  <2> SUFFICES ASSUME NEW n \in Nat, n \in T, n + 1 <= Len(words)
               PROVE  ReadTo(command, words, n + 1, upto[n + 1])
    OBVIOUS
  <2>1. ReadTo(command, words, n, upto[n])
    BY <1>2
  <2>2. PICK i \in 1..Len(words) : i = n + 1
    BY <1>2
  <2>3. i - 1 = n
    BY <2>2
  <2>4. words[i] # NoWord /\ upto[i] = ReadWord(command, words, i, upto[i - 1])
    BY <1>1, <1>2
  <2>5. ReadTo(command, words, i - 1, upto[i - 1])
    BY <2>1, <2>3
  <2>6. ReadTo(command, words, i, upto[i])
    BY <2>4, <2>5, ReadToNext
  <2> QED BY <2>2, <2>6
<1>6. Nat \subseteq T
  <2> HIDE DEF T
  <2> QED BY <1>4, <1>5, NatSetInduction
<1> QED BY <1>1, <1>2, <1>6

\* Some places of a line have a last one.
LEMMA HasLast ==
    ASSUME NEW n \in Nat, NEW places \in SUBSET (1..n), places # {}
    PROVE  \E l : IsLast(l, places)
<1> DEFINE T == {n - k : k \in places}
<1>1. T \in SUBSET Nat /\ T # {}
  <2>1. \A k \in places : n - k \in Nat
    OBVIOUS
  <2>2. PICK k \in places : TRUE
    OBVIOUS
  <2>3. n - k \in T
    BY <2>2
  <2> QED BY <2>1, <2>3
<1>2. PICK x \in T : \A y \in T : x <= y
  <2> HIDE DEF T
  <2> QED BY <1>1, NatMin
<1>3. PICK l \in places : x = n - l
  BY <1>2
<1>4. ASSUME NEW k \in places PROVE k <= l
  <2>1. n - k \in T
    OBVIOUS
  <2>2. x <= n - k
    BY <1>2, <2>1
  <2>3. k \in Int /\ l \in Int
    BY <1>3
  <2> QED BY <1>3, <2>2, <2>3
<1> QED BY <1>4 DEF IsLast

\* Required options are options.
LEMMA RequiredAreOptions ==
    ASSUME NEW command \in DOMAIN OptionsOf
    PROVE  RequiredOf[command] \subseteq DOMAIN OptionsOf[command]
<1>1. command \in {"observe", "init", "compare", "approve-baseline",
                   "save-change-contract", "evaluate-contract",
                   "import-reference", "approve-reference",
                   "evaluate-reference-fidelity", "view"}
  BY DEF OptionsOf
<1>2. CASE command \in {"observe", "init"}
  BY <1>2 DEF OptionsOf, RequiredOf, ObserveOptions, InitOptions
<1>3. CASE command = "compare"
  BY <1>3 DEF OptionsOf, RequiredOf, CompareOptions, AllOnce
<1>4. CASE command = "evaluate-contract"
  BY <1>4 DEF OptionsOf, RequiredOf
<1>5. CASE command \in {"approve-baseline", "save-change-contract"}
  BY <1>5 DEF OptionsOf, RequiredOf
<1>6. CASE command = "import-reference"
  BY <1>6 DEF OptionsOf, RequiredOf, ImportReferenceOptions, AllOnce
<1>7. CASE command = "approve-reference"
  BY <1>7 DEF OptionsOf, RequiredOf, ApproveReferenceOptions, AllOnce
<1>8. CASE command = "evaluate-reference-fidelity"
  BY <1>8 DEF OptionsOf, RequiredOf, EvaluateReferenceFidelityOptions, OnceOr
<1>9. CASE command = "view"
  BY <1>9 DEF OptionsOf, RequiredOf
<1> QED BY <1>1, <1>2, <1>3, <1>4, <1>5, <1>6, <1>7, <1>8, <1>9

(* What the one pass makes of the words is what the words say.             *)
LEMMA ParsesAsSaid ==
    ASSUME NEW command \in DOMAIN OptionsOf, NEW words \in Seq(STRING), NoWord \notin Range(words)
    PROVE  SaysSo(command, words, ParseOptions(command, words))
<1> DEFINE options == OptionsOf[command]
           n == Len(words)
           r == ReadWords(command, words)
           standing == Standing(options, words)
           places(o) == {i \in standing : words[i] = o}
           valued(i) == /\ i < Len(words)
                        /\ WellFormed(options[words[i]].kind, words[i + 1])
           last(o) == CHOOSE i \in places(o) : \A j \in places(o) : j <= i
           has(o) == /\ places(o) # {}
                     /\ options[o].rule = "loose" => valued(last(o))
           free == {i \in standing : words[i] \notin DOMAIN options}
           needed == /\ \A o \in RequiredOf[command] : has(o)
                     /\ {"--target", "--targets-file"} \subseteq DOMAIN options =>
                            ~ (has("--target") /\ has("--targets-file"))
           sound == /\ \A o \in DOMAIN options :
                           /\ options[o].rule \in {"once", "last", "many"} =>
                                  \A i \in places(o) : valued(i)
                           /\ options[o].rule = "once" =>
                                  \A i, j \in places(o) : i = j
                    /\ \A o \in RequiredOf[command] : has(o)
                    /\ {"--target", "--targets-file"} \subseteq DOMAIN options =>
                           ~ (has("--target") /\ has("--targets-file"))
                    /\ IF command = "import-reference"
                       THEN \E i \in free : free = {i} /\ words[i] \notin Dashed
                       ELSE free = {}
<1>1. n \in Nat /\ standing \subseteq 1..n /\ StandingTo(options, words, n) = standing
  BY DEF Standing, StandingTo
<1>2. /\ FreeTo(options, words, n) = free
      /\ \A o : PlacesTo(options, words, n, o) = places(o) /\ places(o) \in SUBSET (1..n)
  BY <1>1 DEF FreeTo, PlacesTo
<1>3. \A o : places(o) # {} => IsLast(last(o), places(o))
  <2> SUFFICES ASSUME NEW o, places(o) # {} PROVE IsLast(last(o), places(o))
    OBVIOUS
  <2>1. PICK P : P = places(o)
    OBVIOUS
  <2>2. PICK l : IsLast(l, P)
    BY <1>1, <1>2, <2>1, HasLast
  <2> QED BY <2>1, <2>2 DEF IsLast
<1>4. ReadTo(command, words, n, r)
  BY ReadToTheEnd
<1>5. r.wrong <=> ~ SoundTo(command, words, n)
  BY <1>4 DEF ReadTo
<1>6. SoundTo(command, words, n) <=>
          /\ \A o \in DOMAIN options :
                 /\ options[o].rule \in {"once", "last", "many"} => \A i \in places(o) : valued(i)
                 /\ options[o].rule = "once" => \A i, j \in places(o) : i = j
          /\ command # "import-reference" => free = {}
          /\ \A k \in free : words[k] \notin Dashed /\ \A l \in free : k = l
  <2> HIDE DEF places, free
  <2> QED BY <1>2 DEF SoundTo, Valued, Strict
<1>7. ASSUME ~ r.wrong
      PROVE  /\ \A o \in DOMAIN options :
                    /\ r.kept[o] # << >> <=> has(o)
                    /\ options[o].rule = "many" => Len(r.kept[o]) = Cardinality(places(o))
                    /\ has(o) /\ options[o].rule # "switch" =>
                           r.kept[o][Len(r.kept[o])] = words[last(o) + 1]
             /\ r.image = NoWord <=> free = {}
             /\ \A k \in free : r.image = words[k]
  <2>1. /\ \A o \in DOMAIN options : KeptTo(options[o], words, places(o), r.kept[o])
        /\ r.image = NoWord <=> free = {}
        /\ \A k \in free : r.image = words[k]
    <3> HIDE DEF places, free
    <3> QED BY <1>2, <1>4, <1>7 DEF ReadTo
  <2>2. ASSUME NEW o \in DOMAIN options
        PROVE  /\ r.kept[o] # << >> <=> has(o)
               /\ options[o].rule = "many" => Len(r.kept[o]) = Cardinality(places(o))
               /\ has(o) /\ options[o].rule # "switch" => r.kept[o][Len(r.kept[o])] = words[last(o) + 1]
    <3>1. KeptTo(options[o], words, places(o), r.kept[o]) /\ options[o].rule \in Rules
      BY <2>1, TablesAreSound DEF Rules, Strict
    <3>2. CASE places(o) = {}
      <4>1. r.kept[o] = << >> /\ (options[o].rule = "many" => Len(r.kept[o]) = Cardinality(places(o)))
        BY <3>1, <3>2 DEF KeptTo
      <4> QED BY <3>2, <4>1
    <3>3. CASE places(o) # {}
      <4>1. IsLast(last(o), places(o))
        BY <1>3, <3>3
      <4>2. PICK l : l = last(o)
        OBVIOUS
      <4>3. l \in places(o) /\ words[l] = o
        BY <4>1, <4>2 DEF IsLast
      <4>4. /\ options[o].rule = "switch" => r.kept[o] = <<TRUE>>
            /\ options[o].rule = "loose" => r.kept[o] = IF l < Len(words) THEN <<words[l + 1]>> ELSE << >>
            /\ options[o].rule \in {"once", "last"} => r.kept[o] = <<words[l + 1]>>
            /\ options[o].rule = "many" =>
                   r.kept[o] # << >> /\ r.kept[o][Len(r.kept[o])] = words[l + 1]
            /\ options[o].rule = "many" => Len(r.kept[o]) = Cardinality(places(o))
        <5> HIDE DEF places, last
        <5> QED BY <3>1, <4>1, <4>2 DEF KeptTo
      <4>5. options[o].rule = "loose" => (valued(l) <=> l < Len(words))
        <5>1. options[o].rule = "loose" => options[words[l]].kind = "text"
          BY <4>3, TablesAreSound
        <5>2. ASSUME options[words[l]].kind = "text" PROVE WellFormed(options[words[l]].kind, words[l + 1])
          BY <5>2 DEF WellFormed
        <5> QED BY <5>1, <5>2
      <4>6. options[o].rule \in {"once", "last", "many", "loose", "switch"}
        BY <3>1 DEF Rules, Strict
      <4>7. has(o) <=> (options[o].rule = "loose" => valued(l))
        BY <3>3, <4>2
      <4>8. PICK kept : kept = r.kept[o]
        OBVIOUS
      <4>9. PICK w : w = words[l + 1]
        OBVIOUS
      <4>10. <<w>> # << >> /\ <<TRUE>> # << >> /\ Len(<<w>>) = 1 /\ <<w>>[1] = w
        OBVIOUS
      <4>11. /\ kept # << >> <=> has(o)
             /\ has(o) /\ options[o].rule # "switch" => kept[Len(kept)] = w
        <5> HIDE DEF has, places, last, valued, r, options
        <5> QED BY <4>4, <4>5, <4>6, <4>7, <4>8, <4>9, <4>10
      <4> HIDE DEF has, places, last, valued
      <4> QED BY <4>2, <4>4, <4>8, <4>9, <4>11
    <3> QED BY <3>2, <3>3
  <2> HIDE DEF has, places, last, free
  <2> QED BY <2>1, <2>2
<1>8. ParseOptions(command, words) =
          IF \/ r.wrong
             \/ \E o \in RequiredOf[command] : r.kept[o] = << >>
             \/ command = "import-reference" /\ r.image = NoWord
             \/ /\ {"--target", "--targets-file"} \subseteq DOMAIN r.kept
                /\ r.kept["--target"] # << >> /\ r.kept["--targets-file"] # << >>
          THEN Refused ELSE Accepted(r.kept, r.image)
  BY DEF ParseOptions
<1>9. DOMAIN r.kept = DOMAIN options
  BY <1>4 DEF ReadTo, IsReading
<1>10. CASE r.wrong
  <2>1. ParseOptions(command, words).answer # "accepted"
    BY <1>8, <1>10 DEF Refused
  <2>2. ~ sound
    <3>1. ~ SoundTo(command, words, n)
      BY <1>5, <1>10
    <3> HIDE DEF has, places, valued, last, free
    <3> QED BY <1>6, <3>1
  <2> HIDE DEF r
  <2> QED BY <2>1, <2>2 DEF SaysSo
<1>11. CASE ~ r.wrong
  <2> DEFINE fits == /\ \A o \in RequiredOf[command] : r.kept[o] # << >>
                     /\ command = "import-reference" => r.image # NoWord
                     /\ ~ (/\ {"--target", "--targets-file"} \subseteq DOMAIN r.kept
                           /\ r.kept["--target"] # << >> /\ r.kept["--targets-file"] # << >>)
  <2>1. sound <=> fits
    <3>1. RequiredOf[command] \subseteq DOMAIN options
      BY RequiredAreOptions
    <3>2. \A o \in DOMAIN options : r.kept[o] # << >> <=> has(o)
      BY <1>7, <1>11
    <3>3. (IF command = "import-reference"
           THEN \E i \in free : free = {i} /\ words[i] \notin Dashed
           ELSE free = {}) <=> (command = "import-reference" => r.image # NoWord)
      <4>1. /\ command # "import-reference" => free = {}
            /\ \A k \in free : words[k] \notin Dashed /\ \A l \in free : k = l
        <5> HIDE DEF places, valued, free
        <5> QED BY <1>5, <1>6, <1>11
      <4>2. r.image = NoWord <=> free = {}
        BY <1>7, <1>11
      <4> HIDE DEF free, r
      <4> QED BY <4>1, <4>2
    <3>4. \A o \in DOMAIN options :
              /\ options[o].rule \in {"once", "last", "many"} => \A i \in places(o) : valued(i)
              /\ options[o].rule = "once" => \A i, j \in places(o) : i = j
      <4> HIDE DEF places, valued, free
      <4> QED BY <1>5, <1>6, <1>11
    <3> HIDE DEF has, places, valued, last, free, r, options
    <3> QED BY <1>9, <3>1, <3>2, <3>3, <3>4
  <2>2. ParseOptions(command, words) = IF fits THEN Accepted(r.kept, r.image) ELSE Refused
    <3> HIDE DEF r
    <3> QED BY <1>8, <1>11
  <2>3. ParseOptions(command, words).answer = "accepted" <=> sound
    <3>1. CASE fits
      <4> HIDE DEF r, fits, sound
      <4> QED BY <2>1, <2>2, <3>1 DEF Accepted
    <3>2. CASE ~ fits
      <4> HIDE DEF r, fits, sound
      <4> QED BY <2>1, <2>2, <3>2 DEF Refused
    <3> QED BY <3>1, <3>2
  <2>4. ASSUME sound
        PROVE  ParseOptions(command, words).kept = r.kept /\ ParseOptions(command, words).image = r.image
    <3> HIDE DEF r, fits, sound
    <3> QED BY <2>1, <2>2, <2>4 DEF Accepted
  <2>5. ASSUME sound, command = "import-reference" PROVE \E i \in free : r.image = words[i]
    <3>1. \E i \in free : TRUE
      BY <2>5
    <3> HIDE DEF r, free
    <3> QED BY <1>7, <1>11, <3>1
  <2>6. \A o \in DOMAIN options :
            /\ r.kept[o] # << >> <=> has(o)
            /\ options[o].rule = "many" => Len(r.kept[o]) = Cardinality(places(o))
            /\ has(o) /\ options[o].rule # "switch" => r.kept[o][Len(r.kept[o])] = words[last(o) + 1]
    BY <1>7, <1>11
  <2>7. PICK reading : reading = ParseOptions(command, words)
    OBVIOUS
  <2>8. SaysSo(command, words, reading) <=>
            /\ (reading.answer = "accepted") <=> sound
            /\ sound => \A o \in DOMAIN options :
                   /\ (reading.kept[o] # <<>>) <=> has(o)
                   /\ options[o].rule = "many" => Len(reading.kept[o]) = Cardinality(places(o))
                   /\ has(o) /\ options[o].rule # "switch" =>
                          reading.kept[o][Len(reading.kept[o])] = words[last(o) + 1]
            /\ sound /\ command = "import-reference" => \E i \in free : reading.image = words[i]
    BY DEF SaysSo
  <2>9. SaysSo(command, words, reading)
    <3> HIDE DEF r, fits, sound, has, places, last, free, options
    <3> QED BY <2>3, <2>4, <2>5, <2>6, <2>7, <2>8
  <2> QED BY <2>7, <2>9
<1> QED BY <1>10, <1>11

\* The lines that were started, and what is kept of them, stay.
Started == \A p \in Processes : job[p].line # << >> =>
               job[p].line \in Lines[p] /\ job[p].reading = ParseLine(job[p].line)
SameLines == \A q \in Processes : job'[q].line = job[q].line /\ job'[q].reading = job[q].reading

\* A step that notes something in its job leaves the lines alone.
LEMMA OneFieldMore ==
    ASSUME WellFormedState, NEW p \in Processes, NEW x,
           \/ job' = [job EXCEPT ![p].outcome = x]
           \/ job' = [job EXCEPT ![p].got = x]
           \/ job' = [job EXCEPT ![p].trouble = x]
           \/ job' = job
    PROVE  SameLines
<1>1. IsJob(job[p]) /\ job = [q \in Processes |-> job[q]]
  BY DEF WellFormedState
<1>2. CASE job' = [job EXCEPT ![p].outcome = x]
  BY <1>1, <1>2 DEF SameLines, IsJob
<1>3. CASE job' = [job EXCEPT ![p].got = x]
  BY <1>1, <1>3 DEF SameLines, IsJob
<1>4. CASE job' = [job EXCEPT ![p].trouble = x]
  BY <1>1, <1>4 DEF SameLines, IsJob
<1>5. CASE job' = job
  BY <1>5 DEF SameLines
<1> QED BY <1>2, <1>3, <1>4, <1>5

\* So does deciding to write.
LEMMA ToWriteSameLines ==
    ASSUME WellFormedState, NEW p \in Processes, NEW artifact, NEW location, NEW outcome,
           ToWrite(p, artifact, location, outcome)
    PROVE  SameLines
<1>1. IsJob(job[p]) /\ job = [q \in Processes |-> job[q]]
  BY DEF WellFormedState
<1>2. CASE job' = job
  BY <1>2 DEF SameLines
<1>3. CASE job' # job
  <2>1. PICK place : job' = [job EXCEPT ![p].artifact = artifact, ![p].outcome = outcome, ![p].place = place]
    BY <1>3 DEF ToWrite
  <2> QED BY <1>1, <2>1 DEF SameLines, IsJob
<1> QED BY <1>2, <1>3

\* Every step keeps that a started process has a line and its reading.
LEMMA StartedNext ==
    ASSUME WellFormedState, Started, [Next]_vars
    PROVE  Started'
<1>1. SameLines => Started'
  BY DEF SameLines, Started
<1>2. CASE UNCHANGED vars
  BY <1>1, <1>2 DEF vars, SameLines
<1>3. ASSUME NEW p \in Processes, Start(p) PROVE Started'
  <2>1. PICK line \in Lines[p] : job' = [job EXCEPT ![p].line = line, ![p].reading = ParseLine(line)]
    BY <1>3 DEF Start
  <2>2. IsJob(job[p]) /\ job = [q \in Processes |-> job[q]]
    BY DEF WellFormedState
  <2>3. job'[p].line = line /\ job'[p].reading = ParseLine(line)
    BY <2>1, <2>2 DEF IsJob
  <2>4. \A q \in Processes \ {p} : job'[q] = job[q]
    BY <2>1, <2>2
  <2> QED BY <2>3, <2>4 DEF Started
<1>4. ASSUME NEW p \in Processes, Project(p) \/ ReadArtifact(p) PROVE SameLines
  <2>1. CASE Project(p)
    BY <2>1, OneFieldMore DEF Project
  <2>2. CASE ReadArtifact(p)
    <3>1. \/ \E x : job' = [job EXCEPT ![p].got = x]
          \/ job' = job
      BY <2>2 DEF ReadArtifact
    <3> QED BY <3>1, OneFieldMore
  <2> QED BY <1>4, <2>1, <2>2
<1>5. ASSUME NEW p \in Processes, Load(p) \/ Crash(p) PROVE SameLines
  BY <1>5 DEF Load, Crash, SameLines
<1>6. ASSUME NEW p \in Processes, Refuse(p) PROVE SameLines
  BY <1>6 DEF Refuse, SameLines
<1>7. ASSUME NEW p \in Processes, Decide(p) PROVE SameLines
  <2>1. CASE Observe(p) \/ Compare(p) \/ EvaluateContract(p)
    BY <1>6, <2>1, ToWriteSameLines DEF Observe, Compare, EvaluateContract
  <2>2. CASE ApproveBaseline(p) \/ SaveChangeContract(p) \/ ImportReference(p) \/ ApproveReference(p)
    BY <1>6, <2>2, ToWriteSameLines DEF ApproveBaseline, SaveChangeContract, ImportReference, ApproveReference
  <2>3. CASE EvaluateReferenceFidelity(p)
    BY <1>6, <2>3, OneFieldMore DEF EvaluateReferenceFidelity
  <2> QED BY <1>7, <2>1, <2>2, <2>3 DEF Decide
<1>8. ASSUME NEW p \in Processes, Fails(p) PROVE SameLines
  BY <1>8, OneFieldMore DEF Fails
<1>9. ASSUME NEW p \in Processes, Write(p) PROVE SameLines
  <2>1. CASE Look(p)
    BY <2>1, OneFieldMore DEF Look
  <2>2. CASE Clear(p) \/ Make(p) \/ Discard(p) \/ Report(p)
    BY <2>2 DEF Clear, Make, Discard, Report, SameLines
  <2>3. CASE WriteMedia(p) \/ WriteManifest(p) \/ Expose(p) \/ StorageFails(p)
    BY <1>8, <2>3 DEF WriteMedia, WriteManifest, WriteFile, Expose, StorageFails, SameLines
  <2> QED BY <1>9, <2>1, <2>2, <2>3 DEF Write
<1> QED BY <1>1, <1>2, <1>3, <1>4, <1>5, <1>7, <1>9 DEF Next

(* ReadAsWritten: the one pass over the words finds what the words say, of *)
(* any line of any length for any command.                                 *)
THEOREM AlwaysReadAsWritten == Spec => []ReadAsWritten
<1>1. Init => Started
  BY DEF Init, Started, Idle
<1>2. IInv /\ Started /\ [Next]_vars => Started'
  BY StartedNext DEF IInv
<1>3. ASSUME Started PROVE ReadAsWritten
  <2> SUFFICES ASSUME NEW p \in Processes, job[p].line # << >>, Command(job[p]) \in DOMAIN OptionsOf,
                      "--help" \notin Range(job[p].line)
               PROVE  SaysSo(Command(job[p]), Tail(job[p].line), job[p].reading)
    BY DEF ReadAsWritten
  <2>1. PICK line : line = job[p].line
    OBVIOUS
  <2>2. PICK command : command = Head(line)
    OBVIOUS
  <2>3. PICK words : words = Tail(line)
    OBVIOUS
  <2>4. /\ line \in Seq(STRING) /\ NoWord \notin Range(line) /\ line # << >>
        /\ job[p].reading = ParseLine(line)
        /\ command \in DOMAIN OptionsOf /\ "--help" \notin Range(line)
    BY <1>3, <2>1, <2>2, LinesAreWords DEF Started, Command
  <2>5. words \in Seq(STRING) /\ Range(words) \subseteq Range(line)
    <3>1. words \in Seq(STRING) /\ Len(words) = Len(line) - 1
          /\ \A i \in 1..Len(words) : words[i] = line[i + 1]
      BY <2>3, <2>4
    <3>2. \A i \in DOMAIN words : i + 1 \in DOMAIN line /\ words[i] = line[i + 1]
      BY <2>4, <3>1
    <3> QED BY <3>1, <3>2 DEF Range
  <2>6. NoWord \notin Range(words) /\ "--help" \notin Range(words)
    BY <2>4, <2>5
  <2>7. ParseLine(line) = ParseOptions(command, words)
    <3>1. command \notin {"--help", "-h", "--version", "capture", "check"} /\ command \in Commands
      BY <2>4 DEF OptionsOf, Commands
    <3> QED BY <2>2, <2>3, <2>4, <2>6, <3>1 DEF ParseLine
  <2>8. SaysSo(command, words, ParseOptions(command, words))
    BY <2>4, <2>5, <2>6, ParsesAsSaid
  <2> QED BY <2>1, <2>2, <2>3, <2>4, <2>7, <2>8 DEF Command
<1> QED BY <1>1, <1>2, <1>3, Invariance, PTL DEF Spec
=============================================================================
