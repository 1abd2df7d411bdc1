----------------------- MODULE ViewerAuthoring_proofs -----------------------
(***************************************************************************)
(* For any number of viewer processes, any index bound and any faults: the *)
(* queues and the writers keep their books, discovery lists only complete  *)
(* artifacts and the selected contract is one of them; and with a single   *)
(* viewer the evidence root is the log EvidenceLog promises.               *)
(***************************************************************************)
EXTENDS ViewerAuthoring, TLAPS

-----------------------------------------------------------------------------
(* Types                                                                   *)

LEMMA ArtifactsTyped ==
    /\ Captured \in Artifact
    /\ \A f \in Families, i, j, k \in Nat : Made(f, i, j, k) \in Artifact
BY DEF Captured, Made, Artifact, Families, Sources, Nobody

\* A directory has an artifact and a number.
LEMMA DirectoriesTyped ==
    ASSUME TypeOK, NEW i \in DOMAIN dirs
    PROVE  /\ i \in Nat \ {0} /\ i \in 1 .. Len(dirs)
           /\ dirs[i] \in Directory /\ dirs[i].art \in Artifact
<1>1. dirs \in Seq(Directory)
  BY DEF TypeOK
<1>2. i \in 1 .. Len(dirs) /\ dirs[i] \in Directory
  BY <1>1
<1> QED BY <1>2, <1>1 DEF Directory

\* A write in the log of requests is a write.
LEMMA WritesTyped ==
    ASSUME TypeOK, NEW n \in DOMAIN writes
    PROVE  n \in Nat /\ n \in 1 .. Len(writes) /\ writes[n] \in Write
BY DEF TypeOK

(* What is listed is a directory, and its artifact is in the log.          *)
LEMMA Logged ==
    /\ DOMAIN log = Listed
    /\ Listed \subseteq DOMAIN dirs
    /\ \A i \in Listed : log[i] = dirs[i].art
BY DEF Listed, log

\* A settled write is a write of the same session that runs no more.
LEMMA DoneTyped ==
    ASSUME NEW w \in Write, NEW step \in Settled
    PROVE  /\ Done(w, step) \in Write
           /\ Done(w, step).step = step
           /\ Done(w, step).session = w.session
           /\ ~ Running(Done(w, step))
<1>1. Request(w.session, w.op, Nobody, Nobody, FALSE) \in Write
  BY ArtifactsTyped DEF Request, Write, Step, Settled, Nobody
<1> QED BY <1>1 DEF Done, Request, Write, Step, Settled, Running

-----------------------------------------------------------------------------
(* A log that grows                                                        *)

LEMMA RestsMonotone ==
    ASSUME NEW L, NEW M, DOMAIN L \subseteq DOMAIN M, \A i \in DOMAIN L : M[i] = L[i],
           NEW a, Rests(L, a)
    PROVE  Rests(M, a)
BY DEF Rests, Has

(* Directories keep their artifacts, and what is listed stays listed.      *)
Grows ==
    /\ DOMAIN dirs \subseteq DOMAIN dirs'
    /\ \A i \in DOMAIN dirs : dirs'[i].art = dirs[i].art
    /\ Listed \subseteq Listed'

\* What the log of evidence had, it keeps as it was.
LEMMA LogGrows ==
    ASSUME Grows
    PROVE  /\ DOMAIN log \subseteq DOMAIN log'
           /\ \A i \in DOMAIN log : log'[i] = log[i]
<1>1. /\ DOMAIN log = Listed
      /\ DOMAIN log' = Listed'
      /\ \A i \in Listed' : log'[i] = dirs'[i].art
  BY DEF log
<1> QED BY <1>1, Logged DEF Grows

(* One artifact is added to what is listed, and nothing else changes.      *)
LogAdds(a) ==
    \E d : /\ d \notin DOMAIN log /\ DOMAIN log' = DOMAIN log \cup {d}
           /\ \A j \in DOMAIN log : log'[j] = log[j]
           /\ log'[d] = a

\* If nothing more is listed, the log is as it was.
LEMMA SameListing ==
    ASSUME Grows, Listed' = Listed
    PROVE  log' = log
BY Logged DEF log, Grows

\* One more directory listed is one artifact more in the log.
LEMMA OneMoreListed ==
    ASSUME Grows, NEW d, d \notin Listed, Listed' = Listed \cup {d}
    PROVE  LogAdds(dirs'[d].art)
<1>1. DOMAIN log = Listed /\ DOMAIN log' = Listed' /\ log'[d] = dirs'[d].art
  BY DEF log
<1> QED BY <1>1, LogGrows DEF LogAdds

\* What rests on the log rests on any longer one.
LEMMA RestsStill ==
    ASSUME Grows, NEW a, Rests(log, a)
    PROVE  Rests(log, a)'
BY LogGrows, RestsMonotone

-----------------------------------------------------------------------------
(* One write moves                                                         *)

WriteInv(w) == DraftRests(w) /\ ActivatesPublished(w) /\ FilledInOrder(w)

(* The write has left its queue, or may.                                   *)
Released(n) ==
    \A m \in 1 .. n - 1 : writes[m].session = writes[n].session => writes[m].step \in Settled

\* A write that has begun had every earlier one of its session settled.
LEMMA ReleasedOnceMoved ==
    ASSUME TypeOK, QueueOrder, NEW n \in DOMAIN writes, writes[n].step # "queued"
    PROVE  Released(n)
<1> SUFFICES ASSUME NEW m \in 1 .. n - 1, writes[m].session = writes[n].session
             PROVE  writes[m].step \in Settled
  BY DEF Released
<1>1. m \in DOMAIN writes /\ m < n
  BY WritesTyped DEF TypeOK
<1> QED BY <1>1 DEF QueueOrder

\* A released write may move on without disturbing the order of the queue.
LEMMA MovedOrder ==
    ASSUME TypeOK, QueueOrder, NEW n \in DOMAIN writes, Released(n),
           writes[n].step \notin Settled,
           NEW w \in Write, w.session = writes[n].session,
           writes' = [writes EXCEPT ![n] = w]
    PROVE  /\ writes' \in Seq(Write) /\ DOMAIN writes' = DOMAIN writes
           /\ writes'[n] = w /\ \A m \in DOMAIN writes : m # n => writes'[m] = writes[m]
           /\ QueueOrder'
<1>1. /\ writes' \in Seq(Write) /\ DOMAIN writes' = DOMAIN writes
      /\ writes'[n] = w /\ \A m \in DOMAIN writes : m # n => writes'[m] = writes[m]
  BY DEF TypeOK
<1>2. \A m \in DOMAIN writes : m \in Nat
  BY WritesTyped
<1>3. ASSUME NEW k \in DOMAIN writes, NEW m \in DOMAIN writes, k < m,
             writes'[k].session = writes'[m].session, writes'[m].step # "queued"
      PROVE  writes'[k].step \in Settled
  <2>1. writes[k].session = writes[m].session
    BY <1>1, <1>3
  <2>2. CASE m = n
    <3>1. k \in 1 .. n - 1 /\ k # n
      BY <2>2, <1>2, <1>3, WritesTyped
    <3> QED BY <3>1, <2>1, <2>2, <1>1 DEF Released
  <2>3. CASE m # n /\ k = n
    BY <2>1, <2>3, <1>1, <1>3 DEF QueueOrder
  <2>4. CASE m # n /\ k # n
    BY <2>1, <2>4, <1>1, <1>3 DEF QueueOrder
  <2> QED BY <2>2, <2>3, <2>4
<1>4. QueueOrder'
  BY <1>1, <1>3 DEF QueueOrder
<1> QED BY <1>1, <1>4

(* The directories of the writes that fill or clear one.                   *)
Busy(w) == w.step \in {"write", "cleanup"}

\* A write that fills a directory has it alone, unlisted, with its draft in it.
LEMMA BusyWrite ==
    ASSUME TypeOK, OwnDirectory, NEW n \in DOMAIN writes, Busy(writes[n])
    PROVE  /\ writes[n].dir \in DOMAIN dirs
           /\ dirs[writes[n].dir].place = "temp" /\ dirs[writes[n].dir].art = writes[n].draft
           /\ writes[n].dir \notin Listed
           /\ \A m \in DOMAIN writes :
                 Busy(writes[m]) /\ writes[m].dir = writes[n].dir => m = n
BY DEF OwnDirectory, Busy, Listed

(* What others may do while a write is under way: directories keep their   *)
(* artifacts and what is listed stays, and its own is not touched.         *)
LEMMA WriteInvStill ==
    ASSUME Grows, NEW w, w \in Write, WriteInv(w),
           GoalsExist, w.step = "write" => w.dir \in DOMAIN dirs /\ dirs'[w.dir] = dirs[w.dir]
    PROVE  WriteInv(w)'
<1>1. DraftRests(w)'
  BY RestsStill DEF WriteInv, DraftRests
<1>2. ActivatesPublished(w)'
  BY LogGrows DEF WriteInv, ActivatesPublished, Has
<1>3. FilledInOrder(w)'
  <2> SUFFICES ASSUME w.step = "write", dirs'[w.dir].manifest, OwnsMedia(dirs[w.dir].art)'
               PROVE  dirs'[w.dir].media
    BY DEF FilledInOrder
  <2>1. w.dir \in DOMAIN dirs /\ dirs'[w.dir] = dirs[w.dir]
    OBVIOUS
  <2>2. OwnsMedia(dirs[w.dir].art)
    BY <2>1 DEF OwnsMedia, Grows, GoalsExist
  <2> QED BY <2>1, <2>2 DEF WriteInv, FilledInOrder
<1> QED BY <1>1, <1>2, <1>3 DEF WriteInv

(* Nothing that the writes of others rest on goes away.                    *)
LEMMA ListedCompleteStill ==
    ASSUME Grows, GoalsExist, ListedComplete, \A i \in Listed : dirs'[i] = dirs[i],
           NEW i \in Listed, OwnsMedia(dirs[i].art)'
    PROVE  dirs'[i].media
<1>1. i \in DOMAIN dirs
  BY Logged
<1>2. OwnsMedia(dirs[i].art)
  BY <1>1 DEF OwnsMedia, Grows, GoalsExist
<1> QED BY <1>2 DEF ListedComplete

\* A selected contract stays listed while the selection is left alone.
LEMMA SelectedStill ==
    ASSUME Grows, SelectedContractListed, selected' = selected
    PROVE  SelectedContractListed'
BY LogGrows DEF SelectedContractListed, Has

-----------------------------------------------------------------------------
(* A step of one write                                                     *)

(* A step keeps the invariant when the directories grow, those of other    *)
(* writes are left alone, and the write's next state is in order.          *)
LEMMA MoveKeeps ==
    ASSUME IInv, NEW n \in DOMAIN writes, Released(n), writes[n].step \notin Settled,
           NEW w \in Write, w.session = writes[n].session,
           writes' = [writes EXCEPT ![n] = w],
           dirs' \in Seq(Directory), Grows, GoalsExist', ListedRests', ListedComplete',
           selected' \in Nat, SelectedContractListed',
           \A m \in DOMAIN writes : m # n /\ Busy(writes[m])
                                      => dirs'[writes[m].dir] = dirs[writes[m].dir],
           WriteInv(w)',
           Busy(w) => /\ w.dir \in DOMAIN dirs'
                      /\ dirs'[w.dir].place = "temp" /\ dirs'[w.dir].art = w.draft
                      /\ \A m \in DOMAIN writes :
                            m # n /\ Busy(writes[m]) => writes[m].dir # w.dir
    PROVE  IInv'
<1>1. TypeOK /\ QueueOrder /\ OwnDirectory /\ GoalsExist
  BY DEF IInv
<1>2. /\ writes' \in Seq(Write) /\ DOMAIN writes' = DOMAIN writes
      /\ writes'[n] = w /\ \A m \in DOMAIN writes : m # n => writes'[m] = writes[m]
      /\ QueueOrder'
  BY <1>1, MovedOrder
<1>3. TypeOK'
  BY <1>2 DEF TypeOK
<1>4. OwnDirectory'
  <2> SUFFICES ASSUME NEW k \in DOMAIN writes, Busy(writes'[k])
               PROVE  /\ writes'[k].dir \in DOMAIN dirs'
                      /\ dirs'[writes'[k].dir].place = "temp"
                      /\ dirs'[writes'[k].dir].art = writes'[k].draft
                      /\ \A m \in DOMAIN writes :
                            Busy(writes'[m]) /\ writes'[m].dir = writes'[k].dir => m = k
    BY <1>2 DEF OwnDirectory, Busy
  <2>1. CASE k = n
    BY <2>1, <1>2
  <2>2. CASE k # n
    <3>1. /\ writes[k].dir \in DOMAIN dirs
          /\ dirs[writes[k].dir].place = "temp" /\ dirs[writes[k].dir].art = writes[k].draft
          /\ \A m \in DOMAIN writes : Busy(writes[m]) /\ writes[m].dir = writes[k].dir => m = k
      BY <2>2, <1>1, <1>2, BusyWrite
    <3>2. dirs'[writes[k].dir] = dirs[writes[k].dir]
      BY <2>2, <1>2
    <3> QED BY <2>2, <3>1, <3>2, <1>2 DEF Grows
  <2> QED BY <2>1, <2>2
<1>5. ASSUME NEW k \in DOMAIN writes
      PROVE  (DraftRests(writes[k]) /\ ActivatesPublished(writes[k]) /\ FilledInOrder(writes[k]))'
  <2>1. CASE k = n
    BY <2>1, <1>2 DEF WriteInv, DraftRests, ActivatesPublished, FilledInOrder
  <2>2. CASE k # n
    <3> DEFINE v == writes[k]
    <3>1. v \in Write /\ WriteInv(v)
      BY <1>1, WritesTyped DEF IInv, WriteInv
    <3>2. v.step = "write" => v.dir \in DOMAIN dirs /\ dirs'[v.dir] = dirs[v.dir]
      BY <2>2, <1>1, BusyWrite DEF Busy
    <3>3. writes'[k] = v
      BY <2>2, <1>2
    <3> HIDE DEF v
    <3>4. PICK x : x = v
      OBVIOUS
    <3>5. WriteInv(x)'
      BY <3>1, <3>2, <3>4, <1>1, WriteInvStill
    <3>6. x = writes'[k]
      BY <3>3, <3>4
    <3> QED BY <3>5, <3>6 DEF WriteInv, DraftRests, ActivatesPublished, FilledInOrder
  <2> QED BY <2>1, <2>2
<1> QED BY <1>2, <1>3, <1>4, <1>5 DEF IInv

(* A step that touches no directory only has to mind its own write.        *)
LEMMA QuietMove ==
    ASSUME IInv, NEW n \in DOMAIN writes, Released(n), writes[n].step \notin Settled,
           NEW w \in Write, w.session = writes[n].session,
           writes' = [writes EXCEPT ![n] = w],
           dirs' = dirs, selected' \in Nat, SelectedContractListed',
           WriteInv(w),
           Busy(w) => Busy(writes[n]) /\ w.dir = writes[n].dir /\ w.draft = writes[n].draft
    PROVE  IInv'
<1>1. TypeOK /\ QueueOrder /\ OwnDirectory /\ GoalsExist /\ ListedRests /\ ListedComplete
  BY DEF IInv
<1>2. Grows /\ GoalsExist' /\ dirs' \in Seq(Directory)
  BY <1>1 DEF Grows, GoalsExist, Listed, TypeOK
<1>3. ListedRests' /\ ListedComplete'
  BY <1>1 DEF ListedRests, ListedComplete, Listed, log, OwnsMedia
<1>4. Busy(w) => /\ w.dir \in DOMAIN dirs
                 /\ dirs[w.dir].place = "temp" /\ dirs[w.dir].art = w.draft
                 /\ \A m \in DOMAIN writes : m # n /\ Busy(writes[m]) => writes[m].dir # w.dir
  BY <1>1, BusyWrite
<1>5. WriteInv(w)'
  BY <1>1, <1>2, <1>4, WriteInvStill DEF Busy
<1> QED BY <1>1, <1>2, <1>3, <1>4, <1>5, MoveKeeps

\* A write whose turn it is waits for nobody.
LEMMA TurnReleases ==
    ASSUME NEW n \in DOMAIN writes, MyTurn(n)
    PROVE  Released(n) /\ writes[n].step = "queued" /\ writes[n].step \notin Settled
BY DEF MyTurn, Released, Settled

(* A write that is done needs nothing any more.                            *)
LEMMA DoneInv ==
    ASSUME NEW w \in Write, NEW step \in Settled
    PROVE  WriteInv(Done(w, step)) /\ ~ Busy(Done(w, step))
BY DoneTyped DEF WriteInv, DraftRests, ActivatesPublished, FilledInOrder, Busy, Settled

\* To settle a write without a trace keeps the invariant.
LEMMA DoneKeeps ==
    ASSUME IInv, NEW n \in DOMAIN writes, Released(n), writes[n].step \notin Settled,
           NEW step \in Settled, writes' = [writes EXCEPT ![n] = Done(@, step)],
           dirs' = dirs, selected' = selected
    PROVE  IInv'
<1> DEFINE w == Done(writes[n], step)
<1>1. writes[n] \in Write /\ selected \in Nat
  BY WritesTyped DEF IInv, TypeOK
<1>2. w \in Write /\ w.session = writes[n].session /\ WriteInv(w) /\ ~ Busy(w)
  BY <1>1, DoneTyped, DoneInv
<1>3. writes' = [writes EXCEPT ![n] = w]
  OBVIOUS
<1>4. SelectedContractListed'
  BY DEF IInv, SelectedContractListed, log, Listed
<1>5. PICK x : x = w
  OBVIOUS
<1> HIDE DEF w
<1> QED BY <1>1, <1>2, <1>3, <1>4, <1>5, QuietMove

(* The checks of a handler passed, and what it will persist rests on what  *)
(* is listed.                                                              *)
LEMMA PersistKeeps ==
    ASSUME IInv, NEW n \in DOMAIN writes, MyTurn(n),
           NEW a \in Artifact, Rests(log, a),
           writes[n].op = "promote" => a.family = "change-contract",
           writes[n].op = "start" /\ a.family = "change-contract"
               => a.from = writes[n].target,
           Persist(n, a)
    PROVE  IInv'
<1> DEFINE w == [writes[n] EXCEPT !.step = "create", !.draft = a]
<1>1. writes[n] \in Write /\ selected \in Nat
  BY WritesTyped DEF IInv, TypeOK
<1>2. /\ w \in Write /\ w.session = writes[n].session /\ w.step = "create"
      /\ w.draft = a /\ w.op = writes[n].op /\ w.target = writes[n].target
  BY <1>1 DEF Write, Step
<1>3. writes' = [writes EXCEPT ![n] = w] /\ dirs' = dirs /\ selected' = selected
  BY <1>1 DEF Persist
<1>4. SelectedContractListed'
  BY <1>3 DEF IInv, SelectedContractListed, log, Listed
<1>5. WriteInv(w) /\ ~ Busy(w)
  BY <1>2 DEF WriteInv, DraftRests, ActivatesPublished, FilledInOrder, Busy
<1>6. PICK x : x = w
  OBVIOUS
<1> HIDE DEF w
<1> QED BY <1>1, <1>2, <1>3, <1>4, <1>5, <1>6, TurnReleases, QuietMove

-----------------------------------------------------------------------------
(* The handlers                                                            *)

LEMMA MadeFields ==
    \A f, i, j, k : LET a == Made(f, i, j, k)
                    IN /\ a.family = f /\ a.from = i /\ a.target = j /\ a.supersedes = k
BY DEF Made

\* What a write names are numbers.
LEMMA RequestTyped ==
    ASSUME IInv, NEW n \in DOMAIN writes
    PROVE  writes[n].target \in Nat /\ writes[n].other \in Nat /\ Nobody \in Nat
BY WritesTyped DEF IInv, Write, Nobody

\* Saving an annotation decides on a draft that rests on listed evidence.
LEMMA SaveKeeps ==
    ASSUME IInv, NEW n \in DOMAIN writes, Save(n)
    PROVE  IInv'
<1> DEFINE a == Made("visual-annotation", writes[n].target, Nobody, writes[n].other)
<1>1. a \in Artifact
  BY RequestTyped, ArtifactsTyped DEF Families
<1>2. Rests(log, a)
  BY MadeFields DEF Save, Rests
<1>3. MyTurn(n) /\ Persist(n, a) /\ writes[n].op = "save"
  BY DEF Save
<1> HIDE DEF a
<1> QED BY <1>1, <1>2, <1>3, PersistKeeps

(* Promotion and the start of a visual change persist the same contract.   *)
LEMMA ContractKeeps ==
    ASSUME IInv, NEW n \in DOMAIN writes, MyTurn(n),
           AnnotatedSource(writes[n].target, {"observation"}),
           Persist(n, Made("change-contract", writes[n].target, Nobody, Nobody))
    PROVE  IInv'
<1> DEFINE a == Made("change-contract", writes[n].target, Nobody, Nobody)
<1>1. a \in Artifact
  BY RequestTyped, ArtifactsTyped DEF Families
<1>2. Rests(log, a) /\ a.family = "change-contract" /\ a.from = writes[n].target
  BY MadeFields DEF AnnotatedSource, Rests
<1>3. Persist(n, a)
  OBVIOUS
<1> HIDE DEF a
<1> QED BY <1>1, <1>2, <1>3, PersistKeeps

\* Starting a reference workflow does.
LEMMA StartReferenceKeeps ==
    ASSUME IInv, NEW n \in DOMAIN writes, StartReference(n)
    PROVE  IInv'
<1> DEFINE a == Made("visual-change-workflow", writes[n].other, writes[n].target, Nobody)
<1>1. a \in Artifact
  BY RequestTyped, ArtifactsTyped DEF Families
<1>2. Rests(log, a)
  BY MadeFields DEF StartReference, AnnotatedSource, Rests
<1>3. MyTurn(n) /\ Persist(n, a) /\ writes[n].op = "start-reference"
  BY DEF StartReference
<1> HIDE DEF a
<1> QED BY <1>1, <1>2, <1>3, PersistKeeps

\* Materializing a reference does.
LEMMA MaterializeKeeps ==
    ASSUME IInv, NEW n \in DOMAIN writes, Materialize(n)
    PROVE  IInv'
<1> DEFINE source == log[writes[n].target].from
           a == Made("external-reference-imported", Nobody, Nobody, source)
<1>1. Has(log, source, References)
  BY DEF Materialize, AnnotatedSource
<1>2. source \in Nat
  BY <1>1, Logged, DirectoriesTyped DEF Has, IInv
<1>3. a \in Artifact
  BY <1>2, RequestTyped, ArtifactsTyped DEF Families, Sources, References
<1>4. Rests(log, a)
  BY <1>1, MadeFields DEF Rests
<1>5. MyTurn(n) /\ Persist(n, a) /\ writes[n].op = "materialize"
  BY DEF Materialize
<1> HIDE DEF a
<1> QED BY <1>3, <1>4, <1>5, PersistKeeps

(* An imported reference that revises one revises one that is listed.      *)
LEMMA RevisedReferenceListed ==
    ASSUME ListedRests, NEW i, Has(log, i, {"external-reference-imported"}),
           log[i].supersedes # Nobody
    PROVE  Has(log, log[i].supersedes, References)
<1>1. i \in Listed /\ log[i].family = "external-reference-imported"
  BY Logged DEF Has
<1>2. log[i] # AlreadyThere[2]
  BY MadeFields DEF AlreadyThere
<1>3. Rests(log, log[i])
  BY <1>1, <1>2 DEF ListedRests
<1> QED BY <1>1, <1>3, MadeFields DEF Rests, Captured

\* Approving a reference does.
LEMMA ApproveKeeps ==
    ASSUME IInv, NEW n \in DOMAIN writes, Approve(n)
    PROVE  IInv'
<1> DEFINE i == writes[n].target
           a == Made("external-reference-approved", i, Nobody, log[i].supersedes)
<1>1. Has(log, i, {"external-reference-imported"})
  BY DEF Approve
<1>2. log[i].supersedes # Nobody => Has(log, log[i].supersedes, References)
  BY <1>1, RevisedReferenceListed DEF IInv
<1>3. log[i].supersedes \in Nat
  BY <1>1, Logged, DirectoriesTyped DEF Has, IInv, Artifact
<1>4. a \in Artifact
  BY <1>3, RequestTyped, ArtifactsTyped DEF Families, Sources, References
<1>5. Rests(log, a)
  BY <1>1, <1>2, MadeFields DEF Rests
<1>6. MyTurn(n) /\ Persist(n, a) /\ writes[n].op = "approve"
  BY DEF Approve
<1> HIDE DEF a
<1> QED BY <1>4, <1>5, <1>6, PersistKeeps

\* So does every decision, a refusal too.
LEMMA DecideKeeps ==
    ASSUME IInv, NEW n \in DOMAIN writes, Decide(n)
    PROVE  IInv'
<1>1. CASE Save(n)
  BY <1>1, SaveKeeps
<1>2. CASE Promote(n)
  BY <1>2, ContractKeeps DEF Promote
<1>3. CASE StartActual(n)
  BY <1>3, ContractKeeps DEF StartActual
<1>4. CASE StartReference(n)
  BY <1>4, StartReferenceKeeps
<1>5. CASE Materialize(n)
  BY <1>5, MaterializeKeeps
<1>6. CASE Approve(n)
  BY <1>6, ApproveKeeps
<1>7. CASE Refuse(n)
  BY <1>7, TurnReleases, DoneKeeps DEF Refuse, Settled
<1>8. CASE Throw(n)
  BY <1>8, TurnReleases, DoneKeeps DEF Throw, Settled
<1> QED BY <1>1, <1>2, <1>3, <1>4, <1>5, <1>6, <1>7, <1>8 DEF Decide

-----------------------------------------------------------------------------
(* The writers                                                             *)

LEMMA MakeTempKeeps ==
    ASSUME IInv, NEW n \in DOMAIN writes, MakeTemp(n)
    PROVE  IInv' /\ log' = log
<1>1. /\ TypeOK /\ QueueOrder /\ OwnDirectory /\ GoalsExist /\ ListedRests /\ ListedComplete
      /\ SelectedContractListed /\ WriteInv(writes[n]) /\ writes[n].step = "create"
  BY DEF IInv, WriteInv, MakeTemp
<1>2. dirs \in Seq(Directory) /\ writes[n] \in Write /\ selected \in Nat
  BY <1>1, WritesTyped DEF TypeOK
<1> PICK d : d = Len(dirs) + 1
  OBVIOUS
<1> PICK v : v = writes[n]
  OBVIOUS
<1> PICK w : w = [v EXCEPT !.step = "write", !.dir = d]
  OBVIOUS
<1>3. /\ w \in Write /\ w.session = v.session /\ w.step = "write" /\ w.dir = d
      /\ w.draft = v.draft /\ w.op = v.op /\ w.target = v.target
      /\ v.draft \in Artifact
  <2>1. d \in Nat /\ v \in Write
    BY <1>2
  <2> QED BY <2>1 DEF Write, Step
<1>4. /\ dirs' \in Seq(Directory) /\ DOMAIN dirs' = DOMAIN dirs \cup {d} /\ d \notin DOMAIN dirs
      /\ \A i \in DOMAIN dirs : dirs'[i] = dirs[i]
      /\ dirs'[d].art = v.draft /\ dirs'[d].place = "temp"
      /\ dirs'[d].media = FALSE /\ dirs'[d].manifest = FALSE
  <2>1. [art |-> v.draft, place |-> "temp", media |-> FALSE, manifest |-> FALSE] \in Directory
    BY <1>3 DEF Directory
  <2> QED BY <2>1, <1>2 DEF MakeTemp
<1>5. Listed' = Listed /\ Grows
  BY <1>4 DEF Listed, Grows
<1>6. writes' = [writes EXCEPT ![n] = w] /\ selected' = selected
  BY <1>2 DEF MakeTemp
<1>7. GoalsExist'
  <2>1. SUFFICES ASSUME NEW i \in DOMAIN dirs', dirs'[i].art.family = "visual-change-workflow"
                 PROVE  dirs'[i].art.target \in DOMAIN dirs'
    BY DEF GoalsExist
  <2>2. CASE i \in DOMAIN dirs
    BY <2>1, <2>2, <1>1, <1>4 DEF GoalsExist
  <2>3. CASE i = d
    <3>1. Rests(log, v.draft) /\ v.draft.family = "visual-change-workflow"
      BY <2>1, <2>3, <1>1, <1>4 DEF WriteInv, DraftRests, Running
    <3>2. v.draft.target \in Listed
      BY <3>1, MadeFields, Logged DEF Rests, Captured, Has
    <3> QED BY <3>2, <2>3, <1>4, Logged
  <2> QED BY <2>2, <2>3, <1>4
<1>8. ListedRests'
  BY <1>1, <1>4, <1>5, RestsStill, Logged DEF ListedRests, log
<1>9. ListedComplete'
  BY <1>1, <1>4, <1>5, ListedCompleteStill, Logged DEF ListedComplete
<1>10. SelectedContractListed'
  BY <1>1, <1>5, <1>6, SelectedStill
<1>11. WriteInv(w)'
  <2>1. WriteInv(v)'
    BY <1>1, <1>2, <1>5, WriteInvStill
  <2>2. v.step = "create"
    BY <1>1
  <2> QED BY <2>1, <2>2, <1>3, <1>4 DEF WriteInv, DraftRests, ActivatesPublished,
          FilledInOrder, Running
<1>12. Released(n) /\ writes[n].step \notin Settled
  BY <1>1, ReleasedOnceMoved DEF Settled
<1>13. \A m \in DOMAIN writes : Busy(writes[m])
           => writes[m].dir \in DOMAIN dirs /\ writes[m].dir # w.dir
  BY <1>1, <1>3, <1>4, BusyWrite
<1>14. IInv'
  BY <1>1, <1>2, <1>3, <1>4, <1>5, <1>6, <1>7, <1>8, <1>9, <1>10, <1>11, <1>12, <1>13,
     MoveKeeps
<1> QED BY <1>5, <1>14, SameListing

(* A writer changes its own directory, which nobody has found yet.         *)
LEMMA OwnChange ==
    ASSUME IInv, NEW n \in DOMAIN writes, Busy(writes[n]),
           NEW d, d = writes[n].dir,
           NEW e \in Directory, e.art = dirs[d].art, dirs' = [dirs EXCEPT ![d] = e]
    PROVE  /\ dirs' \in Seq(Directory) /\ DOMAIN dirs' = DOMAIN dirs /\ d \in DOMAIN dirs
           /\ dirs'[d] = e /\ \A i \in DOMAIN dirs : i # d => dirs'[i] = dirs[i]
           /\ d \notin Listed /\ Grows /\ GoalsExist'
           /\ e.place = "final" /\ e.manifest => Listed' = Listed \cup {d}
           /\ e.place # "final" => Listed' = Listed
           /\ \A i \in Listed : /\ (Rests(log, log[i]) \/ log[i] = AlreadyThere[2])'
                                /\ (OwnsMedia(dirs[i].art) => dirs[i].media)'
<1>1. /\ TypeOK /\ QueueOrder /\ OwnDirectory /\ GoalsExist /\ ListedRests /\ ListedComplete
  BY DEF IInv
<1>2. d \in DOMAIN dirs /\ d \notin Listed
  BY <1>1, BusyWrite
<1>3. /\ dirs' \in Seq(Directory) /\ DOMAIN dirs' = DOMAIN dirs
      /\ dirs'[d] = e /\ \A i \in DOMAIN dirs : i # d => dirs'[i] = dirs[i]
  BY <1>1, <1>2 DEF TypeOK
<1>4. /\ e.place = "final" /\ e.manifest => Listed' = Listed \cup {d}
      /\ e.place # "final" => Listed' = Listed
      /\ Listed \subseteq Listed'
  BY <1>2, <1>3 DEF Listed
<1>5. Grows /\ GoalsExist'
  BY <1>1, <1>2, <1>3, <1>4 DEF Grows, GoalsExist
<1>6. ASSUME NEW i \in Listed
      PROVE  /\ (Rests(log, log[i]) \/ log[i] = AlreadyThere[2])'
             /\ (OwnsMedia(dirs[i].art) => dirs[i].media)'
  <2>1. PICK x : x = log[i]
    OBVIOUS
  <2>2. Rests(log, x) \/ x = AlreadyThere[2]
    BY <1>1, <2>1 DEF ListedRests
  <2>3. Rests(log, x)' \/ x = AlreadyThere[2]
    BY <2>2, <1>5, RestsStill
  <2>4. x = log'[i]
    BY <2>1, <1>5, LogGrows, Logged
  <2>5. (OwnsMedia(dirs[i].art) => dirs[i].media)'
    BY <1>1, <1>2, <1>3, <1>5, ListedCompleteStill, Logged
  <2> QED BY <2>3, <2>4, <2>5
<1> QED BY <1>2, <1>3, <1>4, <1>5, <1>6

\* What a writer does in its directory, no other writer notices.
LEMMA OthersUntouched ==
    ASSUME IInv, NEW n \in DOMAIN writes, Busy(writes[n]), NEW e,
           dirs' = [dirs EXCEPT ![writes[n].dir] = e],
           NEW m \in DOMAIN writes, m # n, Busy(writes[m])
    PROVE  writes[m].dir # writes[n].dir /\ dirs'[writes[m].dir] = dirs[writes[m].dir]
<1>1. writes[m].dir # writes[n].dir /\ writes[m].dir \in DOMAIN dirs
  BY BusyWrite DEF IInv
<1> QED BY <1>1

(* Filling or clearing it, file by file.                                   *)
LEMMA FillKeeps ==
    ASSUME IInv, NEW n \in DOMAIN writes, Busy(writes[n]),
           NEW d, d = writes[n].dir,
           NEW e \in Directory, e.art = dirs[d].art, e.place = "temp",
           dirs' = [dirs EXCEPT ![d] = e], writes' = writes, selected' = selected,
           writes[n].step = "write" /\ e.manifest => (OwnsMedia(e.art) => e.media)
    PROVE  IInv' /\ log' = log
<1>1. /\ TypeOK /\ QueueOrder /\ OwnDirectory /\ GoalsExist /\ SelectedContractListed
      /\ WriteInv(writes[n])
  BY DEF IInv, WriteInv
<1> PICK w : w = writes[n]
  OBVIOUS
<1>2. w \in Write /\ selected \in Nat /\ writes' = [writes EXCEPT ![n] = w]
  BY <1>1, WritesTyped DEF TypeOK
<1>3. /\ dirs' \in Seq(Directory) /\ DOMAIN dirs' = DOMAIN dirs /\ d \in DOMAIN dirs
      /\ dirs'[d] = e /\ d \notin Listed /\ Grows /\ GoalsExist' /\ Listed' = Listed
      /\ \A m \in DOMAIN writes : m # n /\ Busy(writes[m])
             => writes[m].dir # d /\ dirs'[writes[m].dir] = dirs[writes[m].dir]
  <2>1. e.place # "final" => Listed' = Listed
    BY OwnChange, ZenonT(30)
  <2>2. /\ dirs' \in Seq(Directory) /\ DOMAIN dirs' = DOMAIN dirs /\ d \in DOMAIN dirs
        /\ dirs'[d] = e /\ d \notin Listed /\ Grows /\ GoalsExist'
    BY OwnChange, ZenonT(30)
  <2>3. ASSUME NEW m \in DOMAIN writes, m # n, Busy(writes[m])
        PROVE  writes[m].dir # d /\ dirs'[writes[m].dir] = dirs[writes[m].dir]
    BY <2>3, OthersUntouched
  <2> QED BY <2>1, <2>2, <2>3
<1>4. ListedRests' /\ ListedComplete'
  BY <1>3, OwnChange DEF ListedRests, ListedComplete
<1>5. SelectedContractListed'
  BY <1>1, <1>3, SelectedStill
<1>6. WriteInv(w)'
  <2>1. DraftRests(w)'
    BY <1>1, <1>3, RestsStill DEF WriteInv, DraftRests
  <2>2. ActivatesPublished(w)'
    BY <1>1, <1>3, LogGrows DEF WriteInv, ActivatesPublished, Has
  <2>3. FilledInOrder(w)'
    <3>1. OwnsMedia(e.art)' => OwnsMedia(e.art)
      <4>1. e.art = dirs[d].art /\ \A i \in DOMAIN dirs : dirs'[i].art = dirs[i].art
        BY <1>3 DEF Grows
      <4> QED BY <4>1, <1>1, <1>3 DEF OwnsMedia, GoalsExist
    <3> QED BY <3>1, <1>3 DEF FilledInOrder
  <2> QED BY <2>1, <2>2, <2>3 DEF WriteInv
<1>7. dirs[d].art = w.draft
  BY <1>1, BusyWrite
<1>8. Released(n) /\ writes[n].step \notin Settled
  BY <1>1, ReleasedOnceMoved DEF Busy, Settled
<1>9. IInv'
  BY <1>1, <1>2, <1>3, <1>4, <1>5, <1>6, <1>7, <1>8, MoveKeeps
<1> QED BY <1>3, <1>9, SameListing

\* A directory with one file more, or moved, is a directory with the same artifact.
LEMMA DirectoryChanges ==
    ASSUME NEW x \in Directory, NEW b \in BOOLEAN, NEW p \in {"temp", "final", "gone"}
    PROVE  LET m == [x EXCEPT !.media = b]
               f == [x EXCEPT !.manifest = b]
               q == [x EXCEPT !.place = p]
           IN /\ m \in Directory /\ m.art = x.art /\ m.place = x.place
              /\ m.media = b /\ m.manifest = x.manifest
              /\ f \in Directory /\ f.art = x.art /\ f.place = x.place
              /\ f.media = x.media /\ f.manifest = b
              /\ q \in Directory /\ q.art = x.art /\ q.place = p
              /\ q.media = x.media /\ q.manifest = x.manifest
BY DEF Directory

\* Writing or removing one file keeps the invariant and adds no evidence.
LEMMA FillSteps ==
    ASSUME IInv, NEW n \in DOMAIN writes, WriteMedia(n) \/ WriteManifest(n) \/ RemoveFile(n)
    PROVE  IInv' /\ log' = log
<1> PICK d : d = writes[n].dir
  OBVIOUS
<1>1. TypeOK /\ OwnDirectory /\ FilledInOrder(writes[n]) /\ Busy(writes[n])
  BY DEF IInv, Busy, WriteMedia, WriteManifest, RemoveFile
<1>2. d \in DOMAIN dirs /\ dirs[d] \in Directory /\ dirs[d].place = "temp"
  BY <1>1, BusyWrite, DirectoriesTyped
<1>3. CASE WriteMedia(n)
  <2> PICK e : e = [dirs[d] EXCEPT !.media = TRUE]
    OBVIOUS
  <2>1. dirs' = [dirs EXCEPT ![d] = e] /\ writes' = writes /\ selected' = selected
    BY <1>3 DEF WriteMedia
  <2>2. e \in Directory /\ e.art = dirs[d].art /\ e.place = "temp" /\ e.media
    BY <1>2, DirectoryChanges
  <2> QED BY <1>1, <2>1, <2>2, FillKeeps
<1>4. CASE WriteManifest(n)
  <2> PICK e : e = [dirs[d] EXCEPT !.manifest = TRUE]
    OBVIOUS
  <2>1. /\ dirs' = [dirs EXCEPT ![d] = e] /\ writes' = writes /\ selected' = selected
        /\ OwnsMedia(dirs[d].art) => dirs[d].media
    BY <1>4 DEF WriteManifest
  <2>2. e \in Directory /\ e.art = dirs[d].art /\ e.place = "temp" /\ e.media = dirs[d].media
    BY <1>2, DirectoryChanges
  <2> QED BY <1>1, <2>1, <2>2, FillKeeps
<1>5. CASE RemoveFile(n)
  <2>1. writes[n].step # "write"
    BY <1>5 DEF RemoveFile
  <2>2. CASE dirs' = [dirs EXCEPT ![d].media = FALSE]
    <3> PICK e : e = [dirs[d] EXCEPT !.media = FALSE]
      OBVIOUS
    <3>1. dirs' = [dirs EXCEPT ![d] = e] /\ writes' = writes /\ selected' = selected
      BY <1>5, <2>2 DEF RemoveFile
    <3>2. e \in Directory /\ e.art = dirs[d].art /\ e.place = "temp"
      BY <1>2, DirectoryChanges
    <3> QED BY <1>1, <2>1, <3>1, <3>2, FillKeeps
  <2>3. CASE dirs' = [dirs EXCEPT ![d].manifest = FALSE]
    <3> PICK e : e = [dirs[d] EXCEPT !.manifest = FALSE]
      OBVIOUS
    <3>1. dirs' = [dirs EXCEPT ![d] = e] /\ writes' = writes /\ selected' = selected
      BY <1>5, <2>3 DEF RemoveFile
    <3>2. e \in Directory /\ e.art = dirs[d].art /\ e.place = "temp"
      BY <1>2, DirectoryChanges
    <3> QED BY <1>1, <2>1, <3>1, <3>2, FillKeeps
  <2> QED BY <1>5, <2>2, <2>3 DEF RemoveFile
<1> QED BY <1>3, <1>4, <1>5

\* Removing the temporary directory does.
LEMMA RemoveTempKeeps ==
    ASSUME IInv, NEW n \in DOMAIN writes, RemoveTemp(n)
    PROVE  IInv' /\ log' = log
<1> PICK d : d = writes[n].dir
  OBVIOUS
<1> PICK e : e = [dirs[d] EXCEPT !.place = "gone"]
  OBVIOUS
<1> PICK w : w = Done(writes[n], "answered")
  OBVIOUS
<1>1. /\ TypeOK /\ QueueOrder /\ OwnDirectory /\ SelectedContractListed /\ Busy(writes[n])
      /\ writes[n].step = "cleanup"
  BY DEF IInv, Busy, RemoveTemp
<1>2. d \in DOMAIN dirs /\ dirs[d] \in Directory /\ writes[n] \in Write /\ selected \in Nat
  BY <1>1, BusyWrite, DirectoriesTyped, WritesTyped DEF TypeOK
<1>3. e \in Directory /\ e.art = dirs[d].art /\ e.place = "gone"
  BY <1>2, DirectoryChanges
<1>4. /\ dirs' = [dirs EXCEPT ![d] = e] /\ writes' = [writes EXCEPT ![n] = w]
      /\ selected' = selected
  BY DEF RemoveTemp
<1>5. Listed' = Listed /\ dirs' \in Seq(Directory) /\ Grows /\ GoalsExist'
  <2>1. /\ Busy(writes[n]) /\ d = writes[n].dir /\ e \in Directory
        /\ e.art = dirs[d].art /\ dirs' = [dirs EXCEPT ![d] = e]
    BY <1>1, <1>3, <1>4
  <2>2. e.place # "final" => Listed' = Listed
    BY <2>1, OwnChange, Zenon
  <2>3. dirs' \in Seq(Directory) /\ Grows /\ GoalsExist'
    BY <2>1, OwnChange, Zenon
  <2> QED BY <2>2, <2>3, <1>3
<1>6. ListedRests' /\ ListedComplete'
  BY <1>1, <1>3, <1>4, <1>5, OwnChange DEF ListedRests, ListedComplete
<1>7. SelectedContractListed'
  BY <1>1, <1>4, <1>5, SelectedStill
<1>8. /\ w \in Write /\ w.session = writes[n].session /\ WriteInv(w)' /\ ~ Busy(w)
      /\ w.step = "answered"
  <2>1. /\ w \in Write /\ w.session = writes[n].session /\ w.step = "answered" /\ ~ Running(w)
    BY <1>2, DoneTyped DEF Settled
  <2> QED BY <2>1 DEF WriteInv, DraftRests, ActivatesPublished, FilledInOrder, Busy
<1>9. Released(n) /\ writes[n].step \notin Settled
  BY <1>1, ReleasedOnceMoved DEF Settled
<1>10. ASSUME NEW m \in DOMAIN writes, m # n, Busy(writes[m])
       PROVE  dirs'[writes[m].dir] = dirs[writes[m].dir]
  BY <1>1, <1>4, <1>10, OthersUntouched
<1>11. IInv'
  BY <1>1, <1>2, <1>4, <1>5, <1>6, <1>7, <1>8, <1>9, <1>10, MoveKeeps
<1> QED BY <1>5, <1>11, SameListing

(* What remains to be done after publication rests on what was published.  *)
LEMMA AfterPublishingInv ==
    ASSUME NEW w \in Write, w.step = "write", DraftRests(w)', w.dir \in Listed',
           dirs'[w.dir].art = w.draft
    PROVE  LET next == AfterPublishing(w)
           IN /\ next \in Write /\ next.session = w.session /\ ~ Busy(next)
              /\ WriteInv(next)'
<1>1. w.dir \in DOMAIN log' /\ log'[w.dir] = w.draft
  BY DEF log
<1>2. Rests(log, w.draft)'
  BY DEF DraftRests, Running
<1>3. CASE w.op = "start" /\ w.draft.family = "change-contract"
  <2> PICK a : a = Made("visual-change-workflow", w.target, w.dir, Nobody)
    OBVIOUS
  <2> PICK x : x = [w EXCEPT !.step = "create", !.dir = Nobody, !.draft = a]
    OBVIOUS
  <2>1. a \in Artifact
    <3>1. w.target \in Nat /\ w.dir \in Nat /\ Nobody \in Nat
      BY DEF Write, Nobody
    <3> QED BY <3>1, ArtifactsTyped DEF Families
  <2>2. /\ x \in Write /\ x.session = w.session /\ x.step = "create" /\ x.draft = a
        /\ x.op = w.op /\ x.target = w.target
    <3>1. Nobody \in Nat
      BY DEF Nobody
    <3> QED BY <2>1, <3>1 DEF Write, Step
  <2>3. AfterPublishing(w) = x
    BY <1>3 DEF AfterPublishing
  <2>4. /\ a.family = "visual-change-workflow" /\ a.from = w.target /\ a.target = w.dir
    BY MadeFields
  <2>5. w.draft.from = w.target
    BY <1>3 DEF DraftRests, Running
  <2>6. (Has(log, w.target, {"visual-annotation"}))'
    BY <1>2, <1>3, <2>5, MadeFields DEF Rests, Captured
  <2>7. (Has(log, w.dir, {"change-contract"}))' /\ log'[w.dir].from = w.target
    BY <1>1, <1>3, <2>5 DEF Has
  <2>8. Rests(log, a)'
    BY <2>4, <2>6, <2>7 DEF Rests
  <2>9. WriteInv(x)'
    BY <1>3, <2>2, <2>4, <2>8 DEF WriteInv, DraftRests, ActivatesPublished, FilledInOrder
  <2>10. (AfterPublishing(w) = x)'
    BY <1>3 DEF AfterPublishing
  <2> QED BY <2>2, <2>3, <2>9 DEF Busy
<1>4. CASE w.op = "promote" /\ w.activate
  <2> PICK x : x = [w EXCEPT !.step = "activate"]
    OBVIOUS
  <2>1. /\ x \in Write /\ x.session = w.session /\ x.step = "activate" /\ x.draft = w.draft
        /\ x.op = w.op /\ x.target = w.target /\ x.dir = w.dir
    BY DEF Write, Step
  <2>2. AfterPublishing(w) = x
    BY <1>4 DEF AfterPublishing
  <2>3. w.draft.family = "change-contract"
    BY <1>4 DEF DraftRests, Running
  <2>4. WriteInv(x)'
    BY <1>1, <1>2, <1>4, <2>1, <2>3 DEF WriteInv, DraftRests, ActivatesPublished,
       FilledInOrder, Has
  <2> QED BY <2>1, <2>2, <2>4 DEF Busy
<1>5. CASE ~ (w.op = "start" /\ w.draft.family = "change-contract")
           /\ ~ (w.op = "promote" /\ w.activate)
  <2> PICK x : x = Done(w, "answered")
    OBVIOUS
  <2>1. AfterPublishing(w) = x
    BY <1>5 DEF AfterPublishing
  <2>2. x \in Write /\ x.session = w.session /\ x.step = "answered" /\ ~ Running(x)
    BY DoneTyped DEF Settled
  <2>3. WriteInv(x)'
    BY <2>2 DEF WriteInv, DraftRests, ActivatesPublished, FilledInOrder
  <2> QED BY <2>1, <2>2, <2>3 DEF Busy
<1> QED BY <1>3, <1>4, <1>5

\* Publishing adds exactly the draft to the log, whole.
LEMMA PublishKeeps ==
    ASSUME IInv, NEW n \in DOMAIN writes, Publish(n)
    PROVE  IInv' /\ LogAdds(writes[n].draft)
<1> PICK v : v = writes[n]
  OBVIOUS
<1> PICK d : d = v.dir
  OBVIOUS
<1> PICK e : e = [dirs[d] EXCEPT !.place = "final"]
  OBVIOUS
<1> PICK w : w = AfterPublishing(v)
  OBVIOUS
<1>1. /\ TypeOK /\ QueueOrder /\ OwnDirectory /\ GoalsExist /\ SelectedContractListed
      /\ Busy(writes[n]) /\ v.step = "write" /\ WriteInv(v) /\ dirs[d].manifest
  BY DEF IInv, Busy, Publish, WriteInv
<1>2. /\ d \in DOMAIN dirs /\ dirs[d] \in Directory /\ dirs[d].art = v.draft
      /\ v \in Write /\ selected \in Nat
  BY <1>1, BusyWrite, DirectoriesTyped, WritesTyped DEF TypeOK
<1>3. /\ e \in Directory /\ e.art = v.draft /\ e.place = "final" /\ e.manifest
      /\ e.media = dirs[d].media
  <2>1. /\ e \in Directory /\ e.art = dirs[d].art /\ e.place = "final"
        /\ e.media = dirs[d].media /\ e.manifest = dirs[d].manifest
    BY <1>2, DirectoryChanges
  <2>2. dirs[d].manifest
    BY <1>1
  <2>3. e.manifest
    BY <2>1, <2>2, Zenon
  <2> QED BY <2>1, <2>3, <1>2
<1>4. /\ dirs' = [dirs EXCEPT ![d] = e] /\ writes' = [writes EXCEPT ![n] = w]
      /\ selected' = selected
  BY DEF Publish
<1>5. /\ Listed' = Listed \cup {d} /\ dirs' \in Seq(Directory) /\ Grows /\ GoalsExist'
      /\ dirs'[d] = e
  <2>1. /\ Busy(writes[n]) /\ d = writes[n].dir /\ e \in Directory
        /\ e.art = dirs[d].art /\ dirs' = [dirs EXCEPT ![d] = e]
    BY <1>1, <1>2, <1>3, <1>4
  <2>2. e.place = "final" /\ e.manifest => Listed' = Listed \cup {d}
    BY <2>1, OwnChange, Zenon
  <2>3. dirs' \in Seq(Directory) /\ Grows /\ GoalsExist' /\ dirs'[d] = e
    BY <2>1, OwnChange, Zenon
  <2> QED BY <2>2, <2>3, <1>3
<1>6. Rests(log, v.draft)' /\ DraftRests(v)'
  BY <1>1, <1>5, RestsStill DEF WriteInv, DraftRests, Running
<1>7. ListedRests'
  <2>1. ASSUME NEW i \in Listed
        PROVE  (Rests(log, log[i]) \/ log[i] = AlreadyThere[2])'
    BY <1>1, <1>2, <1>3, <1>4, OwnChange
  <2>2. log'[d] = v.draft
    BY <1>3, <1>5 DEF log
  <2>3. (Rests(log, log[d]))'
    BY <2>2, <1>6
  <2> QED BY <2>1, <2>3, <1>5 DEF ListedRests
<1>8. ListedComplete'
  <2>1. ASSUME NEW i \in Listed
        PROVE  (OwnsMedia(dirs[i].art) => dirs[i].media)'
    BY <1>1, <1>2, <1>3, <1>4, OwnChange
  <2>2. ASSUME OwnsMedia(dirs[d].art)'
        PROVE  dirs'[d].media
    <3>1. OwnsMedia(dirs[d].art)
      BY <2>2, <1>1, <1>2, <1>5 DEF OwnsMedia, Grows, GoalsExist
    <3> QED BY <3>1, <1>1, <1>3, <1>5 DEF WriteInv, FilledInOrder
  <2> QED BY <2>1, <2>2, <1>5 DEF ListedComplete
<1>9. SelectedContractListed'
  BY <1>1, <1>4, <1>5, SelectedStill
<1>10. w \in Write /\ w.session = v.session /\ ~ Busy(w) /\ WriteInv(w)'
  <2>1. d \in Listed' /\ dirs'[d].art = v.draft
    BY <1>3, <1>5
  <2>2. LET next == AfterPublishing(v)
        IN next \in Write /\ next.session = v.session /\ ~ Busy(next) /\ WriteInv(next)'
    BY <1>1, <1>2, <1>6, <2>1, AfterPublishingInv
  <2>3. (w = AfterPublishing(v))'
    BY DEF AfterPublishing, Done, Request, Made
  <2> QED BY <2>2
<1>11. Released(n) /\ writes[n].step \notin Settled
  BY <1>1, ReleasedOnceMoved DEF Settled
<1>12. ASSUME NEW m \in DOMAIN writes, m # n, Busy(writes[m])
       PROVE  dirs'[writes[m].dir] = dirs[writes[m].dir]
  BY <1>1, <1>4, <1>12, OthersUntouched
<1>13. IInv'
  BY <1>1, <1>2, <1>4, <1>5, <1>7, <1>8, <1>9, <1>10, <1>11, <1>12, MoveKeeps
<1>14. d \notin Listed
  BY <1>1, BusyWrite
<1>15. LogAdds(dirs'[d].art) /\ dirs'[d].art = writes[n].draft
  BY <1>3, <1>5, <1>14, OneMoreListed
<1> QED BY <1>13, <1>15

\* A failing writer keeps the invariant.
LEMMA WriterFailsKeeps ==
    ASSUME IInv, NEW n \in DOMAIN writes, WriterFails(n)
    PROVE  IInv'
<1>1. /\ TypeOK /\ QueueOrder /\ SelectedContractListed /\ WriteInv(writes[n])
      /\ dirs' = dirs /\ selected' = selected
      /\ writes[n].step \in {"create", "write"}
  BY DEF IInv, WriterFails, WriteInv
<1>2. Released(n) /\ writes[n].step \notin Settled
  BY <1>1, ReleasedOnceMoved DEF Settled
<1>3. CASE writes' = [writes EXCEPT ![n] = Done(@, "answered")]
  BY <1>1, <1>2, <1>3, DoneKeeps DEF Settled
<1>4. CASE writes[n].step = "write" /\ writes' = [writes EXCEPT ![n].step = "cleanup"]
  <2> PICK v : v = writes[n]
    OBVIOUS
  <2> PICK w : w = [v EXCEPT !.step = "cleanup"]
    OBVIOUS
  <2>1. v \in Write /\ selected \in Nat
    BY <1>1, WritesTyped DEF TypeOK
  <2>2. /\ w \in Write /\ w.session = v.session /\ w.step = "cleanup" /\ w.draft = v.draft
        /\ w.op = v.op /\ w.target = v.target /\ w.dir = v.dir
    BY <2>1 DEF Write, Step
  <2>3. writes' = [writes EXCEPT ![n] = w]
    BY <1>4
  <2>4. WriteInv(w)
    BY <1>1, <1>4, <2>2 DEF WriteInv, DraftRests, ActivatesPublished, FilledInOrder, Running
  <2>5. SelectedContractListed'
    BY <1>1 DEF SelectedContractListed, log, Listed
  <2>6. Busy(writes[n])
    BY <1>4 DEF Busy
  <2> QED BY <1>1, <1>2, <2>1, <2>2, <2>3, <2>4, <2>5, <2>6, QuietMove
<1> QED BY <1>3, <1>4 DEF WriterFails

\* A failing clean-up does.
LEMMA CleanupFailsKeeps ==
    ASSUME IInv, NEW n \in DOMAIN writes, CleanupFails(n)
    PROVE  IInv'
<1>1. TypeOK /\ QueueOrder /\ writes[n].step = "cleanup"
  BY DEF IInv, CleanupFails
<1>2. Released(n) /\ writes[n].step \notin Settled
  BY <1>1, ReleasedOnceMoved DEF Settled
<1> QED BY <1>2, DoneKeeps DEF CleanupFails, Settled

\* Selecting a promoted contract does: it was published before.
LEMMA SelectContractKeeps ==
    ASSUME IInv, NEW n \in DOMAIN writes, SelectContract(n)
    PROVE  IInv'
<1>1. /\ TypeOK /\ QueueOrder /\ SelectedContractListed /\ ActivatesPublished(writes[n])
      /\ writes[n].step = "activate" /\ dirs' = dirs
  BY DEF IInv, SelectContract
<1>2. Released(n) /\ writes[n].step \notin Settled
  BY <1>1, ReleasedOnceMoved DEF Settled
<1> PICK w : w = Done(writes[n], "answered")
  OBVIOUS
<1>3. writes[n] \in Write /\ writes' = [writes EXCEPT ![n] = w]
  BY <1>1, WritesTyped DEF SelectContract
<1>4. w \in Write /\ w.session = writes[n].session /\ WriteInv(w) /\ ~ Busy(w)
  BY <1>3, DoneTyped, DoneInv DEF Settled
<1>5. selected' \in Nat
  BY <1>1, <1>3 DEF SelectContract, TypeOK, Write
<1>6. SelectedContractListed'
  <2>1. log' = log
    BY <1>1 DEF log, Listed
  <2>2. selected' = selected \/ selected' = writes[n].dir
    BY DEF SelectContract
  <2>3. Has(log, writes[n].dir, {"change-contract"})
    BY <1>1 DEF ActivatesPublished
  <2> QED BY <1>1, <2>1, <2>2, <2>3 DEF SelectedContractListed, Has
<1> QED BY <1>1, <1>2, <1>3, <1>4, <1>5, <1>6, QuietMove

\* So does every step of a write.
LEMMA ProceedKeeps ==
    ASSUME IInv, NEW n \in DOMAIN writes, Proceed(n)
    PROVE  IInv'
<1>1. CASE Decide(n)
  BY <1>1, DecideKeeps
<1>2. CASE MakeTemp(n)
  BY <1>2, MakeTempKeeps
<1>3. CASE WriteMedia(n) \/ WriteManifest(n) \/ RemoveFile(n)
  BY <1>3, FillSteps
<1>4. CASE Publish(n)
  BY <1>4, PublishKeeps
<1>5. CASE WriterFails(n)
  BY <1>5, WriterFailsKeeps
<1>6. CASE RemoveTemp(n)
  BY <1>6, RemoveTempKeeps
<1>7. CASE CleanupFails(n)
  BY <1>7, CleanupFailsKeeps
<1>8. CASE SelectContract(n)
  BY <1>8, SelectContractKeeps
<1> QED BY <1>1, <1>2, <1>3, <1>4, <1>5, <1>6, <1>7, <1>8 DEF Proceed, WriterStep

-----------------------------------------------------------------------------
(* The start, and what is not a step of one write                          *)

LEMMA Initially ==
    ASSUME Init
    PROVE  IInv
<1>1. /\ DOMAIN AlreadyThere = 1 .. 3 /\ AlreadyThere[1] = Captured
      /\ AlreadyThere[2] = Made("external-reference-imported", Nobody, Nobody, Nobody)
      /\ AlreadyThere[3] = Made("external-reference-approved", 2, Nobody, Nobody)
      /\ \A i \in 1 .. 3 : AlreadyThere[i] \in Artifact
  <2>1. Nobody \in Nat /\ 2 \in Nat
    BY DEF Nobody
  <2>2. /\ Made("external-reference-imported", Nobody, Nobody, Nobody) \in Artifact
        /\ Made("external-reference-approved", 2, Nobody, Nobody) \in Artifact
    BY <2>1, ArtifactsTyped DEF Families, Sources, References
  <2> QED BY <2>2, ArtifactsTyped DEF AlreadyThere
<1>2. /\ DOMAIN dirs = 1 .. 3
      /\ \A i \in 1 .. 3 : /\ dirs[i].art = AlreadyThere[i] /\ dirs[i].place = "final"
                           /\ dirs[i].media /\ dirs[i].manifest
      /\ dirs \in Seq(Directory)
  <2>1. dirs = [i \in 1 .. 3 |-> [art |-> AlreadyThere[i], place |-> "final",
                                  media |-> TRUE, manifest |-> TRUE]]
    BY <1>1 DEF Init
  <2>2. \A i \in 1 .. 3 : dirs[i] \in Directory
    BY <2>1, <1>1 DEF Directory
  <2> QED BY <2>1, <2>2
<1>3. TypeOK /\ writes = << >> /\ selected = Nobody
  BY <1>2 DEF Init, TypeOK, Nobody
<1>4. QueueOrder /\ OwnDirectory /\ SelectedContractListed
  BY <1>3 DEF QueueOrder, OwnDirectory, SelectedContractListed
<1>5. Listed = 1 .. 3 /\ \A i \in Listed : log[i] = AlreadyThere[i]
  BY <1>2 DEF Listed, log
<1>6. GoalsExist
  BY <1>1, <1>2, MadeFields DEF GoalsExist, Captured
<1>7. ListedComplete
  BY <1>2, <1>5 DEF ListedComplete
<1>8. ListedRests
  <2>1. Rests(log, log[1])
    BY <1>1, <1>5 DEF Rests
  <2>2. Rests(log, log[3])
    <3>1. log[3].family = "external-reference-approved" /\ log[3].from = 2
          /\ log[3].supersedes = Nobody /\ log[2].supersedes = Nobody
          /\ log[2].family = "external-reference-imported"
      BY <1>1, <1>5, MadeFields
    <3>2. Has(log, log[3].from, {"external-reference-imported"})
      BY <3>1, <1>5 DEF Has, log
    <3> QED BY <3>1, <3>2 DEF Rests
  <2>3. log[2] = AlreadyThere[2]
    BY <1>5
  <2> QED BY <2>1, <2>2, <2>3, <1>5 DEF ListedRests
<1> QED BY <1>3, <1>4, <1>6, <1>7, <1>8 DEF IInv

\* A request arriving goes to the end of its session's queue.
LEMMA SubmitKeeps ==
    ASSUME IInv, NEW s \in Session, Submit(s)
    PROVE  IInv'
<1>1. PICK op \in Ops, target \in Listed, other \in Listed \cup {Nobody},
           activate \in BOOLEAN :
               writes' = Append(writes, Request(s, op, target, other, activate))
  BY DEF Submit
<1> PICK w : w = Request(s, op, target, other, activate)
  OBVIOUS
<1>2. w \in Write /\ w.step = "queued"
  <2>1. target \in Nat /\ other \in Nat /\ Nobody \in Nat
    BY <1>1, Logged, DirectoriesTyped DEF IInv, Nobody
  <2> QED BY <2>1, ArtifactsTyped DEF Request, Write, Step
<1>3. TypeOK /\ dirs' = dirs /\ selected' = selected
  BY DEF IInv, Submit
<1>4. /\ writes' \in Seq(Write)
      /\ DOMAIN writes' = DOMAIN writes \cup {Len(writes) + 1}
      /\ writes'[Len(writes) + 1] = w
      /\ \A n \in DOMAIN writes : writes'[n] = writes[n] /\ n \in Nat /\ n < Len(writes) + 1
  BY <1>1, <1>2, <1>3 DEF TypeOK
<1>5. /\ TypeOK' /\ GoalsExist' /\ ListedRests' /\ ListedComplete' /\ SelectedContractListed'
  BY <1>3, <1>4 DEF IInv, TypeOK, GoalsExist, ListedRests, ListedComplete,
     SelectedContractListed, Listed, log, OwnsMedia
<1>6. QueueOrder'
  BY <1>2, <1>4 DEF IInv, QueueOrder
<1>7. OwnDirectory'
  BY <1>2, <1>3, <1>4 DEF IInv, OwnDirectory
<1>8. ASSUME NEW n \in DOMAIN writes'
      PROVE  (DraftRests(writes[n]) /\ ActivatesPublished(writes[n])
                  /\ FilledInOrder(writes[n]))'
  <2>1. log' = log
    BY <1>3 DEF log, Listed
  <2>2. CASE n \in DOMAIN writes
    <3>1. /\ DraftRests(writes[n]) /\ ActivatesPublished(writes[n])
          /\ FilledInOrder(writes[n])
      BY <2>2 DEF IInv
    <3>2. writes'[n] = writes[n]
      BY <2>2, <1>4
    <3> QED BY <3>1, <3>2, <2>1, <1>3 DEF DraftRests, ActivatesPublished, FilledInOrder,
            OwnsMedia
  <2>3. CASE n = Len(writes) + 1
    BY <2>3, <1>2, <1>4 DEF DraftRests, ActivatesPublished, FilledInOrder, Running
  <2> QED BY <2>2, <2>3, <1>4
<1> QED BY <1>5, <1>6, <1>7, <1>8 DEF IInv

\* A crash settles a session's writes and leaves its directories where they are.
LEMMA CrashKeeps ==
    ASSUME IInv, NEW s \in Session, Crash(s)
    PROVE  IInv'
<1>1. TypeOK /\ dirs' = dirs /\ selected' = selected
  BY DEF IInv, Crash
<1>2. /\ writes' \in Seq(Write) /\ DOMAIN writes' = DOMAIN writes
      /\ \A n \in DOMAIN writes :
            /\ writes'[n].session = writes[n].session
            /\ \/ writes'[n] = writes[n]
                  /\ (writes[n].session = s => writes[n].step \in Settled)
               \/ /\ writes[n].session = s /\ writes'[n].step = "dead"
                  /\ ~ Running(writes'[n])
  <2>1. DOMAIN writes = 1 .. Len(writes) /\ Len(writes) \in Nat
    BY <1>1 DEF TypeOK
  <2>2. writes' = [n \in DOMAIN writes |->
                     IF writes[n].session = s /\ writes[n].step \notin Settled
                     THEN Done(writes[n], "dead") ELSE writes[n]]
    BY DEF Crash
  <2>3. ASSUME NEW n \in DOMAIN writes
        PROVE  /\ writes'[n] \in Write
               /\ writes'[n].session = writes[n].session
               /\ \/ writes'[n] = writes[n]
                     /\ (writes[n].session = s => writes[n].step \in Settled)
                  \/ /\ writes[n].session = s /\ writes'[n].step = "dead"
                     /\ ~ Running(writes'[n])
    <3>1. writes[n] \in Write
      BY <1>1, WritesTyped
    <3>2. CASE writes[n].session = s /\ writes[n].step \notin Settled
      BY <3>1, <3>2, <2>2, DoneTyped DEF Settled
    <3>3. CASE ~ (writes[n].session = s /\ writes[n].step \notin Settled)
      BY <3>1, <3>3, <2>2
    <3> QED BY <3>2, <3>3
  <2>4. DOMAIN writes' = 1 .. Len(writes)
    BY <2>1, <2>2
  <2> QED BY <2>1, <2>2, <2>3, <2>4
<1>3. /\ TypeOK' /\ GoalsExist' /\ ListedRests' /\ ListedComplete' /\ SelectedContractListed'
  BY <1>1, <1>2 DEF IInv, TypeOK, GoalsExist, ListedRests, ListedComplete,
     SelectedContractListed, Listed, log, OwnsMedia
<1>4. QueueOrder'
  <2> SUFFICES ASSUME NEW m \in DOMAIN writes, NEW n \in DOMAIN writes, m < n,
                      writes[m].session = writes[n].session, writes'[n].step # "queued"
               PROVE  writes'[m].step \in Settled
    BY <1>2 DEF QueueOrder
  <2>1. CASE writes[n].session = s
    BY <2>1, <1>2 DEF Settled
  <2>2. CASE writes[n].session # s
    BY <2>2, <1>2 DEF IInv, QueueOrder
  <2> QED BY <2>1, <2>2
<1>5. OwnDirectory'
  BY <1>1, <1>2 DEF IInv, OwnDirectory
<1>6. ASSUME NEW n \in DOMAIN writes'
      PROVE  (DraftRests(writes[n]) /\ ActivatesPublished(writes[n])
                  /\ FilledInOrder(writes[n]))'
  <2>1. log' = log
    BY <1>1 DEF log, Listed
  <2>2. CASE writes'[n] = writes[n]
    <3>1. /\ DraftRests(writes[n]) /\ ActivatesPublished(writes[n])
          /\ FilledInOrder(writes[n])
      BY <1>2 DEF IInv
    <3> QED BY <3>1, <2>1, <2>2, <1>1 DEF DraftRests, ActivatesPublished, FilledInOrder,
            OwnsMedia
  <2>3. CASE writes'[n].step = "dead" /\ ~ Running(writes'[n])
    BY <2>3 DEF DraftRests, ActivatesPublished, FilledInOrder
  <2> QED BY <2>2, <2>3, <1>2
<1> QED BY <1>2, <1>3, <1>4, <1>5, <1>6 DEF IInv

\* A capture by the command line adds one observation, and disturbs no writer.
LEMMA CommandLineCaptureKeeps ==
    ASSUME IInv, CommandLineCapture
    PROVE  IInv' /\ LogAdds(Captured)
<1> PICK d : d = Len(dirs) + 1
  OBVIOUS
<1>1. /\ TypeOK /\ OwnDirectory /\ GoalsExist /\ ListedRests /\ ListedComplete
      /\ SelectedContractListed /\ writes' = writes /\ selected' = selected
  BY DEF IInv, CommandLineCapture
<1>2. /\ dirs' \in Seq(Directory) /\ DOMAIN dirs' = DOMAIN dirs \cup {d} /\ d \notin DOMAIN dirs
      /\ \A i \in DOMAIN dirs : dirs'[i] = dirs[i]
      /\ dirs'[d].art = Captured /\ dirs'[d].place = "final"
      /\ dirs'[d].media /\ dirs'[d].manifest
  <2>1. [art |-> Captured, place |-> "final", media |-> TRUE, manifest |-> TRUE] \in Directory
    BY ArtifactsTyped DEF Directory
  <2> QED BY <2>1, <1>1 DEF CommandLineCapture, TypeOK
<1>3. Listed' = Listed \cup {d} /\ Grows /\ \A i \in Listed : dirs'[i] = dirs[i]
  BY <1>2 DEF Listed, Grows
<1>4. TypeOK'
  BY <1>1, <1>2 DEF TypeOK
<1>5. GoalsExist'
  BY <1>1, <1>2, MadeFields DEF GoalsExist, Captured
<1>6. ListedRests'
  <2>1. ASSUME NEW i \in Listed
        PROVE  (Rests(log, log[i]) \/ log[i] = AlreadyThere[2])'
    <3>1. PICK x : x = log[i]
      OBVIOUS
    <3>2. Rests(log, x)' \/ x = AlreadyThere[2]
      BY <3>1, <1>1, <1>3, RestsStill DEF ListedRests
    <3>3. x = log'[i]
      BY <3>1, <1>3, LogGrows, Logged
    <3> QED BY <3>2, <3>3
  <2>2. (Rests(log, log[d]))'
    BY <1>2, <1>3 DEF Rests, log
  <2> QED BY <2>1, <2>2, <1>3 DEF ListedRests
<1>7. ListedComplete'
  BY <1>1, <1>2, <1>3, ListedCompleteStill DEF ListedComplete
<1>8. SelectedContractListed'
  BY <1>1, <1>3, SelectedStill
<1>9. QueueOrder' /\ OwnDirectory'
  BY <1>1, <1>2 DEF IInv, QueueOrder, OwnDirectory
<1>10. ASSUME NEW n \in DOMAIN writes
       PROVE  (DraftRests(writes[n]) /\ ActivatesPublished(writes[n])
                   /\ FilledInOrder(writes[n]))'
  <2> PICK v : v = writes[n]
    OBVIOUS
  <2>1. v \in Write /\ WriteInv(v)
    BY <1>1, WritesTyped DEF IInv, WriteInv
  <2>2. v.step = "write" => v.dir \in DOMAIN dirs /\ dirs'[v.dir] = dirs[v.dir]
    BY <1>1, <1>2, BusyWrite DEF Busy
  <2>3. WriteInv(v)'
    BY <2>1, <2>2, <1>1, <1>3, WriteInvStill
  <2>4. v = writes'[n]
    BY <1>1
  <2> QED BY <2>3, <2>4 DEF WriteInv, DraftRests, ActivatesPublished, FilledInOrder
<1>11. IInv'
  BY <1>1, <1>4, <1>5, <1>6, <1>7, <1>8, <1>9, <1>10 DEF IInv
<1>12. d \notin Listed
  BY <1>2, Logged
<1>13. LogAdds(dirs'[d].art) /\ dirs'[d].art = Captured
  BY <1>2, <1>3, <1>12, OneMoreListed
<1> QED BY <1>11, <1>13

\* Doing nothing keeps the invariant.
LEMMA StutterKeeps ==
    ASSUME IInv, UNCHANGED vars
    PROVE  IInv'
BY DEF vars, IInv, TypeOK, QueueOrder, OwnDirectory, GoalsExist, DraftRests,
   ActivatesPublished, FilledInOrder, ListedRests, ListedComplete,
   SelectedContractListed, Listed, log, OwnsMedia

\* So does every step.
LEMMA NextKeeps ==
    ASSUME IInv, [Next]_vars
    PROVE  IInv'
<1>1. ASSUME NEW s \in Session, Submit(s) PROVE IInv'
  BY <1>1, SubmitKeeps
<1>2. ASSUME NEW s \in Session, Crash(s) PROVE IInv'
  BY <1>2, CrashKeeps
<1>3. ASSUME NEW n \in DOMAIN writes, Proceed(n) PROVE IInv'
  BY <1>3, ProceedKeeps
<1>4. CASE CommandLineCapture
  BY <1>4, CommandLineCaptureKeeps
<1>5. CASE UNCHANGED vars
  BY <1>5, StutterKeeps
<1> QED BY <1>1, <1>2, <1>3, <1>4, <1>5 DEF Next

(* Whatever viewers and the command line do in whatever order, and         *)
(* whatever fails, the queues and the writers keep their books             *)
(* (runSerializedAuthoringWrite, write*Artifact).                          *)
THEOREM Bookkeeping == Spec => []IInv
<1>1. Init => IInv
  BY Initially
<1>2. IInv /\ [Next]_vars => IInv'
  BY NextKeeps
<1> QED BY <1>1, <1>2, PTL DEF Spec

(* Discovery lists no artifact whose files are half-written or             *)
(* half-removed (discoverManifests against the writers' clean-up).         *)
THEOREM ListedCompleteHolds == Spec => []ListedComplete
<1>1. IInv => ListedComplete
  BY DEF IInv
<1> QED BY <1>1, Bookkeeping, PTL

(* The contract that `check` is pointed at is one that was persisted       *)
(* (performPromotion).                                                     *)
THEOREM SelectedContractHolds == Spec => []SelectedContractListed
<1>1. IInv => SelectedContractListed
  BY DEF IInv
<1> QED BY <1>1, Bookkeeping, PTL

(* Of the writes of one session at most one is past its checks             *)
(* (runSerializedAuthoringWrite).                                          *)
LEMMA OneRunningFollows ==
    ASSUME TypeOK, QueueOrder
    PROVE  OneRunning
<1> SUFFICES ASSUME NEW m \in DOMAIN writes, NEW n \in DOMAIN writes,
                    writes[m].session = writes[n].session,
                    Running(writes[m]), Running(writes[n]), m # n
             PROVE  FALSE
  BY DEF OneRunning
<1>1. m \in Nat /\ n \in Nat
  BY WritesTyped
<1>2. CASE m < n
  BY <1>2 DEF QueueOrder, Running, Settled
<1>3. CASE n < m
  BY <1>3 DEF QueueOrder, Running, Settled
<1> QED BY <1>1, <1>2, <1>3

\* The queue of a session (previous.then(write, write)) never runs two writes at once.
THEOREM OneRunningHolds == Spec => []OneRunning
<1>1. IInv => OneRunning
  BY OneRunningFollows DEF IInv
<1> QED BY <1>1, Bookkeeping, PTL

-----------------------------------------------------------------------------
(* One viewer: the evidence root is the promised log                       *)

OneSession == \A s, t \in Session : s = t

(* No listed annotation revises what an annotation revises that is about   *)
(* to be persisted.                                                        *)
NoRivals ==
    \A n \in DOMAIN writes :
        writes[n].step \in {"create", "write"} => Unrevised(log, writes[n].draft)

(* The directories listed change only by publication and capture.          *)
LEMMA LogStep ==
    ASSUME IInv, [Next]_vars
    PROVE  \/ log' = log
           \/ CommandLineCapture /\ LogAdds(Captured)
           \/ \E n \in DOMAIN writes : Publish(n) /\ LogAdds(writes[n].draft)
<1>1. dirs' = dirs => log' = log
  BY DEF log, Listed
<1>2. ASSUME NEW s \in Session, Submit(s) \/ Crash(s) PROVE log' = log
  BY <1>1, <1>2 DEF Submit, Crash
<1>3. ASSUME NEW n \in DOMAIN writes, Decide(n) PROVE log' = log
  BY <1>1, <1>3 DEF Decide, Save, Promote, StartActual, StartReference, Materialize,
     Approve, Refuse, Throw, Persist
<1>4. ASSUME NEW n \in DOMAIN writes, WriterFails(n) \/ CleanupFails(n) \/ SelectContract(n)
      PROVE  log' = log
  BY <1>1, <1>4 DEF WriterFails, CleanupFails, SelectContract
<1>5. ASSUME NEW n \in DOMAIN writes, WriteMedia(n) \/ WriteManifest(n) \/ RemoveFile(n)
      PROVE  log' = log
  BY <1>5, FillSteps
<1>6. ASSUME NEW n \in DOMAIN writes, MakeTemp(n) \/ RemoveTemp(n)
      PROVE  log' = log
  BY <1>6, MakeTempKeeps, RemoveTempKeeps
<1>7. ASSUME NEW n \in DOMAIN writes, Publish(n)
      PROVE  LogAdds(writes[n].draft)
  BY <1>7, PublishKeeps
<1>8. CASE CommandLineCapture
  BY <1>8, CommandLineCaptureKeeps
<1>9. CASE UNCHANGED vars
  BY <1>1, <1>9 DEF vars
<1>10. ASSUME NEW n \in DOMAIN writes, Proceed(n)
       PROVE  log' = log \/ (Publish(n) /\ LogAdds(writes[n].draft))
  BY <1>3, <1>4, <1>5, <1>6, <1>7, <1>10 DEF Proceed, WriterStep
<1> QED BY <1>2, <1>8, <1>9, <1>10 DEF Next

(* The stale-revision scan sees everything or refuses.                     *)
LEMMA ChildFreeSeesAll ==
    ASSUME NEW parent, ChildFree(parent)
    PROVE  \A i \in DOMAIN log : ~ ( /\ log[i].family = "visual-annotation"
                                     /\ log[i].supersedes = parent )
BY Logged DEF ChildFree, Passes

\* A save is decided only when nothing revises its parent yet.
LEMMA SavedUnrevised ==
    ASSUME NEW n \in DOMAIN writes, Save(n)
    PROVE  Unrevised(log, Made("visual-annotation", writes[n].target, Nobody,
                               writes[n].other))
BY ChildFreeSeesAll, MadeFields DEF Save, Unrevised

\* Only annotations are revised.
LEMMA OthersUnrevised ==
    ASSUME NEW a, a.family # "visual-annotation"
    PROVE  Unrevised(log, a)
BY DEF Unrevised

(* A write whose step or artifact a step of the system set.                *)
LEMMA DecidedUnrevised ==
    ASSUME IInv, NoRivals, NEW n \in DOMAIN writes, Decide(n), log' = log
    PROVE  NoRivals'
<1>1. ASSUME NEW a, Persist(n, a), Unrevised(log, a) PROVE NoRivals'
  <2>1. /\ DOMAIN writes' = DOMAIN writes
        /\ \A k \in DOMAIN writes : k # n => writes'[k] = writes[k]
        /\ writes[n] \in Write
    BY <1>1, WritesTyped DEF Persist, IInv
  <2>2. writes'[n].draft = a
    BY <1>1, <2>1 DEF Persist, Write
  <2> QED BY <1>1, <2>1, <2>2 DEF NoRivals
<1>2. ASSUME NEW step \in Settled, writes' = [writes EXCEPT ![n] = Done(@, step)]
      PROVE  NoRivals'
  <2>1. writes[n] \in Write
    BY WritesTyped DEF IInv
  <2>2. writes'[n].step \in Settled
    BY <1>2, <2>1, DoneTyped
  <2> QED BY <1>2, <2>2 DEF NoRivals, Settled
<1>3. CASE Save(n)
  BY <1>1, <1>3, SavedUnrevised DEF Save
<1>4. CASE Promote(n) \/ StartActual(n)
  BY <1>1, <1>4, OthersUnrevised, MadeFields DEF Promote, StartActual
<1>5. CASE StartReference(n)
  BY <1>1, <1>5, OthersUnrevised, MadeFields DEF StartReference
<1>6. CASE Materialize(n)
  BY <1>1, <1>6, OthersUnrevised, MadeFields DEF Materialize
<1>7. CASE Approve(n)
  BY <1>1, <1>7, OthersUnrevised, MadeFields DEF Approve
<1>8. CASE Refuse(n) \/ Throw(n)
  BY <1>2, <1>8 DEF Refuse, Throw, Settled
<1> QED BY <1>3, <1>4, <1>5, <1>6, <1>7, <1>8 DEF Decide

(* A writer's step short of publication.                                   *)
LEMMA WriterStepUnrevised ==
    ASSUME IInv, NoRivals, NEW n \in DOMAIN writes, WriterStep(n) \/ SelectContract(n),
           ~ Publish(n), log' = log
    PROVE  NoRivals'
<1>1. writes[n] \in Write /\ writes \in Seq(Write)
  BY WritesTyped DEF IInv, TypeOK
<1>2. /\ DOMAIN writes' = DOMAIN writes
      /\ \A k \in DOMAIN writes : k # n => writes'[k] = writes[k]
      /\ writes'[n].step \in {"create", "write"}
             => writes[n].step \in {"create", "write"} /\ writes'[n].draft = writes[n].draft
  <2>1. CASE WriteMedia(n) \/ WriteManifest(n) \/ RemoveFile(n)
    BY <2>1 DEF WriteMedia, WriteManifest, RemoveFile
  <2>2. CASE MakeTemp(n)
    BY <2>2, <1>1 DEF MakeTemp, Write
  <2>3. CASE writes' = [writes EXCEPT ![n] = Done(@, "answered")]
    BY <2>3, <1>1, DoneTyped DEF Settled
  <2>4. CASE writes' = [writes EXCEPT ![n].step = "cleanup"]
    BY <2>4, <1>1 DEF Write
  <2> QED BY <2>1, <2>2, <2>3, <2>4 DEF WriterStep, WriterFails, RemoveTemp, CleanupFails,
          SelectContract
<1> QED BY <1>2 DEF NoRivals

(* With one session nothing else is under way when a write publishes.      *)
LEMMA PublishUnrevised ==
    ASSUME OneSession, IInv, NEW n \in DOMAIN writes, Publish(n)
    PROVE  NoRivals'
<1>1. /\ writes[n] \in Write /\ writes[n].step = "write" /\ OneRunning
      /\ \A k \in DOMAIN writes : writes[k].session \in Session
  BY WritesTyped, OneRunningFollows DEF IInv, Publish, Write
<1> PICK w : w = AfterPublishing(writes[n])
  OBVIOUS
<1>2. /\ DOMAIN writes' = DOMAIN writes /\ writes'[n] = w
      /\ \A k \in DOMAIN writes : k # n => writes'[k] = writes[k]
  BY DEF Publish, IInv, TypeOK
<1>3. w.step \in {"create", "write"} => w.draft.family = "visual-change-workflow"
  <2> PICK v : v = writes[n]
    OBVIOUS
  <2>1. v \in Write
    BY <1>1
  <2>2. CASE v.op = "start" /\ v.draft.family = "change-contract"
    <3> PICK a : a = Made("visual-change-workflow", v.target, v.dir, Nobody)
      OBVIOUS
    <3>1. w = [v EXCEPT !.step = "create", !.dir = Nobody, !.draft = a]
      BY <2>2 DEF AfterPublishing
    <3> QED BY <3>1, <2>1, MadeFields DEF Write
  <2>3. CASE v.op = "promote" /\ v.activate
    BY <2>1, <2>3 DEF AfterPublishing, Write
  <2>4. CASE ~ (v.op = "start" /\ v.draft.family = "change-contract")
             /\ ~ (v.op = "promote" /\ v.activate)
    <3>1. w = Done(v, "answered")
      BY <2>4 DEF AfterPublishing
    <3> QED BY <3>1, <2>1, DoneTyped DEF Settled
  <2> QED BY <2>2, <2>3, <2>4
<1>4. ASSUME NEW k \in DOMAIN writes, writes'[k].step \in {"create", "write"}
      PROVE  writes'[k].draft.family # "visual-annotation"
  <2>1. CASE k = n
    BY <2>1, <1>2, <1>3, <1>4
  <2>2. CASE k # n
    BY <2>2, <1>1, <1>2, <1>4 DEF OneSession, OneRunning, Running
  <2> QED BY <2>1, <2>2
<1> QED BY <1>2, <1>4 DEF NoRivals, Unrevised

\* A capture revises nothing.
LEMMA CaptureUnrevised ==
    ASSUME NoRivals, CommandLineCapture, LogAdds(Captured)
    PROVE  NoRivals'
<1> SUFFICES ASSUME NEW n \in DOMAIN writes, writes[n].step \in {"create", "write"}
             PROVE  Unrevised(log, writes[n].draft)'
  BY DEF NoRivals, CommandLineCapture
<1> PICK a : a = writes[n].draft
  OBVIOUS
<1>1. Unrevised(log, a) /\ writes' = writes
  BY DEF NoRivals, CommandLineCapture
<1>2. Captured.family = "observation"
  BY MadeFields DEF Captured
<1>3. Unrevised(log, a)'
  BY <1>1, <1>2 DEF Unrevised, LogAdds
<1>4. a = writes'[n].draft
  BY <1>1
<1> QED BY <1>3, <1>4

\* Steps that leave the log alone bring no rival.
LEMMA RestUnrevised ==
    ASSUME NoRivals, log' = log,
           UNCHANGED vars \/ \E s \in Session : Submit(s) \/ Crash(s), IInv
    PROVE  NoRivals'
<1>1. CASE UNCHANGED vars
  BY <1>1 DEF vars, NoRivals
<1>2. ASSUME NEW s \in Session, Submit(s) PROVE NoRivals'
  <2>1. PICK w : w.step = "queued" /\ writes' = Append(writes, w)
    BY <1>2 DEF Submit, Request
  <2>2. \A k \in DOMAIN writes' :
            \/ k \in DOMAIN writes /\ writes'[k] = writes[k]
            \/ writes'[k].step = "queued"
    BY <2>1 DEF IInv, TypeOK
  <2> QED BY <2>2 DEF NoRivals
<1>3. ASSUME NEW s \in Session, Crash(s) PROVE NoRivals'
  <2>1. \A k \in DOMAIN writes' :
            /\ k \in DOMAIN writes
            /\ writes'[k] = writes[k] \/ writes'[k].step = "dead"
    <3>1. \A k \in DOMAIN writes : Done(writes[k], "dead").step = "dead"
      BY WritesTyped, DoneTyped DEF IInv, Settled
    <3> QED BY <1>3, <3>1 DEF Crash
  <2> QED BY <2>1 DEF NoRivals
<1> QED BY <1>1, <1>2, <1>3

\* With one session, no step brings a rival of the write in hand.
LEMMA NextUnrevised ==
    ASSUME OneSession, IInv, NoRivals, [Next]_vars
    PROVE  NoRivals'
<1>1. ASSUME NEW n \in DOMAIN writes, Publish(n) PROVE NoRivals'
  BY <1>1, PublishUnrevised
<1>2. CASE CommandLineCapture
  BY <1>2, CommandLineCaptureKeeps, CaptureUnrevised
<1>3. CASE log' = log /\ ~ CommandLineCapture /\ ~ \E n \in DOMAIN writes : Publish(n)
  <2>1. ASSUME NEW n \in DOMAIN writes, Proceed(n) PROVE NoRivals'
    BY <1>3, <2>1, DecidedUnrevised, WriterStepUnrevised DEF Proceed
  <2> QED BY <1>3, <2>1, RestUnrevised DEF Next
<1> QED BY <1>1, <1>2, <1>3, LogStep

(* The log's operators are those of this module.                           *)
LEMMA SameGrounds ==
    /\ Evidence!AlreadyThere = AlreadyThere
    /\ \A L, a : Evidence!Grounded(L, a) <=> Grounded(L, a)
BY DEF Grounded, Rests, Unrevised, Has, AlreadyThere, Captured, Made, Nobody, Sources, References,
   Evidence!Grounded, Evidence!Rests, Evidence!Unrevised, Evidence!Has,
   Evidence!AlreadyThere, Evidence!Captured, Evidence!Made, Evidence!Nobody,
   Evidence!Sources, Evidence!References

\* The evidence the viewer starts on is a log the specification starts with.
LEMMA LogInitially ==
    ASSUME Init
    PROVE  Evidence!Init
<1>1. DOMAIN AlreadyThere = 1 .. 3
  BY DEF AlreadyThere
<1>2. Listed = DOMAIN AlreadyThere /\ \A i \in Listed : dirs[i].art = AlreadyThere[i]
  BY <1>1 DEF Init, Listed
<1> QED BY <1>2, SameGrounds DEF Evidence!Init, log

\* A grounded artifact added is a step of the log.
LEMMA LogNext ==
    ASSUME NEW a, LogAdds(a), Grounded(log, a)
    PROVE  Evidence!Next
BY SameGrounds DEF LogAdds, Evidence!Next

\* Every step of a viewer adds at most one grounded artifact to the log.
LEMMA LogSteps ==
    ASSUME IInv, NoRivals, [Next]_vars
    PROVE  [Evidence!Next]_log
<1>1. CASE log' = log
  BY <1>1
<1>2. CASE LogAdds(Captured)
  <2>1. Grounded(log, Captured)
    BY OthersUnrevised, MadeFields DEF Grounded, Rests, Captured
  <2> QED BY <1>2, <2>1, LogNext
<1>3. ASSUME NEW n \in DOMAIN writes, Publish(n), LogAdds(writes[n].draft)
      PROVE  Evidence!Next
  <2>1. Grounded(log, writes[n].draft)
    BY <1>3 DEF IInv, NoRivals, DraftRests, Running, Publish, Grounded
  <2> QED BY <1>3, <2>1, LogNext
<1> QED BY <1>1, <1>2, <1>3, LogStep

(* With one viewer on the project, and any number of captures beside it,   *)
(* the evidence root is the log that EvidenceLog promises: artifacts       *)
(* appear one at a time and whole, each rests on earlier ones, and no      *)
(* annotation is revised twice (saveVisualAnnotationRevision).             *)
THEOREM Implementation ==
    ASSUME OneSession
    PROVE  Spec => LogSpec
<1>1. Init => IInv /\ NoRivals /\ Evidence!Init
  BY Initially, LogInitially DEF Init, NoRivals
<1>2. IInv /\ NoRivals /\ [Next]_vars => IInv' /\ NoRivals' /\ [Evidence!Next]_log
  BY NextKeeps, NextUnrevised, LogSteps
<1> QED BY <1>1, <1>2, PTL DEF Spec, LogSpec, Evidence!Spec
=============================================================================
