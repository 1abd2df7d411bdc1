------------------------ MODULE AnnotationDraft_proofs ------------------------
(***************************************************************************)
(* Proofs about one annotation workspace: a draft that counts as saved is  *)
(* the annotation it revises, no confirmation outlives the meaning that    *)
(* was confirmed, and what the panel offers the server takes.              *)
(***************************************************************************)
EXTENDS AnnotationDraft, FiniteSetTheorems, SequenceTheorems, TLAPS

-----------------------------------------------------------------------------
(* The inductive invariant                                                 *)

\* Annotations are only ever added, and what refers to one refers to one there.
Handles ==
    /\ source \in Sources
    /\ draft = [items |-> draft.items, parent |-> draft.parent, selected |-> draft.selected,
                dirty |-> draft.dirty, save |-> draft.save]
    /\ store \in Seq({store[h] : h \in DOMAIN store})
    /\ \A h \in DOMAIN store : store[h] = [parent |-> store[h].parent, items |-> store[h].items]
    /\ \A r \in saves :
          /\ r = [n |-> r.n, parent |-> r.parent, items |-> r.items, answer |-> r.answer]
          /\ r.answer \in {Pending, Refused} \cup DOMAIN store
    /\ draft.parent \in {None} \cup DOMAIN store
    /\ baseline = ContentOf(draft.parent)

\* Items are drawn under fresh ids, and everything that holds items holds them
\* as the viewer makes them.
DrawnBefore(items, n) == \A i \in ItemsOf(items), k \in 1 .. MaxDrawn : i.id = << "drawn", k >> => k <= n
Authored(items) == AsAuthored(source, items) /\ DrawnBefore(items, drawn)
Contents ==
    /\ drawn \in 0 .. MaxDrawn
    /\ Authored(draft.items)
    /\ \A r \in saves : Authored(r.items)
    /\ \A h \in DOMAIN store : Authored(store[h].items) /\ ValidContent(source, store[h].items)

IInv == Handles /\ CleanMeansSaved /\ Contents /\ ConfirmedMeaningStands

-----------------------------------------------------------------------------
(* Handles                                                                 *)

\* A sequence is one of its own elements.
LEMMA OwnElements ==
    ASSUME NEW s, NEW n \in Nat, s = [i \in 1 .. n |-> s[i]]
    PROVE  s \in Seq({s[h] : h \in DOMAIN s}) /\ Len(s) = n
<1> DEFINE S == {s[h] : h \in DOMAIN s}
<1>1. DOMAIN s = 1 .. n
  OBVIOUS
<1>2. \A i \in 1 .. n : s[i] \in S
  BY <1>1
<1>3. s \in [1 .. n -> S]
  <2> HIDE DEF S
  <2> QED BY <1>2
<1>4. s \in Seq(S)
  <2> HIDE DEF S
  <2> QED BY <1>3, SeqDef
<1> QED BY <1>3, <1>4, LenProperties

\* What appending does to a sequence of whatever elements.
LEMMA Appended ==
    ASSUME NEW s, s \in Seq({s[h] : h \in DOMAIN s}), NEW x, NEW t, t = Append(s, x)
    PROVE  /\ t \in Seq({t[h] : h \in DOMAIN t})
           /\ Len(s) \in Nat /\ DOMAIN s = 1 .. Len(s)
           /\ Len(t) = Len(s) + 1 /\ DOMAIN t = DOMAIN s \cup {Len(t)} /\ Len(t) \notin DOMAIN s
           /\ t[Len(t)] = x /\ \A h \in DOMAIN s : t[h] = s[h]
<1> DEFINE S == {s[h] : h \in DOMAIN s} \cup {x}
<1>1. s \in Seq(S) /\ x \in S
  <2>1. {s[h] : h \in DOMAIN s} \subseteq S
    OBVIOUS
  <2> QED BY <2>1, SeqMonotonic
<1>2. t \in Seq(S) /\ Len(s) \in Nat /\ DOMAIN s = 1 .. Len(s) /\ Len(t) = Len(s) + 1
  <2> HIDE DEF S
  <2> QED BY <1>1
<1>3. DOMAIN t = 1 .. Len(s) + 1 /\ t[Len(s) + 1] = x /\ \A h \in 1 .. Len(s) : t[h] = s[h]
  <2> HIDE DEF S
  <2> QED BY <1>1
<1>4. t = [i \in 1 .. Len(t) |-> t[i]] /\ Len(t) \in Nat
  <2> HIDE DEF S
  <2>1. t \in [1 .. Len(t) -> S] /\ Len(t) \in Nat
    BY <1>2, LenProperties
  <2> QED BY <2>1
<1>5. t \in Seq({t[h] : h \in DOMAIN t})
  BY <1>4, OwnElements
<1> QED BY <1>2, <1>3, <1>5

\* A numbered handle is not one of the names that stand for none.
LEMMA NoSuchHandle == \A n \in Nat : n # None /\ n # Pending /\ n # Refused
BY HandlesAreNumbers

\* A workspace opens with nothing unsaved.
LEMMA HandlesInit == Init => Handles /\ CleanMeansSaved
<1> SUFFICES ASSUME Init PROVE Handles /\ CleanMeansSaved
  OBVIOUS
<1>1. source \in Sources /\ store \in SavedBefore[source.kind]
  BY DEF Init
<1>2. /\ store \in Seq({store[h] : h \in DOMAIN store})
      /\ \A h \in DOMAIN store : store[h] = [parent |-> store[h].parent, items |-> store[h].items]
  BY <1>1, SavedAreAuthored
<1>3. draft = [items |-> << >>, parent |-> None, selected |-> None, dirty |-> FALSE, save |-> "idle"]
      /\ baseline = << >> /\ saves = {}
  BY DEF Init, Empty
<1> QED BY <1>1, <1>2, <1>3 DEF Handles, CleanMeansSaved, ContentOf

\* No step leaves a draft called saved that is not what its handle stands for.
LEMMA HandlesKept == Handles /\ CleanMeansSaved /\ [Next]_vars => Handles' /\ CleanMeansSaved'
<1> SUFFICES ASSUME Handles, CleanMeansSaved, [Next]_vars PROVE Handles' /\ CleanMeansSaved'
  OBVIOUS
<1>0. /\ source \in Sources
      /\ draft = [items |-> draft.items, parent |-> draft.parent, selected |-> draft.selected,
                  dirty |-> draft.dirty, save |-> draft.save]
      /\ draft.parent \in {None} \cup DOMAIN store
      /\ baseline = ContentOf(draft.parent)
      /\ \A h \in DOMAIN store : store[h] = [parent |-> store[h].parent, items |-> store[h].items]
      /\ store \in Seq({store[h] : h \in DOMAIN store})
  BY DEF Handles
<1>s. \A r \in saves :
          /\ r = [n |-> r.n, parent |-> r.parent, items |-> r.items, answer |-> r.answer]
          /\ r.answer \in {Pending, Refused} \cup DOMAIN store
  BY DEF Handles
<1>c. ~ draft.dirty => draft.items = ContentOf(draft.parent)
  BY DEF CleanMeansSaved
<1>d. Len(store) \in Nat /\ DOMAIN store = 1 .. Len(store)
  BY <1>0
<1>n. \A h \in DOMAIN store : h # None /\ h # Pending /\ h # Refused
  BY <1>d, NoSuchHandle
\* A step of the draft alone.
<1>1. ASSUME source' = source, store' = store, saves' \subseteq saves,
             draft' = [items |-> draft'.items, parent |-> draft'.parent, selected |-> draft'.selected,
                       dirty |-> draft'.dirty, save |-> draft'.save],
             draft'.parent \in {None} \cup DOMAIN store, baseline' = ContentOf(draft'.parent),
             ~ draft'.dirty => draft'.items = ContentOf(draft'.parent)
      PROVE  Handles' /\ CleanMeansSaved'
  BY <1>0, <1>s, <1>1 DEF Handles, CleanMeansSaved, ContentOf
\* A step of the server alone.
<1>2. ASSUME source' = source, draft' = draft, baseline' = baseline,
             NEW x, store' = Append(store, [parent |-> x.parent, items |-> x.items]),
             \A r \in saves' : \/ r \in saves
                               \/ \E q \in saves : r = Answered(q, Len(store'))
      PROVE  Handles' /\ CleanMeansSaved'
  <2> DEFINE y == [parent |-> x.parent, items |-> x.items]
  <2>0. store' = Append(store, y)
    BY <1>2
  <2> HIDE DEF y
  <2>1. /\ store' \in Seq({store'[h] : h \in DOMAIN store'})
        /\ DOMAIN store' = DOMAIN store \cup {Len(store')}
        /\ store'[Len(store')] = y /\ \A h \in DOMAIN store : store'[h] = store[h]
    <3>1. PICK t : t = store'
      OBVIOUS
    <3>2. t = Append(store, y)
      BY <2>0, <3>1
    <3>3. /\ t \in Seq({t[h] : h \in DOMAIN t})
          /\ DOMAIN t = DOMAIN store \cup {Len(t)}
          /\ t[Len(t)] = y /\ \A h \in DOMAIN store : t[h] = store[h]
      BY <1>0, <3>2, Appended
    <3> QED BY <3>1, <3>3
  <2>2. \A h \in DOMAIN store' : store'[h] = [parent |-> store'[h].parent, items |-> store'[h].items]
    BY <2>1, <1>0 DEF y
  <2>3. \A p \in {None} \cup DOMAIN store : ContentOf(p)' = ContentOf(p)
    <3>1. TAKE p \in {None} \cup DOMAIN store
    <3>2. CASE p = None
      BY <3>2 DEF ContentOf
    <3>3. CASE p # None
      BY <3>1, <3>3, <2>1 DEF ContentOf
    <3> QED BY <3>2, <3>3
  <2>4. \A r \in saves' :
            /\ r = [n |-> r.n, parent |-> r.parent, items |-> r.items, answer |-> r.answer]
            /\ r.answer \in {Pending, Refused} \cup DOMAIN store'
    <3>1. TAKE r \in saves'
    <3>2. CASE r \in saves
      BY <1>s, <3>2, <2>1
    <3>3. ASSUME NEW q \in saves, NEW h \in DOMAIN store', r = Answered(q, h)
          PROVE  /\ r = [n |-> r.n, parent |-> r.parent, items |-> r.items, answer |-> r.answer]
                 /\ r.answer \in {Pending, Refused} \cup DOMAIN store'
      <4>1. q = [n |-> q.n, parent |-> q.parent, items |-> q.items, answer |-> q.answer]
        BY <1>s
      <4>2. r = [q EXCEPT !.answer = h]
        BY <3>3 DEF Answered
      <4> QED BY <4>1, <4>2
    <3>4. Len(store') \in DOMAIN store'
      BY <2>1
    <3> QED BY <3>2, <3>3, <3>4, <1>2
  <2>5. draft'.parent = draft.parent /\ baseline' = ContentOf(draft.parent)'
    BY <1>0, <1>2, <2>3
  <2>6. CleanMeansSaved'
    BY <1>0, <1>2, <1>c, <2>3 DEF CleanMeansSaved
  <2> QED BY <1>0, <1>2, <2>1, <2>2, <2>4, <2>5, <2>6 DEF Handles
<1>3. ASSUME PersonStep PROVE Handles' /\ CleanMeansSaved'
  <2>1. CASE NewAnnotation
    <3>1. draft' = Empty /\ baseline' = << >> /\ UNCHANGED << source, store, saves >>
      BY <2>1 DEF NewAnnotation, Show, LeaveServer
    <3> QED BY <3>1, <1>1 DEF Empty, ContentOf
  <2>2. ASSUME NEW h \in DOMAIN store, LoadSaved(h) PROVE Handles' /\ CleanMeansSaved'
    <3>1. draft' = Persisted(h) /\ baseline' = store[h].items /\ UNCHANGED << source, store, saves >>
      BY <2>2 DEF LoadSaved, Show, LeaveServer
    <3> QED BY <3>1, <1>1, <1>n, <2>2 DEF Persisted, ContentOf
  <2>3. ASSUME NEW g \in Gestures, Draw(g) PROVE Handles' /\ CleanMeansSaved'
    <3>1. PICK item : draft' = WithItem(item)
      BY <2>3 DEF Draw
    <3>2. baseline' = baseline /\ UNCHANGED << source, store, saves >>
      BY <2>3 DEF Draw, LeaveServer
    <3>3. PICK save : draft' = [draft EXCEPT !.items = Append(draft.items, item), !.selected = item.id, !.dirty = TRUE,
                                             !.save = save]
      BY <3>1 DEF WithItem
    <3> QED BY <3>2, <3>3, <1>0, <1>1
  <2>4. ASSUME NEW id, Select(id) PROVE Handles' /\ CleanMeansSaved'
    <3>1. draft' = [draft EXCEPT !.selected = id] /\ baseline' = baseline /\ UNCHANGED << source, store, saves >>
      BY <2>4 DEF Select, LeaveServer
    <3> QED BY <3>1, <1>0, <1>c, <1>1
  <2>5. ASSUME NEW id, NEW item, draft' = Replaced(id, item), baseline' = baseline, UNCHANGED << source, store, saves >>
        PROVE  Handles' /\ CleanMeansSaved'
    <3>1. PICK items : draft' = [draft EXCEPT !.items = items, !.dirty = TRUE]
      BY <2>5 DEF Replaced
    <3> QED BY <2>5, <3>1, <1>0, <1>1
  <2>6. ASSUME NEW id, NEW edited, Edit(id, edited) PROVE Handles' /\ CleanMeansSaved'
    BY <2>6, <2>5 DEF Edit, LeaveServer
  <2>7. CASE Confirm
    BY <2>7, <2>5 DEF Confirm, LeaveServer
  <2>8. CASE DeleteSelected
    <3>1. PICK n \in DOMAIN draft.items : draft' = [draft EXCEPT !.items = RemoveAt(draft.items, n), !.selected = None, !.dirty = TRUE]
      BY <2>8 DEF DeleteSelected
    <3>2. baseline' = baseline /\ UNCHANGED << source, store, saves >>
      BY <2>8 DEF DeleteSelected, LeaveServer
    <3> QED BY <3>1, <3>2, <1>0, <1>1
  <2>9. CASE CancelChanges
    <3>1. /\ draft' = [draft EXCEPT !.items = baseline, !.selected = None, !.dirty = FALSE, !.save = "idle"]
          /\ baseline' = baseline /\ UNCHANGED << source, store, saves >>
      BY <2>9 DEF CancelChanges, LeaveServer
    <3> QED BY <3>1, <1>0, <1>1
  <2>10. CASE Save
    <3>1. draft' = [draft EXCEPT !.save = "saving"] /\ baseline' = baseline /\ UNCHANGED << source, store >>
      BY <2>10 DEF Save
    <3>2. saves' = saves \cup {[n |-> Fresh(saves), parent |-> draft.parent, items |-> draft.items, answer |-> Pending]}
      BY <2>10 DEF Save
    <3>3. \A r \in saves' :
              /\ r = [n |-> r.n, parent |-> r.parent, items |-> r.items, answer |-> r.answer]
              /\ r.answer \in {Pending, Refused} \cup DOMAIN store
      BY <3>2, <1>s
    <3>4. draft' = [items |-> draft'.items, parent |-> draft'.parent, selected |-> draft'.selected,
                    dirty |-> draft'.dirty, save |-> draft'.save]
          /\ draft'.parent = draft.parent /\ draft'.items = draft.items /\ draft'.dirty = draft.dirty
      BY <3>1, <1>0
    <3> QED BY <3>1, <3>3, <3>4, <1>0, <1>c DEF Handles, CleanMeansSaved, ContentOf
  <2>11. ASSUME NEW ids, Use(ids) PROVE Handles' /\ CleanMeansSaved'
    BY <2>11, <1>0, <1>c, <1>1 DEF Use
  <2> QED
    BY <1>3, <2>1, <2>2, <2>3, <2>4, <2>6, <2>7, <2>8, <2>9, <2>10, <2>11
    DEF PersonStep, Move, EditNote, Associate, SetIntent
<1>4. ASSUME NEW r \in saves, ServerSave(r) PROVE Handles' /\ CleanMeansSaved'
  <2>1. /\ source' = source /\ draft' = draft /\ baseline' = baseline
        /\ store' = Append(store, [parent |-> r.parent, items |-> r.items])
        /\ saves' = (saves \ {r}) \cup {Answered(r, Len(store'))}
    BY <1>4 DEF ServerSave, client
  <2>2. \A q \in saves' : q \in saves \/ \E p \in saves : q = Answered(p, Len(store'))
    BY <2>1
  <2> QED BY <2>1, <2>2, <1>2
<1>5. ASSUME NEW r \in saves, SaveRefused(r) PROVE Handles' /\ CleanMeansSaved'
  <2>1. /\ source' = source /\ draft' = draft /\ baseline' = baseline /\ store' = store
        /\ saves' = (saves \ {r}) \cup {Answered(r, Refused)}
    BY <1>5 DEF SaveRefused, client
  <2>2. \A q \in saves' :
            /\ q = [n |-> q.n, parent |-> q.parent, items |-> q.items, answer |-> q.answer]
            /\ q.answer \in {Pending, Refused} \cup DOMAIN store
    <3>1. PICK a : a = Answered(r, Refused)
      OBVIOUS
    <3>2. a = [n |-> a.n, parent |-> a.parent, items |-> a.items, answer |-> a.answer] /\ a.answer = Refused
      BY <3>1, <1>s DEF Answered
    <3> QED BY <2>1, <3>1, <3>2, <1>s
  <2> QED BY <2>1, <2>2, <1>0, <1>c DEF Handles, CleanMeansSaved, ContentOf
<1>6. ASSUME NEW r \in saves, SaveAnswered(r) PROVE Handles' /\ CleanMeansSaved'
  <2>1. /\ draft' = [Persisted(r.answer) EXCEPT !.save = "saved"] /\ baseline' = store[r.answer].items
        /\ source' = source /\ store' = store /\ saves' = saves \ {r}
    BY <1>6 DEF SaveAnswered, Show
  <2>2. r.answer \in DOMAIN store /\ r.answer # None
    BY <1>6, <1>s, <1>n DEF SaveAnswered
  <2>3. draft' = [items |-> store[r.answer].items, parent |-> r.answer, selected |-> None, dirty |-> FALSE, save |-> "saved"]
    BY <2>1 DEF Persisted
  <2> QED BY <2>1, <2>2, <2>3, <1>1 DEF ContentOf
<1>7. ASSUME NEW r \in saves, SaveFailed(r) PROVE Handles' /\ CleanMeansSaved'
  <2>1. /\ draft' = [draft EXCEPT !.save = "failed"] /\ baseline' = baseline
        /\ source' = source /\ store' = store /\ saves' = saves \ {r}
    BY <1>7 DEF SaveFailed
  <2> QED BY <2>1, <1>0, <1>c, <1>1
<1>8. ASSUME NEW q \in uses, ServerUse(q) \/ UseRefused(q) \/ UseAnswered(q) PROVE Handles' /\ CleanMeansSaved'
  <2>1. UNCHANGED << source, draft, baseline, store, saves >>
    BY <1>8 DEF ServerUse, UseRefused, UseAnswered, client
  <2> QED BY <2>1, <1>0, <1>c, <1>1
<1>9. ASSUME NEW h \in DOMAIN store, RevisedElsewhere(h) PROVE Handles' /\ CleanMeansSaved'
  <2> DEFINE x == [parent |-> h, items |-> store[h].items]
  <2>1. /\ source' = source /\ draft' = draft /\ baseline' = baseline /\ saves' = saves
        /\ store' = Append(store, [parent |-> x.parent, items |-> x.items])
    BY <1>9 DEF RevisedElsewhere, client
  <2> HIDE DEF x
  <2> QED BY <2>1, <1>2
<1>10. CASE UNCHANGED vars
  BY <1>10, <1>0, <1>c, <1>1 DEF vars, client
<1> QED BY <1>3, <1>4, <1>5, <1>6, <1>7, <1>8, <1>9, <1>10 DEF Next, AnswerStep

-----------------------------------------------------------------------------
(* Contents                                                                *)

LEMMA Items ==
    ASSUME NEW s, NEW items, AsAuthored(s, items)
    PROVE  /\ Len(items) \in Nat /\ DOMAIN items = 1 .. Len(items)
           /\ items = [i \in 1 .. Len(items) |-> items[i]]
           /\ \A i \in ItemsOf(items) : Built(s, i) /\ IsItem(i)
           /\ \A i, j \in ItemsOf(items) : i.id = j.id => i = j
<1>1. items \in Seq(ItemsOf(items))
  BY DEF AsAuthored
<1>2. Len(items) \in Nat /\ DOMAIN items = 1 .. Len(items) /\ items = [i \in 1 .. Len(items) |-> items[i]]
  <2>1. PICK S : S = ItemsOf(items)
    OBVIOUS
  <2>2. Len(items) \in Nat /\ items \in [1 .. Len(items) -> S]
    BY <1>1, <2>1, LenProperties
  <2> QED BY <2>2
<1>3. \A i \in ItemsOf(items) : Built(s, i) /\ IsItem(i)
  BY DEF AsAuthored, Built
<1>4. \A i, j \in ItemsOf(items) : i.id = j.id => i = j
  BY DEF AsAuthored, ItemsOf
<1> QED BY <1>2, <1>3, <1>4

\* The names a content would create are as many as they are.
LEMMA NamesAreFinite ==
    ASSUME NEW s, NEW items, AsAuthored(s, items)
    PROVE  IsFiniteSet({Lower(i.intent.region) : i \in Creating(ItemsOf(items))})
<1> DEFINE names == {Lower(i.intent.region) : i \in Creating(ItemsOf(items))}
           D == {n \in DOMAIN items : CreatesRegion(items[n])}
           f == [n \in D |-> Lower(items[n].intent.region)]
<1>1. IsFiniteSet(D)
  <2>1. DOMAIN items = 1 .. Len(items) /\ Len(items) \in Nat
    BY Items
  <2>2. IsFiniteSet(1 .. Len(items))
    BY <2>1, FS_Interval
  <2> QED BY <2>1, <2>2, FS_Subset
<1>2. \A y \in names : \E n \in D : f[n] = y
  BY DEF Creating, ItemsOf
<1>3. \A n \in D : f[n] \in names
  BY DEF Creating, ItemsOf
<1>4. f \in Surjection(D, names)
  <2>1. f \in [D -> names]
    BY <1>3
  <2> HIDE DEF f, D, names
  <2> QED BY <2>1, <1>2 DEF Surjection
<1> QED
  <2> HIDE DEF f, D, names
  <2>1. IsFiniteSet(names)
    BY <1>1, <1>4, FS_Surjection
  <2> QED BY <2>1 DEF names

\* Contents that create no more than others did are as well authored.
LEMMA NoMoreCreated ==
    ASSUME NEW s \in Sources, NEW items, AsAuthored(s, items),
           NEW t, t \in Seq(ItemsOf(t)), \A i \in ItemsOf(t) : Built(s, i),
           \A m, n \in DOMAIN t : t[m].id = t[n].id => m = n,
           \A j \in Creating(ItemsOf(t)) : \E i \in Creating(ItemsOf(items)) :
               i.id = j.id /\ i.intent.region = j.intent.region
    PROVE  AsAuthored(s, t)
<1>1. \A i, j \in Creating(ItemsOf(t)) : SameName(i.intent.region, j.intent.region) => i.id = j.id
  <2> SUFFICES ASSUME NEW i \in Creating(ItemsOf(t)), NEW j \in Creating(ItemsOf(t)),
                      SameName(i.intent.region, j.intent.region)
               PROVE  i.id = j.id
    OBVIOUS
  <2>1. PICK k \in Creating(ItemsOf(items)) : k.id = i.id /\ k.intent.region = i.intent.region
    OBVIOUS
  <2>2. PICK l \in Creating(ItemsOf(items)) : l.id = j.id /\ l.intent.region = j.intent.region
    OBVIOUS
  <2>3. SameName(k.intent.region, l.intent.region)
    BY <2>1, <2>2
  <2> QED BY <2>1, <2>2, <2>3 DEF AsAuthored
<1> DEFINE new == {Lower(i.intent.region) : i \in Creating(ItemsOf(t))}
           old == {Lower(i.intent.region) : i \in Creating(ItemsOf(items))}
<1>2. new \subseteq old
  <2> SUFFICES ASSUME NEW j \in Creating(ItemsOf(t)) PROVE Lower(j.intent.region) \in old
    OBVIOUS
  <2>1. PICK i \in Creating(ItemsOf(items)) : i.intent.region = j.intent.region
    OBVIOUS
  <2> QED BY <2>1
<1>3. IsFiniteSet(old)
  BY NamesAreFinite
<1>4. Cardinality(DOMAIN s.regions) + Cardinality(old) <= MaxRegions
  BY DEF AsAuthored
<1>5. Cardinality(DOMAIN s.regions) \in Nat
  BY SourcesAreValid, FS_CardinalityType
<1>6. Cardinality(DOMAIN s.regions) + Cardinality(new) <= MaxRegions
  <2> HIDE DEF new, old
  <2>1. Cardinality(new) <= Cardinality(old) /\ Cardinality(new) \in Nat /\ Cardinality(old) \in Nat
    BY <1>2, <1>3, FS_Subset, FS_CardinalityType
  <2> QED BY <2>1, <1>4, <1>5, ReferenceBounds
<1> QED BY <1>1, <1>6 DEF AsAuthored

\* A mark drawn under a fresh id proposes nothing yet.
LEMMA DrawnKeeps ==
    ASSUME NEW s \in Sources, NEW items, AsAuthored(s, items),
           NEW item, IsItem(item), item.state = "uninterpreted", \A i \in ItemsOf(items) : i.id # item.id
    PROVE  AsAuthored(s, Append(items, item)) /\ ItemsOf(Append(items, item)) = ItemsOf(items) \cup {item}
<1>1. PICK t : t = Append(items, item)
  OBVIOUS
<1>2. items \in Seq({items[h] : h \in DOMAIN items})
  BY DEF AsAuthored, ItemsOf
<1>3. /\ t \in Seq({t[h] : h \in DOMAIN t}) /\ DOMAIN t = DOMAIN items \cup {Len(t)} /\ Len(t) \notin DOMAIN items
      /\ t[Len(t)] = item /\ \A h \in DOMAIN items : t[h] = items[h]
  BY <1>1, <1>2, Appended
<1>4. ItemsOf(t) = ItemsOf(items) \cup {item}
  <2>1. ItemsOf(t) = {t[h] : h \in DOMAIN items \cup {Len(t)}}
    BY <1>3 DEF ItemsOf
  <2>2. {t[h] : h \in DOMAIN items \cup {Len(t)}} = {t[h] : h \in DOMAIN items} \cup {t[Len(t)]}
    OBVIOUS
  <2>3. {t[h] : h \in DOMAIN items} = {items[h] : h \in DOMAIN items}
    BY <1>3
  <2> QED BY <1>3, <2>1, <2>2, <2>3 DEF ItemsOf
<1>5. \A i \in ItemsOf(t) : Built(s, i)
  BY <1>4, Items DEF Built, ProposesRegion
<1>6. \A m, n \in DOMAIN t : t[m].id = t[n].id => m = n
  <2>1. \A m, n \in DOMAIN items : items[m].id = items[n].id => m = n
    BY DEF AsAuthored
  <2>2. \A m \in DOMAIN items : items[m] \in ItemsOf(items)
    BY DEF ItemsOf
  <2> QED BY <1>3, <2>1, <2>2
<1>7. Creating(ItemsOf(t)) = Creating(ItemsOf(items))
  BY <1>4 DEF Creating, CreatesRegion, ProposesRegion
<1>8. t \in Seq(ItemsOf(t))
  BY <1>3 DEF ItemsOf
<1>9. AsAuthored(s, t)
  BY <1>5, <1>6, <1>7, <1>8, NoMoreCreated
<1> QED BY <1>1, <1>4, <1>9

\* Deleting an item leaves items a person authored.
LEMMA DeletedKeeps ==
    ASSUME NEW s \in Sources, NEW items, AsAuthored(s, items), NEW n \in DOMAIN items
    PROVE  AsAuthored(s, RemoveAt(items, n)) /\ ItemsOf(RemoveAt(items, n)) \subseteq ItemsOf(items)
<1>1. PICK t : t = RemoveAt(items, n)
  OBVIOUS
<1>2. Len(items) \in Nat /\ DOMAIN items = 1 .. Len(items)
  BY Items
<1>3. PICK len : len = Len(items)
  OBVIOUS
<1>4. PICK S : S = ItemsOf(items)
  OBVIOUS
<1>5. \A k \in 1 .. len : items[k] \in S
  BY <1>2, <1>3, <1>4 DEF ItemsOf
<1>6. n \in 1 .. len /\ len \in Nat
  BY <1>2, <1>3
<1>7. PICK u : u = SubSeq(items, 1, n - 1)
  OBVIOUS
<1>8. PICK v : v = SubSeq(items, n + 1, len)
  OBVIOUS
<1>9. u \in Seq(S) /\ Len(u) = n - 1 /\ \A i \in 1 .. n - 1 : u[i] = items[i]
  <2>1. \A i \in 1 .. n - 1 : items[i] \in S
    BY <1>5, <1>6
  <2>2. /\ SubSeq(items, 1, n - 1) \in Seq(S)
        /\ Len(SubSeq(items, 1, n - 1)) = IF 1 <= n - 1 THEN (n - 1) - 1 + 1 ELSE 0
        /\ \A i \in 1 .. (n - 1) - 1 + 1 : SubSeq(items, 1, n - 1)[i] = items[1 + i - 1]
    BY <2>1, <1>6, SubSeqProperties
  <2> QED BY <2>2, <1>6, <1>7
<1>10. v \in Seq(S) /\ Len(v) = len - n /\ \A i \in 1 .. len - n : v[i] = items[n + i]
  <2>1. \A i \in n + 1 .. len : items[i] \in S
    BY <1>5, <1>6
  <2>2. /\ SubSeq(items, n + 1, len) \in Seq(S)
        /\ Len(SubSeq(items, n + 1, len)) = IF n + 1 <= len THEN len - (n + 1) + 1 ELSE 0
        /\ \A i \in 1 .. len - (n + 1) + 1 : SubSeq(items, n + 1, len)[i] = items[(n + 1) + i - 1]
    BY <2>1, <1>6, SubSeqProperties
  <2>3. len - (n + 1) + 1 = len - n /\ (IF n + 1 <= len THEN len - (n + 1) + 1 ELSE 0) = len - n
    BY <1>6
  <2>4. ASSUME NEW i \in 1 .. len - n PROVE v[i] = items[n + i]
    <3>1. v[i] = items[(n + 1) + i - 1]
      BY <2>2, <2>3, <1>8
    <3>2. (n + 1) + i - 1 = n + i
      BY <1>6
    <3> QED BY <3>1, <3>2
  <2> QED BY <2>2, <2>3, <2>4, <1>8
<1>11. t = u \o v
  BY <1>1, <1>3, <1>7, <1>8 DEF RemoveAt
<1>12. t \in Seq(S) /\ Len(t) = len - 1
       /\ \A i \in 1 .. len - 1 : t[i] = IF i < n THEN items[i] ELSE items[i + 1]
  <2>1. /\ t \in Seq(S) /\ Len(t) = Len(u) + Len(v)
        /\ \A i \in 1 .. Len(u) + Len(v) : t[i] = IF i <= Len(u) THEN u[i] ELSE v[i - Len(u)]
    BY <1>9, <1>10, <1>11, ConcatProperties
  <2>2. Len(u) + Len(v) = len - 1
    BY <1>9, <1>10, <1>6
  <2>3. ASSUME NEW i \in 1 .. len - 1 PROVE t[i] = IF i < n THEN items[i] ELSE items[i + 1]
    <3>1. t[i] = IF i <= n - 1 THEN u[i] ELSE v[i - (n - 1)]
      BY <2>1, <2>2, <1>9
    <3>2. CASE i < n
      BY <3>1, <3>2, <1>6, <1>9
    <3>3. CASE ~ i < n
      <4>1. i - (n - 1) \in 1 .. len - n /\ n + (i - (n - 1)) = i + 1
        BY <3>3, <1>6
      <4>2. t[i] = v[i - (n - 1)]
        BY <3>1, <3>3, <1>6
      <4> QED BY <4>1, <4>2, <3>3, <1>10
    <3> QED BY <3>2, <3>3
  <2> QED BY <2>1, <2>2, <2>3
<1>13. DOMAIN t = 1 .. len - 1 /\ t = [i \in 1 .. len - 1 |-> t[i]]
  <2>1. t \in [1 .. Len(t) -> S]
    BY <1>12, LenProperties
  <2> QED BY <2>1, <1>12
<1>14. t \in Seq(ItemsOf(t))
  BY <1>13, <1>6, OwnElements DEF ItemsOf
<1>15. ItemsOf(t) \subseteq ItemsOf(items)
  BY <1>12, <1>13, <1>5, <1>4, <1>6 DEF ItemsOf
<1>16. \A i \in ItemsOf(t) : Built(s, i)
  BY <1>15, Items
<1>17. \A i, k \in DOMAIN t : t[i].id = t[k].id => i = k
  <2>1. \A i, k \in 1 .. len : items[i].id = items[k].id => i = k
    BY <1>2, <1>3 DEF AsAuthored
  <2>2. ASSUME NEW i \in 1 .. len - 1, NEW k \in 1 .. len - 1, t[i].id = t[k].id PROVE i = k
    <3>1. PICK a \in 1 .. len : t[i] = items[a] /\ a = IF i < n THEN i ELSE i + 1
      BY <1>12, <1>6
    <3>2. PICK b \in 1 .. len : t[k] = items[b] /\ b = IF k < n THEN k ELSE k + 1
      BY <1>12, <1>6
    <3>3. a = b
      BY <2>1, <2>2, <3>1, <3>2
    <3> QED BY <3>1, <3>2, <3>3, <1>6
  <2> QED BY <2>2, <1>13
<1>18. \A j \in Creating(ItemsOf(t)) : \E i \in Creating(ItemsOf(items)) : i.id = j.id /\ i.intent.region = j.intent.region
  BY <1>15 DEF Creating
<1>19. AsAuthored(s, t)
  BY <1>14, <1>16, <1>17, <1>18, NoMoreCreated
<1> QED BY <1>1, <1>15, <1>19

\* An edit of one item: it creates what it created before, or a region nothing
\* blocks.
LEMMA ReplacedKeeps ==
    ASSUME NEW s \in Sources, NEW items, AsAuthored(s, items), NEW old \in ItemsOf(items),
           NEW x, Built(s, x), x.id = old.id,
           \/ CreatesRegion(x) => CreatesRegion(old) /\ x.intent.region = old.intent.region
           \/ ~ CreateBlocked(x.intent.region, s.regions, ItemsOf(items), old.id),
           NEW t, t = [i \in DOMAIN items |-> IF items[i].id = old.id THEN x ELSE items[i]]
    PROVE  /\ AsAuthored(s, t)
           /\ \A j \in ItemsOf(t) : j = x \/ (j \in ItemsOf(items) /\ j.id # old.id)
<1>1. Len(items) \in Nat /\ DOMAIN items = 1 .. Len(items)
  BY Items
<1>2. t \in Seq(ItemsOf(t))
  <2>1. t = [i \in 1 .. Len(items) |-> t[i]]
    BY <1>1
  <2> QED BY <2>1, <1>1, OwnElements DEF ItemsOf
<1>3. \A j \in ItemsOf(t) : j = x \/ (j \in ItemsOf(items) /\ j.id # old.id)
  BY DEF ItemsOf
<1>4. \A i \in ItemsOf(t) : Built(s, i)
  BY <1>3, Items
<1>5. \A m, n \in DOMAIN t : t[m].id = t[n].id => m = n
  <2>1. \A m, n \in DOMAIN items : items[m].id = items[n].id => m = n
    BY DEF AsAuthored
  <2>2. DOMAIN t = DOMAIN items /\ \A m \in DOMAIN items : t[m].id = items[m].id
    OBVIOUS
  <2> QED BY <2>1, <2>2
<1>6. CASE CreatesRegion(x) => CreatesRegion(old) /\ x.intent.region = old.intent.region
  <2>1. \A j \in Creating(ItemsOf(t)) : \E i \in Creating(ItemsOf(items)) : i.id = j.id /\ i.intent.region = j.intent.region
    <3> SUFFICES ASSUME NEW j \in Creating(ItemsOf(t))
                 PROVE  \E i \in Creating(ItemsOf(items)) : i.id = j.id /\ i.intent.region = j.intent.region
      OBVIOUS
    <3>1. CASE j = x
      BY <3>1, <1>6 DEF Creating
    <3>2. CASE j \in ItemsOf(items)
      BY <3>2 DEF Creating
    <3> QED BY <3>1, <3>2, <1>3 DEF Creating
  <2>2. AsAuthored(s, t)
    BY <1>2, <1>4, <1>5, <2>1, NoMoreCreated
  <2> QED BY <2>2, <1>3
<1>7. CASE ~ CreateBlocked(x.intent.region, s.regions, ItemsOf(items), old.id)
  <2> DEFINE others == OtherCreates(ItemsOf(items), old.id)
             lowers == {Lower(n) : n \in others}
             names == {Lower(i.intent.region) : i \in Creating(ItemsOf(items))}
             new == {Lower(i.intent.region) : i \in Creating(ItemsOf(t))}
  <2>1. /\ ~ (Cardinality(DOMAIN s.regions) + Cardinality(lowers) >= MaxRegions)
        /\ \A n \in others : ~ SameName(n, x.intent.region)
    BY <1>7 DEF CreateBlocked
  <2>2. \A i \in ItemsOf(items) : i.id # old.id /\ CreatesRegion(i) => i.intent.region \in others
    BY DEF OtherCreates
  <2>3. new \subseteq lowers \cup {Lower(x.intent.region)}
    <3> SUFFICES ASSUME NEW j \in Creating(ItemsOf(t)) PROVE Lower(j.intent.region) \in lowers \cup {Lower(x.intent.region)}
      OBVIOUS
    <3>1. CASE j = x
      BY <3>1
    <3>2. CASE j \in ItemsOf(items) /\ j.id # old.id
      BY <3>2, <2>2 DEF Creating
    <3> QED BY <3>1, <3>2, <1>3 DEF Creating
  <2>4. lowers \subseteq names
    BY DEF OtherCreates, Creating
  <2>5. Cardinality(DOMAIN s.regions) + Cardinality(new) <= MaxRegions
    <3> HIDE DEF new, names, lowers, others
    <3>1. IsFiniteSet(names)
      BY NamesAreFinite DEF names
    <3>2. IsFiniteSet(lowers) /\ Cardinality(lowers) \in Nat
      BY <3>1, <2>4, FS_Subset, FS_CardinalityType
    <3>3. IsFiniteSet(lowers \cup {Lower(x.intent.region)})
          /\ Cardinality(lowers \cup {Lower(x.intent.region)}) <= Cardinality(lowers) + 1
      <4>1. PICK y : y = Lower(x.intent.region)
        OBVIOUS
      <4>2. /\ IsFiniteSet(lowers \cup {y})
            /\ Cardinality(lowers \cup {y}) = IF y \in lowers THEN Cardinality(lowers) ELSE Cardinality(lowers) + 1
        BY <3>2, FS_AddElement
      <4> QED BY <3>2, <4>1, <4>2
    <3>4. Cardinality(new) <= Cardinality(lowers \cup {Lower(x.intent.region)}) /\ Cardinality(new) \in Nat
          /\ Cardinality(lowers \cup {Lower(x.intent.region)}) \in Nat
      BY <3>3, <2>3, FS_Subset, FS_CardinalityType
    <3>5. Cardinality(DOMAIN s.regions) \in Nat
      BY SourcesAreValid, FS_CardinalityType
    <3> QED BY <3>2, <3>3, <3>4, <3>5, <2>1, ReferenceBounds
  <2>6. \A i, j \in Creating(ItemsOf(t)) : SameName(i.intent.region, j.intent.region) => i.id = j.id
    <3> SUFFICES ASSUME NEW i \in Creating(ItemsOf(t)), NEW j \in Creating(ItemsOf(t)),
                        SameName(i.intent.region, j.intent.region)
                 PROVE  i.id = j.id
      OBVIOUS
    <3>1. \A k \in Creating(ItemsOf(t)) : k # x => k \in Creating(ItemsOf(items)) /\ k.intent.region \in others
      BY <1>3, <2>2 DEF Creating
    <3>2. CASE i = x /\ j = x
      BY <3>2
    <3>3. CASE i = x /\ j # x
      BY <3>3, <3>1, <2>1 DEF SameName
    <3>4. CASE i # x /\ j = x
      BY <3>4, <3>1, <2>1 DEF SameName
    <3>5. CASE i # x /\ j # x
      BY <3>5, <3>1 DEF AsAuthored
    <3> QED BY <3>2, <3>3, <3>4, <3>5
  <2>7. AsAuthored(s, t)
    BY <1>2, <1>4, <1>5, <2>5, <2>6 DEF AsAuthored
  <2> QED BY <2>7, <1>3
<1> QED BY <1>6, <1>7

\* What withdrawing a confirmation may change.
LEMMA WithdrawnOnly ==
    ASSUME NEW before, NEW after, IsItem(after), NEW k, k = Withdrawn(before, after)
    PROVE  \/ k = after /\ ~ (before.state = "confirmed" /\ after.state = "confirmed" /\ Meaning(before) # Meaning(after))
           \/ k = [after EXCEPT !.state = "candidate"] /\ after.state = "confirmed"
BY DEF Withdrawn

\* The rules of an edit keep an item what the viewer makes: its primitive or its
\* rectangle follows, or its interpretation goes.
LEMMA ReconciledKeeps ==
    ASSUME NEW s, NEW item, Built(s, item), item.state # "uninterpreted" => item.intent.kind # "reference-region",
           NEW k, k = Reconciled(item)
    PROVE  /\ IsItem(k) /\ k.id = item.id /\ Built(s, k) /\ ~ CreatesRegion(k)
           /\ k.state = "confirmed" => item.state = "confirmed"
<1>1. IsItem(item)
  BY DEF Built
<1>2. CASE item.state = "uninterpreted" \/ item.intent.kind # "change"
  <2>1. k = item
    BY <1>2 DEF Reconciled
  <2> QED BY <1>1, <2>1 DEF CreatesRegion, ProposesRegion
<1>3. CASE item.state # "uninterpreted" /\ item.intent.kind = "change"
  <2>1. BuiltChange(item.intent)
    BY <1>3 DEF Built
  <2>2. CASE ~ StillFits(item.intent, item.assoc)
    <3>1. k = [item EXCEPT !.state = "uninterpreted", !.intent = None]
      BY <1>3, <2>2 DEF Reconciled, Uninterpreted
    <3>2. IsItem(k) /\ k.id = item.id /\ k.state = "uninterpreted"
      BY <3>1, <1>1 DEF IsItem
    <3> QED BY <3>2 DEF Built, CreatesRegion, ProposesRegion
  <2>3. CASE StillFits(item.intent, item.assoc) /\ item.intent.primitive = None
    <3>1. k = item
      BY <1>3, <2>3 DEF Reconciled
    <3> QED BY <1>1, <1>3, <3>1 DEF CreatesRegion, ProposesRegion
  <2>4. ASSUME NEW p, BuiltPrimitive(item.intent.operation, p), k = [item EXCEPT !.intent = [item.intent EXCEPT !.primitive = p]]
        PROVE  IsItem(k) /\ k.id = item.id /\ Built(s, k) /\ ~ CreatesRegion(k) /\ k.state = item.state
    <3>1. PICK intent : intent = [item.intent EXCEPT !.primitive = p]
      OBVIOUS
    <3>2. /\ intent = [kind |-> "change", operation |-> item.intent.operation, category |-> item.intent.category,
                       mode |-> item.intent.mode, primitive |-> p]
      BY <3>1, <2>1 DEF BuiltChange
    <3>3. BuiltChange(intent) /\ intent.kind = "change"
      BY <3>2, <2>4 DEF BuiltChange
    <3>4. k = [item EXCEPT !.intent = intent]
      BY <2>4, <3>1
    <3>5. IsItem(k) /\ k.id = item.id /\ k.state = item.state /\ k.intent = intent
      BY <3>4, <1>1 DEF IsItem
    <3> QED BY <3>3, <3>5 DEF Built, CreatesRegion, ProposesRegion
  <2>5. CASE StillFits(item.intent, item.assoc) /\ item.intent.primitive # None /\ RuntimeRelationship(item.assoc)
    <3>1. k = [item EXCEPT !.intent.primitive = RelationshipPrimitive(item.assoc)]
      BY <1>3, <2>5 DEF Reconciled
    <3>2. item.intent.operation \notin {"move", "resize"}
      BY <2>5 DEF StillFits, RuntimeTarget, RuntimeRelationship
    <3>3. BuiltPrimitive(item.intent.operation, RelationshipPrimitive(item.assoc))
      BY <3>2 DEF BuiltPrimitive, RelationshipPrimitive
    <3> QED BY <3>1, <3>3, <2>4
  <2>6. CASE StillFits(item.intent, item.assoc) /\ item.intent.primitive # None /\ ~ RuntimeRelationship(item.assoc)
    <3>1. k = [item EXCEPT !.intent.primitive.a = item.assoc.target]
      BY <1>3, <2>6 DEF Reconciled
    <3>2. PICK p : p = [item.intent.primitive EXCEPT !.a = item.assoc.target]
      OBVIOUS
    <3>3. BuiltPrimitive(item.intent.operation, item.intent.primitive)
      BY <2>1 DEF BuiltChange
    <3>4. BuiltPrimitive(item.intent.operation, p)
      <4>1. CASE item.intent.operation \in {"move", "resize"}
        BY <3>2, <3>3, <4>1 DEF BuiltPrimitive
      <4>2. CASE item.intent.operation = "preserve"
        BY <3>2, <3>3, <4>2 DEF BuiltPrimitive
      <4>3. CASE item.intent.operation \notin {"move", "resize", "preserve"}
        BY <4>3 DEF BuiltPrimitive
      <4> QED BY <4>1, <4>2, <4>3
    <3>5. k = [item EXCEPT !.intent = [item.intent EXCEPT !.primitive = p]]
      BY <3>1, <3>2
    <3> QED BY <3>4, <3>5, <2>4
  <2> QED BY <2>2, <2>3, <2>5, <2>6
<1> QED BY <1>2, <1>3

\* What a changed association does to an item's intent leaves it one the panels build.
LEMMA SyncedKeeps ==
    ASSUME NEW s, NEW item, Built(s, item), NEW k, k = Synced(item)
    PROVE  /\ IsItem(k) /\ k.id = item.id /\ Built(s, k) /\ k.state = item.state
           /\ CreatesRegion(k) => CreatesRegion(item) /\ k.intent.region = item.intent.region
<1>1. IsItem(item)
  BY DEF Built
<1>2. CASE ~ (ProposesRegion(item) /\ item.mark.kind = "rectangle")
  <2>1. k = item
    BY <1>2 DEF Synced
  <2> QED BY <1>1, <2>1
<1>3. CASE ProposesRegion(item) /\ item.mark.kind = "rectangle"
  <2>1. PICK intent : intent = RegionIntent(item.intent.mode, item.intent.region, item.mark)
    OBVIOUS
  <2>2. k = [item EXCEPT !.intent = intent]
    BY <1>3, <2>1 DEF Synced
  <2>3. IsItem(k) /\ k.id = item.id /\ k.state = item.state /\ k.intent = intent
    BY <2>2, <1>1 DEF IsItem
  <2>4. /\ intent = [kind |-> "reference-region", mode |-> intent.mode, region |-> intent.region, rect |-> intent.rect]
        /\ intent.mode = item.intent.mode /\ intent.region = item.intent.region /\ intent.kind = "reference-region"
    BY <2>1 DEF RegionIntent
  <2>5. BuiltRegion(s.regions, item.intent) /\ s.kind = "external-reference"
    BY <1>3 DEF Built
  <2>6. BuiltRegion(s.regions, intent)
    BY <2>4, <2>5 DEF BuiltRegion
  <2>7. Built(s, k)
    BY <2>3, <2>4, <2>5, <2>6 DEF Built
  <2>8. CreatesRegion(k) => CreatesRegion(item) /\ k.intent.region = item.intent.region
    BY <1>3, <2>3, <2>4 DEF CreatesRegion
  <2> QED BY <2>3, <2>7, <2>8
<1> QED BY <1>2, <1>3

\* An edit, with the rules of its source and a confirmation withdrawn: the item
\* stays what the viewer makes, creates nothing the edit does not, and is
\* confirmed only with the meaning it was confirmed with.
LEMMA EditKeeps ==
    ASSUME NEW before, NEW edited, IsItem(before), Built(source, edited), edited.id = before.id,
           edited.state = "confirmed" => before.state = "confirmed",
           NEW k, k = Kept(before, edited)
    PROVE  /\ Built(source, k) /\ k.id = before.id
           /\ CreatesRegion(k) => CreatesRegion(edited) /\ k.intent.region = edited.intent.region
           /\ k.state = "confirmed" => before.state = "confirmed" /\ Meaning(k) = Meaning(before)
<1>1. PICK after : after = IF source.kind = "runtime-observation" THEN Reconciled(edited) ELSE Synced(edited)
  OBVIOUS
<1>2. /\ IsItem(after) /\ after.id = edited.id /\ Built(source, after)
      /\ after.state = "confirmed" => edited.state = "confirmed"
      /\ CreatesRegion(after) => CreatesRegion(edited) /\ after.intent.region = edited.intent.region
  <2>1. CASE source.kind = "runtime-observation"
    <3>1. edited.state # "uninterpreted" => edited.intent.kind # "reference-region"
      BY <2>1 DEF Built, ProposesRegion
    <3> QED BY <2>1, <3>1, <1>1, ReconciledKeeps
  <2>2. CASE source.kind # "runtime-observation"
    BY <2>2, <1>1, SyncedKeeps
  <2> QED BY <2>1, <2>2
<1>3. k = Withdrawn(before, after)
  BY <1>1 DEF Kept
<1>4. CASE k = after /\ ~ (before.state = "confirmed" /\ after.state = "confirmed" /\ Meaning(before) # Meaning(after))
  BY <1>2, <1>4
<1>5. CASE k = [after EXCEPT !.state = "candidate"] /\ after.state = "confirmed"
  <2>1. IsItem(k) /\ k.id = after.id /\ k.state = "candidate" /\ k.intent = after.intent
    BY <1>5, <1>2 DEF IsItem
  <2>2. Built(source, k)
    BY <2>1, <1>2, <1>5 DEF Built, ProposesRegion
  <2>3. CreatesRegion(k) => CreatesRegion(after)
    BY <2>1, <1>5 DEF CreatesRegion, ProposesRegion
  <2> QED BY <2>1, <2>2, <2>3, <1>2
<1> QED BY <1>2, <1>3, <1>4, <1>5, WithdrawnOnly

\* What an edit may ask of an item.
Sensible(items, before, edited) ==
    /\ Built(source, edited) /\ edited.id = before.id
    /\ edited.state = "confirmed" => before.state = "confirmed"
    /\ \/ CreatesRegion(edited) => CreatesRegion(before) /\ edited.intent.region = before.intent.region
       \/ ~ CreateBlocked(edited.intent.region, source.regions, ItemsOf(items), before.id)

\* Drawing a mark anew is an edit the panels allow.
LEMMA RemarkedIsSensible ==
    ASSUME NEW items, NEW before, Built(source, before), NEW mark, NEW edited, edited = [before EXCEPT !.mark = mark]
    PROVE  Sensible(items, before, edited)
<1>1. IsItem(before)
  BY DEF Built
<1>2. IsItem(edited) /\ edited.id = before.id /\ edited.state = before.state /\ edited.intent = before.intent
  BY <1>1 DEF IsItem
<1>3. Built(source, edited)
  BY <1>2 DEF Built, ProposesRegion
<1> QED BY <1>2, <1>3 DEF Sensible, CreatesRegion, ProposesRegion

\* Associating a mark is an edit the panels allow.
LEMMA AssociatedIsSensible ==
    ASSUME NEW items, NEW before, Built(source, before), NEW assoc, NEW edited, edited = [before EXCEPT !.assoc = assoc]
    PROVE  Sensible(items, before, edited)
<1>1. IsItem(before)
  BY DEF Built
<1>2. IsItem(edited) /\ edited.id = before.id /\ edited.state = before.state /\ edited.intent = before.intent
  BY <1>1 DEF IsItem
<1>3. Built(source, edited)
  BY <1>2 DEF Built, ProposesRegion
<1> QED BY <1>2, <1>3 DEF Sensible, CreatesRegion, ProposesRegion

\* An item with another intent waits to be confirmed anew.
LEMMA CandidateIs ==
    ASSUME NEW before, IsItem(before), NEW intent, NEW k, k = Candidate(before, intent)
    PROVE  IsItem(k) /\ k.id = before.id /\ k.state = "candidate" /\ k.intent = intent
BY DEF Candidate, IsItem

\* What the observation's form builds is an edit the panels allow.
LEMMA RuntimeFormIsSensible ==
    ASSUME NEW items, NEW before, IsItem(before), NEW form \in Forms["runtime-observation"],
           FormFits(form, before.assoc),
           NEW edited, edited = Candidate(before, RuntimeIntent(form, before.assoc))
    PROVE  Sensible(items, before, edited)
<1>1. PICK intent : intent = RuntimeIntent(form, before.assoc)
  OBVIOUS
<1>2. IsItem(edited) /\ edited.id = before.id /\ edited.state = "candidate" /\ edited.intent = intent
  BY <1>1, CandidateIs
<1>3. form.operation \in {"inspect", "move", "resize", "remove", "preserve"}
  BY FormsAreThePanels
<1>4. intent.kind = "inspect" \/ (intent.kind = "change" /\ BuiltChange(intent))
  <2>1. CASE form.operation = "inspect"
    BY <1>1, <2>1 DEF RuntimeIntent
  <2>2. CASE form.operation \in {"move", "resize"}
    <3>1. intent = Change(form, DirectionalPrimitive(form.direction, before.assoc.target))
      BY <1>1, <2>2 DEF RuntimeIntent
    <3>2. form.direction \in IF form.operation = "move" THEN MoveDirections ELSE ResizeDirections
      BY <2>2 DEF FormFits
    <3>3. PICK p : p = DirectionalPrimitive(form.direction, before.assoc.target)
      OBVIOUS
    <3>4. /\ p = [kind |-> p.kind, a |-> p.a, property |-> p.property, minimum |-> None]
          /\ p.kind = Directions[form.direction].kind /\ p.property = Directions[form.direction].property
      BY <3>3 DEF DirectionalPrimitive
    <3>5. /\ Directions[form.direction].kind \in {"property-increases", "property-decreases"}
          /\ Directions[form.direction].property \in IF form.operation = "move" THEN {"x", "y"} ELSE {"width", "height"}
      BY <2>2, <3>2 DEF Directions, Direction, MoveDirections, ResizeDirections
    <3>6. BuiltPrimitive(form.operation, p)
      BY <2>2, <3>4, <3>5 DEF BuiltPrimitive
    <3> QED BY <3>1, <3>3, <3>6 DEF Change, BuiltChange
  <2>3. CASE form.operation = "remove"
    <3>1. intent = Change(form, None)
      BY <1>1, <2>3 DEF RuntimeIntent
    <3>2. BuiltPrimitive(form.operation, None)
      BY <2>3 DEF BuiltPrimitive
    <3> QED BY <3>1, <3>2 DEF Change, BuiltChange
  <2>4. CASE form.operation = "preserve"
    <3>1. PICK p : p = IF RuntimeTarget(before.assoc)
                       THEN PropertyPrimitive(form.property, before.assoc.target, form.tolerance)
                       ELSE RelationshipPrimitive(before.assoc)
      OBVIOUS
    <3>2. intent = Change(form, p)
      BY <1>1, <2>4, <3>1 DEF RuntimeIntent
    <3>3. BuiltPrimitive(form.operation, p)
      BY <2>4, <3>1 DEF BuiltPrimitive, PropertyPrimitive, RelationshipPrimitive
    <3> QED BY <3>2, <3>3 DEF Change, BuiltChange
  <2> QED BY <1>3, <2>1, <2>2, <2>3, <2>4
<1>5. Built(source, edited)
  BY <1>2, <1>4 DEF Built, ProposesRegion
<1>6. ~ CreatesRegion(edited)
  BY <1>2, <1>4 DEF CreatesRegion, ProposesRegion
<1> QED BY <1>2, <1>5, <1>6 DEF Sensible

\* What the reference's form builds is an edit the panels allow.
LEMMA ReferenceFormIsSensible ==
    ASSUME source.kind = "external-reference",
           NEW items, NEW before, IsItem(before), NEW form \in Forms["external-reference"],
           ReferenceFormFits(form, before, source.regions, ItemsOf(items)),
           NEW edited, edited = WithReferenceIntent(form, before)
    PROVE  Sensible(items, before, edited)
<1>1. form.kind \in {"create", "refine", "requirement", "inspect", "asset-sensitive"}
  BY FormsAreThePanels
<1>2. CASE form.kind = "create"
  <2>1. PICK intent : intent = RegionIntent("create", form.region, before.mark)
    OBVIOUS
  <2>2. edited = Candidate(before, intent)
    BY <1>2, <2>1 DEF WithReferenceIntent
  <2>3. IsItem(edited) /\ edited.id = before.id /\ edited.state = "candidate" /\ edited.intent = intent
    BY <2>2, CandidateIs
  <2>4. /\ intent = [kind |-> "reference-region", mode |-> intent.mode, region |-> intent.region, rect |-> intent.rect]
        /\ intent.kind = "reference-region" /\ intent.mode = "create" /\ intent.region = form.region
    BY <2>1 DEF RegionIntent
  <2>5. ~ CreateBlocked(form.region, source.regions, ItemsOf(items), before.id)
    BY <1>2 DEF ReferenceFormFits
  <2>6. ~ Known(source.regions, form.region)
    BY <2>5 DEF CreateBlocked
  <2>7. BuiltRegion(source.regions, intent)
    BY <2>4, <2>6 DEF BuiltRegion
  <2>8. Built(source, edited)
    BY <2>3, <2>4, <2>7 DEF Built
  <2> QED BY <2>3, <2>4, <2>5, <2>8 DEF Sensible
<1>3. CASE form.kind = "refine"
  <2>1. PICK intent : intent = RegionIntent("refine", form.region, before.mark)
    OBVIOUS
  <2>2. PICK k : k = Candidate(before, intent)
    OBVIOUS
  <2>3. PICK assoc : edited = [k EXCEPT !.assoc = assoc]
    BY <1>3, <2>1, <2>2 DEF WithReferenceIntent
  <2>4. IsItem(k) /\ k.id = before.id /\ k.state = "candidate" /\ k.intent = intent
    BY <2>2, CandidateIs
  <2>5. IsItem(edited) /\ edited.id = before.id /\ edited.state = "candidate" /\ edited.intent = intent
    BY <2>3, <2>4 DEF IsItem
  <2>6. /\ intent = [kind |-> "reference-region", mode |-> intent.mode, region |-> intent.region, rect |-> intent.rect]
        /\ intent.kind = "reference-region" /\ intent.mode = "refine" /\ intent.region = form.region
    BY <2>1 DEF RegionIntent
  <2>7. Known(source.regions, form.region)
    BY <1>3 DEF ReferenceFormFits, Known, SameName
  <2>8. BuiltRegion(source.regions, intent)
    BY <2>6, <2>7 DEF BuiltRegion
  <2>9. Built(source, edited) /\ ~ CreatesRegion(edited)
    BY <2>5, <2>6, <2>8 DEF Built, CreatesRegion
  <2> QED BY <2>5, <2>9 DEF Sensible
<1>4. CASE form.kind \in {"requirement", "inspect", "asset-sensitive"}
  <2>1. PICK intent : edited = Candidate(before, intent) /\ intent.kind \in {"reference-requirement", "inspect", "asset-sensitive"}
    BY <1>4 DEF WithReferenceIntent
  <2>2. IsItem(edited) /\ edited.id = before.id /\ edited.state = "candidate" /\ edited.intent = intent
    BY <2>1, CandidateIs
  <2>3. Built(source, edited) /\ ~ CreatesRegion(edited)
    BY <2>1, <2>2 DEF Built, CreatesRegion, ProposesRegion
  <2> QED BY <2>2, <2>3 DEF Sensible
<1> QED BY <1>1, <1>2, <1>3, <1>4

\* An id of some item finds that item.
LEMMA FoundItem ==
    ASSUME NEW items, NEW id \in IdsOf(items)
    PROVE  ItemOf(items, id) \in ItemsOf(items) /\ ItemOf(items, id).id = id
<1>1. \E i \in ItemsOf(items) : i.id = id
  BY DEF IdsOf, ItemsOf
<1> QED BY <1>1 DEF ItemOf

\* What one edit of the draft leaves: contents as authored, and nothing
\* confirmed that was not.
LEMMA DraftEdited ==
    ASSUME source \in Sources, Authored(draft.items), NEW id \in IdsOf(draft.items),
           NEW before, before = ItemOf(draft.items, id), NEW edited, Sensible(draft.items, before, edited),
           NEW t, t = [i \in DOMAIN draft.items |->
                          IF draft.items[i].id = id THEN Kept(before, edited) ELSE draft.items[i]]
    PROVE  Authored(t) /\ ConfirmedIn(t) \subseteq ConfirmedIn(draft.items)
<1>1. PICK items : items = draft.items
  OBVIOUS
<1>2. PICK k : k = Kept(before, edited)
  OBVIOUS
<1>3. AsAuthored(source, items) /\ DrawnBefore(items, drawn)
  BY <1>1 DEF Authored
<1>4. before \in ItemsOf(items) /\ before.id = id
  BY <1>1, FoundItem
<1>5. IsItem(before)
  BY <1>3, <1>4, Items
<1>6. /\ Built(source, k) /\ k.id = before.id
      /\ CreatesRegion(k) => CreatesRegion(edited) /\ k.intent.region = edited.intent.region
      /\ k.state = "confirmed" => before.state = "confirmed" /\ Meaning(k) = Meaning(before)
  BY <1>2, <1>5, EditKeeps DEF Sensible
<1>7. \/ CreatesRegion(k) => CreatesRegion(before) /\ k.intent.region = before.intent.region
      \/ ~ CreateBlocked(k.intent.region, source.regions, ItemsOf(items), before.id)
  BY <1>1, <1>6 DEF Sensible
<1>8. t = [i \in DOMAIN items |-> IF items[i].id = before.id THEN k ELSE items[i]]
  BY <1>1, <1>2, <1>4
<1>9. AsAuthored(source, t) /\ \A j \in ItemsOf(t) : j = k \/ (j \in ItemsOf(items) /\ j.id # before.id)
  BY <1>3, <1>4, <1>6, <1>7, <1>8, ReplacedKeeps
<1>10. DrawnBefore(t, drawn)
  BY <1>3, <1>4, <1>6, <1>9 DEF DrawnBefore
<1>11. ConfirmedIn(t) \subseteq ConfirmedIn(items)
  <2> SUFFICES ASSUME NEW j \in ItemsOf(t), j.state = "confirmed"
               PROVE  \E i \in ItemsOf(items) : i.state = "confirmed" /\ Meaning(i) = Meaning(j)
    BY DEF ConfirmedIn
  <2>1. CASE j = k
    BY <2>1, <1>4, <1>6
  <2>2. CASE j \in ItemsOf(items)
    BY <2>2
  <2> QED BY <2>1, <2>2, <1>9
<1> QED BY <1>1, <1>9, <1>10, <1>11 DEF Authored

\* The step of the panels and the pointer that edits.
LEMMA EditsKeep ==
    ASSUME source \in Sources, Authored(draft.items),
           draft = [items |-> draft.items, parent |-> draft.parent, selected |-> draft.selected,
                    dirty |-> draft.dirty, save |-> draft.save],
           NEW id \in IdsOf(draft.items), NEW edited, Sensible(draft.items, ItemOf(draft.items, id), edited),
           Edit(id, edited)
    PROVE  /\ \E t : draft'.items = t /\ Authored(t) /\ ConfirmedIn(t) \subseteq ConfirmedIn(draft.items)
           /\ UNCHANGED << source, store, saves, uses, baseline, work, drawn, confirmed >>
<1>1. PICK before : before = ItemOf(draft.items, id)
  OBVIOUS
<1>2. PICK t : t = [i \in DOMAIN draft.items |->
                       IF draft.items[i].id = id THEN Kept(before, edited) ELSE draft.items[i]]
  OBVIOUS
<1>3. draft' = [draft EXCEPT !.items = t, !.dirty = TRUE]
  BY <1>1, <1>2 DEF Edit, Replaced
<1>4. draft'.items = t
  BY <1>3
<1>5. Authored(t) /\ ConfirmedIn(t) \subseteq ConfirmedIn(draft.items)
  BY <1>1, <1>2, DraftEdited
<1> QED BY <1>4, <1>5 DEF Edit, LeaveServer

\* Every edit a person makes is one of these.
LEMMA PersonEdits ==
    ASSUME source \in Sources, Authored(draft.items)
    PROVE  /\ \A id \in IdsOf(draft.items) : \A d \in Moves : Move(id, d) =>
                  \E edited : Edit(id, edited) /\ Sensible(draft.items, ItemOf(draft.items, id), edited)
           /\ \A length : EditNote(length) =>
                  \E edited : Edit(draft.selected, edited) /\ Sensible(draft.items, Selected, edited)
           /\ \A assoc : Associate(assoc) =>
                  \E edited : Edit(draft.selected, edited) /\ Sensible(draft.items, Selected, edited)
           /\ \A form \in Forms[source.kind] : SetIntent(form) =>
                  \E edited : Edit(draft.selected, edited) /\ Sensible(draft.items, Selected, edited)
           /\ EditNote(0) \/ (\E length : EditNote(length)) \/ (\E assoc : Associate(assoc))
                \/ (\E form : SetIntent(form)) => draft.selected \in IdsOf(draft.items)
<1>0. \A id \in IdsOf(draft.items) : Built(source, ItemOf(draft.items, id)) /\ IsItem(ItemOf(draft.items, id))
  <2>1. AsAuthored(source, draft.items)
    BY DEF Authored
  <2> QED BY <2>1, FoundItem, Items
<1>1. ASSUME NEW id \in IdsOf(draft.items), NEW d \in Moves, Move(id, d)
      PROVE  \E edited : Edit(id, edited) /\ Sensible(draft.items, ItemOf(draft.items, id), edited)
  <2>1. PICK item : item = ItemOf(draft.items, id)
    OBVIOUS
  <2>2. PICK mark : mark = Translated(item.mark, d[1], d[2])
    OBVIOUS
  <2>3. PICK edited : edited = [item EXCEPT !.mark = mark]
    OBVIOUS
  <2>4. Edit(id, edited)
    BY <1>1, <2>1, <2>2, <2>3 DEF Move
  <2>5. Sensible(draft.items, item, edited)
    BY <1>0, <2>1, <2>3, RemarkedIsSensible
  <2> QED BY <2>1, <2>4, <2>5
<1>2. ASSUME NEW length, EditNote(length)
      PROVE  \E edited : Edit(draft.selected, edited) /\ Sensible(draft.items, Selected, edited)
  <2>1. draft.selected \in IdsOf(draft.items)
    BY <1>2 DEF EditNote, HasSelected
  <2>2. PICK mark : mark = [Selected.mark EXCEPT !.text = Lesser(length, NoteMax)]
    OBVIOUS
  <2>3. PICK edited : edited = [Selected EXCEPT !.mark = mark]
    OBVIOUS
  <2>4. Edit(draft.selected, edited)
    BY <1>2, <2>2, <2>3 DEF EditNote
  <2>5. Sensible(draft.items, Selected, edited)
    BY <1>0, <2>1, <2>3, RemarkedIsSensible DEF Selected
  <2> QED BY <2>4, <2>5
<1>3. ASSUME NEW assoc, Associate(assoc)
      PROVE  \E edited : Edit(draft.selected, edited) /\ Sensible(draft.items, Selected, edited)
  <2>1. draft.selected \in IdsOf(draft.items)
    BY <1>3 DEF Associate, HasSelected
  <2>2. PICK edited : edited = [Selected EXCEPT !.assoc = assoc]
    OBVIOUS
  <2>3. Edit(draft.selected, edited)
    BY <1>3, <2>2 DEF Associate
  <2>4. Sensible(draft.items, Selected, edited)
    BY <1>0, <2>1, <2>2, AssociatedIsSensible DEF Selected
  <2> QED BY <2>3, <2>4
<1>4. ASSUME NEW form \in Forms[source.kind], SetIntent(form)
      PROVE  \E edited : Edit(draft.selected, edited) /\ Sensible(draft.items, Selected, edited)
  <2>1. draft.selected \in IdsOf(draft.items)
    BY <1>4 DEF SetIntent, HasSelected
  <2>2. IsItem(Selected)
    BY <1>0, <2>1 DEF Selected
  <2>3. CASE source.kind = "runtime-observation"
    <3>1. PICK edited : edited = Candidate(Selected, RuntimeIntent(form, Selected.assoc))
      OBVIOUS
    <3>2. FormFits(form, Selected.assoc) /\ Edit(draft.selected, edited)
      BY <1>4, <2>3, <3>1 DEF SetIntent
    <3>3. Sensible(draft.items, Selected, edited)
      BY <2>2, <2>3, <3>1, <3>2, RuntimeFormIsSensible
    <3> QED BY <3>2, <3>3
  <2>4. CASE source.kind # "runtime-observation"
    <3>1. source.kind = "external-reference"
      BY <2>4, SourcesAreValid
    <3>2. PICK edited : edited = WithReferenceIntent(form, Selected)
      OBVIOUS
    <3>3. ReferenceFormFits(form, Selected, source.regions, ItemsOf(draft.items)) /\ Edit(draft.selected, edited)
      BY <1>4, <2>4, <3>2 DEF SetIntent
    <3>4. Sensible(draft.items, Selected, edited)
      BY <2>2, <3>1, <3>2, <3>3, ReferenceFormIsSensible
    <3> QED BY <3>3, <3>4
  <2> QED BY <2>3, <2>4
<1>5. (\E length : EditNote(length)) \/ (\E assoc : Associate(assoc)) \/ (\E form : SetIntent(form))
      => draft.selected \in IdsOf(draft.items)
  BY DEF EditNote, Associate, SetIntent, HasSelected
<1> QED BY <1>1, <1>2, <1>3, <1>4, <1>5

\* Contents as they should be, with nothing confirmed that nobody confirmed: of
\* source s, with n drawn and the meanings in c confirmed.
Held(s, n, c, items) == AsAuthored(s, items) /\ DrawnBefore(items, n) /\ ConfirmedIn(items) \subseteq c

\* An empty draft holds nothing unauthored.
LEMMA NothingIsHeld == ASSUME source \in Sources PROVE Held(source, drawn, confirmed, << >>)
<1>1. ItemsOf(<< >>) = {} /\ Creating(ItemsOf(<< >>)) = {}
  BY DEF ItemsOf, Creating
<1>2. << >> \in Seq(ItemsOf(<< >>))
  BY EmptySeq
<1>3. {Lower(i.intent.region) : i \in Creating(ItemsOf(<< >>))} = {}
  BY <1>1
<1>4. Cardinality(DOMAIN source.regions) + Cardinality({Lower(i.intent.region) : i \in Creating(ItemsOf(<< >>))}) <= MaxRegions
  <2>1. Cardinality({}) = 0
    BY FS_EmptySet
  <2>2. Cardinality(DOMAIN source.regions) \in Nat /\ Cardinality(DOMAIN source.regions) <= MaxRegions
    <3>1. IsFiniteSet(DOMAIN source.regions) /\ ValidRegions(source.regions, source.frame)
      BY SourcesAreValid
    <3> QED BY <3>1, FS_CardinalityType DEF ValidRegions
  <2>3. Cardinality({Lower(i.intent.region) : i \in Creating(ItemsOf(<< >>))}) = 0
    BY <1>3, <2>1
  <2> QED BY <2>2, <2>3, ReferenceBounds
<1>5. AsAuthored(source, << >>)
  BY <1>1, <1>2, <1>4 DEF AsAuthored
<1>6. DrawnBefore(<< >>, drawn) /\ ConfirmedIn(<< >>) = {}
  BY <1>1 DEF DrawnBefore, ConfirmedIn
<1> QED BY <1>5, <1>6 DEF Held

\* What was authored and confirmed stays so as more is drawn and confirmed.
LEMMA HeldStays ==
    ASSUME NEW s, NEW n \in Nat, NEW m \in Nat, n <= m, NEW c, NEW d, c \subseteq d, NEW items, Held(s, n, c, items)
    PROVE  Held(s, m, d, items)
<1>1. \A i \in ItemsOf(items), k \in 1 .. MaxDrawn : i.id = << "drawn", k >> => k <= n
  BY DEF Held, DrawnBefore
<1>2. \A i \in ItemsOf(items), k \in 1 .. MaxDrawn : i.id = << "drawn", k >> => k <= m
  BY <1>1, DrawingIsBounded
<1> QED BY <1>2 DEF Held, DrawnBefore

\* The invariant in these terms.
Holdings ==
    /\ drawn \in 0 .. MaxDrawn
    /\ Held(source, drawn, confirmed, draft.items)
    /\ \A r \in saves : Held(source, drawn, confirmed, r.items)
    /\ \A h \in DOMAIN store : Held(source, drawn, confirmed, store[h].items) /\ ValidContent(source, store[h].items)

\* The invariant over every place items are held says what its two parts say.
LEMMA HoldingsAre == Handles => (Holdings <=> Contents /\ ConfirmedMeaningStands)
<1> SUFFICES ASSUME Handles PROVE Holdings <=> Contents /\ ConfirmedMeaningStands
  OBVIOUS
<1>1. baseline = << >> \/ \E h \in DOMAIN store : baseline = store[h].items
  BY DEF Handles, ContentOf
<1>2. ConfirmedIn(<< >>) = {}
  BY DEF ConfirmedIn, ItemsOf
<1>3. (\A h \in DOMAIN store : ConfirmedIn(store[h].items) \subseteq confirmed) => ConfirmedIn(baseline) \subseteq confirmed
  BY <1>1, <1>2
<1> QED BY <1>3 DEF Holdings, Contents, Held, Authored, ConfirmedMeaningStands

\* A workspace opens holding nothing unauthored.
LEMMA HoldingsInit == Init => Holdings
<1> SUFFICES ASSUME Init PROVE Holdings
  OBVIOUS
<1>1. source \in Sources /\ store \in SavedBefore[source.kind] /\ draft.items = << >> /\ saves = {} /\ drawn = 0
      /\ confirmed = UNION {ConfirmedIn(store[h].items) : h \in DOMAIN store}
  BY DEF Init, Empty
<1>2. ASSUME NEW h \in DOMAIN store PROVE Held(source, drawn, confirmed, store[h].items) /\ ValidContent(source, store[h].items)
  <2>1. /\ AsAuthored(source, store[h].items) /\ ValidContent(source, store[h].items)
        /\ \A i \in ItemsOf(store[h].items), n \in 1 .. MaxDrawn : i.id # << "drawn", n >>
    BY <1>1, SavedAreAuthored
  <2>2. DrawnBefore(store[h].items, drawn)
    BY <2>1 DEF DrawnBefore
  <2>3. ConfirmedIn(store[h].items) \subseteq confirmed
    BY <1>1
  <2> QED BY <2>1, <2>2, <2>3 DEF Held
<1>3. Held(source, drawn, confirmed, << >>)
  BY <1>1, NothingIsHeld
<1>4. drawn \in 0 .. MaxDrawn
  BY <1>1, DrawingIsBounded
<1>5. Held(source, drawn, confirmed, draft.items) /\ \A r \in saves : Held(source, drawn, confirmed, r.items)
  BY <1>1, <1>3
<1> QED BY <1>2, <1>4, <1>5 DEF Holdings

\* Every step keeps what all places hold authored and confirmed.
LEMMA HoldingsKept == Handles /\ Holdings /\ [Next]_vars => Holdings'
<1> SUFFICES ASSUME Handles, Holdings, [Next]_vars PROVE Holdings'
  OBVIOUS
<1>0. /\ source \in Sources
      /\ draft = [items |-> draft.items, parent |-> draft.parent, selected |-> draft.selected,
                  dirty |-> draft.dirty, save |-> draft.save]
      /\ store \in Seq({store[h] : h \in DOMAIN store})
      /\ baseline = << >> \/ \E h \in DOMAIN store : baseline = store[h].items
  BY DEF Handles, ContentOf
<1>s. \A r \in saves : /\ r = [n |-> r.n, parent |-> r.parent, items |-> r.items, answer |-> r.answer]
                       /\ r.answer \in {Pending, Refused} \cup DOMAIN store
  BY DEF Handles
<1>h. /\ drawn \in 0 .. MaxDrawn /\ Held(source, drawn, confirmed, draft.items)
      /\ \A r \in saves : Held(source, drawn, confirmed, r.items)
      /\ \A h \in DOMAIN store : Held(source, drawn, confirmed, store[h].items) /\ ValidContent(source, store[h].items)
  BY DEF Holdings
<1>b. Held(source, drawn, confirmed, baseline)
  BY <1>0, <1>h, NothingIsHeld
\* A step of the person's: one draft more, what was held still is.
<1>1. ASSUME source' = source, store' = store, drawn' \in 0 .. MaxDrawn, drawn <= drawn', confirmed \subseteq confirmed',
             Held(source, drawn', confirmed', draft'.items),
             \A r \in saves' : r \in saves \/ Held(source, drawn, confirmed, r.items)
      PROVE  Holdings'
  <2>1. \A items : Held(source, drawn, confirmed, items) => Held(source, drawn', confirmed', items)
    BY <1>1, <1>h, HeldStays, DrawingIsBounded
  <2>2. \A r \in saves' : Held(source, drawn', confirmed', r.items)
    BY <1>1, <1>h, <2>1
  <2>3. \A h \in DOMAIN store : Held(source, drawn', confirmed', store[h].items) /\ ValidContent(source, store[h].items)
    BY <1>h, <2>1
  <2> QED BY <1>1, <2>2, <2>3 DEF Holdings
\* The same with nothing drawn and nothing confirmed.
<1>2. ASSUME source' = source, store' = store, drawn' = drawn, confirmed' = confirmed,
             Held(source, drawn, confirmed, draft'.items),
             \A r \in saves' : r \in saves \/ Held(source, drawn, confirmed, r.items)
      PROVE  Holdings'
  BY <1>2, <1>h, <1>1, DrawingIsBounded
\* One annotation more.
<1>3. ASSUME source' = source, drawn' = drawn, confirmed' = confirmed, draft' = draft,
             NEW x, store' = Append(store, x), Held(source, drawn, confirmed, x.items), ValidContent(source, x.items),
             \A r \in saves' : Held(source, drawn, confirmed, r.items)
      PROVE  Holdings'
  <2>1. PICK t : t = store'
    OBVIOUS
  <2>2. t = Append(store, x)
    BY <1>3, <2>1
  <2>3. DOMAIN t = DOMAIN store \cup {Len(t)} /\ t[Len(t)] = x /\ \A h \in DOMAIN store : t[h] = store[h]
    BY <1>0, <2>2, Appended
  <2>4. \A h \in DOMAIN t : Held(source, drawn, confirmed, t[h].items) /\ ValidContent(source, t[h].items)
    BY <1>3, <1>h, <2>3
  <2> QED BY <1>3, <1>h, <2>1, <2>4 DEF Holdings
<1>4. ASSUME PersonStep PROVE Holdings'
  <2>1. CASE NewAnnotation
    <3>1. draft'.items = << >> /\ UNCHANGED << source, store, saves, drawn, confirmed >>
      BY <2>1 DEF NewAnnotation, Show, LeaveServer, Empty
    <3> QED BY <3>1, <1>0, <1>2, NothingIsHeld
  <2>2. ASSUME NEW h \in DOMAIN store, LoadSaved(h) PROVE Holdings'
    <3>1. draft'.items = store[h].items /\ UNCHANGED << source, store, saves, drawn, confirmed >>
      BY <2>2 DEF LoadSaved, Show, LeaveServer, Persisted
    <3> QED BY <3>1, <1>h, <1>2
  <2>3. ASSUME NEW g \in Gestures, Draw(g) PROVE Holdings'
    <3>1. /\ drawn < MaxDrawn /\ drawn' = drawn + 1 /\ UNCHANGED << source, store, saves, confirmed >>
          /\ draft' = WithItem(NewItem(<< "drawn", drawn'>>, DrawnMark(g)))
      BY <2>3 DEF Draw, LeaveServer
    <3>2. PICK item : item = NewItem(<< "drawn", drawn + 1 >>, DrawnMark(g))
      OBVIOUS
    <3>3. IsItem(item) /\ item.state = "uninterpreted" /\ item.id = << "drawn", drawn + 1 >>
      BY <3>2 DEF NewItem, IsItem
    <3>4. PICK save : draft' = [draft EXCEPT !.items = Append(draft.items, item), !.selected = item.id, !.dirty = TRUE,
                                             !.save = save]
      BY <3>1, <3>2 DEF WithItem
    <3>5. PICK t : t = Append(draft.items, item)
      OBVIOUS
    <3>6. draft'.items = t
      BY <3>4, <3>5, <1>0
    <3>7. \A i \in ItemsOf(draft.items) : i.id # item.id
      <4> SUFFICES ASSUME NEW i \in ItemsOf(draft.items), i.id = << "drawn", drawn + 1 >> PROVE FALSE
        BY <3>3
      <4>1. drawn + 1 \in 1 .. MaxDrawn
        BY <1>h, <3>1, DrawingIsBounded
      <4>2. drawn + 1 <= drawn
        BY <1>h, <4>1 DEF Held, DrawnBefore
      <4> QED BY <4>2, <1>h, DrawingIsBounded
    <3>8. AsAuthored(source, t) /\ ItemsOf(t) = ItemsOf(draft.items) \cup {item}
      BY <1>0, <1>h, <3>3, <3>5, <3>7, DrawnKeeps DEF Held
    <3>9. drawn' \in 0 .. MaxDrawn /\ drawn <= drawn'
      BY <1>h, <3>1, DrawingIsBounded
    <3>10. DrawnBefore(t, drawn')
      <4> SUFFICES ASSUME NEW i \in ItemsOf(t), NEW k \in 1 .. MaxDrawn, i.id = << "drawn", k >> PROVE k <= drawn'
        BY DEF DrawnBefore
      <4>1. CASE i \in ItemsOf(draft.items)
        <5>1. k <= drawn
          BY <4>1, <1>h DEF Held, DrawnBefore
        <5>2. drawn \in Nat /\ drawn' \in Nat /\ k \in Nat
          BY <3>9, <1>h, DrawingIsBounded
        <5> QED BY <5>1, <5>2, <3>9
      <4>2. CASE i = item
        <5>1. k = drawn + 1
          BY <4>2, <3>3
        <5> QED BY <5>1, <3>1, <1>h, DrawingIsBounded
      <4> QED BY <4>1, <4>2, <3>8
    <3>11. ConfirmedIn(t) \subseteq confirmed
      BY <1>h, <3>3, <3>8 DEF Held, ConfirmedIn
    <3>12. Held(source, drawn', confirmed', draft'.items)
      BY <3>1, <3>6, <3>8, <3>10, <3>11 DEF Held
    <3> QED BY <3>1, <3>9, <3>12, <1>1
  <2>4. ASSUME NEW id, Select(id) PROVE Holdings'
    <3>1. draft'.items = draft.items /\ UNCHANGED << source, store, saves, drawn, confirmed >>
      BY <2>4, <1>0 DEF Select, LeaveServer
    <3> QED BY <3>1, <1>h, <1>2
  <2>5. ASSUME NEW id \in IdsOf(draft.items), NEW edited, Edit(id, edited),
               Sensible(draft.items, ItemOf(draft.items, id), edited)
        PROVE  Holdings'
    <3>1. PICK t : draft'.items = t /\ Authored(t) /\ ConfirmedIn(t) \subseteq ConfirmedIn(draft.items)
      BY <2>5, <1>0, <1>h, EditsKeep DEF Held, Authored
    <3>2. UNCHANGED << source, store, saves, drawn, confirmed >>
      BY <2>5 DEF Edit, LeaveServer
    <3>3. Held(source, drawn, confirmed, t)
      BY <3>1, <1>h DEF Held, Authored
    <3> QED BY <3>1, <3>2, <3>3, <1>2
  <2>6. Authored(draft.items)
    BY <1>h DEF Held, Authored
  <2>7. ASSUME NEW id \in IdsOf(draft.items), NEW d \in Moves, Move(id, d) PROVE Holdings'
    <3>1. PICK edited : Edit(id, edited) /\ Sensible(draft.items, ItemOf(draft.items, id), edited)
      BY <1>0, <2>6, <2>7, PersonEdits
    <3> QED BY <3>1, <2>5
  <2>8. ASSUME NEW length, EditNote(length) PROVE Holdings'
    <3>1. PICK edited : Edit(draft.selected, edited) /\ Sensible(draft.items, Selected, edited)
      BY <1>0, <2>6, <2>8, PersonEdits
    <3>2. draft.selected \in IdsOf(draft.items)
      BY <2>8 DEF EditNote, HasSelected
    <3> QED BY <3>1, <3>2, <2>5 DEF Selected
  <2>9. ASSUME NEW assoc, Associate(assoc) PROVE Holdings'
    <3>1. PICK edited : Edit(draft.selected, edited) /\ Sensible(draft.items, Selected, edited)
      BY <1>0, <2>6, <2>9, PersonEdits
    <3>2. draft.selected \in IdsOf(draft.items)
      BY <2>9 DEF Associate, HasSelected
    <3> QED BY <3>1, <3>2, <2>5 DEF Selected
  <2>10. ASSUME NEW form \in Forms[source.kind], SetIntent(form) PROVE Holdings'
    <3>1. PICK edited : Edit(draft.selected, edited) /\ Sensible(draft.items, Selected, edited)
      BY <1>0, <2>6, <2>10, PersonEdits
    <3>2. draft.selected \in IdsOf(draft.items)
      BY <2>10 DEF SetIntent, HasSelected
    <3> QED BY <3>1, <3>2, <2>5 DEF Selected
  <2>11. CASE Confirm
    <3>1. PICK old : old = Selected
      OBVIOUS
    <3>2. draft.selected \in IdsOf(draft.items) /\ old.state = "candidate"
      BY <2>11, <3>1 DEF Confirm, HasSelected
    <3>3. AsAuthored(source, draft.items) /\ DrawnBefore(draft.items, drawn) /\ ConfirmedIn(draft.items) \subseteq confirmed
      BY <1>h DEF Held
    <3>4. old \in ItemsOf(draft.items) /\ old.id = draft.selected
      BY <3>1, <3>2, FoundItem DEF Selected
    <3>5. Built(source, old) /\ IsItem(old)
      BY <3>3, <3>4, Items
    <3>6. PICK x : x = [old EXCEPT !.state = "confirmed"]
      OBVIOUS
    <3>7. IsItem(x) /\ x.id = old.id /\ x.state = "confirmed" /\ x.intent = old.intent /\ Meaning(x) = Meaning(old)
      BY <3>5, <3>6 DEF IsItem, Meaning
    <3>8. Built(source, x) /\ (CreatesRegion(x) => CreatesRegion(old) /\ x.intent.region = old.intent.region)
      BY <3>2, <3>5, <3>7 DEF Built, CreatesRegion, ProposesRegion
    <3>9. PICK t : t = [i \in DOMAIN draft.items |-> IF draft.items[i].id = old.id THEN x ELSE draft.items[i]]
      OBVIOUS
    <3>10. AsAuthored(source, t) /\ \A j \in ItemsOf(t) : j = x \/ (j \in ItemsOf(draft.items) /\ j.id # old.id)
      BY <1>0, <3>3, <3>4, <3>7, <3>8, <3>9, ReplacedKeeps
    <3>11. /\ draft' = [draft EXCEPT !.items = t, !.dirty = TRUE]
           /\ confirmed' = confirmed \cup {Meaning(old)} /\ UNCHANGED << source, store, saves, drawn >>
      BY <2>11, <3>1, <3>2, <3>4, <3>6, <3>9 DEF Confirm, Replaced, Confirmed, LeaveServer
    <3>12. draft'.items = t
      BY <3>11, <1>0
    <3>13. DrawnBefore(t, drawn)
      BY <3>3, <3>4, <3>7, <3>10 DEF DrawnBefore
    <3>14. ConfirmedIn(t) \subseteq confirmed'
      BY <3>3, <3>7, <3>10, <3>11 DEF ConfirmedIn
    <3>15. Held(source, drawn', confirmed', draft'.items)
      BY <3>10, <3>11, <3>12, <3>13, <3>14 DEF Held
    <3>16. drawn' \in 0 .. MaxDrawn /\ drawn <= drawn' /\ confirmed \subseteq confirmed'
      BY <3>11, <1>h, DrawingIsBounded
    <3> QED BY <3>11, <3>15, <3>16, <1>1
  <2>12. CASE DeleteSelected
    <3>1. PICK n \in DOMAIN draft.items :
              draft' = [draft EXCEPT !.items = RemoveAt(draft.items, n), !.selected = None, !.dirty = TRUE]
      BY <2>12 DEF DeleteSelected
    <3>2. UNCHANGED << source, store, saves, drawn, confirmed >>
      BY <2>12 DEF DeleteSelected, LeaveServer
    <3>3. PICK t : t = RemoveAt(draft.items, n)
      OBVIOUS
    <3>4. draft'.items = t
      BY <3>1, <3>3, <1>0
    <3>5. AsAuthored(source, t) /\ ItemsOf(t) \subseteq ItemsOf(draft.items)
      BY <1>0, <1>h, <3>3, DeletedKeeps DEF Held
    <3>6. Held(source, drawn, confirmed, t)
      BY <1>h, <3>5 DEF Held, DrawnBefore, ConfirmedIn
    <3> QED BY <3>2, <3>4, <3>6, <1>2
  <2>13. CASE CancelChanges
    <3>1. draft'.items = baseline /\ UNCHANGED << source, store, saves, drawn, confirmed >>
      BY <2>13, <1>0 DEF CancelChanges, LeaveServer
    <3> QED BY <3>1, <1>b, <1>2
  <2>14. CASE Save
    <3>1. draft'.items = draft.items /\ UNCHANGED << source, store, drawn, confirmed >>
      BY <2>14, <1>0 DEF Save
    <3>2. \A r \in saves' : r \in saves \/ r.items = draft.items
      BY <2>14 DEF Save
    <3> QED BY <3>1, <3>2, <1>h, <1>2
  <2>15. ASSUME NEW ids, Use(ids) PROVE Holdings'
    <3>1. UNCHANGED << source, draft, store, saves, drawn, confirmed >>
      BY <2>15 DEF Use
    <3> QED BY <3>1, <1>h, <1>2
  <2> QED
    BY <1>4, <2>1, <2>2, <2>3, <2>4, <2>7, <2>8, <2>9, <2>10, <2>11, <2>12, <2>13, <2>14, <2>15
    DEF PersonStep
<1>5. ASSUME NEW r \in saves, NEW answer, NEW q, q = Answered(r, answer) PROVE q.items = r.items
  BY <1>5, <1>s DEF Answered
<1>6. ASSUME NEW r \in saves, ServerSave(r) PROVE Holdings'
  <2>1. PICK x : x = [parent |-> r.parent, items |-> r.items]
    OBVIOUS
  <2>2. /\ source' = source /\ draft' = draft /\ drawn' = drawn /\ confirmed' = confirmed
        /\ store' = Append(store, x) /\ x.items = r.items /\ ValidContent(source, r.items)
    BY <1>6, <2>1 DEF ServerSave, client, Accepts
  <2>3. \A q \in saves' : q \in saves \/ q.items = r.items
    BY <1>6, <1>5 DEF ServerSave
  <2> QED BY <2>2, <2>3, <1>h, <1>3
<1>7. ASSUME NEW r \in saves, SaveRefused(r) PROVE Holdings'
  <2>1. UNCHANGED << source, draft, store, drawn, confirmed >>
    BY <1>7 DEF SaveRefused, client
  <2>2. \A q \in saves' : q \in saves \/ q.items = r.items
    BY <1>7, <1>5 DEF SaveRefused
  <2> QED BY <2>1, <2>2, <1>h, <1>2
<1>8. ASSUME NEW r \in saves, SaveAnswered(r) PROVE Holdings'
  <2>1. /\ draft' = [Persisted(r.answer) EXCEPT !.save = "saved"]
        /\ UNCHANGED << source, store, drawn, confirmed >> /\ saves' = saves \ {r}
    BY <1>8 DEF SaveAnswered, Show
  <2>2. r.answer \in DOMAIN store
    BY <1>8, <1>s DEF SaveAnswered
  <2>3. draft'.items = store[r.answer].items
    BY <2>1 DEF Persisted
  <2> QED BY <2>1, <2>2, <2>3, <1>h, <1>2
<1>9. ASSUME NEW r \in saves, SaveFailed(r) PROVE Holdings'
  <2>1. draft'.items = draft.items /\ UNCHANGED << source, store, drawn, confirmed >> /\ saves' = saves \ {r}
    BY <1>9, <1>0 DEF SaveFailed
  <2> QED BY <2>1, <1>h, <1>2
<1>10. ASSUME NEW q \in uses, ServerUse(q) \/ UseRefused(q) \/ UseAnswered(q) PROVE Holdings'
  <2>1. UNCHANGED << source, draft, store, saves, drawn, confirmed >>
    BY <1>10 DEF ServerUse, UseRefused, UseAnswered, client
  <2> QED BY <2>1, <1>h, <1>2
<1>11. ASSUME NEW h \in DOMAIN store, RevisedElsewhere(h) PROVE Holdings'
  <2>1. PICK x : x = [parent |-> h, items |-> store[h].items]
    OBVIOUS
  <2>2. /\ source' = source /\ draft' = draft /\ drawn' = drawn /\ confirmed' = confirmed /\ saves' = saves
        /\ store' = Append(store, x) /\ x.items = store[h].items
    BY <1>11, <2>1 DEF RevisedElsewhere, client
  <2> QED BY <2>2, <1>h, <1>3
<1>12. CASE UNCHANGED vars
  <2>1. UNCHANGED << source, draft, store, saves, drawn, confirmed >>
    BY <1>12 DEF vars, client
  <2> QED BY <2>1, <1>h, <1>2
<1> QED BY <1>4, <1>6, <1>7, <1>8, <1>9, <1>10, <1>11, <1>12 DEF Next, AnswerStep

-----------------------------------------------------------------------------
(* What the panel offers                                                   *)

\* The invariant: handles and contents together.
THEOREM WorkspaceIsSound == Spec => []IInv
<1>1. Init => IInv
  BY HandlesInit, HoldingsInit, HoldingsAre DEF IInv
<1>2. IInv /\ [Next]_vars => IInv'
  <2> SUFFICES ASSUME IInv, [Next]_vars PROVE IInv'
    OBVIOUS
  <2>1. Handles /\ CleanMeansSaved /\ Holdings
    BY HoldingsAre DEF IInv
  <2>2. Handles' /\ CleanMeansSaved' /\ Holdings'
    BY <2>1, HandlesKept, HoldingsKept
  <2>3. Handles' => (Holdings' <=> Contents' /\ ConfirmedMeaningStands')
    BY HoldingsAre, PTL
  <2> QED BY <2>2, <2>3 DEF IInv
<1> QED BY <1>1, <1>2, PTL DEF Spec

\* A draft the panel does not call unsaved is exactly the annotation it
\* revises, or empty, however saves, loads, cancels and late answers cross.
THEOREM CleanIsSaved == Spec => []CleanMeansSaved
<1>1. IInv => CleanMeansSaved
  BY DEF IInv
<1> QED BY <1>1, WorkspaceIsSound, PTL

\* Wherever an item stands as confirmed, somebody confirmed that item with that
\* mark, that association and that intent.
THEOREM ConfirmationStands == Spec => []ConfirmedMeaningStands
<1>1. IInv => ConfirmedMeaningStands
  BY DEF IInv
<1> QED BY <1>1, WorkspaceIsSound, PTL

\* What the panel calls promotable is what may become a clause.
LEMMA PromotableMayPromote ==
    ASSUME NEW s, s.kind = "runtime-observation", NEW i, Built(s, i), ValidItem(s, i), Promotable(i)
    PROVE  MayPromote(i)
<1>1. /\ i.state = "confirmed" /\ i.intent.kind = "change" /\ i.intent.operation # "remove"
      /\ i.intent.primitive # None /\ i.assoc # None /\ Reconciled(i) = i /\ IsItem(i)
  BY DEF Promotable, Built
<1>2. BuiltChange(i.intent)
  BY <1>1 DEF Built
<1>3. /\ i.intent = [kind |-> "change", operation |-> i.intent.operation, category |-> i.intent.category,
                     mode |-> i.intent.mode, primitive |-> i.intent.primitive]
      /\ BuiltPrimitive(i.intent.operation, i.intent.primitive)
  BY <1>2 DEF BuiltChange
<1>4. ValidIntent(s, i.intent)
  BY <1>1 DEF ValidItem
<1>5. i.intent.operation \in {"move", "resize", "preserve"} /\ ValidPrimitive(i.intent.primitive)
  BY <1>1, <1>4 DEF ValidIntent
<1>6. StillFits(i.intent, i.assoc)
  <2> SUFFICES ASSUME ~ StillFits(i.intent, i.assoc) PROVE FALSE
    OBVIOUS
  <2>1. Reconciled(i) = Uninterpreted(i)
    BY <1>1 DEF Reconciled
  <2>2. Uninterpreted(i).state = "uninterpreted"
    BY <1>1 DEF Uninterpreted, IsItem
  <2> QED BY <1>1, <2>1, <2>2
<1>7. PICK p : p = i.intent.primitive
  OBVIOUS
<1>8. CASE RuntimeTarget(i.assoc)
  <2>1. ~ RuntimeRelationship(i.assoc)
    BY <1>8 DEF RuntimeTarget, RuntimeRelationship
  <2>2. i = [i EXCEPT !.intent.primitive.a = i.assoc.target]
    BY <1>1, <1>6, <2>1 DEF Reconciled
  <2>3. i.intent.operation = "preserve" => p.kind = "property-unchanged"
    BY <1>5, <1>6, <1>7, <2>1 DEF StillFits
  <2>4. "a" \in DOMAIN p
    <3>1. CASE i.intent.operation \in {"move", "resize"}
      <4>1. p = [kind |-> p.kind, a |-> p.a, property |-> p.property, minimum |-> None]
        BY <1>3, <1>7, <3>1 DEF BuiltPrimitive
      <4> QED BY <4>1
    <3>2. CASE i.intent.operation = "preserve"
      <4>1. p = [kind |-> p.kind, a |-> p.a, property |-> p.property, tolerance |-> p.tolerance]
        BY <1>3, <1>7, <2>3, <3>2 DEF BuiltPrimitive
      <4> QED BY <4>1
    <3> QED BY <1>5, <3>1, <3>2
  <2>5. p.a = i.assoc.target
    <3>1. PICK t : t = i.assoc.target
      OBVIOUS
    <3>2. PICK q : q = [p EXCEPT !.a = t]
      OBVIOUS
    <3>3. q.a = t
      BY <2>4, <3>2
    <3>4. PICK intent : intent = [i.intent EXCEPT !.primitive = q]
      OBVIOUS
    <3>5. intent.primitive = q
      BY <1>3, <3>4
    <3>6. i = [i EXCEPT !.intent = intent]
      BY <2>2, <3>1, <3>2, <3>4, <1>7
    <3>7. i.intent = intent
      BY <1>1, <3>6 DEF IsItem
    <3> QED BY <1>7, <3>1, <3>3, <3>5, <3>7
  <2>6. i.intent.operation \in {"move", "resize"} =>
            /\ p.kind \in {"property-increases", "property-decreases"} /\ p.minimum = None
            /\ p.property \in IF i.intent.operation = "move" THEN {"x", "y"} ELSE {"width", "height"}
    BY <1>3, <1>7 DEF BuiltPrimitive
  <2>7. i.intent.operation = "preserve" => p.property \in Properties
    BY <1>5, <1>7, <2>3 DEF ValidPrimitive, IsPrimitive, Directional
  <2>8. i.assoc.kind = "runtime-target"
    BY <1>8 DEF RuntimeTarget
  <2>9. MatchesAssociation(i.intent.operation, p, i.assoc)
    BY <1>5, <2>3, <2>5, <2>6, <2>7, <2>8 DEF MatchesAssociation
  <2> QED BY <1>1, <1>5, <1>7, <2>8, <2>9 DEF MayPromote
<1>9. CASE ~ RuntimeTarget(i.assoc)
  <2>1. i.intent.operation = "preserve" /\ RuntimeRelationship(i.assoc)
    BY <1>5, <1>6, <1>9 DEF StillFits
  <2>2. i = [i EXCEPT !.intent.primitive = RelationshipPrimitive(i.assoc)]
    BY <1>1, <1>6, <2>1 DEF Reconciled
  <2>3. p = RelationshipPrimitive(i.assoc)
    <3>1. PICK q : q = RelationshipPrimitive(i.assoc)
      OBVIOUS
    <3>2. PICK intent : intent = [i.intent EXCEPT !.primitive = q]
      OBVIOUS
    <3>3. intent.primitive = q
      BY <1>3, <3>2
    <3>4. i = [i EXCEPT !.intent = intent]
      BY <2>2, <3>1, <3>2
    <3>5. i.intent = intent
      BY <1>1, <3>4 DEF IsItem
    <3> QED BY <1>7, <3>1, <3>3, <3>5
  <2>4. i.assoc.kind = "runtime-relationship"
    BY <2>1 DEF RuntimeRelationship
  <2>5. MatchesAssociation(i.intent.operation, p, i.assoc)
    BY <2>1, <2>3, <2>4 DEF MatchesAssociation
  <2> QED BY <1>1, <1>5, <1>7, <2>4, <2>5 DEF MayPromote
<1> QED BY <1>8, <1>9

\* A selection of an annotation's items is no larger than an annotation.
LEMMA SelectionIsBounded ==
    ASSUME NEW s, NEW items, AsAuthored(s, items), Len(items) <= MaxItems, NEW ids, ids \subseteq IdsOf(items), ids # {}
    PROVE  IsFiniteSet(ids) /\ Cardinality(ids) \in 1 .. MaxItems
<1> DEFINE f == [n \in DOMAIN items |-> items[n].id]
<1>1. Len(items) \in Nat /\ DOMAIN items = 1 .. Len(items)
  BY Items
<1>2. IsFiniteSet(DOMAIN items) /\ Cardinality(DOMAIN items) <= MaxItems
  <2>1. PICK len : len = Len(items)
    OBVIOUS
  <2>0. 1 \in Int /\ len \in Int
    BY <1>1, <2>1
  <2>2. IsFiniteSet(1 .. len) /\ Cardinality(1 .. len) = IF 1 > len THEN 0 ELSE len - 1 + 1
    BY <2>0, FS_Interval, Zenon
  <2> QED BY <1>1, <2>1, <2>2, AnnotationBounds
<1>3. f \in Surjection(DOMAIN items, IdsOf(items))
  <2>1. f \in [DOMAIN items -> IdsOf(items)]
    BY DEF IdsOf
  <2>2. \A y \in IdsOf(items) : \E n \in DOMAIN items : f[n] = y
    BY DEF IdsOf
  <2> HIDE DEF f
  <2> QED BY <2>1, <2>2 DEF Surjection
<1> QED
  <2> HIDE DEF f
  <2>1. IsFiniteSet(IdsOf(items)) /\ Cardinality(IdsOf(items)) <= Cardinality(DOMAIN items)
    BY <1>2, <1>3, FS_Surjection
  <2>2. IsFiniteSet(ids) /\ Cardinality(ids) <= Cardinality(IdsOf(items))
    BY <2>1, FS_Subset
  <2>3. Cardinality(ids) \in Nat /\ Cardinality(ids) # 0 /\ Cardinality(DOMAIN items) \in Nat
        /\ Cardinality(IdsOf(items)) \in Nat
    BY <2>1, <2>2, <1>2, FS_CardinalityType, FS_EmptySet
  <2> QED BY <2>1, <2>2, <2>3, <1>2, AnnotationBounds

\* What the panel offers to promote of a sound draft, the server's plan takes.
LEMMA OfferedIsPromoted ==
    ASSUME source.kind = "runtime-observation", NEW items, AsAuthored(source, items), ValidContent(source, items),
           NEW ids, ids # {}, ids \subseteq {i.id : i \in {j \in ItemsOf(items) : Promotable(j)}}
    PROVE  PromotionAccepted(source, items, ids)
<1>1. ids \subseteq IdsOf(items)
  BY DEF IdsOf, ItemsOf
<1>2. Cardinality(ids) \in 1 .. MaxItems
  BY <1>1, SelectionIsBounded DEF ValidContent
<1>3. ASSUME NEW id \in ids PROVE \E n \in DOMAIN items : items[n].id = id /\ MayPromote(items[n])
  <2>1. PICK i \in ItemsOf(items) : i.id = id /\ Promotable(i)
    OBVIOUS
  <2>2. PICK n \in DOMAIN items : i = items[n]
    BY DEF ItemsOf
  <2>3. Built(source, i)
    BY Items
  <2>4. ValidItem(source, i)
    BY <2>2 DEF ValidContent
  <2>5. MayPromote(i)
    BY <2>1, <2>3, <2>4, PromotableMayPromote
  <2> QED BY <2>1, <2>2, <2>5
<1> QED BY <1>2, <1>3 DEF PromotionAccepted

-----------------------------------------------------------------------------
(* Materializing                                                           *)

\* The items a selection names, of the two kinds that materialize.
LEMMA ChosenItems ==
    ASSUME NEW s, NEW items, AsAuthored(s, items), ValidContent(s, items),
           NEW ids, ids \subseteq {i.id : i \in {j \in ItemsOf(items) : Materializable(j)}},
           NEW kind, NEW i \in Chosen(items, ids, kind)
    PROVE  /\ i \in ItemsOf(items) /\ i.id \in ids /\ i.intent.kind = kind /\ i.state = "confirmed"
           /\ Built(s, i) /\ ValidIntent(s, i.intent)
<1>1. PICK n \in DOMAIN items : i = items[n] /\ items[n].id \in ids /\ items[n].intent.kind = kind
  BY DEF Chosen
<1>2. i \in ItemsOf(items) /\ Built(s, i)
  BY <1>1, Items DEF ItemsOf
<1>3. PICK j \in ItemsOf(items) : j.id = i.id /\ Materializable(j)
  BY <1>1
<1>4. j = i
  BY <1>2, <1>3, Items
<1>5. i.state = "confirmed" /\ ValidItem(s, i)
  BY <1>1, <1>3, <1>4 DEF Materializable, ValidContent
<1>6. ValidIntent(s, i.intent)
  BY <1>5 DEF ValidItem
<1> QED BY <1>1, <1>2, <1>5, <1>6

\* A region chosen to be materialized lies in the picture and has area.
LEMMA ChosenRegion ==
    ASSUME NEW s, NEW items, AsAuthored(s, items), ValidContent(s, items),
           NEW ids, ids \subseteq {i.id : i \in {j \in ItemsOf(items) : Materializable(j)}},
           NEW i \in Chosen(items, ids, "reference-region")
    PROVE  /\ ProposesRegion(i) /\ BuiltRegion(s.regions, i.intent)
           /\ LET r == i.intent.rect
              IN /\ r.x >= 0 /\ r.y >= 0 /\ r.width > 0 /\ r.height > 0
                 /\ Right(r) <= s.frame.width /\ Bottom(r) <= s.frame.height
<1>1. i.intent.kind = "reference-region" /\ i.state = "confirmed" /\ Built(s, i) /\ ValidIntent(s, i.intent)
  BY ChosenItems
<1>2. ProposesRegion(i) /\ BuiltRegion(s.regions, i.intent)
  BY <1>1 DEF ProposesRegion, Built
<1>3. ValidRegions([n \in {i.intent.region} |-> i.intent.rect], s.frame)
  BY <1>1 DEF ValidIntent
<1>4. PICK regions : regions = [n \in {i.intent.region} |-> i.intent.rect]
  OBVIOUS
<1>5. i.intent.region \in DOMAIN regions /\ regions[i.intent.region] = i.intent.rect
  BY <1>4
<1> QED BY <1>2, <1>3, <1>4, <1>5 DEF ValidRegions

\* The regions of a revision: where a name of the reference stands, what it had
\* or what refines it, and beside it what is created.
LEMMA FinalRectangles ==
    ASSUME source \in Sources, source.kind = "external-reference",
           NEW items, AsAuthored(source, items), ValidContent(source, items),
           NEW ids, ids \subseteq {i.id : i \in {j \in ItemsOf(items) : Materializable(j)}},
           NEW final, final = FinalRegions(source.regions, items, ids), NEW n \in DOMAIN final
    PROVE  \/ n \in DOMAIN source.regions /\ final[n] = source.regions[n]
           \/ \E i \in Chosen(items, ids, "reference-region") : final[n] = i.intent.rect
<1> DEFINE refining == ChosenRegions(items, ids, "refine")
           creating == ChosenRegions(items, ids, "create")
           regions == source.regions
           Proposed(chosen, name) == (CHOOSE i \in chosen : SameName(i.intent.region, name)).intent.rect
           Named(chosen, name) == \E i \in chosen : SameName(i.intent.region, name)
<1>1. final = [m \in DOMAIN regions \cup {i.intent.region : i \in creating} |->
                 IF m \in DOMAIN regions
                 THEN IF Named(refining, m) THEN Proposed(refining, m) ELSE regions[m]
                 ELSE Proposed(creating, m)]
  BY DEF FinalRegions
<1>2. refining \subseteq Chosen(items, ids, "reference-region") /\ creating \subseteq Chosen(items, ids, "reference-region")
  BY DEF ChosenRegions
<1>3. \A m : Named(refining, m) => \E i \in refining : Proposed(refining, m) = i.intent.rect
  OBVIOUS
<1>4. \A m \in {i.intent.region : i \in creating} : Named(creating, m)
  BY DEF SameName
<1>5. \A m \in {i.intent.region : i \in creating} : \E i \in creating : Proposed(creating, m) = i.intent.rect
  <2> SUFFICES ASSUME NEW m \in {i.intent.region : i \in creating} PROVE \E i \in creating : Proposed(creating, m) = i.intent.rect
    OBVIOUS
  <2>1. Named(creating, m)
    BY <1>4
  <2> HIDE DEF creating
  <2> QED BY <2>1
<1>6. DOMAIN final = DOMAIN regions \cup {i.intent.region : i \in creating}
  <2> HIDE DEF refining, creating, regions, Proposed, Named
  <2> QED BY <1>1
<1> QED
  <2> HIDE DEF refining, creating, Proposed, Named
  <2>1. CASE n \in DOMAIN regions /\ Named(refining, n)
    <3>1. final[n] = Proposed(refining, n)
      BY <1>1, <1>6, <2>1
    <3> QED BY <3>1, <2>1, <1>2, <1>3
  <2>2. CASE n \in DOMAIN regions /\ ~ Named(refining, n)
    BY <1>1, <1>6, <2>2
  <2>3. CASE n \notin DOMAIN regions
    <3>1. final[n] = Proposed(creating, n) /\ n \in {i.intent.region : i \in creating}
      BY <1>1, <1>6, <2>3
    <3> QED BY <3>1, <1>2, <1>5
  <2> QED BY <2>1, <2>2, <2>3

\* A region to be created is not known yet.
LEMMA CreatedRegion ==
    ASSUME NEW s, NEW items, AsAuthored(s, items), ValidContent(s, items),
           NEW ids, ids \subseteq {i.id : i \in {j \in ItemsOf(items) : Materializable(j)}},
           NEW i \in ChosenRegions(items, ids, "create")
    PROVE  i \in Creating(ItemsOf(items)) /\ ~ Known(s.regions, i.intent.region)
<1>1. i \in Chosen(items, ids, "reference-region") /\ i.intent.mode = "create"
  BY DEF ChosenRegions
<1>2. i \in ItemsOf(items)
  BY <1>1, ChosenItems
<1>3. ProposesRegion(i) /\ BuiltRegion(s.regions, i.intent)
  BY <1>1, ChosenRegion
<1> QED BY <1>1, <1>2, <1>3 DEF Creating, CreatesRegion, BuiltRegion

\* Whatever is selected, the regions of the new revision are valid.
LEMMA FinalRegionsAreValid ==
    ASSUME source \in Sources, source.kind = "external-reference",
           NEW items, AsAuthored(source, items), ValidContent(source, items),
           NEW ids, ids \subseteq {i.id : i \in {j \in ItemsOf(items) : Materializable(j)}},
           NEW final, final = FinalRegions(source.regions, items, ids)
    PROVE  ValidRegions(final, source.frame)
<1> DEFINE creating == ChosenRegions(items, ids, "create")
           created == {i.intent.region : i \in creating}
           lowers == {Lower(i.intent.region) : i \in Creating(ItemsOf(items))}
           f == [n \in created |-> Lower(n)]
<1>1. /\ DOMAIN final = DOMAIN source.regions \cup created
      /\ \A n \in DOMAIN final :
            \/ n \in DOMAIN source.regions /\ final[n] = source.regions[n]
            \/ \E i \in Chosen(items, ids, "reference-region") : final[n] = i.intent.rect
  <2>1. DOMAIN final = DOMAIN source.regions \cup {i.intent.region : i \in ChosenRegions(items, ids, "create")}
    BY DEF FinalRegions
  <2>2. ASSUME NEW n \in DOMAIN final
        PROVE  \/ n \in DOMAIN source.regions /\ final[n] = source.regions[n]
               \/ \E i \in Chosen(items, ids, "reference-region") : final[n] = i.intent.rect
    BY FinalRectangles, SMTT(30)
  <2> QED BY <2>1, <2>2
<1>2. IsFiniteSet(DOMAIN source.regions) /\ ValidRegions(source.regions, source.frame)
  BY SourcesAreValid
<1>3. \A i \in creating : i \in Creating(ItemsOf(items)) /\ ~ Known(source.regions, i.intent.region)
  BY CreatedRegion
<1>4. \A m, n \in created : SameName(m, n) => m = n
  <2> SUFFICES ASSUME NEW i \in creating, NEW j \in creating, SameName(i.intent.region, j.intent.region)
               PROVE  i.intent.region = j.intent.region
    OBVIOUS
  <2>1. i.id = j.id
    BY <1>3 DEF AsAuthored
  <2>2. i = j
    BY <1>3, <2>1, Items DEF Creating
  <2> QED BY <2>2
<1>5. \A m, n \in DOMAIN final : SameName(m, n) => m = n
  <2> SUFFICES ASSUME NEW m \in DOMAIN final, NEW n \in DOMAIN final, SameName(m, n) PROVE m = n
    OBVIOUS
  <2>1. \A k \in created : \A l \in DOMAIN source.regions : ~ SameName(l, k)
    BY <1>3 DEF Known
  <2>2. SameName(n, m)
    BY DEF SameName
  <2>3. CASE m \in DOMAIN source.regions /\ n \in DOMAIN source.regions
    BY <2>3, <1>2 DEF ValidRegions
  <2>4. CASE m \in created /\ n \in created
    BY <2>4, <1>4
  <2> HIDE DEF created
  <2> QED BY <1>1, <2>1, <2>2, <2>3, <2>4
<1>6. ASSUME NEW n \in DOMAIN final
      PROVE  LET r == final[n]
             IN /\ r.x >= 0 /\ r.y >= 0 /\ r.width > 0 /\ r.height > 0
                /\ Right(r) <= source.frame.width /\ Bottom(r) <= source.frame.height
  <2>1. CASE n \in DOMAIN source.regions /\ final[n] = source.regions[n]
    BY <2>1, <1>2 DEF ValidRegions
  <2>2. ASSUME NEW i \in Chosen(items, ids, "reference-region"), final[n] = i.intent.rect
        PROVE  LET r == final[n]
               IN /\ r.x >= 0 /\ r.y >= 0 /\ r.width > 0 /\ r.height > 0
                  /\ Right(r) <= source.frame.width /\ Bottom(r) <= source.frame.height
    BY <2>2, ChosenRegion
  <2> QED BY <1>1, <2>1, <2>2
<1>7. IsFiniteSet(created) /\ Cardinality(created) <= Cardinality(lowers) /\ IsFiniteSet(lowers)
  <2>1. IsFiniteSet(lowers)
    BY NamesAreFinite
  <2>2. \A n \in created : Lower(n) \in lowers
    BY <1>3
  <2>3. f \in [created -> lowers]
    BY <2>2
  <2>4. \A m, n \in created : f[m] = f[n] => m = n
    BY <1>4 DEF SameName
  <2> HIDE DEF f, created, lowers
  <2>5. f \in Injection(created, lowers)
    BY <2>3, <2>4 DEF Injection, IsInjective
  <2> QED BY <2>1, <2>5, FS_Injection
<1>8. Cardinality(DOMAIN source.regions) + Cardinality(lowers) <= MaxRegions
  BY DEF AsAuthored
<1>9. Cardinality(DOMAIN final) <= MaxRegions
  <2> HIDE DEF created, lowers
  <2>1. PICK regions : regions = DOMAIN source.regions
    OBVIOUS
  <2>2. /\ IsFiniteSet(regions \cup created)
        /\ Cardinality(regions \cup created) = Cardinality(regions) + Cardinality(created) - Cardinality(regions \cap created)
    BY <1>2, <1>7, <2>1, FS_Union
  <2>3. /\ Cardinality(regions) \in Nat /\ Cardinality(created) \in Nat /\ Cardinality(lowers) \in Nat
        /\ Cardinality(regions \cap created) \in Nat
    BY <1>2, <1>7, <2>1, FS_CardinalityType, FS_Intersection
  <2> QED BY <1>1, <1>7, <1>8, <2>1, <2>2, <2>3, ReferenceBounds
<1> QED BY <1>5, <1>6, <1>9 DEF ValidRegions

\* Of the regions a selection proposes, no two are of one name, and those that
\* refine one of the reference's are those that say so.
LEMMA SelectionComposes ==
    ASSUME source \in Sources, AsAuthored(source, draft.items), ValidContent(source, draft.items),
           NEW ids, ids \subseteq {i.id : i \in {j \in ItemsOf(draft.items) : Materializable(j)}}, Composable(ids)
    PROVE  RegionsCompose(source.regions, draft.items, ids)
<1> DEFINE proposing == Chosen(draft.items, ids, "reference-region")
<1>1. ASSUME NEW i \in proposing
      PROVE  /\ i \in ItemsOf(draft.items) /\ ProposesRegion(i) /\ BuiltRegion(source.regions, i.intent)
             /\ i.intent.mode \in {"create", "refine"} /\ (i.intent.mode = "refine" <=> Known(source.regions, i.intent.region))
  <2>1. i \in ItemsOf(draft.items)
    BY ChosenItems
  <2>2. ProposesRegion(i) /\ BuiltRegion(source.regions, i.intent)
    BY ChosenRegion
  <2> QED BY <2>1, <2>2 DEF BuiltRegion
<1>2. \A i, j \in proposing : i # j /\ i.intent.mode = "refine" => ~ SameName(i.intent.region, j.intent.region)
  BY DEF Composable
<1>3. \A m, n : SameName(m, n) => (Known(source.regions, m) <=> Known(source.regions, n)) /\ SameName(n, m)
  BY DEF Known, SameName
<1>4. ASSUME NEW i \in proposing, NEW j \in proposing, SameName(i.intent.region, j.intent.region) PROVE i = j
  <2>1. CASE i.intent.mode = "refine"
    BY <1>2, <1>4, <2>1
  <2>2. CASE j.intent.mode = "refine"
    BY <1>2, <1>3, <1>4, <2>2
  <2>3. CASE i.intent.mode = "create" /\ j.intent.mode = "create"
    <3>1. i \in Creating(ItemsOf(draft.items)) /\ j \in Creating(ItemsOf(draft.items))
      BY <1>1, <2>3 DEF Creating, CreatesRegion
    <3>2. i.id = j.id
      BY <1>4, <3>1 DEF AsAuthored
    <3> QED BY <1>1, <3>2, Items
  <2> QED BY <1>1, <2>1, <2>2, <2>3
<1> QED BY <1>1, <1>4 DEF RegionsCompose

\* Chosen items are finitely many.
LEMMA ChosenAreFinite ==
    ASSUME NEW s, NEW items, AsAuthored(s, items), NEW ids, NEW kind
    PROVE  IsFiniteSet(Chosen(items, ids, kind))
<1> DEFINE D == {n \in DOMAIN items : items[n].id \in ids /\ items[n].intent.kind = kind}
           f == [n \in D |-> items[n]]
<1>1. IsFiniteSet(D)
  <2>1. DOMAIN items = 1 .. Len(items) /\ Len(items) \in Nat
    BY Items
  <2>2. IsFiniteSet(1 .. Len(items))
    BY <2>1, FS_Interval
  <2> QED BY <2>1, <2>2, FS_Subset
<1>2. f \in Surjection(D, Chosen(items, ids, kind))
  <2>1. f \in [D -> Chosen(items, ids, kind)]
    BY DEF Chosen
  <2>2. \A y \in Chosen(items, ids, kind) : \E n \in D : f[n] = y
    BY DEF Chosen
  <2> HIDE DEF f, D
  <2> QED BY <2>1, <2>2 DEF Surjection
<1> QED
  <2> HIDE DEF f, D
  <2> QED BY <1>1, <1>2, FS_Surjection

\* A selected requirement as the revision has it.
AsSelected(i) ==
    [id |-> << "selected", i.id >>, category |-> i.intent.requirement.category, mode |-> i.intent.requirement.mode,
     subject |-> i.intent.requirement.subject, tolerance |-> i.intent.requirement.tolerance]
AsOwn(r) == [r EXCEPT !.id = << "own", r.id >>]

\* The requirements of a new reference: the source's own and the chosen ones.
LEMMA RequiredAre ==
    ASSUME NEW items, NEW ids
    PROVE  Required(source, items, ids) =
               {AsOwn(r) : r \in source.requirements}
               \cup {AsSelected(i) : i \in Chosen(items, ids, "reference-requirement")}
BY DEF Required, AsOwn, AsSelected

\* A requirement the source has is taken over field by field.
LEMMA OwnIs ==
    ASSUME source \in Sources, NEW r \in source.requirements
    PROVE  AsOwn(r) = [id |-> << "own", r.id >>, category |-> r.category, mode |-> r.mode,
                       subject |-> r.subject, tolerance |-> r.tolerance]
<1>1. r = [id |-> r.id, category |-> r.category, mode |-> r.mode, subject |-> r.subject, tolerance |-> r.tolerance]
  BY SourcesAreValid
<1> QED BY <1>1 DEF AsOwn

\* The requirements of a composable selection and the reference's own are not
\* more than a reference may have.
LEMMA RequiredFit ==
    ASSUME source \in Sources, AsAuthored(source, draft.items), NEW ids, Composable(ids)
    PROVE  Cardinality(Required(source, draft.items, ids)) <= MaxRequirements
<1> DEFINE chosen == Chosen(draft.items, ids, "reference-requirement")
           own == {AsOwn(r) : r \in source.requirements}
           selected == {AsSelected(i) : i \in chosen}
           asked == {i.requirement : i \in Intents(ids, "reference-requirement")}
           f == [r \in source.requirements |-> AsOwn(r)]
           g == [i \in chosen |-> AsSelected(i)]
<1>1. IsFiniteSet(source.requirements) /\ IsFiniteSet(chosen)
  BY SourcesAreValid, ChosenAreFinite
<1>2. Cardinality(asked) = Cardinality(chosen) /\ Cardinality(asked) + Cardinality(source.requirements) <= MaxRequirements
  BY DEF Composable
<1>3. f \in Surjection(source.requirements, own)
  <2>1. f \in [source.requirements -> own] /\ \A y \in own : \E r \in source.requirements : f[r] = y
    OBVIOUS
  <2> HIDE DEF f, own
  <2> QED BY <2>1 DEF Surjection
<1>4. g \in Surjection(chosen, selected)
  <2> HIDE DEF chosen
  <2>1. g \in [chosen -> selected] /\ \A y \in selected : \E i \in chosen : g[i] = y
    OBVIOUS
  <2> HIDE DEF g, selected
  <2> QED BY <2>1 DEF Surjection
<1>5. Required(source, draft.items, ids) = own \cup selected
  BY RequiredAre
<1> QED
  <2> HIDE DEF f, g, own, selected, chosen, asked
  <2>1. IsFiniteSet(own) /\ Cardinality(own) <= Cardinality(source.requirements)
    BY <1>1, <1>3, FS_Surjection
  <2>2. IsFiniteSet(selected) /\ Cardinality(selected) <= Cardinality(chosen)
    BY <1>1, <1>4, FS_Surjection
  <2>3. Cardinality(own \cup selected) = Cardinality(own) + Cardinality(selected) - Cardinality(own \cap selected)
    BY <2>1, <2>2, FS_Union
  <2>4. /\ Cardinality(own) \in Nat /\ Cardinality(selected) \in Nat /\ Cardinality(own \cap selected) \in Nat
        /\ Cardinality(source.requirements) \in Nat /\ Cardinality(chosen) \in Nat
    BY <1>1, <2>1, <2>2, FS_CardinalityType, FS_Intersection
  <2> QED BY <1>2, <1>5, <2>1, <2>2, <2>3, <2>4, ReferenceBounds

\* No two selected items ask the same: there are as many requirements as items.
LEMMA AskedApart ==
    ASSUME AsAuthored(source, draft.items), NEW ids, Composable(ids),
           NEW i \in Chosen(draft.items, ids, "reference-requirement"),
           NEW j \in Chosen(draft.items, ids, "reference-requirement"), i.intent.requirement = j.intent.requirement
    PROVE  i = j
<1> DEFINE chosen == Chosen(draft.items, ids, "reference-requirement")
           asked == {k.requirement : k \in Intents(ids, "reference-requirement")}
           f == [k \in chosen |-> k.intent.requirement]
<1>1. IsFiniteSet(chosen) /\ Cardinality(asked) = Cardinality(chosen)
  BY ChosenAreFinite DEF Composable
<1>2. asked = {k.intent.requirement : k \in chosen}
  BY DEF Intents
<1>3. f \in Surjection(chosen, asked)
  <2>1. f \in [chosen -> asked] /\ \A y \in asked : \E k \in chosen : f[k] = y
    <3> HIDE DEF chosen, asked
    <3> QED BY <1>2
  <2> HIDE DEF f, chosen, asked
  <2> QED BY <2>1 DEF Surjection
<1>4. IsFiniteSet(asked) /\ (Cardinality(asked) = Cardinality(chosen) <=> f \in Injection(chosen, asked))
  <2> HIDE DEF f, chosen, asked
  <2> QED BY <1>1, <1>3, FS_Surjection
<1>5. f \in Injection(chosen, asked) /\ i \in chosen /\ j \in chosen /\ f[i] = f[j]
  BY <1>1, <1>4
<1> QED
  <2> HIDE DEF f, chosen, asked
  <2> QED BY <1>5 DEF Injection, IsInjective

\* What the panel lets be chosen together makes valid requirements over the new regions.
LEMMA RequirementsCompose ==
    ASSUME source \in Sources, source.kind = "external-reference",
           AsAuthored(source, draft.items), ValidContent(source, draft.items),
           NEW ids, ids \subseteq {i.id : i \in {j \in ItemsOf(draft.items) : Materializable(j)}}, Composable(ids),
           NEW final, final = FinalRegions(source.regions, draft.items, ids)
    PROVE  ValidRequirements(Required(source, draft.items, ids), final)
<1> DEFINE chosen == Chosen(draft.items, ids, "reference-requirement")
           regions == Chosen(draft.items, ids, "reference-region")
           asked == {k.requirement : k \in Intents(ids, "reference-requirement")}
           required == Required(source, draft.items, ids)
<1>0. ASSUME NEW i \in chosen
      PROVE  /\ i \in ItemsOf(draft.items) /\ i.intent.kind = "reference-requirement" /\ ValidIntent(source, i.intent)
             /\ i.intent.requirement \in asked
  BY ChosenItems DEF Intents
<1>1. /\ \A r \in source.requirements : ValidRequirement(r) /\ \A n \in RegionsNamed(r.subject) : Known(source.regions, n)
      /\ \A r, s \in source.requirements : r.id = s.id \/ SameSubject(r.subject, s.subject) => r = s
  BY SourcesAreValid DEF ValidRequirements
<1>2. \A r \in asked :
          /\ \A s \in asked : s # r => ~ SameSubject(s.subject, r.subject)
          /\ \A s \in source.requirements : ~ SameSubject(s.subject, r.subject)
          /\ \A n \in RegionsNamed(r.subject) : Known(source.regions, n) \/ \E i \in regions : SameName(i.intent.region, n)
  BY DEF Composable
<1>3. \A s, t : SameSubject(s, t) => SameSubject(t, s)
  BY DEF SameSubject
<1>4. \A r \in source.requirements : /\ AsOwn(r).id = << "own", r.id >> /\ AsOwn(r).subject = r.subject
                                     /\ ValidRequirement(AsOwn(r)) <=> ValidRequirement(r)
  <2>1. TAKE r \in source.requirements
  <2>2. AsOwn(r) = [id |-> << "own", r.id >>, category |-> r.category, mode |-> r.mode,
                    subject |-> r.subject, tolerance |-> r.tolerance]
    BY OwnIs
  <2>3. /\ AsOwn(r).id = << "own", r.id >> /\ AsOwn(r).category = r.category /\ AsOwn(r).mode = r.mode
        /\ AsOwn(r).subject = r.subject /\ AsOwn(r).tolerance = r.tolerance
    BY <2>2
  <2> QED BY <2>3 DEF ValidRequirement
<1>5. \A i \in chosen : /\ AsSelected(i).id = << "selected", i.id >> /\ AsSelected(i).subject = i.intent.requirement.subject
                        /\ ValidRequirement(AsSelected(i))
  <2>1. TAKE i \in chosen
  <2>2. /\ AsSelected(i).id = << "selected", i.id >> /\ AsSelected(i).category = i.intent.requirement.category
        /\ AsSelected(i).mode = i.intent.requirement.mode /\ AsSelected(i).subject = i.intent.requirement.subject
        /\ AsSelected(i).tolerance = i.intent.requirement.tolerance
    BY DEF AsSelected
  <2>3. ValidRequirement(i.intent.requirement)
    BY <1>0 DEF ValidIntent
  <2> QED BY <2>2, <2>3 DEF ValidRequirement
<1>6. \A r \in required : (\E o \in source.requirements : r = AsOwn(o)) \/ (\E i \in chosen : r = AsSelected(i))
  BY RequiredAre
\* The names a requirement may use are those there will be.
<1>7. ASSUME NEW n, Known(source.regions, n) \/ \E i \in regions : SameName(i.intent.region, n)
      PROVE  Known(final, n)
  <2>1. DOMAIN final = DOMAIN source.regions \cup {i.intent.region : i \in ChosenRegions(draft.items, ids, "create")}
    BY DEF FinalRegions
  <2>2. CASE Known(source.regions, n)
    BY <2>1, <2>2 DEF Known
  <2>3. ASSUME NEW i \in regions, SameName(i.intent.region, n) PROVE Known(final, n)
    <3>1. BuiltRegion(source.regions, i.intent)
      BY ChosenRegion
    <3>2. CASE i.intent.mode = "create"
      <4>1. i.intent.region \in DOMAIN final
        BY <2>1, <3>2 DEF ChosenRegions
      <4> QED BY <4>1, <2>3 DEF Known
    <3>3. CASE Known(source.regions, i.intent.region)
      BY <3>3, <2>1, <2>3 DEF Known, SameName
    <3> QED BY <3>1, <3>2, <3>3 DEF BuiltRegion
  <2> QED BY <1>7, <2>2, <2>3
<1>8. ASSUME NEW r \in required PROVE ValidRequirement(r) /\ \A n \in RegionsNamed(r.subject) : Known(final, n)
  <2>1. ASSUME NEW o \in source.requirements, r = AsOwn(o)
        PROVE  ValidRequirement(r) /\ \A n \in RegionsNamed(r.subject) : Known(final, n)
    BY <2>1, <1>1, <1>4, <1>7
  <2>2. ASSUME NEW i \in chosen, r = AsSelected(i)
        PROVE  ValidRequirement(r) /\ \A n \in RegionsNamed(r.subject) : Known(final, n)
    <3>1. i.intent.requirement \in asked
      BY <1>0
    <3>2. \A n \in RegionsNamed(i.intent.requirement.subject) : Known(final, n)
      BY <3>1, <1>2, <1>7
    <3> QED BY <2>2, <3>2, <1>5
  <2> QED BY <1>6, <2>1, <2>2
<1>9. ASSUME NEW r \in required, NEW s \in required, r.id = s.id \/ SameSubject(r.subject, s.subject) PROVE r = s
  <2>1. ASSUME NEW o \in source.requirements, NEW p \in source.requirements, r = AsOwn(o), s = AsOwn(p) PROVE r = s
    <3>1. o.id = p.id \/ SameSubject(o.subject, p.subject)
      BY <1>4, <1>9, <2>1
    <3> QED BY <3>1, <2>1, <1>1
  <2>2. ASSUME NEW o \in source.requirements, NEW i \in chosen
        PROVE  /\ AsOwn(o).id # AsSelected(i).id
               /\ ~ SameSubject(AsOwn(o).subject, AsSelected(i).subject)
               /\ ~ SameSubject(AsSelected(i).subject, AsOwn(o).subject)
    <3>1. i.intent.requirement \in asked
      BY <1>0
    <3>2. ~ SameSubject(o.subject, i.intent.requirement.subject)
      BY <3>1, <1>2
    <3> QED BY <3>2, <1>3, <1>4, <1>5
  <2>3. ASSUME NEW i \in chosen, NEW j \in chosen, r = AsSelected(i), s = AsSelected(j) PROVE r = s
    <3>1. i.id = j.id \/ SameSubject(i.intent.requirement.subject, j.intent.requirement.subject)
      BY <1>5, <1>9, <2>3
    <3>2. CASE i.id = j.id
      <4>1. i = j
        BY <1>0, <3>2, Items
      <4> QED BY <4>1, <2>3
    <3>3. CASE SameSubject(i.intent.requirement.subject, j.intent.requirement.subject)
      <4>1. i.intent.requirement = j.intent.requirement
        BY <1>0, <1>2, <3>3
      <4>2. i = j
        BY <4>1, AskedApart
      <4> QED BY <4>2, <2>3
    <3> QED BY <3>1, <3>2, <3>3
  <2> HIDE DEF chosen, regions, asked, required
  <2> QED BY <1>6, <1>9, <2>1, <2>2, <2>3
<1>10. Cardinality(required) <= MaxRequirements
  BY RequiredFit
<1> QED BY <1>8, <1>9, <1>10 DEF ValidRequirements

\* What the panel offers to materialize of a sound draft, the server's plan takes.
LEMMA OfferedIsMaterialized ==
    ASSUME source \in Sources, source.kind = "external-reference",
           AsAuthored(source, draft.items), ValidContent(source, draft.items),
           NEW ids, ids # {}, ids \subseteq {i.id : i \in {j \in ItemsOf(draft.items) : Materializable(j)}}, Composable(ids)
    PROVE  MaterializationAccepted(source, draft.items, ids)
<1>1. ids \subseteq IdsOf(draft.items)
  BY DEF IdsOf, ItemsOf
<1>2. Cardinality(ids) \in 1 .. MaxItems
  BY <1>1, SelectionIsBounded DEF ValidContent
<1>3. ASSUME NEW id \in ids PROVE \E n \in DOMAIN draft.items : draft.items[n].id = id /\ Materializable(draft.items[n])
  BY DEF ItemsOf
<1>4. PICK final : final = FinalRegions(source.regions, draft.items, ids)
  OBVIOUS
<1>5. RegionsCompose(source.regions, draft.items, ids)
  BY SelectionComposes
<1>6. ValidRegions(final, source.frame)
  BY <1>4, FinalRegionsAreValid
<1>7. ValidRequirements(Required(source, draft.items, ids), final)
  BY <1>4, RequirementsCompose
<1>8. \A i \in Chosen(draft.items, ids, "reference-requirement") : i.intent.requirement.subject.kind # "region-relationship"
  BY DEF Composable, Intents
<1> QED BY <1>2, <1>3, <1>4, <1>5, <1>6, <1>7, <1>8 DEF MaterializationAccepted

\* What the panel offers of a saved draft the server takes: of an observation
\* every selection of promotable items, of a reference every composable
\* selection of materializable ones.
THEOREM OfferIsTaken == Spec => []OfferedIsTaken
<1>1. IInv => OfferedIsTaken
  <2> SUFFICES ASSUME IInv, ShownSaved, NEW ids \in (SUBSET Offered) \ {{}},
                      source.kind = "external-reference" => Composable(ids)
               PROVE  AcceptsUse(draft.parent, ids)
    BY DEF OfferedIsTaken
  <2>1. draft.parent \in DOMAIN store /\ draft.items = store[draft.parent].items
    BY DEF IInv, Handles, CleanMeansSaved, ContentOf, ShownSaved
  <2>2. source \in Sources /\ AsAuthored(source, draft.items) /\ ValidContent(source, draft.items)
    BY <2>1 DEF IInv, Handles, Contents, Authored
  <2>3. ids # {} /\ ids \subseteq {i.id : i \in {j \in ItemsOf(draft.items) : Usable(j)}}
    BY DEF Offered
  <2>4. CASE source.kind = "runtime-observation"
    <3>1. ids \subseteq {i.id : i \in {j \in ItemsOf(draft.items) : Promotable(j)}}
      BY <2>3, <2>4 DEF Usable
    <3>2. PromotionAccepted(source, draft.items, ids)
      BY <2>2, <2>3, <2>4, <3>1, OfferedIsPromoted
    <3> QED BY <2>1, <2>4, <3>2 DEF AcceptsUse
  <2>5. CASE source.kind = "external-reference"
    <3>1. ids \subseteq {i.id : i \in {j \in ItemsOf(draft.items) : Materializable(j)}}
      BY <2>3, <2>5 DEF Usable
    <3>2. MaterializationAccepted(source, draft.items, ids)
      BY <2>2, <2>3, <2>5, <3>1, OfferedIsMaterialized
    <3> QED BY <2>1, <2>5, <3>2 DEF AcceptsUse
  <2> QED BY <2>2, <2>4, <2>5, SourcesAreValid
<1> QED BY <1>1, WorkspaceIsSound, PTL
=============================================================================
