--------------------------- MODULE AnnotationDraft ---------------------------
(***************************************************************************)
(* One annotation workspace of the viewer, over one observation or one     *)
(* reference, and the server it saves to: useAnnotationDraft with the      *)
(* panels, the pointer gestures and the hooks that use it.                 *)
(*                                                                         *)
(* The person keeps editing while a save is on its way, and may start a    *)
(* new draft, load another or cancel, each of which makes the save button  *)
(* work again, so that answers arrive for drafts no longer shown.  Another *)
(* viewer may revise what is saved; a server that was restarted, and with  *)
(* it lost the session the page still holds, is one that refuses.          *)
(***************************************************************************)
EXTENDS AnnotationItems, SequencesExt

CONSTANTS
    Pending, Refused,   \* the answer to a request nobody has answered, or that failed
    Sources,            \* what may be annotated: [kind, frame, regions, requirements]
    SavedBefore,        \* what may already be saved: sequences of annotations
    Gestures,           \* gestures that draw: [mode, x, y, toX, toY, text]
    Moves,              \* how far a mark may be dragged: << dx, dy >>
    Associations,       \* what an item may be associated with, by kind of source
    Forms,              \* what may be asked of an item, by kind of source
    MaxDrawn,           \* bound: marks drawn
    MaxGestures,        \* bound: what the person does, each click and each drag
    MaxStored,          \* bound: annotations saved
    MaxSaves,           \* bound: saves on their way at once
    MaxUses             \* bound: promotions and materializations on their way at once

VARIABLES
    source,             \* the artifact the workspace shows
    draft,              \* [items, parent, selected, dirty, save]
    baseline,           \* the items Cancel goes back to
    store,              \* the saved annotations of the source, in the order saved
    saves,              \* saves on their way: [n, parent, items, answer]
    work,               \* the state of the panel's promotion or materialization
    uses,               \* promotions and materializations on their way: [n, of, ids, answer]
    drawn, gestures,    \* counters for the bounds; drawn also names items
    confirmed           \* history: the meanings somebody confirmed

client == << draft, baseline, work >>
vars == << source, client, store, saves, uses, drawn, gestures, confirmed >>

Empty == [items |-> << >>, parent |-> None, selected |-> None, dirty |-> FALSE, save |-> "idle"]

ItemsOf(items) == {items[i] : i \in DOMAIN items}
IdsOf(items) == {items[i].id : i \in DOMAIN items}
ItemOf(items, id) == CHOOSE i \in ItemsOf(items) : i.id = id

IsItem(i) == i = [id |-> i.id, mark |-> i.mark, assoc |-> i.assoc, state |-> i.state, intent |-> i.intent]

\* What the viewer makes of its forms: a move or a resize of one target and a
\* property that fits, something to preserve, a region to create that is not
\* there or to refine that is.
BuiltPrimitive(operation, p) ==
    /\ operation \in {"move", "resize"} =>
          /\ p = [kind |-> p.kind, a |-> p.a, property |-> p.property, minimum |-> None]
          /\ p.kind \in {"property-increases", "property-decreases"}
          /\ p.property \in IF operation = "move" THEN {"x", "y"} ELSE {"width", "height"}
    /\ operation = "preserve" =>
          \/ /\ p.kind = "property-unchanged"
             /\ p = [kind |-> p.kind, a |-> p.a, property |-> p.property, tolerance |-> p.tolerance]
          \/ /\ p.kind = "relationship-unchanged"
             /\ p = [kind |-> p.kind, relationship |-> p.relationship, a |-> p.a, b |-> p.b]
BuiltChange(intent) ==
    /\ intent = [kind |-> "change", operation |-> intent.operation, category |-> intent.category,
                 mode |-> intent.mode, primitive |-> intent.primitive]
    /\ BuiltPrimitive(intent.operation, intent.primitive)
BuiltRegion(regions, intent) ==
    /\ intent = [kind |-> "reference-region", mode |-> intent.mode, region |-> intent.region, rect |-> intent.rect]
    /\ \/ intent.mode = "create" /\ ~ Known(regions, intent.region)
       \/ intent.mode = "refine" /\ Known(regions, intent.region)
Built(s, i) ==
    /\ IsItem(i)
    /\ i.state # "uninterpreted" /\ i.intent.kind = "change" => BuiltChange(i.intent)
    /\ ProposesRegion(i) => s.kind = "external-reference" /\ BuiltRegion(s.regions, i.intent)

\* The items of one annotation: each of its own id, and together with room for
\* the regions they would create.
Creating(items) == {i \in items : CreatesRegion(i)}
AsAuthored(s, items) ==
    /\ items \in Seq(ItemsOf(items))
    /\ \A i \in ItemsOf(items) : Built(s, i)
    /\ \A m, n \in DOMAIN items : items[m].id = items[n].id => m = n
    /\ \A i, j \in Creating(ItemsOf(items)) : SameName(i.intent.region, j.intent.region) => i.id = j.id
    /\ Cardinality(DOMAIN s.regions) + Cardinality({Lower(i.intent.region) : i \in Creating(ItemsOf(items))}) <= MaxRegions

\* What is annotated is valid, and what is saved of it was written by this viewer.
ASSUME SourcesAreValid ==
    \A s \in Sources :
        /\ s.kind \in {"runtime-observation", "external-reference"}
        /\ IsFiniteSet(s.requirements)
        /\ \A r \in s.requirements :
              r = [id |-> r.id, category |-> r.category, mode |-> r.mode, subject |-> r.subject, tolerance |-> r.tolerance]
        /\ IsFiniteSet(DOMAIN s.regions) /\ ValidRegions(s.regions, s.frame)
        /\ ValidRequirements(s.requirements, s.regions)
ASSUME SavedAreAuthored ==
    \A s \in Sources : \A saved \in SavedBefore[s.kind] :
        /\ saved \in Seq({saved[h] : h \in DOMAIN saved})
        /\ \A h \in DOMAIN saved :
              /\ saved[h] = [parent |-> saved[h].parent, items |-> saved[h].items]
              /\ AsAuthored(s, saved[h].items) /\ ValidContent(s, saved[h].items)
              /\ \A i \in ItemsOf(saved[h].items), n \in 1 .. MaxDrawn : i.id # << "drawn", n >>
ASSUME HandlesAreNumbers == {None, Pending, Refused} \cap Nat = {}
ASSUME DrawingIsBounded == MaxDrawn \in Nat
ASSUME FormsAreThePanels ==
    /\ \A f \in Forms["runtime-observation"] : f.operation \in {"inspect", "move", "resize", "remove", "preserve"}
    /\ \A f \in Forms["external-reference"] :
          f.kind \in {"create", "refine", "requirement", "inspect", "asset-sensitive"}

\* What a draft of a saved annotation starts from.
Persisted(h) ==
    [items |-> store[h].items, parent |-> h, selected |-> None, dirty |-> FALSE, save |-> "idle"]

ConfirmedIn(items) == {Meaning(i) : i \in {j \in ItemsOf(items) : j.state = "confirmed"}}

Init ==
    /\ source \in Sources
    /\ store \in SavedBefore[source.kind]
    /\ draft = Empty /\ baseline = << >> /\ work = "idle"
    /\ saves = {} /\ uses = {}
    /\ drawn = 0 /\ gestures = 0
    /\ confirmed = UNION {ConfirmedIn(store[h].items) : h \in DOMAIN store}

-----------------------------------------------------------------------------
(* Editing the draft                                                       *)

\* The panel's state goes back to idle when the saved annotation shown is
\* another one.
Show(d) ==
    /\ draft' = d
    /\ work' = IF d.parent # draft.parent THEN "idle" ELSE work

LeaveServer == UNCHANGED << source, store, saves, uses >>

NewAnnotation ==
    /\ Show(Empty) /\ baseline' = << >>
    /\ LeaveServer /\ UNCHANGED << drawn, confirmed >>

LoadSaved(h) ==
    /\ Show(Persisted(h)) /\ baseline' = store[h].items
    /\ LeaveServer /\ UNCHANGED << drawn, confirmed >>

\* addItem.
WithItem(item) ==
    [draft EXCEPT !.items = Append(@, item), !.selected = item.id, !.dirty = TRUE,
                  !.save = IF @ = "saving" THEN @ ELSE "idle"]

Draw(g) ==
    LET mark == DrawnMark(g)
    IN /\ drawn < MaxDrawn /\ drawn' = drawn + 1
       /\ InFrame(source.frame, g.x, g.y)
       /\ mark # None /\ MarkInFrame(source.frame, mark)
       /\ draft' = WithItem(NewItem(<< "drawn", drawn'>>, mark))
       /\ LeaveServer /\ UNCHANGED << baseline, work, confirmed >>

Select(id) ==
    /\ id # draft.selected
    /\ draft' = [draft EXCEPT !.selected = id]
    /\ LeaveServer /\ UNCHANGED << baseline, work, drawn, confirmed >>

\* updateItem, by the rules of the source: applyRuntimeItemEdit and
\* applyReferenceItemEdit.
Kept(before, after) ==
    Withdrawn(before, IF source.kind = "runtime-observation" THEN Reconciled(after) ELSE Synced(after))

Replaced(id, item) ==
    [draft EXCEPT !.items = [i \in DOMAIN @ |-> IF @[i].id = id THEN item ELSE @[i]], !.dirty = TRUE]

Edit(id, edited) ==
    /\ draft' = Replaced(id, Kept(ItemOf(draft.items, id), edited))
    /\ LeaveServer /\ UNCHANGED << baseline, work, drawn, confirmed >>

Move(id, d) ==
    LET item == ItemOf(draft.items, id)
        mark == Translated(item.mark, d[1], d[2])
    IN MarkInFrame(source.frame, mark) /\ Edit(id, [item EXCEPT !.mark = mark])

\* The panels' actions on the selected item.
Selected == ItemOf(draft.items, draft.selected)
HasSelected == draft.selected \in IdsOf(draft.items)

EditNote(length) ==
    /\ HasSelected /\ Selected.mark.kind = "note"
    /\ Edit(draft.selected, [Selected EXCEPT !.mark.text = Lesser(length, NoteMax)])

Associate(assoc) ==
    /\ HasSelected /\ (assoc = None => Selected.assoc # None)
    /\ Edit(draft.selected, [Selected EXCEPT !.assoc = assoc])

SetIntent(form) ==
    /\ HasSelected
    /\ IF source.kind = "runtime-observation"
       THEN /\ FormFits(form, Selected.assoc)
            /\ Edit(draft.selected, Candidate(Selected, RuntimeIntent(form, Selected.assoc)))
       ELSE /\ ReferenceFormFits(form, Selected, source.regions, ItemsOf(draft.items))
            /\ Edit(draft.selected, WithReferenceIntent(form, Selected))

\* confirmItem goes past the rules of an edit.
Confirm ==
    /\ HasSelected /\ Selected.state = "candidate"
    /\ draft' = Replaced(draft.selected, Confirmed(Selected))
    /\ confirmed' = confirmed \cup {Meaning(Selected)}
    /\ LeaveServer /\ UNCHANGED << baseline, work, drawn >>

\* An id is of one item: see AsAuthored.
DeleteSelected ==
    \E n \in DOMAIN draft.items :
        /\ draft.items[n].id = draft.selected
        /\ draft' = [draft EXCEPT !.items = RemoveAt(@, n), !.selected = None, !.dirty = TRUE]
        /\ LeaveServer /\ UNCHANGED << baseline, work, drawn, confirmed >>

CancelChanges ==
    /\ draft.dirty \/ draft.save = "failed"
    /\ draft' = [draft EXCEPT !.items = baseline, !.selected = None, !.dirty = FALSE, !.save = "idle"]
    /\ LeaveServer /\ UNCHANGED << baseline, work, drawn, confirmed >>

-----------------------------------------------------------------------------
(* Saving                                                                  *)

EmptyNote(item) == item.mark.kind = "note" /\ item.mark.text = 0
CanSave == draft.dirty /\ draft.save # "saving" /\ ~ \E i \in ItemsOf(draft.items) : EmptyNote(i)

Fresh(requests) == CHOOSE n \in 1 .. Cardinality(requests) + 1 : \A r \in requests : r.n # n
Answered(r, answer) == [r EXCEPT !.answer = answer]

\* save, up to its request: the draft as it is now is what is sent.
Save ==
    /\ CanSave /\ Cardinality(saves) < MaxSaves
    /\ saves' = saves \cup {[n |-> Fresh(saves), parent |-> draft.parent, items |-> draft.items, answer |-> Pending]}
    /\ draft' = [draft EXCEPT !.save = "saving"]
    /\ UNCHANGED << source, baseline, work, store, uses, drawn, confirmed >>

HasChild(h) == \E c \in DOMAIN store : store[c].parent = h

\* saveAnnotationFromViewer, one at a time: of a parent nobody has revised, and
\* only valid content.
Accepts(r) == (r.parent # None => ~ HasChild(r.parent)) /\ ValidContent(source, r.items)

ServerSave(r) ==
    /\ r.answer = Pending /\ Accepts(r) /\ Len(store) < MaxStored
    /\ store' = Append(store, [parent |-> r.parent, items |-> r.items])
    /\ saves' = (saves \ {r}) \cup {Answered(r, Len(store'))}
    /\ UNCHANGED << source, client, uses, drawn, confirmed >>

\* A request refused, or one whose write failed, or that never arrived.
SaveRefused(r) ==
    /\ r.answer = Pending
    /\ saves' = (saves \ {r}) \cup {Answered(r, Refused)}
    /\ UNCHANGED << source, client, store, uses, drawn, confirmed >>

\* A mistake: the draft keeps what was drawn meanwhile, and counts as saved.
SaveAnsweredKeepingItems(r) ==
    /\ r.answer \notin {Pending, Refused}
    /\ saves' = saves \ {r}
    /\ Show([draft EXCEPT !.parent = r.answer, !.dirty = FALSE, !.save = "saved"]) /\ baseline' = store[r.answer].items
    /\ UNCHANGED << source, store, uses, drawn, confirmed >>

\* save, from its answer on.  What was saved is read back and replaces the
\* whole draft, whatever it has become meanwhile.
SaveAnswered(r) ==
    /\ r.answer \notin {Pending, Refused}
    /\ saves' = saves \ {r}
    /\ Show([Persisted(r.answer) EXCEPT !.save = "saved"]) /\ baseline' = store[r.answer].items
    /\ UNCHANGED << source, store, uses, drawn, confirmed >>

\* A save refused, or one that was done but whose answer or whose result could
\* not be read.
SaveFailed(r) ==
    /\ r.answer # Pending
    /\ saves' = saves \ {r}
    /\ draft' = [draft EXCEPT !.save = "failed"]
    /\ UNCHANGED << source, baseline, work, store, uses, drawn, confirmed >>

-----------------------------------------------------------------------------
(* Promoting to a contract, materializing into a reference                 *)

Usable(item) == IF source.kind = "runtime-observation" THEN Promotable(item) ELSE Materializable(item)

\* What the panel lets be selected; it offers its button only of a saved draft.
Offered == {i.id : i \in {j \in ItemsOf(draft.items) : Usable(j)}}
ShownSaved == draft.parent # None /\ ~ draft.dirty

Use(ids) ==
    /\ ShownSaved /\ ids # {} /\ ids \subseteq Offered /\ work # "pending"
    /\ Cardinality(uses) < MaxUses
    /\ uses' = uses \cup {[n |-> Fresh(uses), of |-> draft.parent, ids |-> ids, answer |-> Pending]}
    /\ work' = "pending"
    /\ UNCHANGED << source, draft, baseline, store, saves, drawn, confirmed >>

\* The server reads the saved annotation and takes all of the selection or none.
AcceptsUse(h, ids) ==
    IF source.kind = "runtime-observation" THEN PromotionAccepted(source, store[h].items, ids)
    ELSE MaterializationAccepted(source, store[h].items, ids)

ServerUse(q) ==
    /\ q.answer = Pending /\ AcceptsUse(q.of, q.ids)
    /\ uses' = (uses \ {q}) \cup {Answered(q, "done")}
    /\ UNCHANGED << source, client, store, saves, drawn, confirmed >>

UseRefused(q) ==
    /\ q.answer = Pending
    /\ uses' = (uses \ {q}) \cup {Answered(q, "failed")}
    /\ UNCHANGED << source, client, store, saves, drawn, confirmed >>

\* The answer is the panel's state, whichever annotation it shows by now.
UseAnswered(q) ==
    /\ q.answer # Pending
    /\ uses' = uses \ {q} /\ work' = q.answer
    /\ UNCHANGED << source, draft, baseline, store, saves, drawn, confirmed >>

-----------------------------------------------------------------------------
(* Others                                                                  *)

\* Another viewer saves a revision.
RevisedElsewhere(h) ==
    /\ ~ HasChild(h) /\ Len(store) < MaxStored
    /\ store' = Append(store, [parent |-> h, items |-> store[h].items])
    /\ UNCHANGED << source, client, saves, uses, drawn, confirmed >>

PersonStep ==
    \/ NewAnnotation
    \/ \E h \in DOMAIN store : LoadSaved(h)
    \/ \E g \in Gestures : Draw(g)
    \/ \E id \in IdsOf(draft.items) \cup {None} : Select(id)
    \/ \E id \in IdsOf(draft.items), d \in Moves : Move(id, d)
    \/ \E length \in 0 .. NoteMax + 1 : EditNote(length)
    \/ \E assoc \in Associations[source.kind] \cup {None} : Associate(assoc)
    \/ \E form \in Forms[source.kind] : SetIntent(form)
    \/ Confirm
    \/ DeleteSelected
    \/ CancelChanges
    \/ Save
    \/ \E ids \in SUBSET Offered : Use(ids)

AnswerStep ==
    \/ \E r \in saves : ServerSave(r) \/ SaveRefused(r) \/ SaveAnswered(r) \/ SaveFailed(r)
    \/ \E q \in uses : ServerUse(q) \/ UseRefused(q) \/ UseAnswered(q)
    \/ \E h \in DOMAIN store : RevisedElsewhere(h)

Next ==
    \/ gestures < MaxGestures /\ gestures' = gestures + 1 /\ PersonStep
    \/ AnswerStep /\ UNCHANGED gestures

Spec == Init /\ [][Next]_vars

-----------------------------------------------------------------------------
(* Properties                                                              *)

\* A draft the panel does not call unsaved is exactly the annotation it revises,
\* or empty, however saves, loads, cancels and late answers have crossed; what is
\* promoted under its handle is therefore what is shown (useAnnotationDraft,
\* RuntimeContractPromotionSection's "saved").
ContentOf(parent) == IF parent = None THEN << >> ELSE store[parent].items
CleanMeansSaved == ~ draft.dirty => draft.items = ContentOf(draft.parent)

\* Wherever an item stands as confirmed, in the draft, in what Cancel restores,
\* on its way to the server or saved, somebody confirmed that item with that mark,
\* that association and that intent: no edit carries a confirmation over to a
\* meaning nobody saw (withdrawChangedConfirmation).
ConfirmedMeaningStands ==
    /\ ConfirmedIn(draft.items) \cup ConfirmedIn(baseline) \subseteq confirmed
    /\ \A r \in saves : ConfirmedIn(r.items) \subseteq confirmed
    /\ \A h \in DOMAIN store : ConfirmedIn(store[h].items) \subseteq confirmed

\* What the panel offers the server takes.  Of an observation, every selection
\* of promotable items becomes a contract.  Of a reference, every selection of
\* materializable items does in which no region is refined twice, and whose
\* requirements are of different subjects than each other's and the reference's,
\* name only regions there will be, and are not about relationships, which the
\* new regions may no longer show (runtimePromotionStatus against
\* contractPromotionBlockReason, regionCreateBlockedReason against
\* materializeVisualAnnotationReference).
Intents(ids, kind) == {i.intent : i \in Chosen(draft.items, ids, kind)}
Composable(ids) ==
    LET regions == Chosen(draft.items, ids, "reference-region")
        asked == {i.requirement : i \in Intents(ids, "reference-requirement")}
    IN /\ \A i, j \in regions : i # j /\ i.intent.mode = "refine" => ~ SameName(i.intent.region, j.intent.region)
       /\ Cardinality(asked) = Cardinality(Chosen(draft.items, ids, "reference-requirement"))
       /\ Cardinality(asked) + Cardinality(source.requirements) <= MaxRequirements
       /\ \A r \in asked :
             /\ r.subject.kind # "region-relationship"
             /\ \A s \in asked : s # r => ~ SameSubject(s.subject, r.subject)
             /\ \A s \in source.requirements : ~ SameSubject(s.subject, r.subject)
             /\ \A n \in RegionsNamed(r.subject) :
                   Known(source.regions, n) \/ \E i \in regions : SameName(i.intent.region, n)

OfferedIsTaken ==
    ShownSaved =>
        \A ids \in (SUBSET Offered) \ {{}} :
            (source.kind = "external-reference" => Composable(ids)) => AcceptsUse(draft.parent, ids)
=============================================================================
