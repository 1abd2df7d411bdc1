--------------------------- MODULE AnnotationItems ---------------------------
(***************************************************************************)
(* The items of a visual annotation, as the viewer builds them and as the  *)
(* server reads them: pure functions on both sides.                        *)
(*                                                                         *)
(* An item is a record of                                                  *)
(*   id       its own, kept by every revision                              *)
(*   mark     [kind, x, y], a rectangle also with width and height, a line *)
(*            or an arrow with its end toX and toY, a note with the length *)
(*            of its text                                                  *)
(*   assoc    what it is explicitly about, or None                         *)
(*   state    "uninterpreted", "candidate" or "confirmed"                  *)
(*   intent   what it asks for; None while uninterpreted                   *)
(* An association is [kind, target] or [kind, relationship, a, b] for an   *)
(* observation, [kind, region] or [kind, relationship, a, b] for a         *)
(* reference; a page-level relationship has None for a and b.              *)
(***************************************************************************)
EXTENDS FrontendContractEvaluation, ReferenceFidelity

CONSTANTS
    None,
    NoteMax,            \* MAX_VISUAL_ANNOTATION_NOTE_LENGTH
    MaxItems            \* MAX_VISUAL_ANNOTATION_ITEMS, MAX_PROMOTION_ITEM_IDS

ASSUME AnnotationBounds == NoteMax \in Nat \ {0} /\ MaxItems \in Nat \ {0}

InFrame(frame, x, y) == x \in 0 .. frame.width /\ y \in 0 .. frame.height

\* The corner or end a mark has besides its first point.
EndOf(mark) ==
    CASE mark.kind = "rectangle" -> << mark.x + mark.width, mark.y + mark.height >>
      [] mark.kind \in {"line", "arrow"} -> << mark.toX, mark.toY >>
      [] mark.kind \in {"point", "note"} -> << mark.x, mark.y >>

-----------------------------------------------------------------------------
(* Drawing and moving marks, in the viewer                                 *)

\* isMarkInFrame.
MarkInFrame(frame, mark) ==
    /\ InFrame(frame, mark.x, mark.y)
    /\ InFrame(frame, EndOf(mark)[1], EndOf(mark)[2])
    /\ mark.kind = "rectangle" => mark.width > 0 /\ mark.height > 0

\* translateMark.
Translated(mark, dx, dy) ==
    LET moved == [mark EXCEPT !.x = @ + dx, !.y = @ + dy]
    IN IF mark.kind \in {"line", "arrow"}
       THEN [moved EXCEPT !.toX = @ + dx, !.toY = @ + dy] ELSE moved

\* buildDrawnMark: what one gesture draws, or None.
Lesser(m, n) == IF m <= n THEN m ELSE n

DrawnMark(g) ==
    CASE g.mode = "point" -> [kind |-> "point", x |-> g.x, y |-> g.y]
      [] g.mode = "note" ->
           IF g.text \in 1 .. NoteMax THEN [kind |-> "note", x |-> g.x, y |-> g.y, text |-> g.text] ELSE None
      [] g.mode = "rectangle" ->
           IF g.x # g.toX /\ g.y # g.toY
           THEN [kind |-> "rectangle", x |-> Lesser(g.x, g.toX), y |-> Lesser(g.y, g.toY),
                 width |-> Magnitude(g.toX - g.x), height |-> Magnitude(g.toY - g.y)]
           ELSE None
      [] g.mode \in {"line", "arrow"} ->
           IF << g.x, g.y >> # << g.toX, g.toY >>
           THEN [kind |-> g.mode, x |-> g.x, y |-> g.y, toX |-> g.toX, toY |-> g.toY] ELSE None

\* newDraftItem.
NewItem(id, mark) == [id |-> id, mark |-> mark, assoc |-> None, state |-> "uninterpreted", intent |-> None]

-----------------------------------------------------------------------------
(* Confirming                                                              *)

Uninterpreted(item) == [item EXCEPT !.state = "uninterpreted", !.intent = None]
Candidate(item, intent) == [item EXCEPT !.state = "candidate", !.intent = intent]

\* confirmCandidate.
Confirmed(item) == IF item.state = "candidate" THEN [item EXCEPT !.state = "confirmed"] ELSE item

\* meaning.
Meaning(item) == [id |-> item.id, mark |-> item.mark, assoc |-> item.assoc, intent |-> item.intent]

\* A mistake: what a mark encloses does not count as its meaning.
WithdrawnUnlessMoved(before, after) ==
    IF before.state = "confirmed" /\ after.state = "confirmed"
       /\ << before.assoc, before.intent >> # << after.assoc, after.intent >>
    THEN [after EXCEPT !.state = "candidate"] ELSE after

\* withdrawChangedConfirmation: a confirmed item that now means something else
\* is a candidate again.
Withdrawn(before, after) ==
    IF before.state = "confirmed" /\ after.state = "confirmed" /\ Meaning(before) # Meaning(after)
    THEN [after EXCEPT !.state = "candidate"] ELSE after

-----------------------------------------------------------------------------
(* Runtime intent: what should change in an observed page                  *)

\* MOVE_MAPPING and RESIZE_MAPPING.
Direction(towards, property) == [kind |-> towards, property |-> property]
Directions ==
    [right |-> Direction("property-increases", "x"), left |-> Direction("property-decreases", "x"),
     down |-> Direction("property-increases", "y"), up |-> Direction("property-decreases", "y"),
     wider |-> Direction("property-increases", "width"), narrower |-> Direction("property-decreases", "width"),
     taller |-> Direction("property-increases", "height"), shorter |-> Direction("property-decreases", "height")]
MoveDirections == {"right", "left", "down", "up"}
ResizeDirections == {"wider", "narrower", "taller", "shorter"}

DirectionalPrimitive(direction, target) ==
    [kind |-> Directions[direction].kind, a |-> target, property |-> Directions[direction].property, minimum |-> None]
PropertyPrimitive(property, target, tolerance) ==
    [kind |-> "property-unchanged", a |-> target, property |-> property, tolerance |-> tolerance]

\* relationshipPrimitive.
RelationshipPrimitive(assoc) ==
    [kind |-> "relationship-unchanged", relationship |-> assoc.relationship, a |-> assoc.a, b |-> assoc.b]

Change(form, primitive) ==
    [kind |-> "change", operation |-> form.operation, category |-> form.category,
     mode |-> IF form.category = "expected-dependent" THEN form.mode ELSE None, primitive |-> primitive]

RuntimeTarget(assoc) == assoc # None /\ assoc.kind = "runtime-target"
RuntimeRelationship(assoc) == assoc # None /\ assoc.kind = "runtime-relationship"

\* buildTolerance, and isValidContractTolerance: an amount of pixels or percent.
Measured(tolerance) ==
    tolerance # None /\ (tolerance.kind # "exact" => tolerance.amount \in 0 .. 100)

\* buildRuntimeIntent's refusals.
FormFits(form, assoc) ==
    \/ form.operation = "inspect"
    \/ /\ RuntimeTarget(assoc) \/ (RuntimeRelationship(assoc) /\ form.operation = "preserve")
       /\ form.category \in Categories
       /\ form.category = "expected-dependent" => form.mode \in DependentModes
       /\ CASE form.operation = "move" -> form.direction \in MoveDirections
            [] form.operation = "resize" -> form.direction \in ResizeDirections
            [] form.operation = "remove" -> TRUE
            [] form.operation = "preserve" ->
                 RuntimeTarget(assoc) => form.property \in Properties /\ Measured(form.tolerance)

\* buildRuntimeIntent.
RuntimeIntent(form, assoc) ==
    CASE form.operation = "inspect" -> [kind |-> "inspect"]
      [] form.operation \in {"move", "resize"} -> Change(form, DirectionalPrimitive(form.direction, assoc.target))
      [] form.operation = "remove" -> Change(form, None)
      [] form.operation = "preserve" ->
           Change(form, IF RuntimeTarget(assoc) THEN PropertyPrimitive(form.property, assoc.target, form.tolerance)
                        ELSE RelationshipPrimitive(assoc))

\* Whether an operation, with its primitive, can be about the association.
StillFits(intent, assoc) ==
    IF intent.operation \in {"move", "resize", "remove"} THEN RuntimeTarget(assoc)
    ELSE \/ /\ RuntimeTarget(assoc)
            /\ intent.primitive # None /\ intent.primitive.kind = "property-unchanged"
         \/ /\ RuntimeRelationship(assoc)
            /\ intent.primitive # None /\ intent.primitive.kind = "relationship-unchanged"

\* reconcileRuntimeIntentWithAssociation: the primitive follows the association,
\* or the interpretation goes.
Reconciled(item) ==
    LET intent == item.intent
    IN IF item.state = "uninterpreted" \/ intent.kind # "change" THEN item
       ELSE IF ~ StillFits(intent, item.assoc) THEN Uninterpreted(item)
       ELSE IF intent.primitive = None THEN item
       ELSE IF RuntimeRelationship(item.assoc)
            THEN [item EXCEPT !.intent.primitive = RelationshipPrimitive(item.assoc)]
       ELSE [item EXCEPT !.intent.primitive.a = item.assoc.target]

\* runtimePromotionStatus.
Promotable(item) ==
    /\ item.state = "confirmed"
    /\ item.intent.kind = "change" /\ item.intent.operation # "remove" /\ item.intent.primitive # None
    /\ item.assoc # None
    /\ Reconciled(item) = item

-----------------------------------------------------------------------------
(* Reference intent: what a reference should say of its image              *)

RegionIntent(mode, name, mark) ==
    [kind |-> "reference-region", mode |-> mode, region |-> name,
     rect |-> [x |-> mark.x, y |-> mark.y, width |-> mark.width, height |-> mark.height]]

ProposesRegion(item) == item.state # "uninterpreted" /\ item.intent.kind = "reference-region"
CreatesRegion(item) == ProposesRegion(item) /\ item.intent.mode = "create"

\* otherCreateIds.
OtherCreates(items, id) == {i.intent.region : i \in {j \in items : j.id # id /\ CreatesRegion(j)}}

\* A mistake: the limit is passed by one.
CreateBlockedPastLimit(name, regions, items, id) ==
    LET others == OtherCreates(items, id)
    IN \/ Cardinality(DOMAIN regions) + Cardinality({Lower(n) : n \in others}) > MaxRegions
       \/ Known(regions, name)
       \/ \E n \in others : SameName(n, name)

\* regionCreateBlockedReason.
CreateBlocked(name, regions, items, id) ==
    LET others == OtherCreates(items, id)
    IN \/ Cardinality(DOMAIN regions) + Cardinality({Lower(n) : n \in others}) >= MaxRegions
       \/ Known(regions, name)
       \/ \E n \in others : SameName(n, name)

\* requirementRegionIds, however spelled.
NameableRegions(regions, items) == DOMAIN regions \cup {i.intent.region : i \in {j \in items : ProposesRegion(j)}}

\* buildRequirementFromForm's refusals: a relationship is one the reference
\* shows, a number has a tolerance.
RequirementFits(r, regions, items) ==
    /\ r.category \in Categories
    /\ r.category = "expected-dependent" => r.mode \in DependentModes
    /\ IF r.subject.kind = "region-relationship"
       THEN RegionsNamed(r.subject) \subseteq DOMAIN regions /\ Exhibits(regions, r.subject)
       ELSE /\ RegionsNamed(r.subject) \subseteq NameableRegions(regions, items)
            /\ ValidSubject(r.subject) /\ Measured(r.tolerance)

\* Which of the panel's reference actions are enabled.
ReferenceFormFits(form, item, regions, items) ==
    CASE form.kind = "create" -> item.mark.kind = "rectangle" /\ ~ CreateBlocked(form.region, regions, items, item.id)
      [] form.kind = "refine" -> item.mark.kind = "rectangle" /\ form.region \in DOMAIN regions
      [] form.kind = "requirement" -> RequirementFits(form.requirement, regions, items)
      [] form.kind = "inspect" -> TRUE
      [] form.kind = "asset-sensitive" -> form.region \in DOMAIN regions \cup {None}

\* withRegionCreateCandidate and its siblings.
WithReferenceIntent(form, item) ==
    CASE form.kind = "create" -> Candidate(item, RegionIntent("create", form.region, item.mark))
      [] form.kind = "refine" ->
           [Candidate(item, RegionIntent("refine", form.region, item.mark)) EXCEPT
               !.assoc = [kind |-> "reference-region", region |-> form.region]]
      [] form.kind = "requirement" ->
           Candidate(item, [kind |-> "reference-requirement", requirement |-> form.requirement])
      [] form.kind = "inspect" -> Candidate(item, [kind |-> "inspect"])
      [] form.kind = "asset-sensitive" -> Candidate(item, form)

\* syncRegionGeometry: a region proposal follows its rectangle.
Synced(item) ==
    IF ProposesRegion(item) /\ item.mark.kind = "rectangle"
    THEN [item EXCEPT !.intent = RegionIntent(item.intent.mode, item.intent.region, item.mark)] ELSE item

\* referenceMaterializationStatus.
ReferenceIntentKinds == {"reference-region", "reference-requirement"}
Materializable(item) == item.state = "confirmed" /\ item.intent.kind \in ReferenceIntentKinds

-----------------------------------------------------------------------------
(* What the server accepts: isValidVisualAnnotationContent                 *)

\* validateMark.
ValidMark(frame, mark) ==
    /\ mark.kind \in {"point", "rectangle", "line", "arrow", "note"}
    /\ InFrame(frame, mark.x, mark.y)
    /\ CASE mark.kind = "rectangle" ->
              /\ mark.width > 0 /\ mark.height > 0
              /\ mark.x + mark.width <= frame.width /\ mark.y + mark.height <= frame.height
         [] mark.kind \in {"line", "arrow"} -> InFrame(frame, mark.toX, mark.toY)
         [] mark.kind = "note" -> mark.text \in 1 .. NoteMax
         [] OTHER -> TRUE

\* A relationship of two things, or one of the page, which names neither.
ValidPair(relationship, a, b) ==
    \/ relationship \in PairwiseKinds /\ None \notin {a, b} /\ a # b
    \/ relationship \in Families["pageWidth"] /\ a = None /\ b = None

\* validateRuntimeAssociation, validateReferenceAssociation.
ValidAssociation(source, assoc) ==
    IF source.kind = "runtime-observation"
    THEN \/ assoc.kind = "runtime-target"
         \/ assoc.kind = "runtime-relationship" /\ ValidPair(assoc.relationship, assoc.a, assoc.b)
    ELSE \/ assoc.kind = "reference-region"
         \/ assoc.kind = "reference-relationship" /\ assoc.relationship \in PairwiseKinds /\ assoc.a # assoc.b

\* isValidContractPrimitive of the kinds an annotation can name.
ValidPrimitive(p) ==
    /\ IsPrimitive(p)
    /\ p.kind = "property-unchanged" => Measured(p.tolerance)

\* validateIntent.
ValidIntent(source, intent) ==
    CASE intent.kind = "inspect" -> TRUE
      [] intent.kind = "change" ->
           /\ source.kind = "runtime-observation"
           /\ intent.operation \in {"move", "resize", "remove", "preserve"}
           /\ intent.category \in Categories
           /\ IF intent.category = "expected-dependent" THEN intent.mode \in DependentModes ELSE intent.mode = None
           /\ intent.operation = "remove" => intent.primitive = None
           /\ intent.primitive # None => ValidPrimitive(intent.primitive)
      [] intent.kind = "reference-region" ->
           /\ source.kind = "external-reference"
           /\ ValidRegions([n \in {intent.region} |-> intent.rect], source.frame)
      [] intent.kind = "reference-requirement" ->
           source.kind = "external-reference" /\ ValidRequirement(intent.requirement)
      [] intent.kind = "asset-sensitive" -> source.kind = "external-reference"

\* validateItem.
ValidItem(source, item) ==
    /\ ValidMark(source.frame, item.mark)
    /\ item.assoc # None => ValidAssociation(source, item.assoc)
    /\ item.state # "uninterpreted" => ValidIntent(source, item.intent)

\* isValidVisualAnnotationContent.
ValidContent(source, items) ==
    /\ Len(items) <= MaxItems
    /\ \A i \in DOMAIN items : ValidItem(source, items[i])
    /\ \A i, j \in DOMAIN items : items[i].id = items[j].id => i = j

-----------------------------------------------------------------------------
(* What the server makes of confirmed items                                *)

\* primitiveMatchesAssociation.
MatchesAssociation(operation, p, assoc) ==
    CASE operation \in {"move", "resize"} ->
           /\ assoc.kind = "runtime-target"
           /\ p.kind \in {"property-increases", "property-decreases"} /\ p.minimum = None
           /\ p.a = assoc.target
           /\ p.property \in IF operation = "move" THEN {"x", "y"} ELSE {"width", "height"}
      [] operation = "preserve" ->
           IF assoc.kind = "runtime-target"
           THEN p.kind = "property-unchanged" /\ p.a = assoc.target /\ p.property \in Properties
           ELSE p = RelationshipPrimitive(assoc)
      [] operation = "remove" -> FALSE

\* contractPromotionBlockReason, of an item that may become a clause.
MayPromote(item) ==
    /\ item.state = "confirmed"
    /\ item.intent.kind = "change" /\ item.intent.operation # "remove"
    /\ item.intent.primitive # None /\ ValidPrimitive(item.intent.primitive)
    /\ item.assoc # None /\ item.assoc.kind \in {"runtime-target", "runtime-relationship"}
    /\ MatchesAssociation(item.intent.operation, item.intent.primitive, item.assoc)

\* promoteVisualAnnotationContract: all of the selection or nothing.
PromotionAccepted(source, items, selected) ==
    /\ source.kind = "runtime-observation" /\ ValidContent(source, items)
    /\ Cardinality(selected) \in 1 .. MaxItems
    /\ \A id \in selected : \E i \in DOMAIN items : items[i].id = id /\ MayPromote(items[i])

\* The intents a selection names.
Chosen(items, selected, kind) ==
    {items[i] : i \in {j \in DOMAIN items : items[j].id \in selected /\ items[j].intent.kind = kind}}
ChosenRegions(items, selected, mode) ==
    {i \in Chosen(items, selected, "reference-region") : i.intent.mode = mode}

\* materializeVisualAnnotationReference: a refinement keeps its region's place
\* and name, a creation adds a region.
FinalRegions(regions, items, selected) ==
    LET refining == ChosenRegions(items, selected, "refine")
        creating == ChosenRegions(items, selected, "create")
        Proposed(chosen, n) == (CHOOSE i \in chosen : SameName(i.intent.region, n)).intent.rect
        Named(chosen, n) == \E i \in chosen : SameName(i.intent.region, n)
    IN [n \in DOMAIN regions \cup {i.intent.region : i \in creating} |->
           IF n \in DOMAIN regions
           THEN IF Named(refining, n) THEN Proposed(refining, n) ELSE regions[n]
           ELSE Proposed(creating, n)]

\* Every refinement is of a region there, every creation of one not there, and
\* no two are of one name.
RegionsCompose(regions, items, selected) ==
    LET proposing == Chosen(items, selected, "reference-region")
    IN /\ \A i \in proposing : i.intent.mode = "refine" <=> Known(regions, i.intent.region)
       /\ \A i, j \in proposing : SameName(i.intent.region, j.intent.region) => i = j

\* The requirements of the new revision: the reference's own, then those selected.
Required(source, items, selected) ==
    {[r EXCEPT !.id = << "own", r.id >>] : r \in source.requirements}
    \cup {[id |-> << "selected", i.id >>, category |-> i.intent.requirement.category,
           mode |-> i.intent.requirement.mode, subject |-> i.intent.requirement.subject,
           tolerance |-> i.intent.requirement.tolerance] :
             i \in Chosen(items, selected, "reference-requirement")}

\* materializeVisualAnnotationReference, before it writes anything: a selected
\* relationship must hold of the regions as they will be.
MaterializationAccepted(source, items, selected) ==
    /\ source.kind = "external-reference" /\ ValidContent(source, items)
    /\ Cardinality(selected) \in 1 .. MaxItems
    /\ \A id \in selected : \E i \in DOMAIN items : items[i].id = id /\ Materializable(items[i])
    /\ RegionsCompose(source.regions, items, selected)
    /\ LET final == FinalRegions(source.regions, items, selected)
       IN /\ ValidRegions(final, source.frame)
          /\ ValidRequirements(Required(source, items, selected), final)
          /\ \A i \in Chosen(items, selected, "reference-requirement") :
                i.intent.requirement.subject.kind = "region-relationship" => Exhibits(final, i.intent.requirement.subject)
=============================================================================
