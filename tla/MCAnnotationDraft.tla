-------------------------- MODULE MCAnnotationDraft --------------------------
(* Small instances of AnnotationDraft for TLC.                             *)
EXTENDS AnnotationDraft

\* A frame two wide and one high; a reference of it has one region, at its left.
Frame == [width |-> 2, height |-> 1]
LeftHalf == [x |-> 0, y |-> 0, width |-> 1, height |-> 1]
Exact == [kind |-> "exact"]
Of(a, property) == [kind |-> "region-property", a |-> a, property |-> property]
Requirement(subject) == [category |-> "protected", mode |-> Unavailable, tolerance |-> Exact, subject |-> subject]
Own == [id |-> "q", category |-> "protected", mode |-> Unavailable, tolerance |-> Exact, subject |-> Of("r", "x")]

Page == [kind |-> "runtime-observation", frame |-> Frame, regions |-> << >>, requirements |-> {}]
Image == [kind |-> "external-reference", frame |-> Frame, regions |-> [r \in {"r"} |-> LeftHalf], requirements |-> {Own}]
MCSources == {Page, Image}

\* Names are written in capitals or not.
MCLower(name) == CASE name = "N" -> "n" [] name = "R" -> "r" [] OTHER -> name

Gesture(mode, x, toX, text) == [mode |-> mode, x |-> x, y |-> 0, toX |-> toX, toY |-> 1, text |-> text]
\* The last two draw nothing: outside the frame, and without an area.
MCGestures ==
    {Gesture("rectangle", 1, 0, 0), Gesture("note", 2, 2, 1),
     Gesture("line", 0, 3, 0), Gesture("rectangle", 1, 1, 0)}
MCMoves == {<< 1, 0 >>}

MCAssociations ==
    [kind \in {"runtime-observation", "external-reference"} |->
        IF kind = "runtime-observation"
        THEN {[kind |-> "runtime-target", target |-> "t"],
              [kind |-> "runtime-relationship", relationship |-> "left-of", a |-> "t", b |-> "u"]}
        ELSE {[kind |-> "reference-region", region |-> "r"]}]

RuntimeForm(operation, category, mode, direction, tolerance) ==
    [operation |-> operation, category |-> category, mode |-> mode, direction |-> direction,
     property |-> "x", tolerance |-> tolerance]
MCForms ==
    [kind \in {"runtime-observation", "external-reference"} |->
        IF kind = "runtime-observation"
        THEN {RuntimeForm("move", "requested", None, "right", None),
              RuntimeForm("remove", "requested", None, None, None),
              RuntimeForm("preserve", "expected-dependent", "required", None, [kind |-> "percent", amount |-> 100])}
        ELSE {[kind |-> "create", region |-> "m"], [kind |-> "create", region |-> "N"],
              [kind |-> "refine", region |-> "r"], [kind |-> "inspect"],
              [kind |-> "requirement", requirement |-> Requirement(Of("n", "width"))]}]

\* What is already saved: nothing, something confirmed, or something else.
Box == [kind |-> "rectangle", x |-> 0, y |-> 0, width |-> 1, height |-> 1]
Arrow == [kind |-> "arrow", x |-> 0, y |-> 0, toX |-> 1, toY |-> 1]
Before(mark, assoc, intent) ==
    [NewItem(<< "saved", 1 >>, mark) EXCEPT !.assoc = assoc, !.state = "confirmed", !.intent = intent]
MovedBefore ==
    Before(Box, [kind |-> "runtime-target", target |-> "t"],
           Change(RuntimeForm("move", "requested", None, "right", None), DirectionalPrimitive("right", "t")))
KeptBefore ==
    LET assoc == [kind |-> "runtime-relationship", relationship |-> "left-of", a |-> "u", b |-> "t"]
    IN Before(Arrow, assoc, Change(RuntimeForm("preserve", "protected", None, None, None), RelationshipPrimitive(assoc)))
CreatedBefore == Before(Box, None, RegionIntent("create", "n", Box))
RequiredBefore ==
    Before(Box, [kind |-> "reference-region", region |-> "r"],
           [kind |-> "reference-requirement", requirement |-> Requirement(Of("R", "height"))])

Saved(item) == << [parent |-> None, items |-> << item >>] >>
MCSavedBefore ==
    [kind \in {"runtime-observation", "external-reference"} |->
        IF kind = "runtime-observation" THEN {<< >>, Saved(MovedBefore), Saved(KeptBefore)}
        ELSE {<< >>, Saved(CreatedBefore), Saved(RequiredBefore)}]
=============================================================================
