--------------------------- MODULE MCContractCheck ---------------------------
(* Small instances of ContractCheck and ReferenceCorrection for TLC.       *)
EXTENDS ReferenceCorrection

\* Two targets: a panel "a" and a banner "b" beneath it, ten pixels apart.
R(x, y, width, height) == [x |-> x, y |-> y, width |-> width, height |-> height]
Seen(rect) == [selection |-> "matched", rect |-> rect, visible |-> TRUE,
               overflow |-> {}, clips |-> {}, inside |-> {}]
Hidden(rect) == [Seen(rect) EXCEPT !.visible = FALSE]
Lost(selection) == [selection |-> selection]

Panel == Seen(R(0, 0, 10, 10))
Banner == Seen(R(0, 20, 30, 10))

Page == [width |-> 100, height |-> 100, viewport |-> 100]
Wide == [Page EXCEPT !.width = 120]

\* The window is scrolled by ten; the viewport ends at fifty.
Place(x, y) == [x |-> x, y |-> y]
Tracked(y, offset) == [offset |-> Place(0, offset), rect |-> R(0, y, 10, 10), visible |-> TRUE]
Unseen(offset) == [Tracked(0, offset) EXCEPT !.visible = FALSE]
Snap(window, s, t) == [window |-> Place(0, window), targets |-> [a |-> s, b |-> t]]
Scrolling(initial, final) == [initial |-> initial, final |-> final]
TopScroll == Scrolling(Snap(0, Tracked(0, 0), Tracked(20, 0)), Snap(10, Tracked(-10, 0), Tracked(10, 0)))

BannerScroll == Scrolling([window |-> Place(0, 0), targets |-> [b |-> Tracked(20, 0)]],
                          [window |-> Place(0, 10), targets |-> [b |-> Tracked(10, 0)]])

MCScrolls ==
    {Scrolling(Snap(0, Tracked(0, 0), Tracked(50, 0)), Snap(0, Tracked(0, 5), Tracked(50, 0))),   \* the panel
     Scrolling(Snap(0, Tracked(0, 0), Tracked(49, 0)), Snap(0, Tracked(0, 5), Tracked(44, 7))),   \* both
     Scrolling(Snap(0, Tracked(0, 0), Tracked(60, 0)), Snap(9, Tracked(-9, 5), Tracked(51, 0))),  \* the window too
     Scrolling(Snap(0, Tracked(0, 0), Unavailable), Snap(0, Tracked(0, 0), Unavailable)),         \* nothing
     Scrolling(Snap(0, Tracked(0, 0), Unseen(0)), Snap(10, Unseen(5), Unseen(0)))}                \* out of sight

Undeclared == [d \in StateDimensions |-> Unavailable]
Dark == [Undeclared EXCEPT !["theme"] = "dark"]
Light == [Undeclared EXCEPT !["theme"] = "light"]
Context == [request |-> "page", viewport |-> [width |-> 100, height |-> 50],
            engine |-> "chromium", state |-> Dark]

Observation(targets, a, b) ==
    [context |-> Context, targets |-> targets, of |-> [t \in {"a", "b"} |-> IF t = "a" THEN a ELSE b],
     page |-> Page, scroll |-> TopScroll]

AB == << "a", "b" >>
BA == << "b", "a" >>

Base == Observation(AB, Panel, Banner)
\* The page asked for without a scroll scenario.
Unscrolled(o) == [o EXCEPT !.scroll = Unavailable, !.context.request = "still"]

MCBaselines ==
    {Base, Observation(BA, Panel, Banner), Observation(AB, Lost("not-found"), Banner),
     Observation(AB, Hidden(R(0, 0, 10, 10)), Banner),
     [Base EXCEPT !.page = Unavailable], Unscrolled(Base)}

\* The panel spelled another way in the candidate.
Respelled(panel, banner) ==
    LET As_A(s) == [window |-> s.window, targets |-> [A |-> s.targets["a"], b |-> s.targets["b"]]]
    IN [Base EXCEPT !.targets = << "A", "b" >>, !.of = [A |-> panel, b |-> banner],
                    !.scroll = Scrolling(As_A(TopScroll.initial), As_A(TopScroll.final))]

Panels == {Panel,
           Seen(R(1, 1, 10, 10)),      \* nudged, unnoticeably
           Seen(R(0, 4, 12, 10)),      \* lower and wider
           Seen(R(0, 5, 40, 20)),      \* over the banner, and wider than it
           Seen(R(2, 22, 6, 6)),       \* inside the banner
           Seen(R(0, 40, 12, 10)),     \* beneath the banner
           Hidden(R(0, 0, 10, 10)),
           Hidden(R(0, 0, 0, 0)),      \* not rendered at all
           Lost("not-found"), Lost("ambiguous"),
           [Panel EXCEPT !.overflow = {"vertical"}, !.clips = {"vertical"}],
           [Panel EXCEPT !.inside = {"b"}]}
\* So thin, on one line, that each lies above the other.
Rule(width) == Seen(R(0, 20, width, 1))

Banners == {Banner, Seen(R(0, 40, 30, 10)), Hidden(R(0, 20, 30, 10))}

MCCandidates ==
    {Observation(AB, a, b) : a \in Panels, b \in Banners}
    \cup {Observation(BA, a, Banner) : a \in {Panel, Seen(R(2, 22, 6, 6))}}
    \cup {Observation(AB, Seen(R(-12, -15, 6, 10)), Banner)}  \* off the page, above and to the left
    \cup {Observation(targets, Rule(10), Rule(30)) : targets \in {AB, BA}}
    \cup {[Base EXCEPT !.targets = << "b" >>, !.scroll = BannerScroll], [Base EXCEPT !.context.request = "other"],
          [Base EXCEPT !.context.state = Undeclared], [Base EXCEPT !.context.state = Light],
          [Base EXCEPT !.page = Wide], [Base EXCEPT !.page = Unavailable],
          [Base EXCEPT !.page = [Page EXCEPT !.height = 120]],
          Unscrolled(Base), Unscrolled(Observation(AB, Seen(R(0, 4, 12, 10)), Banner))}
    \cup {Respelled(panel, Banner) :
             panel \in {Panel, Seen(R(0, 4, 12, 10)), Seen(R(0, 5, 40, 20)), Seen(R(0, 40, 12, 10)),
                        Hidden(R(0, 0, 10, 10)), Lost("not-found"), [Panel EXCEPT !.inside = {"b"}]}}
    \cup {Respelled(Panel, [Banner EXCEPT !.inside = {"A"}])}
    \cup {[Base EXCEPT !.scroll = s] : s \in MCScrolls}

-----------------------------------------------------------------------------
\* Primitives of every kind.
Of(kind, t) == [kind |-> kind, a |-> t]
Pair(kind, s, r) == [kind |-> kind, a |-> s, b |-> r]
NotClipped(axes) == [kind |-> "target-not-clipped", a |-> "a", axes |-> axes]
Width(min, max) == [kind |-> "target-width-within-bound", a |-> "a", min |-> min, max |-> max]
Unchanged(kind, s, r) == [kind |-> "relationship-unchanged", relationship |-> kind, a |-> s, b |-> r]
Still(property, tolerance) ==
    [kind |-> "property-unchanged", a |-> "a", property |-> property, tolerance |-> tolerance]
Within(kind, amount) == [kind |-> kind, amount |-> amount]
Directed(kind, property, minimum) == [kind |-> kind, a |-> "a", property |-> property, minimum |-> minimum]

StatePrimitives ==
    {Of("target-visible", "a"), Of("document-width-fits-viewport", Unavailable),
     Of("scroll-owner-is-document", Unavailable), Of("target-does-not-own-scroll", "a"),
     Of("target-begins-below-initial-viewport", "b"),
     NotClipped({"horizontal"}), NotClipped(Axes), Width(5, 10), Width(10, 12)}
    \cup {Pair(kind, p[1], p[2]) :
             kind \in {"targets-do-not-overlap", "target-wider-than", "target-follows-vertically", "target-fits-inside"},
             p \in {AB, BA}}
ChangePrimitives ==
    {Unchanged("above", "a", "b"), Unchanged("does-not-overlap", "b", "a"), Unchanged("follows-vertically", "b", "a"),
     Unchanged("above", Unavailable, "b"), Unchanged("document-width-fits-viewport", Unavailable, Unavailable),
     Still("x", Within("exact", 0)), Still("y", Within("absolute-px", 4)), Still("width", Within("percent", 20)),
     Directed("property-increases", "width", 1), Directed("property-increases", "y", 0),
     Directed("property-decreases", "y", 0)}

Baseline(n, p) == [id |-> n, primitive |-> p]
Change(n, p, mode, supersedes) == [id |-> n, primitive |-> p, mode |-> mode, supersedes |-> supersedes]
Contract(b, c) == [baseline |-> b, change |-> c]

\* A target moved down and widened by a clause each, with what goes with it.
Lowered == {Change(4, Directed("property-increases", "y", 0), "default", {}),
            Change(5, Directed("property-increases", "width", 1), "permitted", {})}

MCContracts ==
    {Contract({Baseline(1, p)}, {}) : p \in StatePrimitives \cup ChangePrimitives}
    \cup {Contract({}, {Change(3, p, "default", {})}) : p \in StatePrimitives}
    \cup {Contract({}, {Change(3, p, mode, {})}) : p \in ChangePrimitives, mode \in {"required", "permitted"}}
    \cup {Contract({Baseline(1, Still("y", Within("exact", 0))), Baseline(2, Of("target-visible", "a"))},
                   {Change(3, p, "default", s)}) :
             p \in {Directed("property-increases", "y", 0), Still("y", Within("absolute-px", 4)), Of("target-visible", "a")},
             s \in {{}, {1}, {1, 2}, {9}}}
    \cup {Contract({Baseline(1, p)}, Lowered) :
             p \in {Of("target-visible", "a"), Pair("target-follows-vertically", "b", "a"), NotClipped(Axes)}}
    \cup {Contract({}, Lowered \cup {Change(6, Pair("target-follows-vertically", "a", "b"), "default", {})}),
          Contract({Baseline(1, Still("y", Within("exact", 0)))},
                   {Change(3, Of("target-visible", "a"), "default", {1}), Change(4, Still("y", Within("absolute-px", 4)), "default", {}),
                    Change(5, Directed("property-increases", "y", 0), "default", {})})}
    \cup {Contract({}, {Change(3, Of("target-visible", "a"), "preserved", {}), Change(4, p, "preserved", {})}) :
             p \in {Pair("targets-do-not-overlap", "a", "b"), Pair("target-fits-inside", "a", "b")}}

-----------------------------------------------------------------------------
\* A design of the page at twice its size: a card for the panel, a band for the
\* banner.  People spell their names in more than one way.
MCLower(n) == CASE n \in {"Card", "CARD"} -> "card" [] n = "Band" -> "band" [] n = "A" -> "a" [] OTHER -> n

Regions == [card |-> R(0, 0, 20, 20), band |-> R(0, 40, 60, 20)]
Image == [width |-> 200, height |-> 100]
Window == [width |-> 100, height |-> 50]

Applies(viewport, state) == [viewport |-> viewport, state |-> state]
Requirement(subject, tolerance) ==
    [id |-> subject, category |-> "requested", mode |-> Unavailable, subject |-> subject, tolerance |-> tolerance]
Property(name, region) == [kind |-> "region-property", a |-> region, property |-> name]
Between2(name, a, b) == [kind |-> "region-measurement", a |-> a, b |-> b, measurement |-> name]
Fact(name, a, b) == [kind |-> "region-relationship", a |-> a, b |-> b, relationship |-> name]

Numbers ==
    {Requirement(Property(p, "Card"), Within("absolute-reference-px", 8)) : p \in RegionProperties}
    \cup {Requirement(Property("width", "card"), Within("percent", 20)), Requirement(Property("y", "card"), Within("exact", 0))}
    \cup {Requirement(Between2(m, "card", "Band"), Within("absolute-reference-px", 2)) : m \in Measurements}
Facts ==
    {Requirement(Fact(k, "card", "band"), Unavailable) : k \in PairwiseKinds}
    \cup {Requirement(Fact(k, "band", "card"), Unavailable) : k \in {"follows-vertically", "below", "wider-than", "overlaps"}}
    \cup {Requirement(Fact("above", "Card", "band"), Unavailable)}

Design1(requirements, applicability) ==
    [image |-> Image, applicability |-> applicability, regions |-> Regions, requirements |-> requirements]
Bind(region, target) == [region |-> region, target |-> target]
Both == {Bind("CARD", "A"), Bind("band", "b")}

As(requirements, applicability, bindings) ==
    [artifact |-> Design1(requirements, applicability), bindings |-> bindings]

Some == {Requirement(Property("y", "card"), Within("absolute-reference-px", 8)),
         Requirement(Fact("above", "card", "band"), Unavailable)}
NotShown == {Requirement(Fact("below", "card", "band"), Unavailable)}

MCReferences ==
    {As({r}, Applies(Window, Dark), Both) : r \in Numbers}
    \cup {As(Some \cup {r}, Applies(Window, Dark), Both) : r \in Facts}
    \cup {As(Some, Applies(viewport, state), Both) :
             viewport \in {Window, [Window EXCEPT !.height = 60], Unavailable}, state \in {Dark, Light, Undeclared}}
    \cup {As(requirements, Applies(Window, Undeclared), Both) : requirements \in {Some \cup NotShown, NotShown, {}}}
    \cup {As(Some, Applies(Window, Undeclared), bindings) :
             bindings \in {{}, {Bind("card", "a")}, {Bind("card", "a"), Bind("band", "a")},
                           {Bind("card", "a"), Bind("band", "z")}, {Bind("card", "a"), Bind("Card", "b")}}}
    \cup {[artifact |-> [Design1(Some, Applies(Window, Undeclared)) EXCEPT !.image = [width |-> 200, height |-> h]],
           bindings |-> Both] : h \in {101, 103}}
    \cup {As({Requirement(Between2("center-x-delta", "card", "band"), Within("exact", 0))}, Applies(Window, Dark),
             {Bind("card", "b"), Bind("band", "b")})}
    \cup {[artifact |-> [Design1({Requirement(Fact(k, "card", "band"), Unavailable)}, Applies(Window, Dark))
                             EXCEPT !.regions = [card |-> R(0, 40, 20, 1), band |-> R(0, 40, 60, 1)]],
           bindings |-> Both] : k \in {"above", "follows-vertically"}}
    \cup {[artifact |-> [Design1({Requirement(Fact(k, "band", "card"), Unavailable)}, Applies(Window, Dark))
                             EXCEPT !.regions = [card |-> R(0, 40, 20, 1), band |-> R(0, 41, 60, 2)]],
           bindings |-> Both] : k \in {"below", "follows-vertically"}}

\* A design whose card is lower and wider than the panel was, under contracts
\* that allow it to become so, or do not.
LowerDesign == [Design1({Requirement(Property("y", "card"), Within("exact", 0)),
                         Requirement(Property("width", "card"), Within("absolute-reference-px", 2))},
                        Applies(Window, Undeclared)) EXCEPT !.regions["card"] = R(0, 8, 24, 20)]

MCCorrections ==
    {[contract |-> k, reference |-> [artifact |-> d, bindings |-> bindings]] :
        k \in {Contract({Baseline(1, Of("target-visible", "a"))}, Lowered),
               Contract({Baseline(1, Still("y", Within("exact", 0)))}, Lowered),
               Contract({}, {Change(4, Directed("property-increases", "y", 0), "default", {})}),
               Contract({Baseline(1, Of("target-visible", "a"))}, {})},
        d \in {LowerDesign, Design1(Some, Applies(Window, Dark))},
        bindings \in {Both, {Bind("card", "a")}, {Bind("card", "a"), Bind("Card", "b")}}}

MCAcceptances ==
    {[contract |-> k, reference |-> NotConfigured] : k \in MCContracts}
    \cup {[contract |-> NotConfigured, reference |-> r] : r \in MCReferences \cup {NotConfigured}}
    \cup MCCorrections
=============================================================================
