------------------------- MODULE MCEvidenceCommands -------------------------
(***************************************************************************)
(* Two processes on one store.  The first is started with every line that  *)
(* is one slip away from a sound one: a word lost, doubled, mistaken or    *)
(* swapped with the next.  The second runs a few sound lines beside it, so *)
(* that their artifacts, or the contract both save, can meet.              *)
(***************************************************************************)
EXTENDS EvidenceCommands

ObserveLine == << "observe", "--url", "app", "--target", "nav=#n", "--target",
                  "main=#m", "--timeout", "5000", "--output", "out" >>
ObserveByFilesLine ==
    << "observe", "--url", "app", "--targets-file", "targets.json",
       "--scroll-scenario-file", "scroll.json", "--state-file", "state.json",
       "--viewport", "800x600" >>
InitLine == << "init", "--url", "app", "--target", "nav=#n",
               "--default-baseline", "home", "--replace" >>
CompareLine == << "compare", "--before", "o1", "--after", "o2", "--output", "out",
                  "--config-file", "config.json" >>
BaselineLine == << "approve-baseline", "--observation", "o1", "--contract-file",
                   "base.json", "--output", "out" >>
ChangeLine == << "save-change-contract", "--contract-file", "change.json",
                 "--output", "out" >>
EvaluateLine(comparison) ==
    << "evaluate-contract", "--before", "o1", "--after", "o2", "--comparison",
       comparison, "--baseline", "b0", "--change", "c0", "--output", "out",
       "--enforce" >>
ImportLine == << "import-reference", "shot.png", "--output", "out",
                 "--supersedes", "r0", "--regions-file", "regions.json",
                 "--requirements-file", "requirements.json" >>
ImportBareLine == << "import-reference", "shot.png", "--output", "out",
                     "--applicability-file", "valid.json", "--label", "home" >>
ApproveLine(reference) == << "approve-reference", "--reference", reference,
                             "--output", "out", "--supersedes", "ra" >>
FidelityLine(reference) ==
    << "evaluate-reference-fidelity", "--reference", reference, "--candidate", "o1",
       "--bindings-file", "bindings.json", "--enforce" >>
ViewLine(context) ==
    << "view", "--root", "out", "--port", "5000", "--no-open", "--bindings-file",
       "bindings.json", "--context-file", context >>

SoundLines ==
    {ObserveLine, ObserveByFilesLine, InitLine, CompareLine, BaselineLine,
     ChangeLine, EvaluateLine("cmp"), ImportLine, ImportBareLine,
     ApproveLine("r0"), FidelityLine("ra"), ViewLine("context.json"), <<"capture", "home", "--replace">>,
     <<"check", "home", "--json">>}

Mistaken == {"--help", "--zoom", "o2", "elsewhere", "up", "broken.json", "500"}
Slips(line) ==
    LET options == IF Head(line) \in DOMAIN OptionsOf
                   THEN DOMAIN OptionsOf[Head(line)] ELSE {"--replace", "--json"}
        after(i) == SubSeq(line, i + 1, Len(line))
        before(i) == SubSeq(line, 1, i - 1)
        places == 2..Len(line)
    IN  {before(i) \o after(i) : i \in DOMAIN line}
        \cup {before(i) \o <<line[i]>> \o after(i - 1) : i \in places}
        \cup {before(i) \o <<w>> \o after(i) : i \in places, w \in options \cup Mistaken}
        \cup {before(i) \o <<w>> \o after(i - 1) : i \in places, w \in options \cup {"--help"}}
        \cup {before(i) \o <<line[i + 1], line[i]>> \o after(i + 1) :
                 i \in places \ {Len(line)}}

Besides == {CompareLine, ImportBareLine, ChangeLine}
MCLines ==
    [p \in {"p1", "p2"} |->
        IF p = "p2" THEN Besides
        ELSE (UNION {Slips(line) : line \in SoundLines}) \cup SoundLines
             \cup {EvaluateLine("fresh"), ApproveLine("fresh"), ApproveLine("r1"),
                   FidelityLine("r1"), ViewLine("older.json"), ViewLine("damaged.json"),
                   <<>>, <<"--help">>}]

MCNumberOf == "500" :> 500 @@ "5000" :> 5000
MCViewportOf == "800x600" :> [width |-> 800, height |-> 600]
Target(name) == [name |-> name, selector |-> 2, locators |-> Unset]
MCTargetOf == "nav=#n" :> Target("nav") @@ "main=#m" :> Target("main")
MCLowerCase == "nav" :> "nav" @@ "Nav" :> "nav" @@ "main" :> "main"
MCDashed == {"--help", "--zoom"} \cup UNION {DOMAIN OptionsOf[c] : c \in DOMAIN OptionsOf}
            \cup {"--json"}

File(root, kind, holds) == [root |-> root, kind |-> kind, holds |-> holds]
Located2 == [kind |-> "role", length |-> 6, name |-> 4, tagged |-> FALSE]
Scroll == [kind |-> "target-scroll-by", deltaX |-> 0,
           deltaY |-> 100, target |-> "Nav"]

Request(timeout) ==
    [targetUrl |-> "app", viewport |-> DEFAULT_VIEWPORT, targets |-> <<>>,
     outputLocation |-> <<"kept">>, timeoutMs |-> timeout,
     readiness |-> [condition |-> "load", timeoutMs |-> 500],
     scrollScenario |-> Unset, explicitState |-> Unset]
O1 == Observation("o1", Request(1000))
O2 == Observation("o2", Request(2000))
SourceOf(o) == [id |-> o.id, request |-> o.request]
AuthoredContract(class, id, source) ==
    [class |-> class, id |-> id, source |-> source, sound |-> TRUE]
MCFiles ==
    "targets.json" :> File("targets", "targets",
        << [name |-> "nav", selector |-> Unset, locators |-> <<Located2>>] >>)
    @@ "scroll.json" :> File("object", "scroll", Scroll)
    @@ "state.json" :> File("object", "state", "valid")
    @@ "valid.json" :> File("object", "applicability", "valid")
    @@ "config.json" :> File("object", "comparison", 4)
    @@ "base.json" :> File("object", "contract",
                           AuthoredContract("baseline", "b1", SourceOf(O1)))
    @@ "change.json" :> File("object", "contract",
                             AuthoredContract("change", "c1", Unset))
    @@ "regions.json" :> File("regions", "regions",
        << [id |-> "nav", x |-> 0, y |-> 0, width |-> 800, height |-> 80] >>)
    @@ "requirements.json" :> File("requirements", "requirements",
        << [sound |-> TRUE, regions |-> {"Nav"}, subject |-> "nav height"] >>)
    @@ "bindings.json" :> File("bindings", "bindings", "bindings")
    @@ "context.json" :> File("object", "context", "current")
    @@ "older.json" :> File("object", "context", "older")
    @@ "damaged.json" :> File("object", "context", "damaged")
    @@ "broken.json" :> File("not-an-object", "none", "none")
MCImages == "shot.png" :> [width |-> 800, height |-> 600]
MCSegments == "up" :> <<"..", "out">> @@ "elsewhere" :> <<"", "tmp">>

Plain == [image |-> MCImages["shot.png"], regions |-> Unset,
          requirements |-> Unset, applicability |-> Unset]
R0 == Imported("r0", Plain, Unset)
\* A reference whose manifest was damaged: its region lies outside its image.
R1 == Imported("r1", [Plain EXCEPT !.regions =
          << [id |-> "nav", x |-> 700, y |-> 0, width |-> 800, height |-> 80] >>], Unset)
Cmp == Comparison("cmp", O1, O2, DEFAULT_TOLERANCE)
Kept(a) == <<<<"kept">>, a.id>> :>
    ("manifest" :> a @@ IF a.family \in Owners THEN "media" :> a.id ELSE EmptyDir)
MCAlready ==
    Kept(O1) @@ Kept(O2) @@ Kept(Cmp) @@ Kept(R0) @@ Kept(R1) @@ Kept(Approved("ra", R0, Unset))
    @@ Kept(Contract(AuthoredContract("baseline", "b0", SourceOf(O1))))
    @@ Kept(Contract(AuthoredContract("change", "c0", Unset)))
MCPathOf == [w \in {"o1", "o2", "cmp", "b0", "c0", "r0", "r1", "ra"} |-> <<<<"kept">>, w>>]
            @@ "fresh" :> <<<<"out">>, "p2">>
=============================================================================
