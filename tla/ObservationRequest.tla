------------------------- MODULE ObservationRequest -------------------------
(***************************************************************************)
(* What an observation is asked for, and the one gate every request passes *)
(* before a browser is started: a raw request is either refused or becomes *)
(* a normalized one, with every default filled in.                         *)
(*                                                                         *)
(* A string is known by its length where only its length is checked, a     *)
(* location by its segments, and a name by the spelling names are compared *)
(* in, LowerCase.                                                          *)
(***************************************************************************)
EXTENDS Integers, Sequences

CONSTANTS
    Unset,            \* the field is absent
    NotAList,         \* a value of another shape where a list is due
    Foreign,          \* an object written for something else
    SafeUrls,         \* the addresses classifyUrl allows
    WellFormedNames,  \* the target names that match the pattern
    LowerCase         \* [names -> names], the spelling names are compared in

VIEWPORT_MIN == 200
VIEWPORT_MAX == 3840
MAX_TARGETS == 20
MAX_LOCATORS_PER_TARGET == 5
SCROLL_DELTA_MAX_ABS == 20000
TIMEOUT_MIN_MS == 1000
TIMEOUT_MAX_MS == 120000
DEFAULT_TIMEOUT_MS == 30000
READINESS_TIMEOUT_MIN_MS == 500
DEFAULT_READINESS_TIMEOUT_MS == 10000
DEFAULT_OUTPUT_LOCATION == <<"observations">>
DEFAULT_VIEWPORT == [width |-> 1280, height |-> 720]
LoadStates == {"load", "domcontentloaded"}

\* The longest string each kind of locator may search for.
MaxLength == [k \in {"css", "role", "id", "data-attribute", "text"} |->
    CASE k = "css" -> 500 [] k = "role" -> 64 [] k = "id" -> 200
      [] k = "data-attribute" -> 500 [] k = "text" -> 200]
MaxAccessibleName == 200

-----------------------------------------------------------------------------
\* Where to write: relative to the working directory and never above it.
IsAbsolute(segments) == Len(segments) > 1 /\ segments[1] \in {"", "C:"}

PortableLocation(segments) ==
    /\ ~ IsAbsolute(segments)
    /\ \A i \in DOMAIN segments : segments[i] # ".."

\* Without the segments that lead nowhere.
CleanedLocation(segments) ==
    LET upto[i \in 0..Len(segments)] ==
            IF i = 0 THEN <<>>
            ELSE IF segments[i] \in {"", "."} THEN upto[i - 1]
            ELSE Append(upto[i - 1], segments[i])
    IN  upto[Len(segments)]

\* A locator searches by one string of its kind; `tagged` says that the
\* attribute or tag it names is one of the supported ones, and a role may also
\* carry an accessible name.
ValidLocator(l) ==
    \/ l.kind = "semantic-element" /\ l.tagged
    \/ /\ l.kind \in DOMAIN MaxLength
       /\ l.length \in 1..MaxLength[l.kind]
       /\ l.kind = "data-attribute" => l.tagged
       /\ l.kind = "role" => l.name = Unset \/ l.name \in 0..MaxAccessibleName

\* A target is found by a selector or by a list of locators, never by both.
TargetSound(t) ==
    /\ t.name \in WellFormedNames
    /\ \/ t.locators = Unset /\ t.selector \in 1..MaxLength["css"]
       \/ /\ t.selector = Unset /\ t.locators # Unset
          /\ Len(t.locators) \in 1..MAX_LOCATORS_PER_TARGET
          /\ \A i \in DOMAIN t.locators : ValidLocator(t.locators[i])

DistinctNames(targets) ==
    \A i, j \in DOMAIN targets :
        LowerCase[targets[i].name] = LowerCase[targets[j].name] => i = j

TargetsSound(targets) ==
    /\ Len(targets) <= MAX_TARGETS
    /\ \A i \in DOMAIN targets : TargetSound(targets[i])
    /\ DistinctNames(targets)

NamesTarget(targets, name) ==
    /\ name \in DOMAIN LowerCase
    /\ \E i \in DOMAIN targets : LowerCase[targets[i].name] = LowerCase[name]

\* A scroll moves the window or one of the configured targets, by something.
ScrollSound(s, targets) ==
    /\ s # Foreign
    /\ {s.deltaX, s.deltaY} \subseteq -SCROLL_DELTA_MAX_ABS..SCROLL_DELTA_MAX_ABS
    /\ <<s.deltaX, s.deltaY>> # <<0, 0>>
    /\ \/ s.kind = "window-scroll-by" /\ s.target = Unset
       \/ s.kind = "target-scroll-by" /\ NamesTarget(targets, s.target)

-----------------------------------------------------------------------------
Given(value, default) == IF value = Unset THEN default ELSE value
AtMost(a, b) == IF a <= b THEN a ELSE b

TimeoutOf(raw) == Given(raw.timeoutMs, DEFAULT_TIMEOUT_MS)
LoadStateOf(raw) == Given(raw.readiness.condition, "load")
ReadinessTimeoutOf(raw) ==
    Given(raw.readiness.timeoutMs,
          AtMost(DEFAULT_READINESS_TIMEOUT_MS, TimeoutOf(raw)))
TargetsOf(raw) == Given(raw.targets, <<>>)

\* normalizeRequest collects every problem; any one of them refuses the
\* request.  `explicitState` is the verdict of the state's own validator.
Acceptable(raw) ==
    /\ raw.targetUrl \in SafeUrls
    /\ raw.viewport # Unset => {raw.viewport.width, raw.viewport.height}
                                   \subseteq VIEWPORT_MIN..VIEWPORT_MAX
    /\ raw.targets # NotAList /\ TargetsSound(TargetsOf(raw))
    /\ TimeoutOf(raw) \in TIMEOUT_MIN_MS..TIMEOUT_MAX_MS
    /\ LoadStateOf(raw) \in LoadStates
    /\ raw.readiness.timeoutMs # Unset =>
           raw.readiness.timeoutMs \in READINESS_TIMEOUT_MIN_MS..TimeoutOf(raw)
    /\ raw.outputLocation # Unset => PortableLocation(raw.outputLocation)
    /\ raw.scrollScenario # Unset => ScrollSound(raw.scrollScenario, TargetsOf(raw))
    /\ raw.explicitState # Unset => raw.explicitState = "valid"

\* A selector is the one locator of its target.
LocatorsOf(t) ==
    IF t.locators # Unset THEN t.locators
    ELSE << [kind |-> "css", length |-> t.selector] >>

Normalized(raw) ==
    [targetUrl |-> raw.targetUrl,
     viewport |-> Given(raw.viewport, DEFAULT_VIEWPORT),
     targets |-> LET ts == TargetsOf(raw)
                 IN  [i \in DOMAIN ts |->
                         [name |-> ts[i].name, locators |-> LocatorsOf(ts[i])]],
     outputLocation |-> CleanedLocation(Given(raw.outputLocation, DEFAULT_OUTPUT_LOCATION)),
     timeoutMs |-> TimeoutOf(raw),
     readiness |-> [condition |-> LoadStateOf(raw),
                    timeoutMs |-> ReadinessTimeoutOf(raw)],
     scrollScenario |-> raw.scrollScenario,
     explicitState |-> raw.explicitState]

-----------------------------------------------------------------------------
\* What the capture relies on without looking again: it waits for the page no
\* longer than for the whole capture, keeps the evidence of a target under a
\* name no other target has, scrolls a target that is there, and writes below
\* the working directory.
Coherent(request) ==
    /\ request.readiness.timeoutMs <= request.timeoutMs
    /\ DistinctNames(request.targets)
    /\ request.scrollScenario # Unset =>
           \/ request.scrollScenario.target = Unset
           \/ NamesTarget(request.targets, request.scrollScenario.target)
    /\ \A i \in DOMAIN request.outputLocation :
           request.outputLocation[i] \notin {"", ".", ".."}
=============================================================================
