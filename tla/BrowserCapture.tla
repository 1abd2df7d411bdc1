--------------------------- MODULE BrowserCapture ---------------------------
(***************************************************************************)
(* One observation: a browser is launched, a page is loaded, optionally    *)
(* scrolled, photographed and measured, the browser is closed and the      *)
(* result is validated and persisted.                                      *)
(*                                                                         *)
(* Between any two awaits of the observer the page goes on running: its    *)
(* elements come and go, it navigates, it opens popups, and it asks for    *)
(* things the safety policy blocks.  Those are the environment's actions.  *)
(***************************************************************************)
EXTENDS Integers, Sequences, FiniteSets

CONSTANTS
    Locator,       \* the locators of the request
    LocatorsOf,    \* target (its place in the request) -> its locators, in order
    Element,       \* elements the page may have
    Scenarios,     \* scroll scenarios requested: NoScenario, Window, or a target
    NoScenario, Window,
    None,          \* no target, no element, nothing yet
    Notices,       \* popups and downloads happen
    MaxEvents      \* bound: things the page does

Target == DOMAIN LocatorsOf

ASSUME TargetsHaveLocators == LocatorsOf \in Seq(Seq(Locator) \ {<< >>}) /\ LocatorsOf # << >>
ASSUME ScenariosAreRequests == Scenarios \subseteq {NoScenario, Window} \cup Target
ASSUME EventsAreBounded == MaxEvents \in Nat /\ Notices \in BOOLEAN

VARIABLES
    request,      \* the target URL is safe; the scroll scenario
    pc,           \* the await the observer is in
    browser,      \* the browser process
    page,         \* what the page is now
    rejection,    \* the first request the route handler turned away
    diagnostics,  \* collected so far
    cursor,       \* where target resolution stands
    infos,        \* target -> how it was resolved
    handles,      \* targets whose element handle is held
    acted,        \* the scroll action was performed
    pageEvidence, \* page evidence was read
    records,      \* target -> its evidence record
    result,       \* what captureViewport returns
    stored,       \* the persisted observation
    events        \* things the page has done

evidence == << infos, handles, acted, pageEvidence, records >>
outcome == << result, stored >>
world == << browser, page, rejection, events >>
vars == << request, pc, cursor, diagnostics, evidence, outcome, world >>

-----------------------------------------------------------------------------
(* Diagnostics                                                             *)

Blocked == {"prohibited-redirect", "prohibited-subresource-request"}
Warnings == {"readiness-timeout", "target-missing", "target-ambiguous", "target-hidden",
             "browser-evidence-unavailable"}
Codes == Blocked \cup Warnings \cup
         {"unsafe-url", "navigation-failure", "browser-runtime-failure",
          "unsupported-configuration"}

\* DIAGNOSTIC_SEVERITY, the single source of truth.
SeverityOf(code) == IF code \in Warnings THEN "warning" ELSE "error"

DiagnosticFor(code, t) == [code |-> code, severity |-> SeverityOf(code), target |-> t]
Plain(code) == DiagnosticFor(code, None)

Diagnostics == [code : Codes, severity : {"warning", "error"}, target : Target \cup {None}]

\* An observation (whose diagnostics are those collected), or why there is none.
Result == [ok : BOOLEAN, diagnostics : SUBSET Diagnostics]
Observed == [ok |-> TRUE, diagnostics |-> {}]
NotObserved(ds) == [ok |-> FALSE, diagnostics |-> ds]

\* classifyPopup and classifyDownload state a severity of their own.
Notice == [code |-> "unsupported-configuration", severity |-> "warning", target |-> None]

ValidDiagnostic(d) == d.severity = SeverityOf(d.code)

\* deriveCompletion of a capture's diagnostics.
Completion(ds) == IF ds = {} THEN "complete"
                  ELSE IF \E d \in ds : d.severity = "error" THEN "fatal"
                  ELSE "partial"

-----------------------------------------------------------------------------
(* The page and Playwright                                                 *)

\* `match` is what each locator would find, `shown` the elements with a visible
\* box; `document` counts committed documents.
Pages == [match : [Locator -> SUBSET Element], shown : SUBSET Element, document : Nat]

Blank == [match |-> [l \in Locator |-> {}], shown |-> {}, document |-> 0]

Happens == browser = "open" /\ events < MaxEvents /\ events' = events + 1

BecomesAnything(document) ==
    \E match \in [Locator -> SUBSET Element], shown \in SUBSET Element :
        /\ shown \subseteq UNION {match[l] : l \in Locator}
        /\ page' = [match |-> match, shown |-> shown, document |-> document]

\* The page's own scripts change it.
PageChanges ==
    /\ page.document > 0
    /\ Happens
    /\ BecomesAnything(page.document)
    /\ UNCHANGED << request, pc, cursor, diagnostics, evidence, outcome, browser, rejection >>

\* A main-frame request, and what it redirects to, pass the policy; the answer
\* becomes the page's document.  An answer that fails leaves the page alone.
PageLoads ==
    /\ Happens
    /\ BecomesAnything(page.document + 1)
    /\ UNCHANGED << request, pc, cursor, diagnostics, evidence, outcome, browser, rejection >>

\* The route handler turns a request away; it remembers the first.
RequestBlocked ==
    /\ Happens
    /\ rejection' \in IF rejection = None THEN Blocked ELSE {rejection}
    /\ UNCHANGED << request, pc, cursor, diagnostics, evidence, outcome, browser, page >>

\* A popup or a download is noted, never followed.
PageNotice ==
    /\ Notices
    /\ page.document > 0
    /\ Happens
    /\ diagnostics' = diagnostics \cup {Notice}
    /\ UNCHANGED << request, pc, cursor, evidence, outcome, browser, page, rejection >>

Environment == PageChanges \/ PageLoads \/ RequestBlocked \/ PageNotice

\* A handle outlives changes of its document, not the document.
Live(t) == infos[t].document = page.document

Unmatched == {"not-found", "ambiguous", "unavailable"}
Statuses == Unmatched \cup {"none", "matched"}

\* How a target was resolved: what each locator tried gave, the element its
\* handle holds and the document that is of.
Info == [status : Statuses, attempts : Seq(Statuses), element : Element \cup {None},
         document : Nat]

\* The evidence of a target: whether it was measured, was visible then, and says
\* of its aria-current a word of that attribute's value space, if anything.
Record == [status : Statuses, visible : BOOLEAN, listed : BOOLEAN]

\* The resolution loop: its purpose, the target and locator it is at, and
\* whether that locator was counted to match.
Cursor == [pass : {"scenario", "evidence"}, target : Target, locator : Nat \ {0},
           found : BOOLEAN]

Unresolved == [status |-> "none", attempts |-> << >>, element |-> None, document |-> 0]
NoRecord == [status |-> "none", visible |-> FALSE, listed |-> TRUE]
Start(pass) == [pass |-> pass, target |-> 1, locator |-> 1, found |-> FALSE]

-----------------------------------------------------------------------------
Init == /\ request \in [safe : BOOLEAN, scenario : Scenarios]
        /\ pc = "classify"
        /\ browser = "none"
        /\ page = Blank
        /\ rejection = None
        /\ diagnostics = {}
        /\ cursor = Start("evidence")
        /\ infos = [t \in Target |-> Unresolved]
        /\ handles = {}
        /\ acted = FALSE
        /\ pageEvidence = FALSE
        /\ records = [t \in Target |-> NoRecord]
        /\ result = NotObserved({})
        /\ stored = [how |-> "nothing", completion |-> "none"]
        /\ events = 0

-----------------------------------------------------------------------------
(* Loading                                                                 *)

\* An unsafe target URL is refused before anything is launched.
Refuse ==
    /\ pc = "classify" /\ ~ request.safe
    /\ pc' = "done"
    /\ result' = NotObserved({Plain("unsafe-url")})
    /\ UNCHANGED << request, cursor, diagnostics, evidence, stored, world >>

\* A result that is not an observation; the browser, if any, is closed next.
Fails(ds) == pc' = "close" /\ result' = NotObserved(ds)

\* The browser may not start; if it does, its context or page may not.
Launch ==
    /\ pc = "classify" /\ request.safe
    /\ \/ pc' = "navigate" /\ browser' = "open" /\ UNCHANGED result
       \/ browser' \in {"none", "open"} /\ Fails({Plain("browser-runtime-failure")})
    /\ UNCHANGED << request, cursor, diagnostics, evidence, stored, page, rejection, events >>

\* page.goto without the request's timeout.
GotoMayReturnWithoutTimeout(ready) == page.document > 0

\* page.goto returns when the page is ready, or throws after the timeout.
GotoMayReturn(ready) == ready => page.document > 0

\* A rejection that only matters to a navigation that threw.
RejectedAndUnready(ready) == rejection # None /\ ~ ready

Rejected(ready) == rejection # None

GotoReturns(ready) ==
    /\ pc = "navigate"
    /\ GotoMayReturn(ready)
    /\ \/ /\ Rejected(ready)
          /\ Fails(diagnostics \cup {Plain(rejection)})
       \/ /\ ~ Rejected(ready) /\ ~ ready
          /\ \E code \in {"readiness-timeout", "navigation-failure"} :
                Fails(diagnostics \cup {Plain(code)})
       \/ /\ ~ Rejected(ready) /\ ready
          /\ pc' = IF request.scenario = NoScenario THEN "screenshot" ELSE "resolve"
          /\ UNCHANGED result
    /\ cursor' = Start(IF request.scenario = NoScenario THEN "evidence" ELSE "scenario")
    /\ UNCHANGED << request, diagnostics, evidence, stored, world >>

-----------------------------------------------------------------------------
(* Target resolution: one pass over the configured targets                 *)

\* An ambiguous locator that lets the next one try.
FallsThroughUnlessMatched(status) == status \in {"not-found", "ambiguous"}

\* Only a locator that finds nothing lets the next one try.
FallsThrough(status) == status = "not-found"

\* Resolution of the current target is over; go on to the next, or leave.
Resolved(info) ==
    /\ infos' = [infos EXCEPT ![cursor.target] = info]
    /\ cursor' = [Start(cursor.pass) EXCEPT
                     !.target = IF cursor.target = Len(LocatorsOf) THEN 1 ELSE cursor.target + 1]
    /\ pc' = IF cursor.target < Len(LocatorsOf) THEN "resolve"
             ELSE IF cursor.pass = "scenario" THEN "initial" ELSE "contain"

\* The attempts on the current target, with one more.
Attempts(status) == Append(infos[cursor.target].attempts, status)

\* evaluateLocatorAttempt: how many elements does the locator find now?
CountMatches ==
    /\ pc = "resolve" /\ ~ cursor.found
    /\ LET found == page.match[LocatorsOf[cursor.target][cursor.locator]]
           last == cursor.locator = Len(LocatorsOf[cursor.target])
       IN \E status \in {IF found = {} THEN "not-found"
                         ELSE IF Cardinality(found) = 1 THEN "matched" ELSE "ambiguous",
                         "unavailable"} :
            \/ /\ status = "matched"
               /\ infos' = [infos EXCEPT ![cursor.target].attempts = Attempts(status)]
               /\ cursor' = [cursor EXCEPT !.found = TRUE]
               /\ UNCHANGED pc
            \/ /\ FallsThrough(status) /\ ~ last
               /\ infos' = [infos EXCEPT ![cursor.target].attempts = Attempts(status)]
               /\ cursor' = [cursor EXCEPT !.locator = @ + 1]
               /\ UNCHANGED pc
            \/ /\ status # "matched" /\ (FallsThrough(status) => last)
               /\ Resolved([Unresolved EXCEPT !.status = status, !.attempts = Attempts(status)])
    /\ UNCHANGED << request, diagnostics, handles, acted, pageEvidence, records,
                    outcome, world >>

\* elementHandles(): the locator is evaluated once more, and the first element
\* it finds now is the target's.
TakeHandle ==
    /\ pc = "resolve" /\ cursor.found
    /\ LET found == page.match[LocatorsOf[cursor.target][cursor.locator]]
           info == infos[cursor.target]
       IN \/ \E element \in found :
                /\ Resolved([info EXCEPT !.status = "matched", !.element = element,
                                         !.document = page.document])
                /\ handles' = handles \cup {cursor.target}
          \/ /\ found = {}
             /\ Resolved([info EXCEPT !.status = "not-found"])
             /\ UNCHANGED handles
          \/ /\ Resolved([info EXCEPT !.status = "unavailable"])
             /\ UNCHANGED handles
    /\ UNCHANGED << request, diagnostics, acted, pageEvidence, records, outcome, world >>

-----------------------------------------------------------------------------
(* The scroll scenario                                                     *)

\* A snapshot measures every resolved target through its handle.
Snapshot == \A t \in handles : Live(t)

InitialSnapshot ==
    /\ pc = "initial" /\ Snapshot
    /\ pc' = "act"
    /\ UNCHANGED << request, cursor, diagnostics, evidence, outcome, world >>

\* The window, or the target if it was resolved, is scrolled.
Scroll ==
    /\ pc = "act"
    /\ \/ /\ request.scenario = Window \/ request.scenario \in handles
          /\ request.scenario \in handles => Live(request.scenario)
          /\ acted' = TRUE
       \/ /\ request.scenario \notin {Window} \cup handles
          /\ UNCHANGED acted
    /\ pc' = "final"
    /\ UNCHANGED << request, cursor, diagnostics, infos, handles, pageEvidence, records, outcome,
                    world >>

\* Two animation frames later; the handles are let go.
FinalSnapshot ==
    /\ pc = "final" /\ Snapshot
    /\ pc' = "screenshot"
    /\ handles' = {}
    /\ cursor' = Start("evidence")
    /\ infos' = [t \in Target |-> Unresolved]
    /\ UNCHANGED << request, diagnostics, acted, pageEvidence, records, outcome, world >>

\* A failure that does not pass through the `finally` blocks.
HandlesAfterAbruptFailure == handles

HandlesAfterFailure == {}

\* Any of these calls may throw; nothing of the observation is kept.
CallThrows ==
    /\ pc \in {"initial", "act", "final", "screenshot"}
    /\ Fails({Plain("browser-runtime-failure")})
    /\ handles' = HandlesAfterFailure
    /\ UNCHANGED << request, cursor, diagnostics, infos, acted, pageEvidence, records,
                    stored, world >>

-----------------------------------------------------------------------------
(* Screenshot, page evidence, target evidence                              *)

TakeScreenshot ==
    /\ pc = "screenshot"
    /\ pc' = "page"
    /\ UNCHANGED << request, cursor, diagnostics, infos, handles, acted, pageEvidence, records,
                    outcome, world >>

ReadPage ==
    /\ pc = "page"
    /\ \/ pageEvidence' = TRUE /\ UNCHANGED diagnostics
       \/ /\ diagnostics' = diagnostics \cup {Plain("browser-evidence-unavailable")}
          /\ UNCHANGED pageEvidence
    /\ pc' = "resolve"
    /\ UNCHANGED << request, cursor, infos, handles, acted, records, outcome, world >>

\* The observation is assembled from what there is.
Assembled == pc' = "close" /\ result' = Observed /\ handles' = {}

TargetEvidenceLost == {Plain("browser-evidence-unavailable")}

\* DOM containment between every two resolved targets.  One that cannot be
\* evaluated costs all target evidence.
Contain ==
    /\ pc = "contain"
    /\ \/ /\ Cardinality(handles) > 1 => \A t \in handles : Live(t)
          /\ pc' = "measure"
          /\ UNCHANGED << diagnostics, result, handles >>
       \/ /\ Cardinality(handles) > 1
          /\ diagnostics' = diagnostics \cup TargetEvidenceLost
          /\ Assembled
    /\ UNCHANGED << request, cursor, infos, acted, pageEvidence, records, stored, world >>

\* What a target that has no measurement is reported as.
CodeOf(status) == CASE status = "not-found" -> "target-missing"
                    [] status = "ambiguous" -> "target-ambiguous"
                    [] status = "unavailable" -> "browser-evidence-unavailable"

Recorded(t, record, ds) ==
    /\ records' = [records EXCEPT ![t] = record]
    /\ diagnostics' = diagnostics \cup ds
    /\ IF t = Len(LocatorsOf)
       THEN Assembled /\ UNCHANGED cursor
       ELSE /\ pc' = "measure"
            /\ cursor' = [cursor EXCEPT !.target = t + 1]
            /\ UNCHANGED << result, handles >>

\* A resolved target is measured through its handle; one that was not, or
\* whose handle fails, is recorded with the reason.
Measure ==
    /\ pc = "measure"
    /\ LET t == cursor.target
           unmeasured(status) == Recorded(t, [NoRecord EXCEPT !.status = status],
                                          {DiagnosticFor(CodeOf(status), t)})
       IN \/ /\ t \in handles /\ Live(t)
             /\ records' = [records EXCEPT ![t] =
                   [NoRecord EXCEPT !.status = "matched",
                                    !.visible = infos[t].element \in page.shown]]
             /\ pc' = "semantics"
             /\ UNCHANGED << cursor, diagnostics, result, handles >>
          \/ t \in handles /\ unmeasured("unavailable")
          \/ t \notin handles /\ unmeasured(infos[t].status)
    /\ UNCHANGED << request, infos, acted, pageEvidence, stored, world >>

\* A hidden target passed over in silence.
HiddenUnsaid(t) == {}

Hidden(t) == IF records[t].visible THEN {} ELSE {DiagnosticFor("target-hidden", t)}

\* Role, name and states are read next; that they could not be is recorded in
\* their own fields and reported nowhere else.  aria-current is taken over with
\* whatever word the page gives it.
ReadSemantics ==
    /\ pc = "semantics"
    /\ \E listed \in BOOLEAN :
           Recorded(cursor.target, [records[cursor.target] EXCEPT !.listed = listed],
                    Hidden(cursor.target))
    /\ UNCHANGED << request, infos, acted, pageEvidence, stored, world >>

-----------------------------------------------------------------------------
(* Closing and persisting                                                  *)

\* browser.close(), whose failure is swallowed: a browser that could not be
\* closed is heard of no more.
Close ==
    /\ pc = "close"
    /\ browser' \in IF browser = "none" THEN {"none"} ELSE {"closed", "lost"}
    /\ pc' = IF result.ok THEN "persist" ELSE "done"
    /\ UNCHANGED << request, cursor, diagnostics, evidence, outcome, page, rejection, events >>

\* isValidTargetSemanticState.
ValidState(record) == record.listed

ValidCompletion(completion, ds) == completion = "complete" => ds = {}

\* isValidObservationArtifact: one value it does not know costs all the evidence.
ValidObservation ==
    /\ \A t \in Target : ValidState(records[t])
    /\ \A d \in diagnostics : ValidDiagnostic(d)
    /\ ValidCompletion(Completion(diagnostics), diagnostics)

\* The artifact is built and validated, then written whole or not at all.
Persist ==
    /\ pc = "persist"
    /\ pc' = "done"
    /\ \/ /\ ValidObservation
          /\ \E how \in {"persisted", "write-failed"} :
                stored' = [how |-> how, completion |-> Completion(diagnostics)]
       \/ /\ ~ ValidObservation
          /\ stored' = [how |-> "invalid", completion |-> Completion(diagnostics)]
    /\ UNCHANGED << request, cursor, diagnostics, evidence, result, world >>

Observer == \/ Refuse \/ Launch
            \/ \E ready \in BOOLEAN : GotoReturns(ready)
            \/ CountMatches \/ TakeHandle
            \/ InitialSnapshot \/ Scroll \/ FinalSnapshot \/ CallThrows
            \/ TakeScreenshot \/ ReadPage \/ Contain \/ Measure \/ ReadSemantics
            \/ Close \/ Persist

Next == Observer \/ Environment

Spec == Init /\ [][Next]_vars

\* The observer's calls return or throw; what the page does is its own affair.
FairSpec == Spec /\ WF_vars(Observer)

-----------------------------------------------------------------------------
(* Properties                                                              *)

TypeOK ==
    /\ request \in [safe : BOOLEAN, scenario : Scenarios]
    /\ pc \in {"classify", "navigate", "resolve", "initial", "act", "final", "screenshot",
               "page", "contain", "measure", "semantics", "close", "persist", "done"}
    /\ browser \in {"none", "open", "closed", "lost"}
    /\ page \in Pages
    /\ rejection \in Blocked \cup {None}
    /\ diagnostics \subseteq Diagnostics
    /\ cursor \in Cursor
    /\ infos \in [Target -> Info]
    /\ handles \subseteq Target
    /\ acted \in BOOLEAN
    /\ pageEvidence \in BOOLEAN
    /\ records \in [Target -> Record]
    /\ result \in Result
    /\ stored \in [how : {"nothing", "persisted", "write-failed", "invalid"},
                   completion : {"none", "complete", "partial", "fatal"}]
    /\ events \in 0 .. MaxEvents

\* Whichever way a capture ends, it holds no element handle of a target.
HandlesReleased == pc \in {"close", "persist", "done"} => handles = {}

\* The inductive invariant.  What a pass left behind: each target it went
\* through has a handle, or is known not to have matched.
Through(t) == t \in handles \/ infos[t].status \in Unmatched

CursorInRange == cursor.locator \in DOMAIN LocatorsOf[cursor.target]

HandlesAreResolved ==
    \A t \in handles : infos[t].element \in Element

ResolvedSoFar ==
    /\ pc = "resolve" => /\ \A t \in Target : t < cursor.target => Through(t)
                         /\ \A t \in handles : t < cursor.target
    /\ pc \in {"contain", "measure", "semantics"} => \A t \in Target : Through(t)
    /\ pc \in {"screenshot", "page"} => cursor = Start("evidence")
    /\ pc \in {"contain", "measure", "semantics"} => cursor.locator = 1 /\ cursor.pass = "evidence"
    /\ pc = "contain" => cursor.target = 1
    /\ pc = "semantics" => cursor.target \in handles /\ records[cursor.target].status = "matched"

Seen(t) == records[t].status = "matched" /\ records[t].visible

PageWasRead == \/ result.ok
               \/ pc \in {"resolve", "contain", "measure", "semantics"} /\ cursor.pass = "evidence"

\* What is missing from the evidence so far has left a diagnostic.
MissingIsSaid ==
    diagnostics = {} =>
        /\ PageWasRead => pageEvidence
        /\ pc \in {"measure", "semantics"} => \A t \in Target : t < cursor.target => Seen(t)
        /\ result.ok => \A t \in Target : Seen(t)

\* An observation that calls itself complete lacks nothing: it has the page
\* evidence, and every configured target was measured and seen, whatever the
\* page did meanwhile and whichever calls failed.
CompleteMeansSeen ==
    stored.how = "persisted" /\ stored.completion = "complete"
        => /\ pageEvidence
           /\ \A t \in Target : records[t].status = "matched" /\ records[t].visible

IInv == /\ TypeOK
        /\ CursorInRange /\ HandlesAreResolved /\ ResolvedSoFar /\ MissingIsSaid
        /\ pc \in {"classify", "navigate", "screenshot", "page"} => handles = {}
        /\ HandlesReleased
        /\ result.ok => pc \in {"close", "persist", "done"}
        /\ pc = "persist" => result.ok
        /\ stored.how # "nothing" => pc = "done"
        /\ CompleteMeansSeen

\* Ambiguity never triggers fallback: a target's later locators are tried only
\* after the earlier ones found nothing, and an ambiguous or failing locator
\* settles the target.
FallbackOnlyAfterNothing ==
    \A t \in Target :
        LET attempts == infos[t].attempts
        IN \A k \in 1 .. Len(attempts) - 1 : attempts[k] = "not-found"

\* Every observation attempt ends with an answer and its browser given up,
\* even when the page never becomes ready.
EveryCaptureEnds == <>(pc = "done" /\ browser # "open")

\* A load during which a request was blocked is reported as a failure that
\* names the blocked request, and persists nothing.
BlockedLoadIsRefused ==
    (pc = "navigate" /\ rejection # None)
        ~> (/\ pc = "done" /\ ~ result.ok /\ stored.how = "nothing"
            /\ Plain(rejection) \in result.diagnostics)

\* What the safety policy says of popups and downloads: they are not fatal, an
\* observation of a page that only noticed some, and has no state that the schema
\* does not list, is persisted.
NoticesAreNotFatal ==
    (\A t \in Target : ValidState(records[t])) => stored.how # "invalid"
=============================================================================
