------------------------ MODULE BrowserCapture_proofs ------------------------
(***************************************************************************)
(* For any targets, locators, elements and any number of things the page   *)
(* does: what a capture leaves out of an observation it says in a          *)
(* diagnostic, so that an observation that calls itself complete is.       *)
(***************************************************************************)
EXTENDS BrowserCapture, TLAPS

(* There is a first target, and every target has a first locator.          *)
LEMMA FirstOnes ==
    /\ Len(LocatorsOf) \in Nat \ {0} /\ Target = 1 .. Len(LocatorsOf)
    /\ \A t \in Target : /\ LocatorsOf[t] \in Seq(Locator)
                         /\ Len(LocatorsOf[t]) \in Nat \ {0}
                         /\ DOMAIN LocatorsOf[t] = 1 .. Len(LocatorsOf[t])
<1>1. LocatorsOf \in Seq(Seq(Locator) \ {<< >>}) /\ LocatorsOf # << >>
  BY TargetsHaveLocators
<1>2. Len(LocatorsOf) \in Nat \ {0} /\ Target = 1 .. Len(LocatorsOf)
  BY <1>1 DEF Target
<1>3. ASSUME NEW t \in Target
      PROVE  /\ LocatorsOf[t] \in Seq(Locator)
             /\ Len(LocatorsOf[t]) \in Nat \ {0}
             /\ DOMAIN LocatorsOf[t] = 1 .. Len(LocatorsOf[t])
  <2>1. LocatorsOf[t] \in Seq(Locator) \ {<< >>}
    BY <1>1, <1>2
  <2> QED BY <2>1
<1> QED BY <1>2, <1>3

(* Diagnostics the observer makes are well-formed.                         *)
LEMMA DiagnosticsTyped ==
    /\ \A code \in Codes, t \in Target \cup {None} : DiagnosticFor(code, t) \in Diagnostics
    /\ \A code \in Codes : Plain(code) \in Diagnostics
    /\ Notice \in Diagnostics
    /\ Plain("unsafe-url") \in Diagnostics
    /\ Plain("navigation-failure") \in Diagnostics
    /\ Plain("readiness-timeout") \in Diagnostics
    /\ Plain("browser-runtime-failure") \in Diagnostics
    /\ Plain("browser-evidence-unavailable") \in Diagnostics
    /\ \A code \in Blocked : Plain(code) \in Diagnostics
BY DEF Diagnostics, DiagnosticFor, Plain, SeverityOf, Notice, Codes, Warnings, Blocked

(* Results are well-formed.                                                *)
LEMMA ResultsTyped ==
    /\ Observed \in Result /\ Observed.ok
    /\ \A ds \in SUBSET Diagnostics : NotObserved(ds) \in Result /\ ~ NotObserved(ds).ok
BY DEF Observed, NotObserved, Result

(* One more attempt leaves a target's resolution well-formed.              *)
LEMMA AttemptsTyped ==
    ASSUME NEW info \in Info, NEW attempts \in Seq(Statuses)
    PROVE  [info EXCEPT !.attempts = attempts] \in Info
BY DEF Info

(* Every change of the page leaves a page.                                 *)
LEMMA PageTyped ==
    ASSUME page \in Pages, NEW document \in Nat, BecomesAnything(document)
    PROVE  page' \in Pages
BY DEF BecomesAnything, Pages

(* What the loop over the targets does when it is done with one of them.   *)
LEMMA ResolvedStep ==
    ASSUME IInv, pc = "resolve", NEW info \in Info, Resolved(info)
    PROVE  /\ infos' \in [Target -> Info] /\ infos'[cursor.target] = info
           /\ \A u \in Target : u # cursor.target => infos'[u] = infos[u]
           /\ cursor' \in Cursor /\ cursor'.locator = 1 /\ cursor'.pass = cursor.pass
           /\ CursorInRange'
           /\ \/ /\ pc' = "resolve"
                 /\ cursor'.target = cursor.target + 1
              \/ /\ pc' \in {"initial", "contain"}
                 /\ pc' = "contain" => cursor.pass = "evidence"
                 /\ cursor.target = Len(LocatorsOf) /\ cursor'.target = 1
<1>1. cursor \in Cursor /\ infos \in [Target -> Info]
  BY DEF IInv, TypeOK
<1>2. infos' \in [Target -> Info] /\ infos'[cursor.target] = info
      /\ \A u \in Target : u # cursor.target => infos'[u] = infos[u]
  BY <1>1 DEF Resolved, Cursor
<1>3. /\ cursor' \in Cursor /\ cursor'.locator = 1 /\ cursor'.pass = cursor.pass
      /\ cursor'.target = IF cursor.target = Len(LocatorsOf) THEN 1 ELSE cursor.target + 1
  <2>1. PICK next \in Target :
           /\ next = IF cursor.target = Len(LocatorsOf) THEN 1 ELSE cursor.target + 1
           /\ cursor' = [Start(cursor.pass) EXCEPT !.target = next]
    <3>1. (IF cursor.target = Len(LocatorsOf) THEN 1 ELSE cursor.target + 1) \in Target
      BY <1>1, FirstOnes DEF Cursor
    <3> QED BY <3>1 DEF Resolved
  <2>2. cursor' = [pass |-> cursor.pass, target |-> next, locator |-> 1, found |-> FALSE]
    BY <2>1 DEF Start
  <2>3. cursor.pass \in {"scenario", "evidence"}
    BY <1>1 DEF Cursor
  <2>4. cursor' \in Cursor
    BY <2>2, <2>3 DEF Cursor
  <2>5. cursor'.locator = 1 /\ cursor'.pass = cursor.pass /\ cursor'.target = next
    BY <2>2
  <2> QED BY <2>1, <2>4, <2>5
<1>4. CursorInRange'
  BY <1>3, FirstOnes DEF CursorInRange, Cursor
<1> QED BY <1>1, <1>2, <1>3, <1>4, FirstOnes DEF Resolved, Cursor

(* Counting either keeps the loop at its target, or settles the target as  *)
(* unmatched.                                                              *)
LEMMA CountMatchesStep ==
    ASSUME IInv, CountMatches
    PROVE  \/ /\ \E attempts \in Seq(Statuses) :
                    infos' = [infos EXCEPT ![cursor.target].attempts = attempts]
              /\ cursor' \in Cursor /\ cursor'.pass = cursor.pass
              /\ cursor'.target = cursor.target
              /\ CursorInRange' /\ pc' = pc
           \/ \E info \in Info : info.status \in Unmatched /\ Resolved(info)
<1>1. cursor \in Cursor /\ infos[cursor.target] \in Info /\ cursor.target \in Target
  BY DEF IInv, TypeOK, Cursor
<1>2. PICK status \in {"not-found", "matched", "ambiguous", "unavailable"} :
         \/ /\ status = "matched"
            /\ infos' = [infos EXCEPT ![cursor.target].attempts = Attempts(status)]
            /\ cursor' = [cursor EXCEPT !.found = TRUE]
            /\ UNCHANGED pc
         \/ /\ FallsThrough(status)
            /\ cursor.locator # Len(LocatorsOf[cursor.target])
            /\ infos' = [infos EXCEPT ![cursor.target].attempts = Attempts(status)]
            /\ cursor' = [cursor EXCEPT !.locator = @ + 1]
            /\ UNCHANGED pc
         \/ /\ status # "matched"
            /\ Resolved([Unresolved EXCEPT !.status = status, !.attempts = Attempts(status)])
  BY DEF CountMatches
<1>3. Attempts(status) \in Seq(Statuses)
  <2>1. infos[cursor.target].attempts \in Seq(Statuses) /\ status \in Statuses
    BY <1>1 DEF Info, Statuses, Unmatched
  <2> QED BY <2>1 DEF Attempts
<1>4. CASE status = "matched" /\ cursor' = [cursor EXCEPT !.found = TRUE] /\ UNCHANGED pc
           /\ infos' = [infos EXCEPT ![cursor.target].attempts = Attempts(status)]
  BY <1>1, <1>3, <1>4 DEF Cursor, CursorInRange, IInv
<1>5. CASE /\ cursor.locator # Len(LocatorsOf[cursor.target])
           /\ infos' = [infos EXCEPT ![cursor.target].attempts = Attempts(status)]
           /\ cursor' = [cursor EXCEPT !.locator = @ + 1]
           /\ UNCHANGED pc
  <2>1. cursor' \in Cursor /\ cursor'.pass = cursor.pass /\ cursor'.target = cursor.target
        /\ cursor'.locator = cursor.locator + 1
    BY <1>1, <1>5 DEF Cursor
  <2>2. CursorInRange'
    BY <1>1, <1>5, <2>1, FirstOnes DEF CursorInRange, IInv
  <2> QED BY <1>3, <1>5, <2>1, <2>2
<1>6. CASE /\ status # "matched"
           /\ Resolved([Unresolved EXCEPT !.status = status, !.attempts = Attempts(status)])
  <2> DEFINE info == [Unresolved EXCEPT !.status = status, !.attempts = Attempts(status)]
  <2>1. info \in Info /\ info.status \in Unmatched
    BY <1>3, <1>6 DEF Unresolved, Info, Statuses, Unmatched
  <2> QED BY <1>6, <2>1
<1> QED BY <1>2, <1>4, <1>5, <1>6

(* Taking a handle settles the target, matched and held, or unmatched.     *)
LEMMA TakeHandleStep ==
    ASSUME IInv, TakeHandle
    PROVE  \E info \in Info :
              /\ Resolved(info)
              /\ \/ /\ info.element \in Element
                    /\ handles' = handles \cup {cursor.target}
                 \/ info.status \in Unmatched /\ handles' = handles
<1> DEFINE found == page.match[LocatorsOf[cursor.target][cursor.locator]]
           info == infos[cursor.target]
<1>1. /\ cursor \in Cursor /\ info \in Info /\ cursor.target \in Target
      /\ page \in Pages /\ page.document \in Nat /\ cursor.locator \in Nat
      /\ cursor.locator \in DOMAIN LocatorsOf[cursor.target]
  BY DEF IInv, TypeOK, Cursor, Pages, CursorInRange
<1>2. found \subseteq Element
  <2>1. LocatorsOf[cursor.target][cursor.locator] \in Locator
    BY <1>1, FirstOnes
  <2> QED BY <1>1, <2>1 DEF Pages
<1>3. CASE \E element \in found :
               /\ Resolved([info EXCEPT !.status = "matched", !.element = element,
                                       !.document = page.document])
               /\ handles' = handles \cup {cursor.target}
  <2>1. PICK element \in found :
               /\ Resolved([info EXCEPT !.status = "matched", !.element = element,
                                       !.document = page.document])
               /\ handles' = handles \cup {cursor.target}
    BY <1>3
  <2> DEFINE held == [info EXCEPT !.status = "matched", !.element = element,
                                  !.document = page.document]
  <2>2. held \in Info /\ held.element = element
    BY <1>1, <1>2 DEF Info, Statuses
  <2> QED BY <1>1, <1>2, <2>1, <2>2
<1>4. ASSUME NEW status \in Unmatched, Resolved([info EXCEPT !.status = status]),
             UNCHANGED handles
      PROVE  \E i \in Info : Resolved(i) /\ i.status \in Unmatched /\ handles' = handles
  <2> DEFINE settled == [info EXCEPT !.status = status]
  <2>1. settled \in Info /\ settled.status = status
    BY <1>1 DEF Info, Statuses
  <2> QED BY <1>4, <2>1
<1>5. "not-found" \in Unmatched /\ "unavailable" \in Unmatched
  BY DEF Unmatched
<1> QED BY <1>3, <1>4, <1>5 DEF TakeHandle

(* Recording one target's evidence goes on to the next target or, after    *)
(* the last one, to closing the browser with an observation.               *)
LEMMA RecordedStep ==
    ASSUME IInv, NEW record \in Record, NEW ds \in SUBSET Diagnostics,
           Recorded(cursor.target, record, ds)
    PROVE  /\ records' \in [Target -> Record] /\ records'[cursor.target] = record
           /\ \A u \in Target : u # cursor.target => records'[u] = records[u]
           /\ diagnostics' \in SUBSET Diagnostics /\ diagnostics' = diagnostics \cup ds
           /\ cursor' \in Cursor /\ cursor'.locator = cursor.locator
           /\ cursor'.pass = cursor.pass
           /\ \/ /\ pc' = "close" /\ cursor.target = Len(LocatorsOf) /\ cursor' = cursor
                 /\ result' = Observed /\ handles' = {}
              \/ /\ pc' = "measure" /\ cursor'.target = cursor.target + 1
                 /\ result' = result /\ handles' = handles
<1>1. cursor \in Cursor /\ records \in [Target -> Record] /\ diagnostics \in SUBSET Diagnostics
  BY DEF IInv, TypeOK
<1>2. records' \in [Target -> Record] /\ records'[cursor.target] = record
      /\ \A u \in Target : u # cursor.target => records'[u] = records[u]
  BY <1>1 DEF Recorded, Cursor
<1>3. \/ cursor.target = Len(LocatorsOf) /\ cursor' = cursor
      \/ cursor.target # Len(LocatorsOf) /\ cursor' = [cursor EXCEPT !.target = cursor.target + 1]
  BY DEF Recorded
<1>4. /\ cursor' \in Cursor /\ cursor'.locator = cursor.locator /\ cursor'.pass = cursor.pass
      /\ cursor.target # Len(LocatorsOf) => cursor'.target = cursor.target + 1
  BY <1>1, <1>3, FirstOnes DEF Cursor
<1>5. diagnostics' \in SUBSET Diagnostics /\ diagnostics' = diagnostics \cup ds
  BY <1>1 DEF Recorded
<1> QED BY <1>2, <1>3, <1>4, <1>5 DEF Recorded, Assembled

(* The notice of a hidden target is well-formed.                           *)
LEMMA HiddenTyped == ASSUME IInv PROVE Hidden(cursor.target) \in SUBSET Diagnostics
<1>1. DiagnosticFor("target-hidden", cursor.target) \in Diagnostics
  BY DiagnosticsTyped DEF Codes, Warnings, Cursor, IInv, TypeOK
<1> QED BY <1>1 DEF Hidden

(* A record stays one when a field of it is given another value.           *)
LEMMA RecordFields ==
    /\ \A seen \in BOOLEAN :
          /\ [NoRecord EXCEPT !.status = "matched", !.visible = seen] \in Record
          /\ [NoRecord EXCEPT !.status = "matched", !.visible = seen].status = "matched"
    /\ \A record \in Record, listed \in BOOLEAN :
          /\ [record EXCEPT !.listed = listed] \in Record
          /\ [record EXCEPT !.listed = listed].status = record.status
          /\ [record EXCEPT !.listed = listed].visible = record.visible
BY DEF NoRecord, Record, Statuses

(* What measuring a target records.                                        *)
LEMMA MeasureStep ==
    ASSUME IInv, Measure
    PROVE  \/ /\ cursor.target \in handles
              /\ \E record \in Record :
                    records' = [records EXCEPT ![cursor.target] = record]
                    /\ record.status = "matched"
              /\ pc' = "semantics"
              /\ UNCHANGED << cursor, diagnostics, result, handles >>
           \/ \E record \in Record, d \in Diagnostics :
                    Recorded(cursor.target, record, {d})
<1> DEFINE t == cursor.target
           unmeasured(status) == Recorded(t, [NoRecord EXCEPT !.status = status],
                                          {DiagnosticFor(CodeOf(status), t)})
<1>1. t \in Target /\ infos[t] \in Info /\ page \in Pages
      /\ \A u \in handles : infos[u].element \in Element
  BY DEF IInv, TypeOK, Cursor, Pages, HandlesAreResolved
<1>2. ASSUME NEW status \in Unmatched, unmeasured(status)
      PROVE  \E record \in Record, d \in Diagnostics : Recorded(t, record, {d})
  <2>1. [NoRecord EXCEPT !.status = status] \in Record
    BY DEF NoRecord, Record, Statuses
  <2>2. DiagnosticFor(CodeOf(status), t) \in Diagnostics
    <3>1. CodeOf(status) \in Codes
      BY DEF CodeOf, Unmatched, Codes, Warnings
    <3> QED BY <1>1, <3>1, DiagnosticsTyped
  <2> QED BY <1>2, <2>1, <2>2
<1>3. CASE t \in handles /\ unmeasured("unavailable")
  BY <1>2, <1>3 DEF Unmatched
<1>4. CASE t \notin handles /\ unmeasured(infos[t].status)
  <2>1. infos[t].status \in Unmatched
    BY <1>1, <1>4 DEF Measure, IInv, ResolvedSoFar, Through
  <2> QED BY <1>2, <1>4, <2>1
<1>5. CASE /\ t \in handles
           /\ records' = [records EXCEPT ![t] =
                 [NoRecord EXCEPT !.status = "matched",
                                  !.visible = infos[t].element \in page.shown]]
           /\ pc' = "semantics"
           /\ UNCHANGED << cursor, diagnostics, result, handles >>
  <2> DEFINE seen == infos[t].element \in page.shown
             record == [NoRecord EXCEPT !.status = "matched", !.visible = seen]
  <2>1. seen \in BOOLEAN
    OBVIOUS
  <2>2. record \in Record /\ record.status = "matched"
    <3> HIDE DEF seen
    <3> QED BY <2>1, RecordFields
  <2> QED BY <1>5, <2>2
<1> QED BY <1>3, <1>4, <1>5 DEF Measure

(* What reading a target's role and name leaves of its record: all of it.  *)
LEMMA ReadSemanticsStep ==
    ASSUME IInv, ReadSemantics
    PROVE  \E record \in Record :
              /\ record.status = "matched"
              /\ record.visible = records[cursor.target].visible
              /\ Recorded(cursor.target, record, Hidden(cursor.target))
<1>1. records[cursor.target] \in Record /\ records[cursor.target].status = "matched"
  BY DEF ReadSemantics, IInv, TypeOK, ResolvedSoFar, Cursor
<1>2. PICK listed \in BOOLEAN :
         Recorded(cursor.target, [records[cursor.target] EXCEPT !.listed = listed],
                  Hidden(cursor.target))
  BY DEF ReadSemantics
<1> DEFINE record == [records[cursor.target] EXCEPT !.listed = listed]
<1>3. record \in Record /\ record.status = "matched"
      /\ record.visible = records[cursor.target].visible
  BY <1>1, RecordFields
<1> QED BY <1>2, <1>3

-----------------------------------------------------------------------------
(* No step takes the variables out of their types.                         *)
LEMMA TypeKept == ASSUME IInv, Next PROVE TypeOK'
<1> USE DEF IInv, TypeOK, evidence, outcome, world
<1>1. CASE PageChanges \/ PageLoads
  <2>1. page.document \in Nat /\ page.document + 1 \in Nat
    BY DEF Pages
  <2>2. page' \in Pages
    BY <1>1, <2>1, PageTyped DEF PageChanges, PageLoads
  <2> QED BY <1>1, <2>2, EventsAreBounded DEF PageChanges, PageLoads, Happens
<1>2. CASE RequestBlocked
  BY <1>2, EventsAreBounded DEF RequestBlocked, Happens
<1>3. CASE PageNotice
  BY <1>3, DiagnosticsTyped, EventsAreBounded DEF PageNotice, Happens
<1>4. CASE Refuse
  BY <1>4, DiagnosticsTyped, ResultsTyped DEF Refuse
<1>5. CASE Launch
  <2>1. pc' \in {"navigate", "close"} /\ browser' \in {"none", "open"}
    BY <1>5 DEF Launch, Fails
  <2>2. result' \in Result
    <3>1. CASE result' = result
      BY <3>1
    <3>2. CASE result' = NotObserved({Plain("browser-runtime-failure")})
      BY <3>2, DiagnosticsTyped, ResultsTyped
    <3> QED BY <1>5, <3>1, <3>2 DEF Launch, Fails
  <2> QED BY <1>5, <2>1, <2>2 DEF Launch
<1>6. ASSUME NEW ready \in BOOLEAN, GotoReturns(ready)
      PROVE  TypeOK'
  <2>1. \A pass \in {"scenario", "evidence"} : Start(pass) \in Cursor
    BY FirstOnes DEF Start, Cursor
  <2>2. cursor' \in Cursor
    BY <1>6, <2>1 DEF GotoReturns
  <2>3. pc' \in {"close", "screenshot", "resolve"}
    BY <1>6 DEF GotoReturns, Fails
  <2>4. result' \in Result
    <3>1. ASSUME NEW d \in Diagnostics,
                 result' = NotObserved(diagnostics \cup {d})
          PROVE  result' \in Result
      BY <3>1, ResultsTyped
    <3>2. CASE Rejected(ready)
      <4>1. Plain(rejection) \in Diagnostics
        BY <3>2, DiagnosticsTyped DEF Rejected
      <4> QED BY <1>6, <3>1, <3>2, <4>1 DEF GotoReturns, Fails
    <3>3. CASE ~ Rejected(ready)
      BY <1>6, <3>1, <3>3, DiagnosticsTyped DEF GotoReturns, Fails
    <3> QED BY <3>2, <3>3
  <2> QED BY <1>6, <2>2, <2>3, <2>4 DEF GotoReturns
<1>7. CASE CountMatches
  <2>1. infos' \in [Target -> Info] /\ cursor' \in Cursor
        /\ pc' \in {"resolve", "initial", "contain"}
    <3>1. CASE \E info \in Info : info.status \in Unmatched /\ Resolved(info)
      BY <1>7, <3>1, ResolvedStep DEF CountMatches
    <3>2. CASE /\ \E attempts \in Seq(Statuses) :
                     infos' = [infos EXCEPT ![cursor.target].attempts = attempts]
               /\ cursor' \in Cursor /\ pc' = pc
      <4>1. PICK attempts \in Seq(Statuses) :
               infos' = [infos EXCEPT ![cursor.target].attempts = attempts]
        BY <3>2
      <4>2. [infos[cursor.target] EXCEPT !.attempts = attempts] \in Info
        BY <4>1, AttemptsTyped DEF Cursor
      <4> QED BY <1>7, <3>2, <4>1, <4>2 DEF CountMatches
    <3> QED BY <1>7, <3>1, <3>2, CountMatchesStep
  <2> QED BY <1>7, <2>1 DEF CountMatches
<1>8. CASE TakeHandle
  <2>1. infos' \in [Target -> Info] /\ cursor' \in Cursor
        /\ pc' \in {"resolve", "initial", "contain"} /\ handles' \subseteq Target
    BY <1>8, TakeHandleStep, ResolvedStep DEF TakeHandle, Cursor
  <2> QED BY <1>8, <2>1 DEF TakeHandle
<1>9. CASE InitialSnapshot
  BY <1>9 DEF InitialSnapshot
<1>10. CASE Scroll
  BY <1>10 DEF Scroll
<1>11. CASE FinalSnapshot
  <2>1. Start("evidence") \in Cursor /\ Unresolved \in Info
    BY FirstOnes DEF Start, Cursor, Unresolved, Info, Statuses
  <2> QED BY <1>11, <2>1 DEF FinalSnapshot
<1>12. CASE CallThrows
  BY <1>12, DiagnosticsTyped, ResultsTyped DEF CallThrows, Fails, HandlesAfterFailure
<1>13. CASE TakeScreenshot
  BY <1>13 DEF TakeScreenshot, Pages
<1>14. CASE ReadPage
  BY <1>14, DiagnosticsTyped DEF ReadPage
<1>15. CASE Contain
  <2>1. pc' \in {"measure", "close"} /\ handles' \subseteq Target
    BY <1>15 DEF Contain, Assembled
  <2>2. diagnostics' \subseteq Diagnostics
    BY <1>15, DiagnosticsTyped DEF Contain, TargetEvidenceLost
  <2>3. result' \in Result
    BY <1>15, ResultsTyped DEF Contain, Assembled
  <2> QED BY <1>15, <2>1, <2>2, <2>3 DEF Contain
<1>16. CASE Measure
  <2>1. CASE \E record \in Record, d \in Diagnostics : Recorded(cursor.target, record, {d})
    <3>1. PICK record \in Record, d \in Diagnostics : Recorded(cursor.target, record, {d})
      BY <2>1
    <3>2. {d} \in SUBSET Diagnostics
      OBVIOUS
    <3>3. /\ records' \in [Target -> Record] /\ diagnostics' \subseteq Diagnostics
          /\ cursor' \in Cursor /\ pc' \in {"close", "measure"} /\ handles' \subseteq Target
          /\ result' \in Result
      BY <3>1, <3>2, RecordedStep, ResultsTyped
    <3> QED BY <1>16, <3>3 DEF Measure
  <2>2. CASE /\ \E record \in Record : records' = [records EXCEPT ![cursor.target] = record]
             /\ pc' = "semantics"
             /\ UNCHANGED << cursor, diagnostics, result, handles >>
    BY <1>16, <2>2 DEF Measure, Cursor
  <2> QED BY <1>16, <2>1, <2>2, MeasureStep
<1>17. CASE ReadSemantics
  <2>2. PICK record \in Record : Recorded(cursor.target, record, Hidden(cursor.target))
    BY <1>17, ReadSemanticsStep
  <2>3. /\ records' \in [Target -> Record] /\ diagnostics' \subseteq Diagnostics
        /\ cursor' \in Cursor /\ pc' \in {"close", "measure"} /\ handles' \subseteq Target
        /\ result' \in Result
    BY HiddenTyped, <2>2, RecordedStep, ResultsTyped
  <2> QED BY <1>17, <2>3 DEF ReadSemantics
<1>18. CASE Close
  BY <1>18 DEF Close
<1>19. CASE Persist
  BY <1>19 DEF Persist, Completion
<1> QED BY <1>1, <1>2, <1>3, <1>4, <1>5, <1>6, <1>7, <1>8, <1>9, <1>10, <1>11, <1>12, <1>13,
           <1>14, <1>15, <1>16, <1>17, <1>18, <1>19 DEF Next, Observer, Environment

(* The loop stays inside its lists, and a held handle is of an element that *)
(* one of the target's locators found.                                     *)
LEMMA CursorKept == ASSUME IInv, Next PROVE (CursorInRange /\ HandlesAreResolved)'
<1> USE DEF IInv, TypeOK, CursorInRange, HandlesAreResolved, evidence
<1>1. CASE PageChanges \/ PageLoads \/ RequestBlocked \/ PageNotice \/ Refuse \/ Launch
           \/ InitialSnapshot \/ Scroll \/ TakeScreenshot \/ ReadPage \/ Close \/ Persist
  BY <1>1 DEF PageChanges, PageLoads, RequestBlocked, PageNotice, Refuse, Launch,
              InitialSnapshot, Scroll, TakeScreenshot, ReadPage, Close, Persist
<1>2. CASE CallThrows \/ Contain
  BY <1>2 DEF CallThrows, HandlesAfterFailure, Contain, Assembled
<1>3. CASE (\E ready \in BOOLEAN : GotoReturns(ready)) \/ FinalSnapshot
  <2>1. CursorInRange'
    <3>1. cursor' \in {Start("evidence"), Start("scenario")}
      BY <1>3 DEF GotoReturns, FinalSnapshot
    <3> QED BY <3>1, FirstOnes DEF Start
  <2> QED BY <1>3, <2>1 DEF GotoReturns, FinalSnapshot
<1>4. CASE CountMatches
  <2>1. cursor.target \notin handles
    BY <1>4, FirstOnes DEF CountMatches, ResolvedSoFar, Cursor
  <2> QED BY <1>4, <2>1, CountMatchesStep, ResolvedStep DEF CountMatches
<1>5. CASE TakeHandle
  <2> cursor.target \in Target
    BY DEF Cursor
  <2>1. cursor.target \notin handles
    <3>1. pc = "resolve"
      BY <1>5 DEF TakeHandle
    <3>2. \A t \in handles : t < cursor.target
      BY <3>1 DEF ResolvedSoFar
    <3>3. cursor.target \in Nat
      BY FirstOnes DEF Cursor
    <3> QED BY <3>2, <3>3
  <2>2. PICK info \in Info :
           /\ Resolved(info)
           /\ \/ /\ info.element \in Element
                 /\ handles' = handles \cup {cursor.target}
              \/ handles' = handles
    BY <1>5, TakeHandleStep
  <2>3. /\ infos'[cursor.target] = info /\ CursorInRange'
        /\ \A u \in Target : u # cursor.target => infos'[u] = infos[u]
    BY <1>5, <2>2, ResolvedStep DEF TakeHandle
  <2> QED BY <2>1, <2>2, <2>3
<1>6. CASE Measure \/ ReadSemantics
  <2>1. /\ cursor' \in Cursor /\ cursor'.locator = 1
        /\ handles' \in {handles, {}} /\ infos' = infos
    <3>1. cursor.locator = 1
      BY <1>6 DEF Measure, ReadSemantics, ResolvedSoFar
    <3>2. CASE \E record \in Record, ds \in SUBSET Diagnostics :
                  Recorded(cursor.target, record, ds)
      BY <1>6, <3>1, <3>2, RecordedStep DEF Measure, ReadSemantics
    <3>3. CASE UNCHANGED << cursor, handles >>
      BY <1>6, <3>1, <3>3 DEF Measure, ReadSemantics
    <3>4. CASE Measure
      BY <3>2, <3>3, <3>4, MeasureStep
    <3>5. CASE ReadSemantics
      BY <3>2, <3>5, ReadSemanticsStep, HiddenTyped
    <3> QED BY <1>6, <3>4, <3>5
  <2>2. CursorInRange'
    BY <2>1, FirstOnes DEF Cursor
  <2> QED BY <2>1, <2>2
<1> QED BY <1>1, <1>2, <1>3, <1>4, <1>5, <1>6 DEF Next, Observer, Environment

(* Every step is of an observer that moves through its awaits in order, so *)
(* handles are held between resolution and measurement only, an            *)
(* observation is assembled last and stored once.                          *)
LEMMA PhasesKept ==
    ASSUME IInv, Next
    PROVE  /\ HandlesReleased'
           /\ (pc \in {"classify", "navigate", "screenshot", "page"} => handles = {})'
           /\ (result.ok => pc \in {"close", "persist", "done"})'
           /\ (pc = "persist" => result.ok)'
           /\ (stored.how # "nothing" => pc = "done")'
<1> USE DEF IInv, HandlesReleased, evidence, outcome
<1>1. CASE Environment
  BY <1>1 DEF Environment, PageChanges, PageLoads, RequestBlocked, PageNotice
<1>2. CASE Refuse \/ Launch \/ CallThrows
  BY <1>2, ResultsTyped DEF Refuse, Launch, CallThrows, Fails, HandlesAfterFailure
<1>3. CASE \E ready \in BOOLEAN : GotoReturns(ready)
  BY <1>3 DEF GotoReturns, Fails
<1>4. CASE CountMatches \/ TakeHandle
  BY <1>4 DEF CountMatches, TakeHandle, Resolved
<1>5. CASE InitialSnapshot \/ Scroll \/ FinalSnapshot \/ TakeScreenshot \/ ReadPage
  BY <1>5 DEF InitialSnapshot, Scroll, FinalSnapshot, TakeScreenshot, ReadPage
<1>6. CASE Contain \/ Measure \/ ReadSemantics
  BY <1>6 DEF Contain, Measure, ReadSemantics, Recorded, Assembled
<1>7. CASE Close \/ Persist
  BY <1>7 DEF Close, Persist
<1> QED BY <1>1, <1>2, <1>3, <1>4, <1>5, <1>6, <1>7 DEF Next, Observer

(* The targets the loop went through stay accounted for.                   *)
LEMMA ResolutionKept == ASSUME IInv, Next PROVE ResolvedSoFar'
<1> USE DEF IInv, TypeOK, ResolvedSoFar, Through, evidence
<1>1. CASE Environment
  BY <1>1 DEF Environment, PageChanges, PageLoads, RequestBlocked, PageNotice
<1>2. CASE Refuse \/ Launch \/ CallThrows \/ Close \/ Persist
  BY <1>2 DEF Refuse, Launch, CallThrows, Fails, Close, Persist
<1>3. CASE \E ready \in BOOLEAN : GotoReturns(ready)
  <2>1. /\ cursor' = Start(IF request.scenario = NoScenario THEN "evidence" ELSE "scenario")
        /\ \/ pc' \in {"close", "resolve"}
           \/ pc' = "screenshot" /\ request.scenario = NoScenario
        /\ handles = {} /\ handles' = handles /\ infos' = infos
    BY <1>3 DEF GotoReturns, Fails
  <2>2. cursor'.target = 1
    BY <2>1 DEF Start
  <2> QED BY <2>1, <2>2, FirstOnes
<1>4. CASE CountMatches
  <2>1. CASE \E info \in Info : info.status \in Unmatched /\ Resolved(info)
    <3>1. PICK info \in Info : info.status \in Unmatched /\ Resolved(info)
      BY <2>1
    <3>2. pc = "resolve" /\ handles' = handles /\ cursor.target \in Target
      BY <1>4 DEF CountMatches, Cursor
    <3>3. /\ infos'[cursor.target] = info
          /\ \A u \in Target : u # cursor.target => infos'[u] = infos[u]
          /\ cursor'.locator = 1 /\ cursor'.pass = cursor.pass
          /\ \/ pc' = "resolve" /\ cursor'.target = cursor.target + 1
             \/ /\ pc' \in {"initial", "contain"}
                /\ pc' = "contain" => cursor.pass = "evidence"
                /\ cursor.target = Len(LocatorsOf) /\ cursor'.target = 1
      BY <3>1, <3>2, ResolvedStep
    <3>4. \A t \in Target : t \in Nat /\ t <= Len(LocatorsOf)
      BY FirstOnes
    <3>5. \A t \in Target : t <= cursor.target => Through(t)'
      <4>1. \A t \in Target : t < cursor.target => Through(t)
        BY <3>2
      <4> QED BY <3>1, <3>2, <3>3, <3>4, <4>1
    <3>6. \A t \in handles' : t < cursor.target
      BY <3>2
    <3> QED BY <3>2, <3>3, <3>4, <3>5, <3>6
  <2>2. CASE /\ \E attempts \in Seq(Statuses) :
                   infos' = [infos EXCEPT ![cursor.target].attempts = attempts]
             /\ cursor'.target = cursor.target /\ pc' = pc
    BY <1>4, <2>2, FirstOnes DEF CountMatches, Cursor
  <2> QED BY <1>4, <2>1, <2>2, CountMatchesStep
<1>5. CASE TakeHandle
  <2>1. PICK info \in Info :
           /\ Resolved(info)
           /\ \/ handles' = handles \cup {cursor.target}
              \/ info.status \in Unmatched /\ handles' = handles
    BY <1>5, TakeHandleStep
  <2>2. pc = "resolve" /\ cursor.target \in Target
    BY <1>5 DEF TakeHandle, Cursor
  <2>3. /\ cursor'.locator = 1 /\ cursor'.pass = cursor.pass
        /\ infos'[cursor.target] = info
        /\ \A u \in Target : u # cursor.target => infos'[u] = infos[u]
        /\ \/ pc' = "resolve" /\ cursor'.target = cursor.target + 1
           \/ /\ pc' \in {"initial", "contain"}
              /\ pc' = "contain" => cursor.pass = "evidence"
              /\ cursor.target = Len(LocatorsOf) /\ cursor'.target = 1
    BY <2>1, <2>2, ResolvedStep
  <2>4. \A t \in Target : t \in Nat /\ t <= Len(LocatorsOf)
    BY FirstOnes
  <2>5. \A t \in Target : t < cursor.target => Through(t)
    BY <2>2
  <2>6. \A t \in Target : t <= cursor.target => Through(t)'
    BY <2>1, <2>2, <2>3, <2>4, <2>5
  <2>7. cursor.target \in Nat /\ \A t \in handles' : t \in Nat /\ t <= cursor.target
    BY <2>1, <2>2, <2>4
  <2>8. CASE pc' = "resolve"
    BY <2>3, <2>4, <2>6, <2>7, <2>8
  <2>9. CASE pc' # "resolve"
    BY <2>3, <2>4, <2>6, <2>9
  <2> QED BY <2>8, <2>9
<1>6. CASE InitialSnapshot \/ Scroll \/ FinalSnapshot \/ TakeScreenshot
  BY <1>6 DEF InitialSnapshot, Scroll, FinalSnapshot, TakeScreenshot
<1>7. CASE ReadPage
  <2>1. cursor'.target = 1 /\ handles' = {} /\ pc' = "resolve"
    BY <1>7 DEF ReadPage, Start
  <2> QED BY <2>1, FirstOnes
<1>8. CASE Contain
  BY <1>8 DEF Contain, Assembled
<1>9. CASE Measure
  <2>1. pc = "measure" /\ infos' = infos
    BY <1>9 DEF Measure
  <2>2. CASE \E record \in Record, d \in Diagnostics : Recorded(cursor.target, record, {d})
    <3>1. PICK record \in Record, d \in Diagnostics : Recorded(cursor.target, record, {d})
      BY <2>2
    <3> QED BY <2>1, <3>1, RecordedStep
  <2>3. CASE /\ cursor.target \in handles
             /\ \E record \in Record :
                   /\ records' = [records EXCEPT ![cursor.target] = record]
                   /\ record.status = "matched"
             /\ pc' = "semantics"
             /\ UNCHANGED << cursor, diagnostics, result, handles >>
    BY <2>1, <2>3 DEF Cursor
  <2> QED BY <1>9, <2>2, <2>3, MeasureStep
<1>10. CASE ReadSemantics
  BY <1>10, ReadSemanticsStep, RecordedStep, HiddenTyped DEF ReadSemantics
<1> QED BY <1>1, <1>2, <1>3, <1>4, <1>5, <1>6, <1>7, <1>8, <1>9, <1>10 DEF Next, Observer

(* Evidence goes missing only with a diagnostic.                           *)
LEMMA SaidKept == ASSUME IInv, Next PROVE MissingIsSaid'
<1> USE DEF IInv, TypeOK, MissingIsSaid, PageWasRead, Seen, evidence, outcome
<1>1. CASE Environment
  BY <1>1 DEF Environment, PageChanges, PageLoads, RequestBlocked, PageNotice
<1>2. CASE Refuse \/ Launch \/ CallThrows \/ Close \/ Persist
  <2>1. pc' \in {"navigate", "close", "persist", "done"}
        /\ UNCHANGED << diagnostics, records, pageEvidence >>
    BY <1>2 DEF Refuse, Launch, CallThrows, Fails, Close, Persist
  <2>2. result'.ok => result.ok
    BY <1>2 DEF Refuse, Launch, CallThrows, Fails, Close, Persist, NotObserved
  <2> QED BY <2>1, <2>2
<1>3. CASE \E ready \in BOOLEAN : GotoReturns(ready)
  <2>1. /\ \/ pc' \in {"close", "screenshot"}
           \/ pc' = "resolve" /\ cursor'.pass = "scenario"
        /\ UNCHANGED << diagnostics, records, pageEvidence >>
    BY <1>3 DEF GotoReturns, Fails, Start
  <2>2. result'.ok => result.ok
    BY <1>3 DEF GotoReturns, Fails, NotObserved
  <2> QED BY <2>1, <2>2
<1>4. CASE CountMatches \/ TakeHandle
  BY <1>4, CountMatchesStep, TakeHandleStep, ResolvedStep DEF CountMatches, TakeHandle
<1>5. CASE InitialSnapshot \/ Scroll \/ FinalSnapshot \/ TakeScreenshot
  BY <1>5 DEF InitialSnapshot, Scroll, FinalSnapshot, TakeScreenshot
<1>6. CASE ReadPage
  BY <1>6 DEF ReadPage
<1>7. CASE Contain
  BY <1>7, FirstOnes, ResultsTyped DEF Contain, Assembled, ResolvedSoFar, TargetEvidenceLost
<1>8. CASE Measure
  <2>1. CASE \E record \in Record, d \in Diagnostics : Recorded(cursor.target, record, {d})
    <3>1. PICK record \in Record, d \in Diagnostics : Recorded(cursor.target, record, {d})
      BY <2>1
    <3>2. diagnostics' # {}
      BY <3>1, RecordedStep
    <3> QED BY <3>2
  <2>2. CASE /\ \E record \in Record : records' = [records EXCEPT ![cursor.target] = record]
             /\ pc' = "semantics"
             /\ UNCHANGED << cursor, diagnostics, result, handles >>
    BY <1>8, <2>2, FirstOnes DEF Measure, Cursor
  <2> QED BY <1>8, <2>1, <2>2, MeasureStep
<1>9. CASE ReadSemantics
  <2> DEFINE t == cursor.target
  <2>1. PICK record \in Record :
           /\ record.status = "matched" /\ record.visible = records[t].visible
           /\ Recorded(t, record, Hidden(t))
    BY <1>9, ReadSemanticsStep
  <2>2. /\ records'[t] = record /\ diagnostics' = diagnostics \cup Hidden(t)
        /\ \A u \in Target : u # t => records'[u] = records[u]
        /\ \/ pc' = "close" /\ t = Len(LocatorsOf)
           \/ pc' = "measure" /\ cursor'.target = t + 1 /\ result' = result
    BY <2>1, HiddenTyped, RecordedStep
  <2>3. ASSUME diagnostics' = {}
        PROVE  \A u \in Target : u <= t => Seen(u)'
    <3>1. diagnostics = {} /\ Hidden(t) = {}
      BY <2>2, <2>3
    <3>2. record.visible
      BY <2>1, <3>1 DEF Hidden
    <3>3. \A u \in Target : u < t => Seen(u)
      BY <1>9, <3>1 DEF ReadSemantics
    <3> QED BY <2>1, <2>2, <3>2, <3>3, FirstOnes DEF Cursor
  <2>4. pc = "semantics" /\ pageEvidence' = pageEvidence
    BY <1>9 DEF ReadSemantics
  <2>5. cursor.pass = "evidence" /\ ~ result.ok
    BY <2>4 DEF ResolvedSoFar
  <2>6. t \in Nat /\ \A u \in Target : u \in Nat /\ u <= Len(LocatorsOf)
    BY FirstOnes DEF Cursor
  <2> QED BY <2>2, <2>3, <2>4, <2>5, <2>6
<1> QED BY <1>1, <1>2, <1>3, <1>4, <1>5, <1>6, <1>7, <1>8, <1>9 DEF Next, Observer

(* A stored observation does not change, and is complete only if nothing   *)
(* was said.                                                               *)
LEMMA CompleteKept == ASSUME IInv, Next PROVE CompleteMeansSeen'
<1> USE DEF IInv, CompleteMeansSeen
<1>1. CASE Persist
  <2>1. result.ok /\ UNCHANGED << records, pageEvidence >>
    BY <1>1 DEF Persist, evidence
  <2>2. stored'.completion = "complete" => diagnostics = {}
    BY <1>1 DEF Persist, Completion
  <2> QED BY <2>1, <2>2 DEF MissingIsSaid, PageWasRead, Seen
<1>2. CASE ~ Persist
  <2>1. stored' = stored
    BY <1>2 DEF Next, Observer, Environment, outcome, PageChanges, PageLoads, RequestBlocked,
       PageNotice, Refuse, Launch, GotoReturns, CountMatches, TakeHandle, InitialSnapshot, Scroll,
       FinalSnapshot, CallThrows, TakeScreenshot, ReadPage, Contain, Measure, ReadSemantics, Close
  <2>2. pc = "done" => UNCHANGED << pageEvidence, records >>
    BY DEF Next, Observer, Environment, evidence, PageChanges, PageLoads, RequestBlocked,
       PageNotice, Refuse, Launch, GotoReturns, CountMatches, TakeHandle, InitialSnapshot, Scroll,
       FinalSnapshot, CallThrows, TakeScreenshot, ReadPage, Contain, Measure, ReadSemantics, Close,
       Persist
  <2>3. stored.how = "persisted" => pc = "done"
    OBVIOUS
  <2> QED BY <2>1, <2>2, <2>3
<1> QED BY <1>1, <1>2

(* Standing still keeps everything.                                        *)
LEMMA StutterKept == ASSUME IInv, UNCHANGED vars PROVE IInv'
BY DEF IInv, TypeOK, CursorInRange, HandlesAreResolved, ResolvedSoFar, Through, MissingIsSaid,
       PageWasRead, Seen, HandlesReleased, CompleteMeansSeen, vars, evidence, outcome, world

(* The start satisfies the invariant.                                      *)
LEMMA InitIInv == ASSUME Init PROVE IInv
<1>1. TypeOK
  <2>1. Start("evidence") \in Cursor /\ Unresolved \in Info /\ NoRecord \in Record
    BY FirstOnes DEF Start, Cursor, Unresolved, Info, NoRecord, Record, Statuses
  <2>2. Blank \in Pages
    BY DEF Blank, Pages
  <2>3. result \in Result /\ events \in 0 .. MaxEvents
    BY ResultsTyped, EventsAreBounded DEF Init
  <2>4. stored \in [how : {"nothing", "persisted", "write-failed", "invalid"},
                   completion : {"none", "complete", "partial", "fatal"}]
    BY DEF Init
  <2> QED BY <2>1, <2>2, <2>3, <2>4 DEF Init, TypeOK
<1>2. CursorInRange /\ HandlesAreResolved
  BY FirstOnes DEF Init, CursorInRange, HandlesAreResolved, Start
<1> QED BY <1>1, <1>2, ResultsTyped
        DEF Init, IInv, ResolvedSoFar, MissingIsSaid, PageWasRead, HandlesReleased,
            CompleteMeansSeen

(* The inductive invariant of every capture.                               *)
THEOREM Invariance == Spec => []IInv
<1>1. ASSUME IInv, [Next]_vars PROVE IInv'
  <2>1. CASE Next
    <3>1. /\ TypeOK' /\ CursorInRange' /\ HandlesAreResolved' /\ ResolvedSoFar'
          /\ MissingIsSaid' /\ CompleteMeansSeen'
      BY <1>1, <2>1, TypeKept, CursorKept, ResolutionKept, SaidKept, CompleteKept
    <3> QED BY <1>1, <2>1, <3>1, PhasesKept DEF IInv
  <2>2. CASE UNCHANGED vars
    BY <1>1, <2>2, StutterKept
  <2> QED BY <1>1, <2>1, <2>2
<1> QED BY InitIInv, <1>1, PTL DEF Spec

(* Whatever the page does and whichever calls fail, an observation that    *)
(* calls itself complete has its page evidence and has seen every          *)
(* configured target.                                                      *)
THEOREM CompleteObservations == Spec => []CompleteMeansSeen
<1>1. IInv => CompleteMeansSeen
  BY DEF IInv
<1> QED BY Invariance, <1>1, PTL

(* However a capture ends, it holds no element handle.                     *)
THEOREM NoHandleHeld == Spec => []HandlesReleased
<1>1. IInv => HandlesReleased
  BY DEF IInv
<1> QED BY Invariance, <1>1, PTL

-----------------------------------------------------------------------------
(* The order in which locators are tried                                   *)

AllNothing(attempts) == \A k \in 1 .. Len(attempts) : attempts[k] = "not-found"
AllButLastNothing(attempts) == \A k \in 1 .. Len(attempts) - 1 : attempts[k] = "not-found"

(* The loop's targets to come have no attempts yet, and those on the       *)
(* current one found nothing unless its locator was counted to match.      *)
AttemptsInOrder ==
    /\ FallbackOnlyAfterNothing
    /\ pc \in {"classify", "navigate", "screenshot", "page"}
           => \A t \in Target : infos[t].attempts = << >>
    /\ pc = "resolve" =>
           /\ \A t \in Target : t > cursor.target => infos[t].attempts = << >>
           /\ ~ cursor.found => AllNothing(infos[cursor.target].attempts)

\* One more locator tried, after nothing but nothing, keeps the order of attempts.
LEMMA OneMoreAttempt ==
    ASSUME NEW attempts \in Seq(Statuses), NEW status \in Statuses, AllNothing(attempts)
    PROVE  /\ Append(attempts, status) \in Seq(Statuses)
           /\ AllButLastNothing(Append(attempts, status))
           /\ status = "not-found" => AllNothing(Append(attempts, status))
BY DEF AllNothing, AllButLastNothing

\* No attempts are in order.
LEMMA NoAttempts == AllNothing(<< >>) /\ AllButLastNothing(<< >>)
BY DEF AllNothing, AllButLastNothing

(* Settling the current target leaves the next one untried.                *)
LEMMA SettledInOrder ==
    ASSUME IInv, AttemptsInOrder, pc = "resolve", NEW info \in Info, Resolved(info),
           AllButLastNothing(info.attempts)
    PROVE  AttemptsInOrder'
<1>1. /\ cursor.target \in Nat /\ \A t \in Target : t \in Nat /\ t <= Len(LocatorsOf)
  BY FirstOnes DEF IInv, TypeOK, Cursor
<1>2. /\ infos'[cursor.target] = info
      /\ \A u \in Target : u # cursor.target => infos'[u] = infos[u]
      /\ \/ pc' = "resolve" /\ cursor'.target = cursor.target + 1 /\ cursor'.target \in Target
         \/ pc' \in {"initial", "contain"}
  BY ResolvedStep DEF Cursor
<1>3. FallbackOnlyAfterNothing'
  BY <1>2 DEF AttemptsInOrder, FallbackOnlyAfterNothing, AllButLastNothing
<1>4. CASE pc' = "resolve" /\ cursor'.target = cursor.target + 1 /\ cursor'.target \in Target
  <2>1. \A t \in Target : t > cursor.target => infos'[t].attempts = << >>
    BY <1>1, <1>2 DEF AttemptsInOrder
  <2>2. infos'[cursor'.target].attempts = << >>
    BY <1>1, <1>4, <2>1
  <2> QED BY <1>1, <1>3, <1>4, <2>1, <2>2, NoAttempts DEF AttemptsInOrder
<1> QED BY <1>2, <1>3, <1>4 DEF AttemptsInOrder

\* Counting what a locator matches keeps the attempts in order.
LEMMA CountedInOrder ==
    ASSUME IInv, AttemptsInOrder, CountMatches
    PROVE  AttemptsInOrder'
<1> DEFINE before == infos[cursor.target].attempts
<1>1. /\ cursor \in Cursor /\ infos \in [Target -> Info] /\ cursor.target \in Target
      /\ before \in Seq(Statuses) /\ pc = "resolve" /\ ~ cursor.found
  BY DEF IInv, TypeOK, Cursor, Info, CountMatches
<1>2. PICK status \in {"not-found", "matched", "ambiguous", "unavailable"} :
         \/ /\ status = "matched"
            /\ infos' = [infos EXCEPT ![cursor.target].attempts = Attempts(status)]
            /\ cursor' = [cursor EXCEPT !.found = TRUE]
            /\ UNCHANGED pc
         \/ /\ FallsThrough(status)
            /\ infos' = [infos EXCEPT ![cursor.target].attempts = Attempts(status)]
            /\ cursor' = [cursor EXCEPT !.locator = @ + 1]
            /\ UNCHANGED pc
         \/ /\ status # "matched"
            /\ Resolved([Unresolved EXCEPT !.status = status, !.attempts = Attempts(status)])
  BY DEF CountMatches
<1>3. /\ Attempts(status) \in Seq(Statuses)
      /\ AllButLastNothing(Attempts(status))
      /\ status = "not-found" => AllNothing(Attempts(status))
  <2>1. AllNothing(before) /\ status \in Statuses
    BY <1>1 DEF AttemptsInOrder, Statuses, Unmatched
  <2> QED BY <1>1, <2>1, OneMoreAttempt DEF Attempts
<1>4. CASE /\ infos' = [infos EXCEPT ![cursor.target].attempts = Attempts(status)]
           /\ cursor'.target = cursor.target /\ pc' = pc
           /\ cursor'.found \/ status = "not-found"
  <2>1. infos'[cursor.target].attempts = Attempts(status)
    BY <1>1, <1>4 DEF Info
  <2>2. \A u \in Target : u # cursor.target => infos'[u] = infos[u]
    BY <1>1, <1>4
  <2>3. FallbackOnlyAfterNothing'
    BY <1>3, <2>1, <2>2 DEF AttemptsInOrder, FallbackOnlyAfterNothing, AllButLastNothing
  <2>4. \A t \in Target : t > cursor.target => infos'[t].attempts = << >>
    BY <1>1, <2>2, FirstOnes DEF AttemptsInOrder
  <2> QED BY <1>1, <1>3, <1>4, <2>1, <2>3, <2>4 DEF AttemptsInOrder
<1>5. CASE /\ status # "matched"
           /\ Resolved([Unresolved EXCEPT !.status = status, !.attempts = Attempts(status)])
  <2> DEFINE info == [Unresolved EXCEPT !.status = status, !.attempts = Attempts(status)]
  <2>1. info \in Info /\ info.attempts = Attempts(status)
    BY <1>3, <1>5 DEF Unresolved, Info, Statuses, Unmatched
  <2> QED BY <1>1, <1>3, <1>5, <2>1, SettledInOrder
<1>6. CASE /\ status = "matched"
           /\ infos' = [infos EXCEPT ![cursor.target].attempts = Attempts(status)]
           /\ cursor' = [cursor EXCEPT !.found = TRUE]
           /\ UNCHANGED pc
  BY <1>1, <1>4, <1>6 DEF Cursor
<1>7. CASE /\ FallsThrough(status)
           /\ infos' = [infos EXCEPT ![cursor.target].attempts = Attempts(status)]
           /\ cursor' = [cursor EXCEPT !.locator = @ + 1]
           /\ UNCHANGED pc
  BY <1>1, <1>4, <1>7 DEF Cursor, FallsThrough
<1> QED BY <1>2, <1>5, <1>6, <1>7

\* Taking the handle of the one match keeps the attempts in order.
LEMMA TakenInOrder ==
    ASSUME IInv, AttemptsInOrder, TakeHandle
    PROVE  AttemptsInOrder'
<1> DEFINE info == infos[cursor.target]
<1>1. /\ info \in Info /\ cursor.target \in Target /\ pc = "resolve" /\ page \in Pages
  BY DEF IInv, TypeOK, Cursor, TakeHandle
<1>2. PICK next \in Info : Resolved(next) /\ next.attempts = info.attempts
  <2>1. CASE \E element \in page.match[LocatorsOf[cursor.target][cursor.locator]] :
                Resolved([info EXCEPT !.status = "matched", !.element = element,
                                      !.document = page.document])
    <3>1. PICK element \in page.match[LocatorsOf[cursor.target][cursor.locator]] :
                Resolved([info EXCEPT !.status = "matched", !.element = element,
                                      !.document = page.document])
      BY <2>1
    <3>2. element \in Element
      <4>1. LocatorsOf[cursor.target][cursor.locator] \in Locator
        BY <1>1, FirstOnes DEF IInv, CursorInRange
      <4> QED BY <1>1, <4>1 DEF Pages
    <3> DEFINE next == [info EXCEPT !.status = "matched", !.element = element,
                                    !.document = page.document]
    <3>3. next \in Info /\ next.attempts = info.attempts
      BY <1>1, <3>2 DEF Info, Statuses, Pages
    <3> QED BY <3>1, <3>3
  <2>2. ASSUME NEW status \in {"not-found", "unavailable"},
               Resolved([info EXCEPT !.status = status])
        PROVE  \E next \in Info : Resolved(next) /\ next.attempts = info.attempts
    <3> DEFINE next == [info EXCEPT !.status = status]
    <3>1. next \in Info /\ next.attempts = info.attempts
      BY <1>1 DEF Info, Statuses, Unmatched
    <3> QED BY <2>2, <3>1
  <2> QED BY <2>1, <2>2 DEF TakeHandle
<1>3. AllButLastNothing(next.attempts)
  BY <1>1, <1>2 DEF AttemptsInOrder, FallbackOnlyAfterNothing, AllButLastNothing
<1> QED BY <1>1, <1>2, <1>3, SettledInOrder

(* Every step keeps the attempts in order.                                 *)
LEMMA OrderKept ==
    ASSUME IInv, AttemptsInOrder, [Next]_vars
    PROVE  AttemptsInOrder'
<1>1. CASE CountMatches
  BY <1>1, CountedInOrder
<1>2. CASE TakeHandle
  BY <1>2, TakenInOrder
<1>3. CASE FinalSnapshot
  <2>1. pc' = "screenshot" /\ \A t \in Target : infos'[t].attempts = << >>
    BY <1>3 DEF FinalSnapshot, Unresolved
  <2> QED BY <2>1, NoAttempts
      DEF AttemptsInOrder, FallbackOnlyAfterNothing, AllButLastNothing
<1>4. CASE /\ infos' = infos
           /\ \/ pc' \notin {"classify", "navigate", "screenshot", "page", "resolve"}
              \/ pc \in {"classify", "navigate", "screenshot", "page"} /\ cursor'.target \in Target
              \/ pc' = pc /\ cursor' = cursor
  BY <1>4, NoAttempts DEF AttemptsInOrder, FallbackOnlyAfterNothing
<1>5. CASE UNCHANGED vars
  BY <1>4, <1>5 DEF vars, evidence
<1>6. CASE Environment
  BY <1>4, <1>6 DEF Environment, PageChanges, PageLoads, RequestBlocked, PageNotice, evidence
<1>7. CASE \/ Refuse \/ Launch \/ InitialSnapshot \/ Scroll \/ CallThrows
           \/ TakeScreenshot \/ ReadPage \/ Contain \/ Measure \/ ReadSemantics \/ Close \/ Persist
  <2>1. infos' = infos
    BY <1>7 DEF Refuse, Launch, InitialSnapshot, Scroll, CallThrows, TakeScreenshot, ReadPage,
       Contain, Measure, ReadSemantics, Close, Persist, evidence
  <2>2. CASE Refuse \/ Launch \/ TakeScreenshot \/ ReadPage
    <3>1. cursor.target \in Target
      BY DEF IInv, TypeOK, Cursor
    <3> QED BY <1>4, <2>1, <2>2, <3>1 DEF Refuse, Launch, TakeScreenshot, ReadPage
  <2>3. CASE InitialSnapshot \/ Scroll \/ CallThrows \/ Contain \/ Measure \/ ReadSemantics
             \/ Close \/ Persist
    <3>1. pc' \notin {"classify", "navigate", "screenshot", "page", "resolve"}
      BY <2>3 DEF InitialSnapshot, Scroll, CallThrows, Contain, Measure, ReadSemantics,
         Close, Persist, Fails, Assembled, Recorded
    <3> QED BY <1>4, <2>1, <3>1
  <2> QED BY <1>7, <2>2, <2>3
<1>8. ASSUME NEW ready \in BOOLEAN, GotoReturns(ready) PROVE AttemptsInOrder'
  <2>1. infos' = infos /\ pc = "navigate" /\ cursor'.target \in Target
    BY <1>8, FirstOnes DEF GotoReturns, Start, evidence
  <2> QED BY <1>4, <2>1
<1> QED BY <1>1, <1>2, <1>3, <1>5, <1>6, <1>7, <1>8 DEF Next, Observer

(* A later locator of a target is tried only after the earlier ones found  *)
(* nothing, however the page changes between the attempts                  *)
(* (resolveConfiguredTargets).                                             *)
THEOREM FallbackInOrder == Spec => []FallbackOnlyAfterNothing
<1>1. Init => AttemptsInOrder
  BY NoAttempts DEF Init, AttemptsInOrder, FallbackOnlyAfterNothing, AllButLastNothing,
     Unresolved
<1>2. IInv /\ AttemptsInOrder /\ [Next]_vars => AttemptsInOrder'
  BY OrderKept
<1>3. AttemptsInOrder => FallbackOnlyAfterNothing
  BY DEF AttemptsInOrder
<1> QED BY <1>1, <1>2, <1>3, Invariance, PTL DEF Spec

(* A load that is under way although a request of it was turned away, and  *)
(* the answer that names that request.                                     *)
BlockedLoad(code) == pc = "navigate" /\ rejection = code /\ rejection # None
Refusal(code) ==
    /\ pc \in {"close", "done"} /\ ~ result.ok /\ stored.how = "nothing"
    /\ Plain(code) \in result.diagnostics

(* Neither the page nor the observer can do anything else about it.        *)
LEMMA BlockedKept ==
    ASSUME NEW code \in Blocked, IInv, BlockedLoad(code) \/ Refusal(code), [Next]_vars
    PROVE  (BlockedLoad(code) \/ Refusal(code))'
<1> USE DEF BlockedLoad, Refusal, outcome
<1>1. CASE UNCHANGED vars
  BY <1>1 DEF vars, world
<1>2. CASE Environment
  BY <1>2 DEF Environment, PageChanges, PageLoads, RequestBlocked, PageNotice
<1>3. ASSUME NEW ready \in BOOLEAN, GotoReturns(ready) PROVE Refusal(code)'
  <2>1. pc = "navigate" /\ Rejected(ready) /\ stored.how = "nothing"
    BY <1>3 DEF GotoReturns, Rejected, IInv
  <2>2. Fails(diagnostics \cup {Plain(code)}) /\ stored' = stored
    BY <1>3, <2>1 DEF GotoReturns
  <2> QED BY <2>1, <2>2 DEF Fails, NotObserved
<1>4. CASE Close
  BY <1>4 DEF Close
<1>5. CASE \/ Refuse \/ Launch \/ CountMatches \/ TakeHandle \/ InitialSnapshot \/ Scroll \/ FinalSnapshot
           \/ CallThrows \/ TakeScreenshot \/ ReadPage \/ Contain \/ Measure \/ ReadSemantics \/ Persist
  BY <1>5 DEF Refuse, Launch, CountMatches, TakeHandle, InitialSnapshot, Scroll, FinalSnapshot, CallThrows,
     TakeScreenshot, ReadPage, Contain, Measure, ReadSemantics, Persist
<1> QED BY <1>1, <1>2, <1>3, <1>4, <1>5 DEF Next, Observer

(* The safety half of BlockedLoadIsRefused: from a load of which a request  *)
(* was turned away, a capture never comes to anything but the failure that  *)
(* names the request and persists nothing (captureViewport reads the        *)
(* rejection before it looks at how page.goto ended).                       *)
THEOREM BlockedIsOnlyRefused ==
    ASSUME NEW code \in Blocked
    PROVE  Spec => [](BlockedLoad(code) => [](BlockedLoad(code) \/ Refusal(code)))
<1>1. IInv /\ (BlockedLoad(code) \/ Refusal(code)) /\ [Next]_vars
          => (BlockedLoad(code) \/ Refusal(code))'
  BY BlockedKept
<1> QED BY <1>1, Invariance, PTL DEF Spec
=============================================================================
