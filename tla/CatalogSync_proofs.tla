------------------------- MODULE CatalogSync_proofs -------------------------
(***************************************************************************)
(* Theorems about CatalogSync, for any catalog, page size, number of jobs  *)
(* and attempts: a run that says SUCCEEDED mirrored every card of the list *)
(* it began with, and no fallback run forks the mirror.                    *)
(***************************************************************************)
EXTENDS CatalogSync, FiniteSetTheorems, SequenceTheorems, TLAPS

\* Card ids are ordered and there are finitely many; a page holds a card.
Sensible ==
    /\ Primary # Fallback
    /\ Cards \subseteq Nat /\ IsFiniteSet(Cards)
    /\ Listed \subseteq Cards /\ Arriving \subseteq Cards /\ ListedByFallback \subseteq Cards
    /\ PageSize \in Nat \ {0}

Statuses == {"RUNNING", "SUCCEEDED", "PARTIAL", "FAILED"}
Row == [job : Nat, provider : Providers, status : Statuses, page : Nat, failed : BOOLEAN]
Job == [id : Nat, made : Nat, stalled : Nat,
        state : {"none", "waiting", "active", "completed", "failed"}]
Story == [shown : SUBSET Cards, withdrawn : BOOLEAN]
CallRecord == [step : {"idle", "chosen", "sets", "page", "record", "close", "broken", "done"},
               provider : Providers, run : Nat, page : Nat \ {0}, failed : BOOLEAN,
               more : BOOLEAN]
Known == Listed \cup Arriving

\* The shape of the state, without the bounds of TypeOK: a walk may be of any
\* length here.
Shape ==
    /\ listed \subseteq Known /\ index \subseteq Known
    /\ mirror \subseteq Cards
    /\ job \in Job
    /\ rows \in Seq(Row)
    /\ story \in Seq(Story)
    /\ Len(story) = Len(rows)
    /\ call \in CallRecord
    /\ failures \subseteq Nat

-----------------------------------------------------------------------------
(* The steps, by what they do to the shape.                                *)

LEMMA ShapeAtFirst ==
    ASSUME Sensible, Init
    PROVE  Shape
BY DEF Sensible, Init, Shape, Job, CallRecord, NoCall, Known, Providers

LEMMA ThrewShape ==
    ASSUME Shape
    PROVE  /\ Threw.id = job.id
           /\ Threw \in Job
           /\ Threw.state \in {"waiting", "failed"}
<1>1. job \in Job
  BY DEF Shape
<1> DEFINE state == IF job.made + 1 < Attempts THEN "waiting" ELSE "failed"
<1>2. Threw = [[job EXCEPT !.made = job.made + 1] EXCEPT !.state = state]
  BY <1>1 DEF Threw, Job
<1>3. state \in {"waiting", "failed"}
  OBVIOUS
<1> HIDE DEF state
<1>4. job.id \in Nat /\ job.made + 1 \in Nat /\ job.stalled \in Nat
  BY <1>1 DEF Job
<1>5. Threw = [id |-> job.id, made |-> job.made + 1, stalled |-> job.stalled,
               state |-> state]
  BY <1>1, <1>2 DEF Job
<1>6. Threw.id = job.id /\ Threw.state = state
  BY <1>5
<1>7. Threw \in Job
  BY <1>3, <1>4, <1>5 DEF Job
<1> QED
  BY <1>3, <1>6, <1>7

LEMMA CrashedShape ==
    ASSUME Shape
    PROVE  LET again == job.stalled < MaxStalledCount
               after == [job EXCEPT !.stalled = IF again THEN job.stalled + 1 ELSE job.stalled,
                                    !.state = IF again THEN "waiting" ELSE "failed"]
           IN  /\ after.id = job.id /\ after \in Job
               /\ after.state \in {"waiting", "failed"}
<1> DEFINE again == job.stalled < MaxStalledCount
           stalled == IF again THEN job.stalled + 1 ELSE job.stalled
           state == IF again THEN "waiting" ELSE "failed"
<1>1. job \in Job
  BY DEF Shape
<1>2. stalled \in Nat /\ state \in {"waiting", "failed"}
  BY <1>1 DEF Job
<1> HIDE DEF stalled, state
<1>3. job.id \in Nat /\ job.made \in Nat
  BY <1>1 DEF Job
<1> DEFINE after == [job EXCEPT !.stalled = stalled, !.state = state]
<1>4. after = [id |-> job.id, made |-> job.made, stalled |-> stalled, state |-> state]
  <2>1. after = [[job EXCEPT !.stalled = stalled] EXCEPT !.state = state]
    BY <1>1 DEF Job
  <2> HIDE DEF after
  <2> QED BY <1>1, <2>1 DEF Job
<1>5. after.id = job.id /\ after.state = state /\ after \in Job
  BY <1>2, <1>3, <1>4 DEF Job
<1> QED
  BY <1>2, <1>5 DEF stalled, state

\* A row is rewritten.
LEMMA RowRewritten ==
    ASSUME Shape, NEW i \in DOMAIN rows, NEW row \in Row
    PROVE  /\ [rows EXCEPT ![i] = row] \in Seq(Row)
           /\ Len([rows EXCEPT ![i] = row]) = Len(rows)
BY DEF Shape

LEMMA StatusRewritten ==
    ASSUME Shape, NEW i \in DOMAIN rows, NEW status \in Statuses
    PROVE  /\ [rows[i] EXCEPT !.status = status] \in Row
           /\ [rows EXCEPT ![i].status = status] \in Seq(Row)
           /\ Len([rows EXCEPT ![i].status = status]) = Len(rows)
<1>1. rows[i] \in Row
  BY DEF Shape
<1>2. [rows[i] EXCEPT !.status = status] \in Row
  BY <1>1 DEF Row
<1>3. [rows EXCEPT ![i].status = status]
          = [rows EXCEPT ![i] = [rows[i] EXCEPT !.status = status]]
  OBVIOUS
<1> QED
  BY <1>2, <1>3, RowRewritten

-----------------------------------------------------------------------------
(* Which call works on which row.                                          *)

Walking == {"sets", "page", "record", "close", "broken"}

\* A job has one open row at most, a call that walks works on it, and closing
\* what a failed job left behind never touches the row of a job that is alive.
Control ==
    /\ call.step # "idle" => job.state = "active"
    /\ \A j \in failures : j <= job.id /\ (j = job.id => job.state = "failed")
    /\ \A i \in DOMAIN rows : rows[i].job <= job.id
    /\ \A i, k \in Own : i = k
    /\ \A i \in Own : call.step = "chosen" => call.provider = rows[i].provider
    /\ call.step \in Walking => call.run \in Own /\ call.provider = rows[call.run].provider
    /\ call.step \in {"sets", "page"} =>
          \/ rows[call.run].page = call.page /\ rows[call.run].failed = call.failed
          \/ rows[call.run].page = 0 /\ call.page = 1
    /\ call.step = "close" => ~call.more
    /\ call.step = "record" => call.page > 1

\* The only open row of the job, when it has one.
LEMMA NewestIsOwn ==
    ASSUME Shape, Own # {}, \A i, k \in Own : i = k
    PROVE  Newest(Own) \in Own
<1>1. PICK i \in Own : TRUE
  OBVIOUS
<1>2. i \in Nat
  BY <1>1 DEF Own, Shape
<1>3. \A k \in Own : k <= i
  BY <1>2
<1> QED BY <1>1, <1>3 DEF Newest

\* The rows after the job j was closed.
ClosedRows(j) ==
    [i \in DOMAIN rows |-> IF rows[i].job = j /\ rows[i].status = "RUNNING"
                           THEN [rows[i] EXCEPT !.status = "FAILED"] ELSE rows[i]]

LEMMA ClosedRowsShape ==
    ASSUME Shape, NEW j
    PROVE  ClosedRows(j) \in Seq(Row) /\ Len(ClosedRows(j)) = Len(rows)
<1>1. rows \in Seq(Row) /\ DOMAIN rows = 1 .. Len(rows) /\ Len(rows) \in Nat
  BY DEF Shape
<1>2. ASSUME NEW i \in DOMAIN rows PROVE ClosedRows(j)[i] \in Row
  <2>1. rows[i] \in Row
    BY <1>1, <1>2
  <2>2. [rows[i] EXCEPT !.status = "FAILED"] \in Row
    BY <2>1 DEF Row, Statuses
  <2> QED
    BY <1>2, <2>1, <2>2 DEF ClosedRows
<1>3. ClosedRows(j) \in [1 .. Len(rows) -> Row]
  BY <1>1, <1>2 DEF ClosedRows
<1> QED
  BY <1>1, <1>3

\* A call begins to work on row i.
LEMMA BeginShape ==
    ASSUME Shape, NEW i \in Nat, rows'[i] \in Row, Begin(i)
    PROVE  call' \in CallRecord
<1>1. rows'[i].page \in Nat /\ rows'[i].failed \in BOOLEAN
  BY DEF Row
<1> DEFINE page == IF rows'[i].page = 0 THEN 1 ELSE rows'[i].page
           step == IF page = 1 /\ call.provider = Primary THEN "sets" ELSE "page"
<1>2. page \in Nat \ {0} /\ step \in {"sets", "page"}
  BY <1>1
<1>3. call' = [call EXCEPT !.run = i, !.page = page, !.failed = rows'[i].failed,
                           !.step = step]
  BY DEF Begin
<1> HIDE DEF page, step
<1> QED
  BY <1>1, <1>2, <1>3 DEF Shape, CallRecord

\* What a call is set to that begins on row i.
Begun(i) ==
    /\ call'.run = i /\ call'.provider = call.provider /\ call'.step \in {"sets", "page"}
    /\ \/ rows'[i].page = call'.page /\ rows'[i].failed = call'.failed
       \/ rows'[i].page = 0 /\ call'.page = 1
    /\ call'.failed = rows'[i].failed

LEMMA BeginBegun ==
    ASSUME Shape, NEW i, Begin(i)
    PROVE  Begun(i)
<1> DEFINE page == IF rows'[i].page = 0 THEN 1 ELSE rows'[i].page
           step == IF page = 1 /\ call.provider = Primary THEN "sets" ELSE "page"
<1>1. call' = [call EXCEPT !.run = i, !.page = page, !.failed = rows'[i].failed,
                           !.step = step]
  BY DEF Begin
<1>2. step \in {"sets", "page"} /\ (page = rows'[i].page \/ (rows'[i].page = 0 /\ page = 1))
  OBVIOUS
<1> HIDE DEF page, step
<1>3. /\ call'.run = i /\ call'.provider = call.provider /\ call'.step = step
      /\ call'.page = page /\ call'.failed = rows'[i].failed
  BY <1>1 DEF Shape, CallRecord
<1> QED
  BY <1>2, <1>3 DEF Begun

\* A page of the list was answered, without the cards skipped.
Fetched(list, skipped) ==
    /\ mirror' = mirror \cup Writable(Page(list, call.page) \ skipped)
    /\ SetsOf(Writable(Page(list, call.page) \ skipped)) \subseteq sets
    /\ Remember(list)
    /\ call' = [call EXCEPT !.step = "record", !.page = call.page + 1,
                            !.failed = Noted(skipped # {}),
                            !.more = HasMore(list, call.page)]
    /\ story' = [story EXCEPT ![call.run] = Shown(story[call.run], list)]

LEMMA FetchIsOfAList ==
    ASSUME FetchCards
    PROVE  /\ call.step = "page"
           /\ \E list \in Lists : \E skipped \in SUBSET Page(list, call.page) :
                 Fetched(list, skipped)
           /\ UNCHANGED <<listed, sets, job, rows, failures>>
BY DEF FetchCards, Fetched

\* Every step keeps the shape.
LEMMA ShapeStays ==
    ASSUME Sensible, Shape, Control, [Next]_vars
    PROVE  Shape'
<1>1. /\ Own \subseteq DOMAIN rows /\ DOMAIN rows = 1 .. Len(rows)
      /\ rows \in Seq(Row)
  BY DEF Own, Shape, CallRecord
<1>2. CASE Choose
  <2>1. PICK open \in SUBSET Providers : \E p \in Candidates(open) :
            call' = [NoCall EXCEPT !.step = "chosen", !.provider = p]
    BY <1>2 DEF Choose
  <2>2. PICK p \in Candidates(open) :
            call' = [NoCall EXCEPT !.step = "chosen", !.provider = p]
    BY <2>1
  <2>3. p \in Providers
    <3>1. CASE Own = {}
      BY <3>1 DEF Candidates, Providers
    <3>2. CASE Own # {}
      <4>1. rows[Newest(Own)].provider \in Providers
        <5>1. Newest(Own) \in Own
          BY <3>2, NewestIsOwn DEF Control
        <5>2. rows[Newest(Own)] \in Row
          BY <1>1, <5>1
        <5> QED BY <5>2 DEF Row
      <4> QED BY <3>2, <4>1 DEF Candidates
    <3> QED BY <3>1, <3>2
  <2>4. job' \in Job
    BY <1>2 DEF Choose, Take, Shape, CallRecord, Job
  <2>5. UNCHANGED <<listed, index, mirror, rows, failures, story>>
    BY <1>2 DEF Choose
  <2>6. call' = [step |-> "chosen", provider |-> p, run |-> 0, page |-> 1,
                 failed |-> FALSE, more |-> FALSE]
    BY <2>2 DEF NoCall
  <2> QED
    BY <2>3, <2>4, <2>5, <2>6 DEF Shape, CallRecord
<1>3. CASE Abandon
  <2>1. rows' \in Seq(Row) /\ Len(rows') = Len(rows)
    BY <1>1, <1>3, NewestIsOwn, StatusRewritten DEF Abandon, Control, Statuses
  <2>2. job' \in Job
    BY <1>3 DEF Abandon, Take, Shape, CallRecord, Job
  <2>3. UNCHANGED <<listed, index, mirror, failures, story>>
    BY <1>3 DEF Abandon
  <2>4. call' = [step |-> "done", provider |-> Primary, run |-> 0, page |-> 1,
                 failed |-> FALSE, more |-> FALSE]
    BY <1>3 DEF Abandon, NoCall
  <2> QED
    BY <2>1, <2>2, <2>3, <2>4 DEF Shape, CallRecord, Providers
<1>4. CASE FailsToStart
  BY <1>4, ThrewShape DEF FailsToStart, Raise, Shape, CallRecord, Job
<1>5. CASE StartOrResume
  <2>1. call.provider \in Providers /\ job.id \in Nat
    BY DEF Shape, CallRecord, Job
  <2>2. CASE Own # {}
    <3>1. Newest(Own) \in Own
      BY <2>2, NewestIsOwn DEF Control
    <3>2. Newest(Own) \in Nat /\ rows[Newest(Own)] \in Row
      BY <1>1, <3>1
    <3>3. UNCHANGED <<listed, index, mirror, job, rows, failures, story>>
      BY <1>5, <2>2 DEF StartOrResume
    <3>4. Begin(Newest(Own))
      BY <1>5, <2>2 DEF StartOrResume
    <3>5. call' \in CallRecord
      BY <3>2, <3>3, <3>4, BeginShape
    <3> QED
      BY <3>3, <3>5 DEF Shape, CallRecord
  <2>3. CASE Own = {}
    <3> DEFINE new == [job |-> job.id, provider |-> call.provider, status |-> "RUNNING",
                       page |-> 0, failed |-> FALSE]
    <3>1. new \in Row
      BY <2>1 DEF Row, Statuses
    <3>2. rows' = Append(rows, new)
      BY <1>5, <2>3 DEF StartOrResume
    <3> HIDE DEF new
    <3>3. rows' \in Seq(Row) /\ Len(rows') = Len(rows) + 1 /\ rows'[Len(rows) + 1] = new
      BY <1>1, <3>1, <3>2
    <3>4. story' = Append(story, [shown |-> {}, withdrawn |-> FALSE])
      BY <1>5, <2>3 DEF StartOrResume
    <3>5. /\ story' \in Seq(Story)
          /\ Len(story') = Len(story) + 1
      BY <3>4 DEF Shape, Story, CallRecord
    <3>6. Begin(Len(rows) + 1)
      BY <1>5, <2>3 DEF StartOrResume
    <3>7. UNCHANGED <<listed, index, mirror, job, failures>>
      BY <1>5 DEF StartOrResume
    <3>8. call' \in CallRecord
      BY <3>1, <3>3, <3>6, BeginShape DEF Shape, CallRecord
    <3> QED
      BY <3>3, <3>5, <3>7, <3>8 DEF Shape, CallRecord
  <2> QED
    BY <2>2, <2>3
<1>6. CASE WriteSets
  BY <1>6 DEF WriteSets, Shape, CallRecord
<1>7. CASE SetsFail
  BY <1>7 DEF SetsFail, Shape, CallRecord
<1>8. CASE FetchCards
  <2>. PICK list \in Lists : \E skipped \in SUBSET Page(list, call.page) :
           Fetched(list, skipped)
    BY <1>8, FetchIsOfAList
  <2>1. PICK skipped \in SUBSET Page(list, call.page) : Fetched(list, skipped)
    OBVIOUS
  <2>2. list \in SUBSET Cards /\ (call.provider = Primary => list \subseteq Known)
    BY DEF Lists, Shape, CallRecord, Sensible, Known
  <2>3. mirror' \subseteq Cards
    BY <2>1, <2>2 DEF Fetched, Writable, Page, Shape, CallRecord
  <2>4. index' \subseteq Known
    BY <2>1, <2>2 DEF Fetched, Remember, Shape, CallRecord
  <2>5. call' \in CallRecord
    <3>1. Noted(skipped # {}) \in BOOLEAN /\ HasMore(list, call.page) \in BOOLEAN
      BY DEF Noted, HasMore, Shape, CallRecord
    <3>2. call \in CallRecord /\ call.page + 1 \in Nat \ {0}
      BY DEF Shape, CallRecord
    <3>3. call' = [step |-> "record", provider |-> call.provider, run |-> call.run,
                   page |-> call.page + 1, failed |-> Noted(skipped # {}),
                   more |-> HasMore(list, call.page)]
      BY <2>1, <3>2 DEF Fetched, CallRecord
    <3> QED
      BY <3>1, <3>2, <3>3 DEF CallRecord
  <2>6. story' \in Seq(Story) /\ Len(story') = Len(story)
    <3>1. call.run \in DOMAIN story
      <4>1. call.run \in Own
        BY <1>8 DEF FetchCards, Control, Walking
      <4> QED BY <1>1, <4>1 DEF Shape
    <3>2. story[call.run] \in Story
      <4>1. story \in Seq(Story)
        BY DEF Shape
      <4> QED BY <3>1, <4>1
    <3>3. Shown(story[call.run], list) \in Story
      BY <2>2, <3>2 DEF Shown, Story
    <3> QED
      BY <2>1, <3>1, <3>3 DEF Fetched, Shape, CallRecord
  <2> QED
    BY <1>8, <2>3, <2>4, <2>5, <2>6 DEF FetchCards, Shape, CallRecord
<1>9. CASE PageUnavailable \/ PageFails
  <2>1. PICK down \in BOOLEAN : PastFailure(down)
    BY <1>9 DEF PageUnavailable, PageFails
  <2>2. UNCHANGED <<listed, index, mirror, job, rows, failures, story>>
    BY <1>9 DEF PageUnavailable, PageFails
  <2>3. call' = [step |-> "record", provider |-> call.provider, run |-> call.run,
                 page |-> call.page + 1, failed |-> TRUE, more |-> ~down]
    BY <2>1 DEF PastFailure, Noted, Shape, CallRecord
  <2> QED
    BY <2>2, <2>3 DEF Shape, CallRecord
<1>10. CASE ContractBroken
  BY <1>10 DEF ContractBroken, Shape, CallRecord
<1>11. CASE RecordProgress
  <2>1. call.run \in DOMAIN rows
    BY <1>1, <1>11 DEF RecordProgress, Control, Walking
  <2>2. Progress(rows[call.run]) \in Row
    <3>1. rows[call.run] \in Row /\ call.page \in Nat /\ call.failed \in BOOLEAN
      BY <1>1, <2>1 DEF Shape, CallRecord
    <3> QED BY <3>1 DEF Progress, Row
  <2>3. rows' \in Seq(Row) /\ Len(rows') = Len(rows)
    BY <1>11, <2>1, <2>2, RowRewritten DEF RecordProgress
  <2> QED
    BY <1>11, <2>3 DEF RecordProgress, Shape, CallRecord
<1>12. CASE CloseRun
  <2>1. Status \in Statuses /\ call.run \in DOMAIN rows
    BY <1>1, <1>12 DEF CloseRun, Status, Statuses, Control, Walking
  <2>2. rows' \in Seq(Row) /\ Len(rows') = Len(rows)
    BY <1>12, <2>1, StatusRewritten DEF CloseRun
  <2> QED
    BY <1>12, <2>2 DEF CloseRun, Shape, CallRecord
<1>13. CASE Return
  BY <1>13 DEF Return, NoCall, Shape, CallRecord, Job, Providers
<1>14. CASE CloseBroken
  <2>1. call.run \in DOMAIN rows
    BY <1>1, <1>14 DEF CloseBroken, Control, Walking
  <2>2. rows' \in Seq(Row) /\ Len(rows') = Len(rows)
    BY <1>14, <2>1, StatusRewritten DEF CloseBroken, Statuses
  <2>3. failures' \subseteq Nat /\ job' \in Job
    BY <1>14, ThrewShape DEF CloseBroken, Raise, Shape, CallRecord, Job
  <2> QED
    BY <1>14, <2>2, <2>3 DEF CloseBroken, NoCall, Shape, CallRecord, Providers
<1>15. CASE AttemptFails
  <2>1. failures' \subseteq Nat /\ job' \in Job
    BY <1>15, ThrewShape DEF AttemptFails, Raise, Shape, CallRecord, Job
  <2> QED
    BY <1>15, <2>1 DEF AttemptFails, NoCall, Shape, CallRecord, Providers
<1>16. CASE Enqueue
  BY <1>16 DEF Enqueue, Shape, CallRecord, Job
<1>17. CASE Crash
  <2> DEFINE again == job.stalled < MaxStalledCount
             after == [job EXCEPT !.stalled = IF again THEN job.stalled + 1 ELSE job.stalled,
                                  !.state = IF again THEN "waiting" ELSE "failed"]
  <2>1. after.id = job.id /\ after \in Job
    BY CrashedShape
  <2>2. job' = after /\ Raise(after)
    BY <1>17 DEF Crash
  <2> HIDE DEF after
  <2>3. failures' \subseteq Nat
    BY <2>2 DEF Raise, Shape, CallRecord, Job
  <2> QED
    BY <1>17, <2>1, <2>2, <2>3 DEF Crash, NoCall, Shape, CallRecord, Providers
<1>18. CASE Publish
  BY <1>18 DEF Publish, Shape, CallRecord, Known
<1>19. CASE CloseIfFinallyFailed
  <2>1. PICK j \in failures : /\ failures' = failures \ {j}
                              /\ rows' = ClosedRows(j) \/ rows' = rows
    BY <1>19 DEF CloseIfFinallyFailed, ClosedRows
  <2>2. ClosedRows(j) \in Seq(Row) /\ Len(ClosedRows(j)) = Len(rows)
    BY ClosedRowsShape
  <2> QED
    BY <1>19, <2>1, <2>2 DEF CloseIfFinallyFailed, Shape, CallRecord
<1>20. CASE UNCHANGED vars
  BY <1>20 DEF vars, Shape, CallRecord
<1> QED
  BY <1>2, <1>3, <1>4, <1>5, <1>6, <1>7, <1>8, <1>9, <1>10, <1>11, <1>12, <1>13, <1>14,
     <1>15, <1>16, <1>17, <1>18, <1>19, <1>20 DEF Next, Process

LEMMA ControlAtFirst ==
    ASSUME Init
    PROVE  Control
BY DEF Init, Control, NoCall, Own, Walking

\* Rows are closed, and none is opened.
RowsOnlyClose ==
    /\ DOMAIN rows' = DOMAIN rows
    /\ \A i \in DOMAIN rows : rows'[i].job = rows[i].job
    /\ Own' \subseteq Own

LEMMA OneRowClosed ==
    ASSUME Shape, NEW i \in DOMAIN rows, NEW status \in Statuses \ {"RUNNING"},
           rows' = [rows EXCEPT ![i].status = status], job'.id = job.id
    PROVE  /\ RowsOnlyClose
           /\ rows'[i].status = status
           /\ Own' = Own \ {i}
           /\ \A k \in DOMAIN rows : rows'[k].page = rows[k].page /\ rows'[k].failed = rows[k].failed
                                     /\ rows'[k].provider = rows[k].provider
<1>1. rows[i] \in Row
  BY DEF Shape
<1>2. \A k \in DOMAIN rows : rows'[k] = IF k = i THEN [rows[i] EXCEPT !.status = status]
                                                 ELSE rows[k]
  OBVIOUS
<1>3. /\ [rows[i] EXCEPT !.status = status].job = rows[i].job
      /\ [rows[i] EXCEPT !.status = status].status = status
      /\ [rows[i] EXCEPT !.status = status].page = rows[i].page
      /\ [rows[i] EXCEPT !.status = status].failed = rows[i].failed
      /\ [rows[i] EXCEPT !.status = status].provider = rows[i].provider
  BY <1>1 DEF Row
<1>4. DOMAIN rows' = DOMAIN rows
  OBVIOUS
<1>5. \A k \in DOMAIN rows : rows'[k].job = rows[k].job
  BY <1>2, <1>3
<1>6. \A k \in DOMAIN rows : rows'[k].status = IF k = i THEN status ELSE rows[k].status
  BY <1>2, <1>3
<1>7. Own' = Own \ {i}
  BY <1>4, <1>5, <1>6 DEF Own
<1> QED
  BY <1>2, <1>3, <1>4, <1>5, <1>6, <1>7 DEF RowsOnlyClose

LEMMA ClosedRowsFields ==
    ASSUME Shape, NEW j
    PROVE  /\ DOMAIN ClosedRows(j) = DOMAIN rows
           /\ \A i \in DOMAIN rows : ClosedRows(j)[i].job = rows[i].job
           /\ \A i \in DOMAIN rows : ClosedRows(j)[i] = rows[i] \/ rows[i].job = j
           /\ \A i \in DOMAIN rows :
                 ClosedRows(j)[i].status = "RUNNING" => ClosedRows(j)[i] = rows[i]
           /\ \A i \in DOMAIN rows : ClosedRows(j)[i].status \in {"FAILED", rows[i].status}
           /\ \A i \in DOMAIN rows : ClosedRows(j)[i].provider = rows[i].provider
<1>1. ASSUME NEW i \in DOMAIN rows
      PROVE  /\ [rows[i] EXCEPT !.status = "FAILED"].job = rows[i].job
             /\ [rows[i] EXCEPT !.status = "FAILED"].status = "FAILED"
             /\ [rows[i] EXCEPT !.status = "FAILED"].provider = rows[i].provider
  <2>1. rows[i] \in Row
    BY <1>1 DEF Shape
  <2> QED BY <2>1 DEF Row
<1> QED
  BY <1>1 DEF ClosedRows

\* An attempt is over: the call is gone, and the job fails for good, or waits.
LEMMA ControlAfterAnAttempt ==
    ASSUME Shape, Control, NEW after, after.id = job.id, after.state \in {"waiting", "failed"},
           job.state # "failed", job' = after, Raise(after), call'.step = "idle", RowsOnlyClose
    PROVE  Control'
<1>1. job.id \in Nat /\ failures \subseteq Nat
  BY DEF Shape, Job
<1>2. \A j \in failures' : j <= job'.id /\ (j = job'.id => job'.state = "failed")
  <2>1. \A j \in failures : j <= job.id
    BY DEF Control
  <2>2. CASE after.state = "failed"
    BY <1>1, <2>1, <2>2 DEF Raise
  <2>3. CASE after.state = "waiting"
    BY <2>1, <2>3 DEF Raise, Control
  <2> QED BY <2>2, <2>3
<1>3. \A i \in DOMAIN rows' : rows'[i].job <= job'.id
  BY DEF Control, RowsOnlyClose
<1>4. \A i, k \in Own' : i = k
  BY DEF Control, RowsOnlyClose
<1> QED
  BY <1>2, <1>3, <1>4 DEF Control, Walking

\* Every step keeps the calls on their rows.
LEMMA ControlStays ==
    ASSUME Sensible, Shape, Control, [Next]_vars
    PROVE  Control'
<1>1. /\ Own \subseteq DOMAIN rows /\ DOMAIN rows = 1 .. Len(rows) /\ Len(rows) \in Nat
      /\ rows \in Seq(Row)
  BY DEF Own, Shape
<1>2. job.id \in Nat /\ failures \subseteq Nat
  BY DEF Shape, Job
<1>4. CASE Choose
  <2>1. PICK open \in SUBSET Providers : \E p \in Candidates(open) :
            call' = [NoCall EXCEPT !.step = "chosen", !.provider = p]
    BY <1>4 DEF Choose
  <2>2. PICK p \in Candidates(open) :
            call' = [NoCall EXCEPT !.step = "chosen", !.provider = p]
    BY <2>1
  <2>3. call'.step = "chosen" /\ call'.provider = p
    BY <2>2 DEF NoCall
  <2>4. ASSUME NEW i \in Own PROVE p = rows[i].provider
    <3>1. Newest(Own) = i
      BY <2>4, NewestIsOwn DEF Control
    <3> QED
      BY <2>2, <2>4, <3>1 DEF Candidates
  <2>5. job' = [job EXCEPT !.state = "active"] /\ job.state = "waiting"
    BY <1>4 DEF Choose, Take
  <2>6. job'.state = "active" /\ job'.id = job.id
    BY <2>5 DEF Shape, Job
  <2>7. UNCHANGED <<rows, failures>>
    BY <1>4 DEF Choose
  <2>8. Own' = Own
    BY <2>6, <2>7 DEF Own
  <2> QED
    BY <2>3, <2>4, <2>5, <2>6, <2>7, <2>8 DEF Control, Walking
<1>5. CASE Abandon
  <2>1. Newest(Own) \in Own
    BY <1>5, NewestIsOwn DEF Abandon, Control
  <2>2. job' = [job EXCEPT !.state = "active"] /\ job.state = "waiting"
    BY <1>5 DEF Abandon, Take
  <2>3. job'.state = "active" /\ job'.id = job.id
    BY <2>2 DEF Shape, Job
  <2>4. RowsOnlyClose
    BY <1>1, <1>5, <2>1, <2>3, OneRowClosed DEF Abandon, Statuses
  <2>5. call'.step = "done" /\ UNCHANGED failures
    BY <1>5 DEF Abandon, NoCall
  <2> QED
    BY <2>2, <2>3, <2>4, <2>5 DEF Control, Walking, RowsOnlyClose
<1>6. CASE FailsToStart \/ AttemptFails
  <2>1. RowsOnlyClose
    <3>1. UNCHANGED rows /\ job' = Threw
      BY <1>6 DEF FailsToStart, AttemptFails
    <3>2. Threw.id = job.id
      BY ThrewShape
    <3>3. job'.id = job.id
      BY <3>1, <3>2
    <3> QED BY <3>1, <3>3 DEF RowsOnlyClose, Own
  <2>2. call' = NoCall \/ (call.step = "idle" /\ call' = call)
    BY <1>6 DEF FailsToStart, AttemptFails, Running
  <2>3. job.state # "failed"
    BY <1>6 DEF FailsToStart, AttemptFails, Control
  <2>4. job' = Threw /\ Raise(Threw)
    BY <1>6 DEF FailsToStart, AttemptFails
  <2>5. call'.step = "idle"
    BY <2>2 DEF NoCall
  <2> QED
    BY <2>1, <2>3, <2>4, <2>5, ThrewShape, ControlAfterAnAttempt
<1>7. CASE StartOrResume
  <2>1. UNCHANGED <<job, failures>> /\ call.step = "chosen"
    BY <1>7 DEF StartOrResume
  <2>2. job.state = "active"
    BY <2>1 DEF Control
  <2>3. CASE Own # {}
    <3>1. Newest(Own) \in Own
      BY <2>3, NewestIsOwn DEF Control
    <3>2. Begin(Newest(Own)) /\ UNCHANGED rows
      BY <1>7, <2>3 DEF StartOrResume
    <3>3. Own' = Own
      BY <2>1, <3>2 DEF Own
    <3>4. Begun(Newest(Own))
      BY <1>1, <3>1, <3>2, BeginBegun
    <3>5. call.provider = rows[Newest(Own)].provider
      BY <2>1, <3>1 DEF Control
    <3> QED
      BY <2>1, <2>2, <3>1, <3>2, <3>3, <3>4, <3>5 DEF Begun, Control, Walking
  <2>4. CASE Own = {}
    <3> DEFINE new == [job |-> job.id, provider |-> call.provider, status |-> "RUNNING",
                       page |-> 0, failed |-> FALSE]
    <3>1. rows' = Append(rows, new) /\ Begin(Len(rows) + 1)
      BY <1>7, <2>4 DEF StartOrResume
    <3>2. new.job = job.id /\ new.provider = call.provider /\ new.status = "RUNNING"
      OBVIOUS
    <3> HIDE DEF new
    <3>3. /\ DOMAIN rows' = DOMAIN rows \cup {Len(rows) + 1}
          /\ \A i \in DOMAIN rows : rows'[i] = rows[i]
          /\ rows'[Len(rows) + 1] = new
      BY <1>1, <3>1
    <3>4. Own' = {Len(rows) + 1}
      BY <1>1, <2>1, <2>4, <3>2, <3>3 DEF Own
    <3>5. Begun(Len(rows) + 1)
      BY <1>1, <3>1, BeginBegun
    <3>6. \A i \in DOMAIN rows' : rows'[i].job <= job'.id
      BY <1>2, <2>1, <3>2, <3>3 DEF Control
    <3> QED
      BY <2>1, <2>2, <3>2, <3>3, <3>4, <3>5, <3>6 DEF Begun, Control, Walking
  <2> QED BY <2>3, <2>4
<1>8. CASE WriteSets \/ SetsFail \/ PageUnavailable \/ PageFails \/ ContractBroken
  <2>1. /\ UNCHANGED <<job, rows, failures>> /\ call.step \in {"sets", "page"}
        /\ call'.run = call.run /\ call'.provider = call.provider
    BY <1>8 DEF WriteSets, SetsFail, PageUnavailable, PageFails, ContractBroken, PastFailure,
                Shape, CallRecord
  <2>2. Own' = Own
    BY <2>1 DEF Own
  <2>3. \/ call'.step = "page" /\ call'.page = call.page /\ call'.failed = call.failed
        \/ call'.step = "broken"
        \/ call'.step = "record" /\ call'.page = call.page + 1
    BY <1>8 DEF WriteSets, SetsFail, PageUnavailable, PageFails, ContractBroken, PastFailure,
                Shape, CallRecord
  <2>4. call.page \in Nat /\ call.page > 0
    BY DEF Shape, CallRecord
  <2> QED
    BY <2>1, <2>2, <2>3, <2>4 DEF Control, Walking
<1>9. CASE FetchCards
  <2>1. PICK list \in Lists : \E skipped \in SUBSET Page(list, call.page) :
           Fetched(list, skipped)
    BY <1>9, FetchIsOfAList
  <2>2. PICK skipped \in SUBSET Page(list, call.page) : Fetched(list, skipped)
    BY <2>1
  <2>3. call.step = "page" /\ UNCHANGED <<job, rows, failures>>
    BY <1>9, FetchIsOfAList
  <2>4. /\ call'.step = "record" /\ call'.run = call.run /\ call'.provider = call.provider
        /\ call'.page = call.page + 1
    BY <2>2 DEF Fetched, Shape, CallRecord
  <2>5. Own' = Own
    BY <2>3 DEF Own
  <2>6. call.page \in Nat /\ call.page > 0
    BY DEF Shape, CallRecord
  <2> QED
    BY <2>3, <2>4, <2>5, <2>6 DEF Control, Walking
<1>10. CASE RecordProgress
  <2>1. call.step = "record" /\ UNCHANGED <<job, failures>>
    BY <1>10 DEF RecordProgress
  <2>2. call.run \in Own /\ call.provider = rows[call.run].provider
    BY <2>1 DEF Control, Walking
  <2>3. rows[call.run] \in Row
    BY <1>1, <2>2
  <2>4. /\ DOMAIN rows' = DOMAIN rows
        /\ \A i \in DOMAIN rows \ {call.run} : rows'[i] = rows[i]
        /\ rows'[call.run] = Progress(rows[call.run])
    BY <1>1, <1>10, <2>2 DEF RecordProgress
  <2>5. LET row == Progress(rows[call.run])
        IN  /\ row.job = rows[call.run].job /\ row.status = rows[call.run].status
            /\ row.provider = rows[call.run].provider
            /\ row.page = call.page /\ row.failed = call.failed
    BY <2>3 DEF Progress, Row
  <2>6. /\ \A i \in DOMAIN rows : rows'[i].job = rows[i].job
        /\ \A i \in DOMAIN rows : rows'[i].status = rows[i].status
        /\ \A i \in DOMAIN rows : rows'[i].provider = rows[i].provider
    BY <2>4, <2>5
  <2>7. rows'[call.run].page = call.page /\ rows'[call.run].failed = call.failed
    BY <2>4, <2>5
  <2>8. Own' = Own
    BY <2>1, <2>4, <2>6 DEF Own
  <2>9. /\ call'.step = IF call.more THEN "page" ELSE "close"
        /\ call'.run = call.run /\ call'.provider = call.provider /\ call'.page = call.page
        /\ call'.failed = call.failed /\ call'.more = call.more
    BY <1>10 DEF RecordProgress, Shape, CallRecord
  <2>10. \A i \in DOMAIN rows' : rows'[i].job <= job'.id
    BY <2>1, <2>4, <2>6 DEF Control
  <2>11. /\ \A j \in failures' : j <= job'.id /\ (j = job'.id => job'.state = "failed")
         /\ job'.state = "active"
    BY <2>1 DEF Control
  <2>12. rows'[call.run].provider = call.provider
    BY <1>1, <2>2, <2>6
  <2>13. \A i, k \in Own' : i = k
    BY <2>8 DEF Control
  <2> QED
    BY <2>2, <2>7, <2>8, <2>9, <2>10, <2>11, <2>12, <2>13 DEF Control, Walking
<1>11. CASE CloseRun
  <2>1. UNCHANGED <<job, failures>> /\ call'.step = "done" /\ call.step = "close"
    BY <1>11 DEF CloseRun, Shape, CallRecord
  <2>2. call.run \in DOMAIN rows /\ Status \in Statuses \ {"RUNNING"}
    BY <1>1, <2>1 DEF Control, Walking, Status, Statuses
  <2>3. RowsOnlyClose
    BY <1>11, <2>1, <2>2, OneRowClosed DEF CloseRun
  <2> QED
    BY <2>1, <2>3 DEF Control, Walking, RowsOnlyClose
<1>12. CASE Return
  <2>1. /\ UNCHANGED <<rows, failures>> /\ job' = [job EXCEPT !.state = "completed"]
        /\ call' = NoCall /\ call.step = "done"
    BY <1>12 DEF Return
  <2>2. job'.id = job.id /\ job.state = "active"
    BY <2>1 DEF Shape, Job, Control
  <2>3. Own' = Own
    BY <2>1, <2>2 DEF Own
  <2> QED
    BY <2>1, <2>2, <2>3 DEF Control, NoCall, Walking
<1>13. CASE CloseBroken
  <2>1. call.step = "broken" /\ job' = Threw /\ Raise(Threw) /\ call' = NoCall
    BY <1>13 DEF CloseBroken
  <2>2. call.run \in DOMAIN rows /\ job.state # "failed"
    BY <1>1, <2>1 DEF Control, Walking
  <2>3. RowsOnlyClose
    <3>1. rows' = [rows EXCEPT ![call.run].status = "FAILED"] /\ job'.id = job.id
      BY <1>13, <2>1, ThrewShape DEF CloseBroken
    <3>2. "FAILED" \in Statuses \ {"RUNNING"}
      BY DEF Statuses
    <3> QED BY <2>2, <3>1, <3>2, OneRowClosed
  <2> QED
    BY <2>1, <2>2, <2>3, ThrewShape, ControlAfterAnAttempt DEF NoCall
<1>14. CASE Enqueue
  <2>1. /\ UNCHANGED <<rows, failures, call>> /\ job'.id = job.id + 1
        /\ job'.state = "waiting" /\ job.state # "active"
    BY <1>14 DEF Enqueue
  <2>2. call.step = "idle"
    BY <2>1 DEF Control
  <2>3. \A i \in DOMAIN rows : rows[i].job <= job.id /\ rows[i].job \in Nat
    <3>1. \A i \in DOMAIN rows : rows[i] \in Row
      BY <1>1
    <3> QED
      BY <3>1 DEF Control, Row
  <2>4. Own' = {}
    BY <1>2, <2>1, <2>3 DEF Own
  <2>5. \A i \in DOMAIN rows' : rows'[i].job <= job'.id
    BY <1>2, <2>1, <2>3
  <2>6. \A j \in failures' : j <= job'.id /\ j # job'.id
    BY <1>2, <2>1 DEF Control
  <2> QED
    BY <2>1, <2>2, <2>4, <2>5, <2>6 DEF Control, Walking
<1>15. CASE Crash
  <2> DEFINE again == job.stalled < MaxStalledCount
             after == [job EXCEPT !.stalled = IF again THEN job.stalled + 1 ELSE job.stalled,
                                  !.state = IF again THEN "waiting" ELSE "failed"]
  <2>1. after.id = job.id /\ after.state \in {"waiting", "failed"}
    BY CrashedShape
  <2>2. job' = after /\ Raise(after) /\ UNCHANGED rows /\ call' = NoCall
    BY <1>15 DEF Crash
  <2>3. job.state # "failed"
    BY <1>15 DEF Crash, Running, Control
  <2> HIDE DEF after
  <2>4. RowsOnlyClose
    BY <2>1, <2>2 DEF RowsOnlyClose, Own
  <2> QED
    BY <2>1, <2>2, <2>3, <2>4, ControlAfterAnAttempt DEF NoCall
<1>16. CASE Publish \/ UNCHANGED vars
  BY <1>16 DEF Publish, vars, Control, Own
<1>17. CASE CloseIfFinallyFailed
  <2>1. PICK j \in failures : /\ failures' = failures \ {j}
                              /\ rows' = ClosedRows(j) \/ rows' = rows
    BY <1>17 DEF CloseIfFinallyFailed, ClosedRows
  <2>2. UNCHANGED <<job, call>>
    BY <1>17 DEF CloseIfFinallyFailed
  <2>3. CASE rows' = rows
    BY <2>1, <2>2, <2>3 DEF Control, Own
  <2>4. CASE rows' = ClosedRows(j)
    <3>1. /\ DOMAIN rows' = DOMAIN rows
          /\ \A i \in DOMAIN rows : rows'[i].job = rows[i].job
          /\ \A i \in DOMAIN rows : rows'[i] = rows[i] \/ rows[i].job = j
          /\ \A i \in DOMAIN rows : rows'[i].status = "RUNNING" => rows'[i] = rows[i]
      BY <2>4, ClosedRowsFields
    <3>2. Own' \subseteq Own /\ \A i \in Own' : rows'[i] = rows[i]
      BY <2>2, <3>1 DEF Own
    <3>3. CASE call.step = "idle"
      BY <2>1, <2>2, <3>1, <3>2, <3>3 DEF Control, Walking
    <3>4. CASE call.step # "idle"
      <4>1. j # job.id
        BY <3>4 DEF Control
      <4>2. Own' = Own /\ \A i \in Own : rows'[i] = rows[i]
        BY <2>2, <3>1, <4>1 DEF Own
      <4> QED
        BY <2>1, <2>2, <3>1, <4>2 DEF Control, Walking
    <3> QED BY <3>3, <3>4
  <2> QED BY <2>1, <2>3, <2>4
<1> QED
  BY <1>4, <1>5, <1>6, <1>7, <1>8, <1>9, <1>10, <1>11, <1>12, <1>13, <1>14, <1>15, <1>16,
     <1>17 DEF Next, Process

LEMMA ControlAlways ==
    ASSUME Sensible
    PROVE  Spec => [](Shape /\ Control)
<1>1. Init => Shape /\ Control
  BY ShapeAtFirst, ControlAtFirst
<1>2. Shape /\ Control /\ [Next]_vars => (Shape /\ Control)'
  BY ShapeStays, ControlStays
<1> QED
  BY <1>1, <1>2, PTL DEF Spec

-----------------------------------------------------------------------------
(* The mirror never forks.                                                 *)

\* For every catalog and every fallback: a run at the fallback brings in no
\* card that the primary never listed, and every card has its set.
THEOREM MirrorNeverForks ==
    ASSUME Sensible
    PROVE  Spec => []FallbackNeverForks
<1>1. Init => FallbackNeverForks
  BY DEF Init, FallbackNeverForks, SetsOf
<1>2. Shape /\ FallbackNeverForks /\ [Next]_vars => FallbackNeverForks'
  <2> SUFFICES ASSUME Shape, FallbackNeverForks, [Next]_vars PROVE FallbackNeverForks'
    OBVIOUS
  <2>1. CASE FetchCards
    <3>1. PICK list \in Lists : \E skipped \in SUBSET Page(list, call.page) :
             Fetched(list, skipped)
      BY <2>1, FetchIsOfAList
    <3>2. PICK skipped \in SUBSET Page(list, call.page) : Fetched(list, skipped)
      BY <3>1
    <3> DEFINE write == Writable(Page(list, call.page) \ skipped)
    <3>3. mirror' = mirror \cup write /\ SetsOf(write) \subseteq sets
      BY <3>2 DEF Fetched
    <3>4. write \subseteq mirror \cup Known
      <4>1. CASE call.provider = Primary
        <5>1. list \subseteq Known
          BY <4>1 DEF Lists, Shape
        <5> QED BY <4>1, <5>1 DEF Writable, Page
      <4>2. CASE call.provider # Primary
        BY <4>2 DEF Writable
      <4> QED BY <4>1, <4>2
    <3>5. sets' = sets
      BY <2>1 DEF FetchCards
    <3> HIDE DEF write
    <3>6. SetsOf(mirror') \subseteq sets
      BY <3>3 DEF FallbackNeverForks, SetsOf
    <3> QED
      BY <3>3, <3>4, <3>5, <3>6 DEF FallbackNeverForks, Known, SetsOf
  <2>2. CASE WriteSets
    BY <2>2 DEF WriteSets, FallbackNeverForks, SetsOf
  <2>3. CASE ~FetchCards /\ ~WriteSets
    <3>1. mirror' = mirror /\ sets' = sets
      BY <2>3 DEF Next, Process, Choose, Abandon, FailsToStart, StartOrResume, SetsFail,
                  PageUnavailable, PageFails, ContractBroken, RecordProgress, CloseRun, Return,
                  CloseBroken, AttemptFails, Enqueue, Crash, Publish, CloseIfFinallyFailed, vars
    <3> QED
      BY <3>1 DEF FallbackNeverForks, SetsOf
  <2> QED BY <2>1, <2>2, <2>3
<1> QED
  BY <1>1, <1>2, ControlAlways, PTL DEF Spec

-----------------------------------------------------------------------------
(* A run that says SUCCEEDED mirrored its list.                            *)

\* Cards move to later places only, as long as none is taken back.
LEMMA PlaceGrows ==
    ASSUME Sensible, NEW list \in SUBSET Cards, NEW longer \in SUBSET Cards, list \subseteq longer,
           NEW c \in Cards
    PROVE  /\ Place(list, c) \in Nat /\ Place(longer, c) \in Nat
           /\ Place(list, c) <= Place(longer, c)
<1> DEFINE before == {d \in list : d < c}
           longerBefore == {d \in longer : d < c}
<1>1. IsFiniteSet(longer)
  BY FS_Subset DEF Sensible
<1>2. IsFiniteSet(longerBefore)
  BY <1>1, FS_Subset
<1>3. IsFiniteSet(before) /\ Cardinality(before) <= Cardinality(longerBefore)
  BY <1>2, FS_Subset
<1> QED
  BY <1>2, <1>3, FS_CardinalityType DEF Place

\* A card of the list is not on the list's last page or before it, if its place is.
LEMMA PlaceIsBounded ==
    ASSUME Sensible, NEW list \in SUBSET Cards, NEW c \in list
    PROVE  Place(list, c) < Cardinality(list)
<1> DEFINE before == {d \in list : d < c}
<1>1. IsFiniteSet(list) /\ list \subseteq Nat
  BY FS_Subset DEF Sensible
<1>2. c \notin before
  BY <1>1
<1>3. IsFiniteSet(before) /\ Cardinality(before) <= Cardinality(list)
      /\ (Cardinality(list) = Cardinality(before) => list = before)
  BY <1>1, FS_Subset
<1>4. Cardinality(before) # Cardinality(list)
  BY <1>2, <1>3
<1>5. Cardinality(before) \in Nat /\ Cardinality(list) \in Nat
  BY <1>1, <1>3, FS_CardinalityType
<1> QED
  BY <1>3, <1>4, <1>5 DEF Place

\* Run i has n pages to go on from: what it began with and the mirror lacks
\* has its place on page n, or later, in the list the client remembers now.
MirroredTo(i, n) ==
    /\ story[i].shown \subseteq index
    /\ \A c \in story[i].shown : c \notin mirror => Place(index, c) >= (n - 1) * PageSize

Claim(i, n, failed) == ~failed /\ n > 1 /\ ~story[i].withdrawn => MirroredTo(i, n)

\* The open row of the job says so of its cursor, the call that walks of its
\* page, and a call that has seen the last page has the whole list behind it.
WalkInv ==
    /\ \A i \in Own : rows[i].provider = Primary => Claim(i, rows[i].page, rows[i].failed)
    /\ call.step \in Walking /\ call.provider = Primary =>
          Claim(call.run, call.page, call.failed)
    /\ call.step \in {"record", "close"} /\ call.provider = Primary /\ ~call.failed /\ ~call.more =>
          call.page > 1 /\ Cardinality(index) <= (call.page - 1) * PageSize

\* No step forgets what a row, once open, is about.
RowsStay ==
    /\ UNCHANGED <<index, mirror, story>>
    /\ DOMAIN rows' = DOMAIN rows /\ Own' \subseteq Own
    /\ \A i \in DOMAIN rows : rows'[i].provider = rows[i].provider
    /\ \A i \in Own' : rows'[i].page = rows[i].page /\ rows'[i].failed = rows[i].failed
    /\ \A i \in DOMAIN rows : rows'[i].status = "SUCCEEDED" => rows[i].status = "SUCCEEDED"

\* The call walks on where it was, if it does, or counts a failure.
CallStays ==
    call'.step \in Walking =>
        /\ call.step \in Walking /\ call'.run = call.run /\ call'.provider = call.provider
        /\ \/ call'.failed
           \/ /\ call'.page = call.page /\ call'.failed = call.failed /\ call'.more = call.more
              /\ call'.step \in {"record", "close"} => call.step \in {"record", "close"}

LEMMA WalkQuietly ==
    ASSUME WalkInv, SucceededMeansMirrored, RowsStay, CallStays
    PROVE  WalkInv' /\ SucceededMeansMirrored'
<1>1. ASSUME NEW i, NEW n, NEW failed, Claim(i, n, failed)
      PROVE  ~failed /\ n > 1 /\ ~story'[i].withdrawn =>
                /\ story'[i].shown \subseteq index'
                /\ \A c \in story'[i].shown : c \notin mirror' =>
                      Place(index', c) >= (n - 1) * PageSize
  BY <1>1 DEF Claim, MirroredTo, RowsStay
<1>2. ASSUME NEW i \in Own', rows'[i].provider = Primary
      PROVE  Claim(i, rows[i].page, rows[i].failed)'
  BY <1>1, <1>2 DEF WalkInv, RowsStay, Own, Claim, MirroredTo
<1>3. ASSUME call'.step \in Walking, call'.provider = Primary
      PROVE  Claim(call.run, call.page, call.failed)'
  BY <1>1, <1>3 DEF WalkInv, CallStays, Claim, MirroredTo
<1>4. ASSUME call'.step \in {"record", "close"}, call'.provider = Primary, ~call'.failed,
             ~call'.more
      PROVE  call'.page > 1 /\ Cardinality(index') <= (call'.page - 1) * PageSize
  BY <1>4 DEF WalkInv, CallStays, RowsStay, Walking
<1>5. SucceededMeansMirrored'
  BY DEF SucceededMeansMirrored, RowsStay
<1> QED
  BY <1>2, <1>3, <1>4, <1>5 DEF WalkInv

\* A closed row: the run's, with a status other than SUCCEEDED.
LEMMA ClosingStays ==
    ASSUME Shape, NEW i \in DOMAIN rows, NEW status \in {"PARTIAL", "FAILED"},
           rows' = [rows EXCEPT ![i].status = status], job'.id = job.id,
           UNCHANGED <<index, mirror, story>>
    PROVE  RowsStay
<1>1. status \in Statuses \ {"RUNNING"} /\ status # "SUCCEEDED"
  BY DEF Statuses
<1>2. /\ RowsOnlyClose /\ rows'[i].status = status
      /\ \A k \in DOMAIN rows : /\ rows'[k].page = rows[k].page
                                /\ rows'[k].failed = rows[k].failed
                                /\ rows'[k].provider = rows[k].provider
  BY <1>1, OneRowClosed
<1>3. \A k \in DOMAIN rows : k # i => rows'[k] = rows[k]
  OBVIOUS
<1> QED
  BY <1>1, <1>2, <1>3 DEF RowsStay, RowsOnlyClose, Own

\* A page is answered: what it did not show the mirror comes later.
LEMMA WalkOnAnswer ==
    ASSUME Sensible, Shape, Control, WalkInv, SucceededMeansMirrored, FetchCards
    PROVE  WalkInv' /\ SucceededMeansMirrored'
<1>1. PICK list \in Lists : \E skipped \in SUBSET Page(list, call.page) : Fetched(list, skipped)
  BY FetchIsOfAList
<1>2. PICK skipped \in SUBSET Page(list, call.page) : Fetched(list, skipped)
  BY <1>1
<1>3. call.step = "page" /\ UNCHANGED <<rows, job>>
  BY FetchIsOfAList
<1>. PICK r : r = call.run
  OBVIOUS
<1>. PICK n : n = call.page
  OBVIOUS
<1>4. r \in Own /\ \A i \in Own : i = r
  BY <1>3 DEF Control, Walking
<1>5. /\ call'.step = "record" /\ call'.run = r /\ call'.provider = call.provider
      /\ call'.page = n + 1 /\ call'.failed = Noted(skipped # {})
      /\ call'.more = HasMore(list, n)
  BY <1>2 DEF Fetched, Shape, CallRecord
<1>6. Own' = Own
  BY <1>3 DEF Own
<1>7. n \in Nat /\ n > 0 /\ (n + 1) - 1 = n /\ PageSize \in Nat
  BY DEF Shape, CallRecord, Sensible
<1>8. rows[r].provider = call.provider
  BY <1>3 DEF Control, Walking
<1>9. /\ r \in DOMAIN story /\ DOMAIN story = DOMAIN rows
      /\ story[r] \in Story
  <2>1. DOMAIN story = DOMAIN rows /\ story \in Seq(Story)
    BY DEF Shape
  <2>2. r \in DOMAIN rows
    BY <1>4 DEF Own
  <2> QED BY <2>1, <2>2
<1>10. /\ story'[r] = Shown(story[r], list)
       /\ \A i \in DOMAIN rows \ {r} : story'[i] = story[i]
  BY <1>2, <1>9 DEF Fetched
<1>11. mirror \subseteq mirror'
  BY <1>2 DEF Fetched
<1>12. SucceededMeansMirrored'
  <2>1. rows[r].status = "RUNNING"
    BY <1>4 DEF Own
  <2>2. ASSUME NEW i \in DOMAIN rows, rows[i].status = "SUCCEEDED"
        PROVE  rows[i].provider = Primary
               /\ (story'[i].withdrawn \/ story'[i].shown \subseteq mirror')
    BY <1>10, <1>11, <2>1, <2>2 DEF SucceededMeansMirrored
  <2> QED
    BY <1>3, <2>2 DEF SucceededMeansMirrored
<1>13. CASE call.provider # Primary
  BY <1>3, <1>4, <1>5, <1>6, <1>8, <1>12, <1>13 DEF WalkInv
<1>14. CASE call.provider = Primary
  <2>1. index' = list /\ list \subseteq Cards /\ index \subseteq Cards
    BY <1>2, <1>14 DEF Fetched, Remember, Lists, Shape, Known, Sensible
  <2>2. mirror' = mirror \cup (Page(list, n) \ skipped)
    BY <1>2, <1>14 DEF Fetched, Writable
  <2>3. /\ story'[r].shown = IF n = 1 THEN list ELSE story[r].shown
        /\ story'[r].withdrawn <=> n > 1 /\ (story[r].withdrawn \/ ~(index \subseteq list))
    BY <1>9, <1>10, <1>14 DEF Shown, Story
  \* Before the page was asked for, and whatever it skipped.
  <2>4. ASSUME n > 1, ~story'[r].withdrawn, ~call.failed PROVE MirroredTo(r, n)'
    <3>1. index \subseteq list /\ ~story[r].withdrawn /\ story'[r].shown = story[r].shown
      BY <1>7, <2>3, <2>4
    <3>2. MirroredTo(r, n)
      BY <1>3, <1>14, <2>4, <3>1 DEF WalkInv, Walking, Claim
    <3>3. story'[r].shown \subseteq index'
      BY <2>1, <3>1, <3>2 DEF MirroredTo
    <3>4. ASSUME NEW c \in story'[r].shown, c \notin mirror'
          PROVE  Place(index', c) >= (n - 1) * PageSize
      <4>1. Place(index, c) >= (n - 1) * PageSize
        BY <1>11, <3>1, <3>2, <3>4 DEF MirroredTo
      <4>2. c \in Cards
        BY <2>1, <3>3, <3>4
      <4>3. /\ Place(index, c) \in Nat /\ Place(list, c) \in Nat
            /\ Place(index, c) <= Place(list, c)
        BY <2>1, <3>1, <4>2, PlaceGrows
      <4>4. (n - 1) * PageSize \in Int
        BY <1>7
      <4> QED
        BY <2>1, <4>1, <4>3, <4>4
    <3> QED
      BY <3>3, <3>4 DEF MirroredTo
  \* And after it.
  <2>5. ASSUME ~story'[r].withdrawn, ~call.failed, skipped = {} PROVE MirroredTo(r, n + 1)'
    <3>1. story'[r].shown \subseteq index'
      <4>1. CASE n = 1
        BY <2>1, <2>3, <4>1
      <4>2. CASE n > 1
        BY <2>4, <2>5, <4>2 DEF MirroredTo
      <4> QED BY <1>7, <4>1, <4>2
    <3>2. ASSUME NEW c \in story'[r].shown, c \notin mirror'
          PROVE  Place(index', c) >= n * PageSize
      <4>1. c \in list /\ c \in Cards
        BY <2>1, <3>1, <3>2
      <4>2. Place(list, c) \in Nat /\ n * PageSize \in Int /\ (n - 1) * PageSize \in Int
        BY <1>7, <2>1, <4>1, PlaceGrows
      <4>3. c \notin Page(list, n)
        BY <2>2, <2>5, <3>2
      <4>4. Place(list, c) >= (n - 1) * PageSize
        <5>1. CASE n = 1
          <6>1. (n - 1) * PageSize = 0
            BY <1>7, <5>1
          <6> QED BY <4>2, <6>1
        <5>2. CASE n > 1
          BY <2>1, <2>4, <2>5, <3>2, <5>2 DEF MirroredTo
        <5> QED BY <1>7, <5>1, <5>2
      <4>5. ~(Place(list, c) < n * PageSize)
        BY <4>1, <4>3, <4>4 DEF Page
      <4> QED
        BY <2>1, <4>2, <4>5
    <3> QED
      BY <1>7, <3>1, <3>2 DEF MirroredTo
  <2>6. Claim(r, rows[r].page, rows[r].failed)'
    <3>1. \/ rows[r].page = n /\ rows[r].failed = call.failed
          \/ rows[r].page = 0
      BY <1>3 DEF Control
    <3> QED
      BY <1>3, <2>4, <3>1 DEF Claim
  <2>7. Claim(call.run, call.page, call.failed)'
    <3>1. call'.failed = (call.failed \/ skipped # {})
      BY <1>5 DEF Noted
    <3> QED
      BY <1>5, <2>5, <3>1 DEF Claim
  <2>8. ~call'.more => call'.page > 1 /\ Cardinality(index') <= (call'.page - 1) * PageSize
    <3>1. Cardinality(list) \in Nat /\ n * PageSize \in Int
      <4>1. IsFiniteSet(list)
        BY <2>1, FS_Subset DEF Sensible
      <4> QED BY <1>7, <4>1, FS_CardinalityType
    <3>2. ~call'.more => Cardinality(list) <= n * PageSize
      <4>1. ASSUME ~call'.more PROVE ~(n * PageSize < Cardinality(list))
        BY <1>5, <4>1 DEF HasMore
      <4> QED BY <3>1, <4>1
    <3>3. call'.page > 1 /\ call'.page - 1 = n
      BY <1>5, <1>7
    <3>4. (call'.page - 1) * PageSize = n * PageSize
      BY <3>3
    <3> QED
      BY <2>1, <3>2, <3>3, <3>4
  <2>9. ASSUME NEW i \in Own' PROVE Claim(i, rows[i].page, rows[i].failed)'
    <3>1. i = r
      BY <1>4, <1>6, <2>9
    <3> QED BY <2>6, <3>1
  <2> QED
    BY <1>12, <2>7, <2>8, <2>9 DEF WalkInv
<1> QED
  BY <1>13, <1>14

\* Every step keeps what the walk promises.
LEMMA WalkStays ==
    ASSUME Sensible, Shape, Shape', Control, WalkInv, SucceededMeansMirrored, [Next]_vars
    PROVE  WalkInv' /\ SucceededMeansMirrored'
<1>1. /\ Own \subseteq DOMAIN rows /\ DOMAIN rows = 1 .. Len(rows) /\ Len(rows) \in Nat
      /\ rows \in Seq(Row) /\ DOMAIN story = DOMAIN rows
  BY DEF Own, Shape
<1>2. ASSUME UNCHANGED <<index, mirror, story, rows>>, job'.id = job.id PROVE RowsStay
  BY <1>2 DEF RowsStay, Own
<1>3. CASE Choose \/ FailsToStart \/ Return \/ AttemptFails \/ Crash
  <2>1. UNCHANGED <<index, mirror, story, rows>>
    BY <1>3 DEF Choose, FailsToStart, Return, AttemptFails, Crash
  <2>2. job'.id = job.id
    <3>1. CASE Choose \/ Return
      BY <3>1 DEF Choose, Take, Return, Shape, Job
    <3>2. CASE FailsToStart \/ AttemptFails
      BY <3>2, ThrewShape DEF FailsToStart, AttemptFails
    <3>3. CASE Crash
      BY <3>3, CrashedShape DEF Crash
    <3> QED BY <1>3, <3>1, <3>2, <3>3
  <2>3. call'.step \notin Walking
    <3>1. CASE Choose
      BY <3>1 DEF Choose, NoCall, Walking
    <3>2. CASE FailsToStart
      BY <3>2 DEF FailsToStart, Running, Walking
    <3>3. CASE Return \/ AttemptFails \/ Crash
      BY <3>3 DEF Return, AttemptFails, Crash, NoCall, Walking
    <3> QED BY <1>3, <3>1, <3>2, <3>3
  <2> QED
    BY <1>2, <2>1, <2>2, <2>3, WalkQuietly DEF CallStays
<1>4. CASE Abandon
  <2>1. Newest(Own) \in DOMAIN rows /\ job'.id = job.id
    BY <1>1, <1>4, NewestIsOwn DEF Abandon, Take, Control, Shape, Job
  <2>2. RowsStay
    BY <1>4, <2>1, ClosingStays DEF Abandon
  <2>3. CallStays
    BY <1>4 DEF Abandon, NoCall, CallStays, Walking
  <2> QED BY <2>2, <2>3, WalkQuietly
<1>5. CASE CloseBroken
  <2>1. call.run \in DOMAIN rows /\ job'.id = job.id
    BY <1>1, <1>5, ThrewShape DEF CloseBroken, Control, Walking
  <2>2. RowsStay
    BY <1>5, <2>1, ClosingStays DEF CloseBroken
  <2>3. CallStays
    BY <1>5 DEF CloseBroken, NoCall, CallStays, Walking
  <2> QED BY <2>2, <2>3, WalkQuietly
<1>6. CASE WriteSets \/ SetsFail \/ PageUnavailable \/ PageFails \/ ContractBroken
  <2>1. UNCHANGED <<index, mirror, story, rows, job>>
    BY <1>6 DEF WriteSets, SetsFail, PageUnavailable, PageFails, ContractBroken
  <2>2. CallStays
    BY <1>6 DEF WriteSets, SetsFail, PageUnavailable, PageFails, ContractBroken, PastFailure,
                Noted, CallStays, Walking, Shape, CallRecord
  <2> QED BY <1>2, <2>1, <2>2, WalkQuietly
<1>7. CASE Publish \/ UNCHANGED vars
  <2>1. UNCHANGED <<index, mirror, story, rows, job, call>>
    BY <1>7 DEF Publish, vars
  <2> QED BY <1>2, <2>1, WalkQuietly DEF CallStays
<1>8. CASE Enqueue
  <2>1. UNCHANGED <<index, mirror, story, rows, call>> /\ job'.id = job.id + 1
    BY <1>8 DEF Enqueue
  <2>2. job.id \in Nat /\ \A i \in DOMAIN rows : rows[i].job <= job.id /\ rows[i].job \in Nat
    <3>1. \A i \in DOMAIN rows : rows[i] \in Row
      BY <1>1
    <3> QED BY <3>1 DEF Control, Shape, Job, Row
  <2>3. Own' = {}
    BY <2>1, <2>2 DEF Own
  <2>4. RowsStay /\ CallStays
    BY <2>1, <2>3 DEF RowsStay, CallStays
  <2> QED BY <2>4, WalkQuietly
<1>9. CASE CloseIfFinallyFailed
  <2>1. PICK j \in failures : rows' = ClosedRows(j) \/ rows' = rows
    BY <1>9 DEF CloseIfFinallyFailed, ClosedRows
  <2>2. UNCHANGED <<index, mirror, story, job, call>>
    BY <1>9 DEF CloseIfFinallyFailed
  <2>3. CASE rows' = rows
    BY <1>2, <2>2, <2>3, WalkQuietly DEF CallStays
  <2>4. CASE rows' = ClosedRows(j)
    <3>1. RowsStay
      BY <2>2, <2>4, ClosedRowsFields DEF RowsStay, Own
    <3> QED BY <2>2, <3>1, WalkQuietly DEF CallStays
  <2> QED BY <2>1, <2>3, <2>4
<1>10. CASE FetchCards
  BY <1>10, WalkOnAnswer
<1>11. CASE StartOrResume
  <2>1. UNCHANGED <<index, mirror, job>> /\ call.step = "chosen"
    BY <1>11 DEF StartOrResume
  <2>2. CASE Own # {}
    <3>1. Begin(Newest(Own)) /\ UNCHANGED <<rows, story>>
      BY <1>11, <2>2 DEF StartOrResume
    <3>2. PICK i : i = Newest(Own)
      OBVIOUS
    <3>3. i \in Own /\ Begun(i)
      BY <2>2, <3>1, <3>2, NewestIsOwn, BeginBegun DEF Control
    <3>4. RowsStay
      BY <1>2, <2>1, <3>1
    <3>5. Own' = Own
      BY <2>1, <3>1 DEF Own
    <3>6. rows[i].provider = call.provider
      BY <2>1, <3>3 DEF Control
    <3>7. ASSUME NEW k \in Own', rows'[k].provider = Primary
          PROVE  Claim(k, rows[k].page, rows[k].failed)'
      BY <2>1, <3>1, <3>5, <3>7 DEF WalkInv, Claim, MirroredTo
    <3>8. call'.provider = Primary => Claim(call.run, call.page, call.failed)'
      BY <3>1, <3>3, <3>5, <3>6, <3>7 DEF Begun, Claim
    <3>9. SucceededMeansMirrored'
      BY <2>1, <3>1 DEF SucceededMeansMirrored
    <3>10. call'.step \notin {"record", "close"}
      BY <3>3 DEF Begun
    <3> QED
      BY <3>7, <3>8, <3>9, <3>10 DEF WalkInv
  <2>3. CASE Own = {}
    <3> DEFINE new == [job |-> job.id, provider |-> call.provider, status |-> "RUNNING",
                       page |-> 0, failed |-> FALSE]
    <3>. PICK i : i = Len(rows) + 1
      OBVIOUS
    <3>1. /\ rows' = Append(rows, new) /\ Begin(i)
          /\ story' = Append(story, [shown |-> {}, withdrawn |-> FALSE])
      BY <1>11, <2>3 DEF StartOrResume
    <3>2. new.status = "RUNNING" /\ new.page = 0
      OBVIOUS
    <3> HIDE DEF new
    <3>3. /\ DOMAIN rows' = DOMAIN rows \cup {i}
          /\ \A k \in DOMAIN rows : rows'[k] = rows[k]
          /\ rows'[i] = new
      BY <1>1, <3>1
    <3>4. \A k \in DOMAIN rows : story'[k] = story[k]
      BY <1>1, <3>1 DEF Shape
    <3>5. SucceededMeansMirrored'
      BY <2>1, <3>2, <3>3, <3>4 DEF SucceededMeansMirrored
    <3>6. Own' \subseteq {i}
      BY <2>1, <2>3, <3>3 DEF Own
    <3>7. Begun(i)
      BY <3>1, BeginBegun
    <3>8. ~(rows'[i].page > 1) /\ ~(call'.page > 1)
      BY <3>2, <3>3, <3>7 DEF Begun
    <3>9. \A k \in Own' : Claim(k, rows[k].page, rows[k].failed)'
      BY <3>6, <3>8 DEF Claim
    <3>10. Claim(call.run, call.page, call.failed)'
      BY <3>8 DEF Claim
    <3>11. call'.step \notin {"record", "close"}
      BY <3>7 DEF Begun
    <3> QED
      BY <3>5, <3>9, <3>10, <3>11 DEF WalkInv
  <2> QED BY <2>2, <2>3
<1>12. CASE RecordProgress
  <2>. PICK r : r = call.run
    OBVIOUS
  <2>1. call.step = "record" /\ UNCHANGED <<index, mirror, story, job>>
    BY <1>12 DEF RecordProgress
  <2>2. r \in Own /\ call.provider = rows[r].provider
    BY <2>1 DEF Control, Walking
  <2>3. rows[r] \in Row
    BY <1>1, <2>2
  <2>4. /\ DOMAIN rows' = DOMAIN rows
        /\ \A i \in DOMAIN rows \ {r} : rows'[i] = rows[i]
        /\ rows'[r] = Progress(rows[r])
    BY <1>1, <1>12, <2>2 DEF RecordProgress
  <2>5. /\ Progress(rows[r]).status = rows[r].status
        /\ Progress(rows[r]).job = rows[r].job
        /\ Progress(rows[r]).provider = rows[r].provider
        /\ Progress(rows[r]).page = call.page /\ Progress(rows[r]).failed = call.failed
    BY <2>3 DEF Progress, Row
  <2>6. Own' = Own /\ \A i \in Own : i = r
    BY <2>1, <2>2, <2>4, <2>5 DEF Own, Control
  <2>7. /\ call'.step = IF call.more THEN "page" ELSE "close"
        /\ call'.run = r /\ call'.provider = call.provider /\ call'.page = call.page
        /\ call'.failed = call.failed /\ call'.more = call.more
    BY <1>12 DEF RecordProgress, Shape, CallRecord
  <2>8. call'.provider = Primary => Claim(call.run, call.page, call.failed)'
    BY <2>1, <2>7 DEF WalkInv, Walking, Claim, MirroredTo
  <2>9. ASSUME NEW i \in Own', rows'[i].provider = Primary
        PROVE  Claim(i, rows[i].page, rows[i].failed)'
    <3>1. i = r /\ rows'[i].page = call'.page /\ rows'[i].failed = call'.failed
      BY <2>4, <2>5, <2>6, <2>7, <2>9
    <3>2. call'.provider = Primary
      BY <2>2, <2>4, <2>5, <2>7, <2>9, <3>1
    <3> QED
      BY <2>7, <2>8, <3>1, <3>2 DEF Claim
  <2>10. call'.step \in {"record", "close"} /\ call'.provider = Primary /\ ~call'.failed
             /\ ~call'.more =>
                call'.page > 1 /\ Cardinality(index') <= (call'.page - 1) * PageSize
    BY <2>1, <2>7 DEF WalkInv
  <2>11. SucceededMeansMirrored'
    BY <2>1, <2>4, <2>5 DEF SucceededMeansMirrored
  <2> QED
    BY <2>8, <2>9, <2>10, <2>11 DEF WalkInv
<1>13. CASE CloseRun
  <2>. PICK r : r = call.run
    OBVIOUS
  <2>1. /\ call.step = "close" /\ rows' = [rows EXCEPT ![r].status = Status]
        /\ UNCHANGED <<index, mirror, story, job>>
    BY <1>13 DEF CloseRun
  <2>2. r \in Own /\ r \in DOMAIN rows /\ ~call.more /\ rows[r].provider = call.provider
    BY <1>1, <2>1 DEF Control, Walking
  <2>3. call'.step \notin Walking
    BY <1>13 DEF CloseRun, Walking, Shape, CallRecord
  <2>4. CASE Status = "PARTIAL"
    <3>1. RowsStay
      BY <2>1, <2>2, <2>4, ClosingStays
    <3> QED BY <2>3, <3>1, WalkQuietly DEF CallStays
  <2>5. CASE Status = "SUCCEEDED"
    <3>1. call.provider = Primary /\ ~call.failed
      BY <2>5 DEF Status
    <3>2. /\ call.page > 1 /\ Cardinality(index) <= (call.page - 1) * PageSize
          /\ Claim(r, call.page, call.failed)
      BY <2>1, <2>2, <3>1 DEF WalkInv, Walking
    <3>3. ASSUME ~story[r].withdrawn PROVE story[r].shown \subseteq mirror
      <4>1. MirroredTo(r, call.page)
        BY <3>1, <3>2, <3>3 DEF Claim
      <4>2. ASSUME NEW c \in story[r].shown, c \notin mirror PROVE FALSE
        <5>1. c \in index /\ Place(index, c) >= (call.page - 1) * PageSize
          BY <4>1, <4>2 DEF MirroredTo
        <5>2. index \subseteq Cards
          BY DEF Shape, Known, Sensible
        <5>3. Place(index, c) < Cardinality(index) /\ Place(index, c) \in Nat
          BY <5>1, <5>2, PlaceIsBounded, PlaceGrows
        <5>4. Cardinality(index) \in Nat /\ (call.page - 1) * PageSize \in Int
          <6>1. IsFiniteSet(index)
            BY <5>2, FS_Subset DEF Sensible
          <6>2. call.page \in Nat /\ PageSize \in Nat
            BY DEF Shape, CallRecord, Sensible
          <6> QED BY <6>1, <6>2, FS_CardinalityType
        <5> QED
          BY <3>2, <5>1, <5>3, <5>4
      <4> QED BY <4>2
    <3>4. "SUCCEEDED" \in Statuses \ {"RUNNING"} /\ job'.id = job.id
      BY <2>1 DEF Statuses
    <3>5. /\ Own' = Own \ {r}
          /\ DOMAIN rows' = DOMAIN rows
          /\ \A k \in DOMAIN rows : /\ rows'[k].page = rows[k].page
                                    /\ rows'[k].failed = rows[k].failed
                                    /\ rows'[k].provider = rows[k].provider
      BY <2>1, <2>2, <2>5, <3>4, OneRowClosed DEF RowsOnlyClose
    <3>6. \A k \in DOMAIN rows \ {r} : rows'[k] = rows[k]
      BY <2>1
    <3>7. SucceededMeansMirrored'
      BY <2>1, <2>2, <3>1, <3>3, <3>5, <3>6 DEF SucceededMeansMirrored
    <3>8. ASSUME NEW i \in Own', rows'[i].provider = Primary
          PROVE  Claim(i, rows[i].page, rows[i].failed)'
      <4>1. i \in Own /\ i \in DOMAIN rows
        BY <1>1, <3>5, <3>8
      <4> QED
        BY <2>1, <3>5, <3>8, <4>1 DEF WalkInv, Claim, MirroredTo
    <3> QED
      BY <2>3, <3>7, <3>8 DEF WalkInv, Walking
  <2> QED
    BY <2>4, <2>5 DEF Status
<1> QED
  BY <1>3, <1>4, <1>5, <1>6, <1>7, <1>8, <1>9, <1>10, <1>11, <1>12, <1>13 DEF Next, Process

\* For every catalog, page size, number of jobs, attempts and crashes: a run
\* that says SUCCEEDED asked the primary and mirrored every card of the list it
\* began with, unless the source itself took cards back while it ran.
THEOREM SucceededIsMirrored ==
    ASSUME Sensible
    PROVE  Spec => []SucceededMeansMirrored
<1>1. Init => WalkInv /\ SucceededMeansMirrored
  BY DEF Init, WalkInv, SucceededMeansMirrored, Own, NoCall, Walking
<1>2. Shape /\ Shape' /\ Control /\ WalkInv /\ SucceededMeansMirrored /\ [Next]_vars
          => (WalkInv /\ SucceededMeansMirrored)'
  BY WalkStays
<1> QED
  BY <1>1, <1>2, ControlAlways, PTL DEF Spec
=============================================================================
