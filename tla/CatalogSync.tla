---------------------------- MODULE CatalogSync ----------------------------
(***************************************************************************)
(* The nightly catalog sync: one queued job that reads a source's list of  *)
(* cards page by page into the mirror, the sync_runs rows it leaves.  A    *)
(* run that finds the primary's breaker open goes to the fallback, and may *)
(* then only refresh what is mirrored already.  The breakers' keys belong  *)
(* to many (module Breaker), and a read of them may fail and say "closed": *)
(* what a run reads of them is a choice.                                   *)
(*                                                                         *)
(* A card is a natural number, its place in the sorted list; the list the  *)
(* primary's client works from may be up to an hour old (INDEX_TTL_MS).    *)
(* What a card says is left out: only its presence and its set matter.     *)
(***************************************************************************)
EXTENDS Integers, Sequences, FiniteSets

CONSTANTS
    Primary, Fallback,  \* the two registered card sources
    SetOf,              \* SetOf[c]: the set card c belongs to
    Listed,             \* the cards the primary lists at first
    Arriving, Leaving,  \* cards it may add to its list, or withdraw
    ListedByFallback,   \* the fallback's list, foreign ids among it
    PageSize,           \* cards on a page
    Attempts,           \* how often BullMQ runs a job that throws
    MaxJobs, MaxPage    \* bounds: jobs queued; the pages that may fail

Providers == {Primary, Fallback}
Cards == DOMAIN SetOf
MaxStalledCount == 1
SetsOf(cards) == {SetOf[c] : c \in cards}

VARIABLES
    listed,   \* the cards the primary lists now
    index,    \* the list in the client's memory
    mirror,   \* card ids of the cards table
    sets,     \* set ids of the sets table
    job,      \* the newest job: BullMQ's view of it
    rows,     \* sync_runs rows of kind CATALOG, oldest first
    call,     \* the process() call that runs, if one does
    failures, \* final `failed` events not handled yet
    story     \* ghost: story[i] is what really happened under rows[i]

vars == <<listed, index, mirror, sets, job, rows, call, failures, story>>

LastPage == MaxPage + 1 + Attempts + MaxStalledCount

RowType == [job : 1 .. MaxJobs, provider : Providers,
            status : {"RUNNING", "SUCCEEDED", "PARTIAL", "FAILED"},
            page : 0 .. LastPage, failed : BOOLEAN]

\* The shape of the tables, the job and the call; the walk stays within MaxPage.
TypeOK ==
    /\ listed \subseteq Cards /\ index \subseteq Cards
    /\ mirror \subseteq Cards /\ sets \subseteq SetsOf(Cards)
    /\ job \in [id : 0 .. MaxJobs, made : 0 .. Attempts, stalled : 0 .. MaxStalledCount,
                state : {"none", "waiting", "active", "completed", "failed"}]
    /\ rows \in Seq(RowType) /\ Len(story) = Len(rows)
    /\ story \in Seq([shown : SUBSET Cards, withdrawn : BOOLEAN])
    /\ call \in [step : {"idle", "chosen", "sets", "page", "record", "close", "broken",
                         "done"},
                 provider : Providers, run : Nat, page : Nat, failed : BOOLEAN,
                 more : BOOLEAN]
    /\ failures \subseteq 1 .. MaxJobs

NoCall == [step |-> "idle", provider |-> Primary, run |-> 0, page |-> 1,
           failed |-> FALSE, more |-> FALSE]

Init ==
    /\ listed = Listed /\ index = Listed
    /\ mirror = {} /\ sets = {}
    /\ job = [id |-> 0, state |-> "none", made |-> 0, stalled |-> 0]
    /\ rows = <<>> /\ story = <<>>
    /\ call = NoCall /\ failures = {}

-----------------------------------------------------------------------------
(* The queue, and the world outside.                                       *)

Running == call.step # "idle"

\* The cron and the admin route add under one deduplication key.
Enqueue ==
    /\ job.state \notin {"waiting", "active"} /\ job.id < MaxJobs
    /\ job' = [id |-> job.id + 1, state |-> "waiting", made |-> 0, stalled |-> 0]
    /\ UNCHANGED <<listed, index, mirror, sets, rows, call, failures, story>>

\* The attempt threw: the job waits for its next one, or has had its last.
Threw == [job EXCEPT !.made = job.made + 1,
                     !.state = IF job.made + 1 < Attempts THEN "waiting" ELSE "failed"]
Raise(after) ==
    failures' = IF after.state = "failed" THEN failures \cup {job.id} ELSE failures

\* The process dies.  A job found stalled waits again once, then fails.
Crash ==
    LET again == job.stalled < MaxStalledCount
        after == [job EXCEPT !.stalled = IF again THEN job.stalled + 1 ELSE job.stalled,
                             !.state = IF again THEN "waiting" ELSE "failed"]
    IN /\ Running /\ job' = after /\ Raise(after) /\ call' = NoCall
       /\ UNCHANGED <<listed, index, mirror, sets, rows, story>>

\* The source publishes a card, or takes one back.
Publish ==
    /\ \/ \E c \in Arriving \ listed : listed' = listed \cup {c}
       \/ \E c \in Leaving \cap listed : listed' = listed \ {c}
    /\ UNCHANGED <<index, mirror, sets, job, rows, call, failures, story>>

\* onFailed closes what a failed job left RUNNING,
\* or is lost to a database error.
CloseIfFinallyFailed ==
    /\ \E j \in failures :
          /\ failures' = failures \ {j}
          /\ \/ rows' = [i \in DOMAIN rows |->
                           IF rows[i].job = j /\ rows[i].status = "RUNNING"
                           THEN [rows[i] EXCEPT !.status = "FAILED"] ELSE rows[i]]
             \/ rows' = rows
    /\ UNCHANGED <<listed, index, mirror, sets, job, call, story>>

-----------------------------------------------------------------------------
(* One process() call.                                                     *)

Own == {i \in DOMAIN rows : rows[i].job = job.id /\ rows[i].status = "RUNNING"}
Newest(S) == CHOOSE i \in S : \A k \in S : k <= i

\* chooseProvider for a fresh run; a resumed one keeps its row's provider.
Candidates(open) ==
    IF Own # {} THEN {rows[Newest(Own)].provider} \ open
    ELSE IF Primary \notin open THEN {Primary} ELSE {Fallback} \ open

Take == /\ job.state = "waiting" /\ ~Running
        /\ job' = [job EXCEPT !.state = "active"]

\* findResumable, then select or resume.
Choose ==
    /\ Take
    /\ \E open \in SUBSET Providers : \E p \in Candidates(open) :
          call' = [NoCall EXCEPT !.step = "chosen", !.provider = p]
    /\ UNCHANGED <<listed, index, mirror, sets, rows, failures, story>>

\* The resumed run's breaker is open: the run is closed, and nothing is asked.
Abandon ==
    /\ Own # {} /\ Take
    /\ \E open \in SUBSET Providers : Candidates(open) = {}
    /\ rows' = [rows EXCEPT ![Newest(Own)].status = "PARTIAL"]
    /\ call' = [NoCall EXCEPT !.step = "done"]
    /\ UNCHANGED <<listed, index, mirror, sets, failures, story>>

\* Every breaker is open, or the first query failed: no row is touched.
FailsToStart ==
    /\ job.state = "waiting" /\ ~Running
    /\ job' = Threw /\ Raise(Threw)
    /\ UNCHANGED <<listed, index, mirror, sets, rows, call, story>>

\* startOrResume and readCursor: the job's own open row, or a new one at page 1.
Begin(i) ==
    LET page == IF rows'[i].page = 0 THEN 1 ELSE rows'[i].page IN
    call' = [call EXCEPT !.run = i, !.page = page, !.failed = rows'[i].failed,
                !.step = IF page = 1 /\ call.provider = Primary THEN "sets" ELSE "page"]

StartOrResume ==
    LET new == [job |-> job.id, provider |-> call.provider, status |-> "RUNNING",
                page |-> 0, failed |-> FALSE]
    IN /\ call.step = "chosen"
       /\ IF Own # {}
          THEN UNCHANGED <<rows, story>> /\ Begin(Newest(Own))
          ELSE /\ rows' = Append(rows, new)
               /\ story' = Append(story, [shown |-> {}, withdrawn |-> FALSE])
               /\ Begin(Len(rows) + 1)
       /\ UNCHANGED <<listed, index, mirror, sets, job, failures>>

\* fetchSets drops the sets it cannot read; upsertSets writes the others.
WriteSets ==
    /\ call.step = "sets"
    /\ \E unread \in SUBSET SetsOf(listed) :
          /\ Cardinality(unread) <= 1
          /\ sets' = sets \cup (SetsOf(listed) \ unread)
    /\ call' = [call EXCEPT !.step = "page"]
    /\ UNCHANGED <<listed, index, mirror, job, rows, failures, story>>

\* Whatever goes wrong with the sets, a 429 or a failed transaction included,
\* is counted against the provider and ends the attempt.
SetsFail ==
    /\ call.step = "sets"
    /\ call' = [call EXCEPT !.step = "broken"]
    /\ UNCHANGED <<listed, index, mirror, sets, job, rows, failures, story>>

\* Page n of a list in id order.
Place(list, c) == Cardinality({d \in list : d < c})
Page(list, n) == {c \in list : /\ Place(list, c) >= (n - 1) * PageSize
                               /\ Place(list, c) < n * PageSize}
HasMore(list, n) == n * PageSize < Cardinality(list)

\* The list a page is cut from: the primary's, as the client remembers it or
\* fetched anew; for the fallback, its own.
Lists == IF call.provider = Primary THEN {index, listed} ELSE {ListedByFallback}
Remember(list) == index' = IF call.provider = Primary THEN list ELSE index

\* Mutant of Writable: a fallback may introduce cards of known sets.
WritableBySet(cards) ==
    IF call.provider = Primary THEN cards ELSE {c \in cards : SetOf[c] \in sets}
\* alreadyMirrored: a fallback refreshes, and introduces nothing.
Writable(cards) == IF call.provider = Primary THEN cards ELSE cards \cap mirror

\* Mutant of Noted: the row does not learn of what was skipped.
NotedNothing(failed) == call.failed
\* The run's count of failures, as far as it decides the status.
Noted(failed) == call.failed \/ failed

\* What the list was when the run began, and whether it has lost a card since:
\* nobody else asks the primary's client while a run goes on, so that what it
\* remembers is the list of the run's page before.
Shown(past, list) ==
    [past EXCEPT !.shown = IF call.page = 1 THEN list ELSE past.shown,
                 !.withdrawn = /\ call.page > 1 /\ call.provider = Primary
                               /\ past.withdrawn \/ ~(index \subseteq list)]

\* A page is answered, less the cards that cannot be read, and written in one
\* transaction, which the foreign key lets through if every set is there.
FetchCards ==
    /\ call.step = "page"
    /\ \E list \in Lists :
       \E skipped \in SUBSET Page(list, call.page) :
          LET write == Writable(Page(list, call.page) \ skipped) IN
          /\ Cardinality(skipped) <= 1
          /\ SetsOf(write) \subseteq sets
          /\ mirror' = mirror \cup write
          /\ Remember(list)
          /\ call' = [call EXCEPT !.step = "record", !.page = call.page + 1,
                                  !.failed = Noted(skipped # {}),
                                  !.more = HasMore(list, call.page)]
          /\ story' = [story EXCEPT ![call.run] = Shown(story[call.run], list)]
    /\ UNCHANGED <<listed, sets, job, rows, failures>>

\* The page is given up and the walk goes on, unless the breaker opened.
PastFailure(down) ==
    call' = [call EXCEPT !.step = "record", !.page = call.page + 1,
                         !.failed = Noted(TRUE), !.more = ~down]

\* The provider is unavailable: counted, and the run's last page if the
\* breaker is then read as open.
PageUnavailable ==
    /\ call.step = "page" /\ call.page <= MaxPage
    /\ \E down \in BOOLEAN : PastFailure(down)
    /\ UNCHANGED <<listed, index, mirror, sets, job, rows, failures, story>>

\* A 429, or a failure of our own (a set that is missing, a lock, a timeout).
PageFails ==
    /\ call.step = "page" /\ call.page <= MaxPage
    /\ PastFailure(FALSE)
    /\ UNCHANGED <<listed, index, mirror, sets, job, rows, failures, story>>

\* The answer does not have the documented shape.
ContractBroken ==
    /\ call.step = "page"
    /\ call' = [call EXCEPT !.step = "broken"]
    /\ UNCHANGED <<listed, index, mirror, sets, job, rows, failures, story>>

Progress(row) == [row EXCEPT !.page = call.page, !.failed = call.failed]

\* recordProgress: the cursor and the counts in one update.
RecordProgress ==
    /\ call.step = "record"
    /\ rows' = [rows EXCEPT ![call.run] = Progress(rows[call.run])]
    /\ call' = [call EXCEPT !.step = IF call.more THEN "page" ELSE "close"]
    /\ UNCHANGED <<listed, index, mirror, sets, job, failures, story>>

Status == IF call.provider # Primary \/ call.failed THEN "PARTIAL" ELSE "SUCCEEDED"

\* The run is closed, after the caches were invalidated, which ReadCache has.
CloseRun ==
    /\ call.step = "close"
    /\ rows' = [rows EXCEPT ![call.run].status = Status]
    /\ call' = [call EXCEPT !.step = "done"]
    /\ UNCHANGED <<listed, index, mirror, sets, job, failures, story>>

Return ==
    /\ call.step = "done"
    /\ job' = [job EXCEPT !.state = "completed"]
    /\ call' = NoCall
    /\ UNCHANGED <<listed, index, mirror, sets, rows, failures, story>>

\* A broken attempt closes its run as FAILED, and throws.
CloseBroken ==
    /\ call.step = "broken"
    /\ rows' = [rows EXCEPT ![call.run].status = "FAILED"]
    /\ job' = Threw /\ Raise(Threw) /\ call' = NoCall
    /\ UNCHANGED <<listed, index, mirror, sets, story>>

\* A query about the run itself failed: the attempt throws, the row stays.
AttemptFails ==
    /\ call.step \in {"chosen", "record", "close", "broken"}
    /\ job' = Threw /\ Raise(Threw) /\ call' = NoCall
    /\ UNCHANGED <<listed, index, mirror, sets, rows, story>>

Process ==
    \/ Choose \/ Abandon \/ FailsToStart \/ StartOrResume \/ WriteSets \/ SetsFail
    \/ FetchCards \/ PageUnavailable \/ PageFails \/ ContractBroken
    \/ RecordProgress \/ CloseRun \/ Return \/ CloseBroken \/ AttemptFails

Next == Process \/ Enqueue \/ Crash \/ Publish \/ CloseIfFinallyFailed

\* A worker goes on with what it is at, and a failed event is handled.  The
\* source need not answer until the walk has passed MaxPage.
Fairness == WF_vars(Process) /\ WF_vars(CloseIfFinallyFailed)

Spec == Init /\ [][Next]_vars
FairSpec == Spec /\ Fairness

-----------------------------------------------------------------------------
(* What the sync promises.                                                 *)

\* A SUCCEEDED run asked the primary, and mirrored every card of the list it
\* began with, over every retry and crash, unless the source itself took
\* cards back while it ran and moved the pages under it.
SucceededMeansMirrored ==
    \A i \in DOMAIN rows :
        rows[i].status = "SUCCEEDED" =>
            /\ rows[i].provider = Primary
            /\ story[i].withdrawn \/ story[i].shown \subseteq mirror

\* The mirror never forks: no fallback run brings in an id that the primary
\* never listed, and every card has its set.
FallbackNeverForks ==
    /\ mirror \subseteq Listed \cup Arriving
    /\ SetsOf(mirror) \subseteq sets

\* Every sync that is queued ends, done or failed for good, in spite of
\* retries, stalls, pages that fail and pages walked twice: there are MaxJobs of them at most.
NoSyncIsDue == job.state \notin {"waiting", "active"}
EverySyncEnds == <>[]NoSyncIsDue
=============================================================================
