----------------------------- MODULE PriceSweep -----------------------------
(***************************************************************************)
(* The nightly price sweep: one queued job that walks the catalog in id    *)
(* order, batch after batch, from where an earlier run left its cursor,    *)
(* and the sync_runs rows it leaves behind.  Both the API and the worker   *)
(* consume the queue.  BullMQ retries a job that threw, hands a job whose  *)
(* process died to another worker, and does the same, with the first       *)
(* process still at it, when a lock lapses.                                *)
(*                                                                         *)
(* Card ids are 1 .. Catalog in byte order and 0 is the empty string the   *)
(* walk starts after.  The breaker's keys are written by four kinds of     *)
(* job, an administrator and their TTLs, and a read of them fails towards  *)
(* "closed", so whatever a read says of a provider is a choice; so is the  *)
(* day's remaining request budget.                                         *)
(***************************************************************************)
EXTENDS Integers, Sequences, FiniteSets

CONSTANTS
    Workers, NoOne,     \* the processes that consume the queue, and none
    Primary, Fallback,  \* the two registered card sources
    Catalog,            \* the greatest card id
    NewCards,           \* cards the catalog sync may add while sweeps run
    BatchSize,          \* cards one request prices
    MaxStalls,          \* consecutive 429s that end a run
    Attempts,           \* how often BullMQ runs a job that throws
    MaxJobs,            \* bound: jobs the cron and the admin enqueue
    EarlierRuns,        \* bound: what sync_runs may hold from earlier nights
    LocksLapse          \* can a live process lose its job's lock?

ASSUME SweepAssumption ==
    /\ Workers # {} /\ NoOne \notin Workers /\ Primary # Fallback
    /\ Catalog \in Nat /\ NewCards \subseteq 1 .. Catalog
    /\ BatchSize \in Nat \ {0} /\ MaxStalls \in Nat \ {0}
    /\ Attempts \in Nat \ {0} /\ MaxJobs \in Nat
    /\ LocksLapse \in BOOLEAN

Providers == {Primary, Fallback}
Positions == 0 .. Catalog
NoCursor == -1
MaxStalledCount == 1

RowType == [job : 0 .. MaxJobs, provider : Providers,
            status : {"RUNNING", "SUCCEEDED", "PARTIAL", "FAILED"},
            cursor : Positions \cup {NoCursor}, failed : BOOLEAN]

\* The assumption of EarlierRuns: rows of earlier jobs, written by this code.
ASSUME EarlierRunsAssumption ==
    \A past \in EarlierRuns : /\ past \in Seq(RowType)
                             /\ \A i \in 1 .. Len(past) :
                                   /\ past[i].job = 0
                                   /\ past[i].status = "SUCCEEDED" =>
                                         past[i].provider = Primary

VARIABLES
    mirror,   \* card ids the database holds
    job,      \* the newest sweep job: BullMQ's view of it
    rows,     \* sync_runs rows of kind PRICE, oldest first
    sweep,    \* sweep[w]: the process() call worker w is in
    failures, \* final `failed` events a worker has not handled: <<worker, job>>
    story,    \* ghost: story[i] is what really happened under rows[i]
    lapsed    \* ghost: jobs that ever lost a lock with their process alive

vars == <<mirror, job, rows, sweep, failures, story, lapsed>>

StoryType == [asked : SUBSET Providers, swept : BOOLEAN, stopped : Positions]
SweepType == [step : {"idle", "chosen", "loop", "record", "finish", "close",
                      "broken", "done"},
              job : 0 .. MaxJobs, resumed : BOOLEAN, run : Nat,
              provider : Providers,
              from : Positions, last : Positions, wrapped : BOOLEAN,
              failed : BOOLEAN, stalls : 0 .. MaxStalls,
              completed : BOOLEAN, next : {"loop", "finish"},
              there : SUBSET (1 .. Catalog), priced : SUBSET (1 .. Catalog),
              tried : SUBSET (1 .. Catalog)]

\* The shape of the queue's job, the run rows and the calls in flight; the
\* counters stay within the limits BullMQ and the configuration give them.
TypeOK ==
    /\ mirror \subseteq 1 .. Catalog
    /\ job \in [id : 0 .. MaxJobs,
                state : {"none", "waiting", "active", "completed", "failed"},
                by : Workers \cup {NoOne},
                made : 0 .. Attempts, stalled : 0 .. MaxStalledCount]
    /\ rows \in Seq(RowType)
    /\ story \in Seq(StoryType) /\ Len(story) = Len(rows)
    /\ sweep \in [Workers -> SweepType]
    /\ failures \subseteq Workers \X (1 .. MaxJobs)
    /\ lapsed \subseteq 1 .. MaxJobs

ReadPriceCursor(c) == IF c = NoCursor THEN 0 ELSE c

NoSweep == [step |-> "idle", job |-> 0, resumed |-> FALSE, run |-> 0,
            provider |-> Primary, from |-> 0, last |-> 0, wrapped |-> FALSE,
            failed |-> FALSE, stalls |-> 0, completed |-> FALSE,
            next |-> "loop", there |-> {}, priced |-> {}, tried |-> {}]

Init ==
    /\ mirror = (1 .. Catalog) \ NewCards
    /\ job = [id |-> 0, state |-> "none", by |-> NoOne, made |-> 0,
              stalled |-> 0]
    /\ rows \in EarlierRuns
    /\ story = [i \in 1 .. Len(rows) |->
                  [asked |-> {rows[i].provider}, swept |-> TRUE,
                   stopped |-> ReadPriceCursor(rows[i].cursor)]]
    /\ sweep = [w \in Workers |-> NoSweep]
    /\ failures = {} /\ lapsed = {}

-----------------------------------------------------------------------------
(* The queue.                                                              *)

Unfinished == job.state \in {"waiting", "active"}
Holds(w) == job.state = "active" /\ job.by = w /\ job.id = sweep[w].job

\* What happens to a job whose attempt threw, seen by the worker that holds
\* it; a worker whose lock lapsed is refused and changes nothing.
Threw(w) ==
    IF ~Holds(w) THEN job
    ELSE [job EXCEPT !.by = NoOne, !.made = job.made + 1,
              !.state = IF job.made + 1 < Attempts THEN "waiting" ELSE "failed"]

Returned(w) ==
    IF ~Holds(w) THEN job
    ELSE [job EXCEPT !.by = NoOne, !.state = "completed"]

\* A stalled job waits again once; the second time it fails for good.
Stalled ==
    [job EXCEPT !.by = NoOne,
         !.stalled = IF job.stalled < MaxStalledCount THEN job.stalled + 1
                                                      ELSE job.stalled,
         !.state = IF job.stalled < MaxStalledCount THEN "waiting"
                                                    ELSE "failed"]

\* The cron and the admin route both add under the queue's deduplication key,
\* which is held until the job completes or finally fails.
Enqueue ==
    /\ ~Unfinished /\ job.id < MaxJobs
    /\ job' = [id |-> job.id + 1, state |-> "waiting", by |-> NoOne,
               made |-> 0, stalled |-> 0]
    /\ UNCHANGED <<mirror, rows, sweep, failures, story, lapsed>>

\* A worker's final `failed` event goes to the worker that saw it.
RaiseFailed(w, after) ==
    failures' = IF after.state = "failed" /\ job.state # "failed"
                THEN failures \cup {<<w, job.id>>} ELSE failures

\* The process dies; a surviving (or restarted) worker finds the job stalled.
Crash(w) ==
    /\ sweep[w].step # "idle" \/ \E j \in 1 .. MaxJobs : <<w, j>> \in failures
    /\ sweep' = [sweep EXCEPT ![w] = NoSweep]
    /\ LET after == IF Holds(w) THEN Stalled ELSE job
           left == {f \in failures : f[1] # w}
       IN /\ job' = after
          /\ \E v \in Workers :
                failures' = IF after.state = "failed" /\ job.state # "failed"
                            THEN left \cup {<<v, job.id>>} ELSE left
    /\ UNCHANGED <<mirror, rows, story, lapsed>>

\* The lock is not renewed in time, and the job is stalled under a live process.
LockLapses(w) ==
    /\ LocksLapse /\ sweep[w].step # "idle" /\ Holds(w)
    /\ job' = Stalled
    /\ \E v \in Workers : RaiseFailed(v, Stalled)
    /\ lapsed' = lapsed \cup {job.id}
    /\ UNCHANGED <<mirror, rows, sweep, story>>

\* The catalog sync adds a card anywhere in the walk.
AddCard ==
    /\ \E c \in NewCards \ mirror : mirror' = mirror \cup {c}
    /\ UNCHANGED <<job, rows, sweep, failures, story, lapsed>>

-----------------------------------------------------------------------------
(* The run rows.                                                           *)

\* Mutants of RunsOf: any job's open run is taken over; the job's closed runs count too.
RunsOfAnyJob(j) == {i \in 1 .. Len(rows) : rows[i].status = "RUNNING"}
RunsOfTheJob(j) == {i \in 1 .. Len(rows) : rows[i].job = j}
RunsOf(j) == {i \in 1 .. Len(rows) : rows[i].job = j /\ rows[i].status = "RUNNING"}
Newest(S) == CHOOSE i \in S : \A k \in S : k <= i
Closed == {i \in 1 .. Len(rows) : rows[i].status # "RUNNING"}
LastClosedCursor ==
    IF Closed = {} THEN 0 ELSE ReadPriceCursor(rows[Newest(Closed)].cursor)

\* onFailed: closes what the job left RUNNING, or is lost to a database error,
\* which the handler swallows.
CloseIfFinallyFailed(w, j) ==
    /\ <<w, j>> \in failures
    /\ failures' = failures \ {<<w, j>>}
    /\ \/ rows' = [i \in 1 .. Len(rows) |->
                     IF i \in RunsOf(j) THEN [rows[i] EXCEPT !.status = "FAILED"]
                     ELSE rows[i]]
       \/ rows' = rows
    /\ UNCHANGED <<mirror, job, sweep, story, lapsed>>

-----------------------------------------------------------------------------
(* One process() call.                                                     *)

\* What the breakers read as, one choice for each provider.
BreakerReads == SUBSET Providers

\* chooseProvider: the primary, else the other one, else none.
Selected(open) ==
    IF Primary \notin open THEN {Primary} ELSE {Fallback} \ open

\* Mutant of Candidates: a retry selects its provider anew.
CandidatesAfresh(open) == Selected(open)
\* The providers a call may go on with: a resumed run keeps its row's.
Candidates(open) ==
    IF RunsOf(job.id) = {} THEN Selected(open)
    ELSE {rows[Newest(RunsOf(job.id))].provider} \ open

Take(w) ==
    [NoSweep EXCEPT !.step = "chosen", !.job = job.id,
                    !.resumed = RunsOf(job.id) # {}]

\* findResumable, then select or resume.
Choose(w) ==
    /\ job.state = "waiting" /\ sweep[w].step = "idle"
    /\ job' = [job EXCEPT !.state = "active", !.by = w]
    /\ \E open \in BreakerReads : \E p \in Candidates(open) :
          sweep' = [sweep EXCEPT ![w] = [Take(w) EXCEPT !.provider = p]]
    /\ UNCHANGED <<mirror, rows, failures, story, lapsed>>

\* Mutant of Abandon: the run is left open.
AbandonSilently(w) ==
    /\ job.state = "waiting" /\ sweep[w].step = "idle" /\ RunsOf(job.id) # {}
    /\ \E open \in BreakerReads : Candidates(open) = {}
    /\ job' = [job EXCEPT !.state = "active", !.by = w]
    /\ sweep' = [sweep EXCEPT ![w] = [Take(w) EXCEPT !.step = "done"]]
    /\ UNCHANGED <<mirror, rows, failures, story, lapsed>>

\* The breaker of a resumed run's provider is open: the run is closed and
\* nothing is asked.
Abandon(w) ==
    /\ job.state = "waiting" /\ sweep[w].step = "idle" /\ RunsOf(job.id) # {}
    /\ \E open \in BreakerReads : Candidates(open) = {}
    /\ rows' = [rows EXCEPT ![Newest(RunsOf(job.id))].status = "PARTIAL"]
    /\ job' = [job EXCEPT !.state = "active", !.by = w]
    /\ sweep' = [sweep EXCEPT ![w] = [Take(w) EXCEPT !.step = "done"]]
    /\ UNCHANGED <<mirror, failures, story, lapsed>>

\* Every breaker is open and select() throws, or the first query does: the
\* attempt fails before it touches a row.
FailsToStart(w) ==
    LET last == job.made + 1 = Attempts IN
    /\ job.state = "waiting" /\ sweep[w].step = "idle"
    /\ job' = [job EXCEPT !.made = job.made + 1,
                          !.state = IF last THEN "failed" ELSE "waiting"]
    /\ failures' = IF last THEN failures \cup {<<w, job.id>>} ELSE failures
    /\ UNCHANGED <<mirror, rows, sweep, story, lapsed>>

\* startOrResume, and where the walk begins: a call that found its own row
\* reads that row's cursor, any other the last closed one's.
Begin(w, i, from) ==
    sweep' = [sweep EXCEPT ![w] =
                [sweep[w] EXCEPT !.step = "loop", !.run = i, !.from = from,
                                 !.last = from, !.failed = rows'[i].failed,
                                 !.there = mirror]]

StartOrResume(w) ==
    LET own == RunsOf(sweep[w].job)
        new == [job |-> sweep[w].job, provider |-> sweep[w].provider,
                status |-> "RUNNING", cursor |-> NoCursor, failed |-> FALSE]
        at(cursor) == IF sweep[w].resumed THEN ReadPriceCursor(cursor)
                      ELSE LastClosedCursor
    IN /\ sweep[w].step = "chosen"
       /\ \/ /\ own # {}
             /\ UNCHANGED <<rows, story>>
             /\ Begin(w, Newest(own), at(rows[Newest(own)].cursor))
          \/ /\ own = {}
             /\ rows' = Append(rows, new)
             /\ story' = Append(story, [asked |-> {}, swept |-> FALSE,
                                        stopped |-> at(NoCursor)])
             /\ Begin(w, Len(rows) + 1, at(NoCursor))
       /\ UNCHANGED <<mirror, job, failures, lapsed>>

\* The rows after a position, at most BatchSize of them, in id order; after
\* the wrap, those above the run's own start are left out.
Rest(last) == {c \in mirror : c > last}
Batch(last) == {c \in Rest(last) :
                  Cardinality({d \in Rest(last) : d < c}) < BatchSize}
Ids(s) == {c \in Batch(s.last) : s.wrapped => c <= s.from}
BatchEnd(s) == Newest(Ids(s))
LastOfPass(s) == s.wrapped /\ BatchEnd(s) >= s.from

Advance(w, new) ==
    /\ sweep[w].step = "loop"
    /\ sweep' = [sweep EXCEPT ![w] = new]
    /\ UNCHANGED <<mirror, job, rows, failures, lapsed>>

StopForBudget(w) ==
    Advance(w, [sweep[w] EXCEPT !.step = "finish"]) /\ UNCHANGED story

MustWrap(s) == ~s.wrapped /\ s.from # 0

Wrap(w) ==
    /\ Rest(sweep[w].last) = {} /\ MustWrap(sweep[w])
    /\ Advance(w, [sweep[w] EXCEPT !.wrapped = TRUE, !.last = 0])
    /\ UNCHANGED story

EndOfCatalog(w) ==
    /\ Rest(sweep[w].last) = {} /\ ~MustWrap(sweep[w])
    /\ Advance(w, [sweep[w] EXCEPT !.step = "finish", !.completed = TRUE])
    /\ UNCHANGED story

BackAtTheStart(w) ==
    /\ Rest(sweep[w].last) # {} /\ Ids(sweep[w]) = {}
    /\ Advance(w, [sweep[w] EXCEPT !.step = "finish", !.completed = TRUE,
                                   !.last = sweep[w].from])
    /\ UNCHANGED story

\* Every request goes to the provider the call chose.
Ask(w, new) ==
    /\ Ids(sweep[w]) # {}
    /\ Advance(w, new)
    /\ story' = [story EXCEPT ![sweep[w].run].asked =
                               story[sweep[w].run].asked \cup {sweep[w].provider}]

\* The batch is behind the walk, priced or failed; a failure may find the
\* breaker open, which ends the run.
Passed(s, failed, down) ==
    [s EXCEPT !.step = "record", !.last = BatchEnd(s), !.stalls = 0,
              !.tried = s.tried \cup Ids(s), !.failed = s.failed \/ failed,
              !.priced = IF failed THEN s.priced ELSE s.priced \cup Ids(s),
              !.completed = ~down /\ LastOfPass(s),
              !.next = IF down \/ LastOfPass(s) THEN "finish" ELSE "loop"]

Answered(w) == Ask(w, Passed(sweep[w], FALSE, FALSE))
BatchFailed(w) == \E down \in BOOLEAN : Ask(w, Passed(sweep[w], TRUE, down))

\* Mutants of AfterStall: no limit; a limit that starts over; a cursor that moves.
AfterStallUncounted(s) == [s EXCEPT !.stalls = @ + 1]
AfterStallForgetful(s) ==
    [s EXCEPT !.stalls = IF @ + 1 >= MaxStalls THEN 0 ELSE @ + 1]
AfterStallMovingOn(s) ==
    [s EXCEPT !.stalls = @ + 1, !.last = BatchEnd(s),
              !.step = IF s.stalls + 1 >= MaxStalls THEN "finish" ELSE "loop"]

\* A 429 waits and asks for the same batch again, MaxStalls times.
AfterStall(s) ==
    [s EXCEPT !.stalls = s.stalls + 1,
              !.step = IF s.stalls + 1 >= MaxStalls THEN "finish" ELSE "loop"]
RateLimited(w) == Ask(w, AfterStall(sweep[w]))

ContractBroken(w) == Ask(w, [sweep[w] EXCEPT !.step = "broken"])

\* recordProgress writes the row whatever has become of it.
Write(w) ==
    LET s == sweep[w] IN
    /\ rows' = [rows EXCEPT ![s.run].cursor = s.last, ![s.run].failed = s.failed]
    /\ story' = [story EXCEPT ![s.run].stopped = s.last]
    /\ UNCHANGED <<mirror, job, failures, lapsed>>

RecordProgress(w) ==
    /\ sweep[w].step = "record"
    /\ Write(w)
    /\ sweep' = [sweep EXCEPT ![w].step = sweep[w].next]

RecordFinally(w) ==
    /\ sweep[w].step = "finish"
    /\ Write(w)
    /\ sweep' = [sweep EXCEPT ![w].step = "close"]

\* Mutant of Verdict: failures do not matter.
VerdictOnCoverage(s) ==
    IF s.completed /\ s.provider = Primary THEN "SUCCEEDED" ELSE "PARTIAL"

Verdict(s) ==
    IF s.completed /\ ~s.failed /\ s.provider = Primary THEN "SUCCEEDED"
    ELSE "PARTIAL"

CloseRun(w) ==
    LET s == sweep[w] IN
    /\ s.step = "close"
    /\ rows' = [rows EXCEPT ![s.run].status = Verdict(s)]
    /\ story' = [story EXCEPT ![s.run].swept = s.there \subseteq s.priced]
    /\ sweep' = [sweep EXCEPT ![w] = [NoSweep EXCEPT !.step = "done", !.job = s.job]]
    /\ UNCHANGED <<mirror, job, failures, lapsed>>

\* process() has returned, and the job completes if the lock is still held.
Return(w) ==
    /\ sweep[w].step = "done"
    /\ job' = Returned(w)
    /\ sweep' = [sweep EXCEPT ![w] = NoSweep]
    /\ UNCHANGED <<mirror, rows, failures, story, lapsed>>

\* A contract error closes the run as FAILED and is thrown on to BullMQ.
CloseBroken(w) ==
    LET s == sweep[w] IN
    /\ s.step = "broken"
    /\ rows' = [rows EXCEPT ![s.run].status = "FAILED"]
    /\ job' = Threw(w)
    /\ RaiseFailed(w, Threw(w))
    /\ sweep' = [sweep EXCEPT ![w] = NoSweep]
    /\ UNCHANGED <<mirror, story, lapsed>>

\* Any database call of any step may throw, which ends the attempt there.
AttemptFails(w) ==
    /\ sweep[w].step \notin {"idle", "done"}
    /\ job' = Threw(w)
    /\ RaiseFailed(w, Threw(w))
    /\ sweep' = [sweep EXCEPT ![w] = NoSweep]
    /\ UNCHANGED <<mirror, rows, story, lapsed>>

-----------------------------------------------------------------------------
Work(w) ==
    \/ Choose(w) \/ Abandon(w) \/ FailsToStart(w) \/ StartOrResume(w)
    \/ StopForBudget(w) \/ Wrap(w) \/ EndOfCatalog(w) \/ BackAtTheStart(w)
    \/ Answered(w) \/ BatchFailed(w) \/ RateLimited(w) \/ ContractBroken(w)
    \/ RecordProgress(w) \/ RecordFinally(w) \/ CloseRun(w) \/ CloseBroken(w)
    \/ Return(w) \/ AttemptFails(w)

Next ==
    \/ Enqueue \/ AddCard
    \/ \E w \in Workers :
          \/ Work(w) \/ Crash(w) \/ LockLapses(w)
          \/ \E j \in 1 .. MaxJobs : CloseIfFinallyFailed(w, j)

Spec == Init /\ [][Next]_vars

\* A worker that is up keeps working: Node runs what its promises resolve to,
\* and every wait of a sweep has a timeout.
FairSpec == Spec /\ \A w \in Workers : WF_vars(Work(w))

-----------------------------------------------------------------------------
(* What the sweep promises.                                                *)

\* A run that reports SUCCEEDED priced, in its last call and from the primary,
\* every card the catalog held when that call began - wherever it started,
\* however it wrapped, and whatever earlier attempts of it did.
SucceededMeansSwept ==
    \A i \in 1 .. Len(rows) : rows[i].status = "SUCCEEDED" =>
        /\ story[i].swept
        /\ rows[i].job \notin lapsed => rows[i].provider = Primary

\* The walk leaves nothing behind: every card between where a call started
\* and where it stands, around the end of the catalog, has been asked for,
\* and one that was not priced is in the call's count of failures.
NothingIsSkipped ==
    \A w \in Workers :
        LET s == sweep[w]
            behind == IF s.wrapped THEN {c \in s.there : c > s.from \/ c <= s.last}
                      ELSE {c \in s.there : s.from < c /\ c <= s.last}
        IN s.step \in {"loop", "record", "finish", "close"} =>
              /\ behind \subseteq s.tried
              /\ s.tried # s.priced => s.failed

\* The provider column tells the truth: all requests made under a row, over
\* every attempt of its job, went to the provider it names - while the job's
\* lock is kept.
OneProviderPerRun ==
    \A i \in 1 .. Len(rows) : rows[i].job \notin lapsed =>
        story[i].asked \subseteq {rows[i].provider}

\* No job adopts another job's run: a row changes only by a call of its own
\* job, or by the event that reports its own job as failed for good.
RunsAreNotAdopted ==
    [][\A i \in 1 .. Len(rows) : rows'[i] # rows[i] =>
          \/ rows[i].job = job.id
          \/ \E w \in Workers : \/ /\ sweep[w].step # "idle"
                                   /\ sweep[w].job = rows[i].job
                                \/ <<w, rows[i].job>> \in failures]_vars

\* A closed run is never reopened or rewritten while its job keeps its lock,
\* although close and recordProgress ask nothing about the row's status.
ClosedRunsStayClosed ==
    [][\A i \in 1 .. Len(rows) :
          rows[i].status # "RUNNING" /\ rows[i].job \notin lapsed =>
             rows'[i] = rows[i]]_vars

\* A job that BullMQ counts as completed left no run of its own open.
CompletedJobsCloseTheirRuns ==
    job.state = "completed" /\ job.id \notin lapsed => RunsOf(job.id) = {}

\* Every enqueued sweep ends, by finishing or by failing for good, in spite of
\* retries, stalls, rate limits and the wrap: there are MaxJobs of them at most, one at a time.
EverySweepEnds == <>[]~Unfinished

\* A fresh run begins where the last finished run stopped
\* (price-sweep.processor.ts, SyncRunService.lastClosedCursor, sync/README.md).
FreshRunsCarryOn ==
    [][\A w \in Workers :
          sweep[w].step = "chosen" /\ ~sweep[w].resumed /\ Closed # {}
             /\ sweep'[w].step = "loop"
          => sweep'[w].from = story[Newest(Closed)].stopped]_vars
=============================================================================
