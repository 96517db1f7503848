------------------------------ MODULE SyncPage ------------------------------
(* /admin/sync: the status that the API puts together from three stores while *)
(* jobs start, fail, retry and end (AdminSyncService.status), the page that   *)
(* polls it, its two Run buttons, of which neither may be pressed while a run *)
(* is queued or under way, and the breakers' Reset dialog.                    *)
(*                                                                            *)
(* What a trigger does inside the API is one step here; AdminSync has it in   *)
(* detail, and PriceSweep and CatalogSync have the jobs.                      *)
EXTENDS Naturals, FiniteSets

CONSTANTS
    Kinds,       \* of the runs that have a button
    Providers,
    MaxJobs,     \* bound: jobs ever queued
    MaxPresses,  \* bound: times Run is pressed
    MaxFaults,   \* bound: attempts that fail, and reads and answers that are lost
    MaxBreaks,   \* bound: changes of a breaker
    None

VARIABLES
    queue,    \* per kind, the job that holds the queue's deduplication key
    last,     \* per kind, the newest row of the table of runs
    jobs, presses, faults, breaks,
    breaker,
    fetch,    \* the status request under way, as far as it was read, or None
    shown,    \* the status on screen, or None
    trigger,  \* the mutation of Run
    refused,  \* the kind whose card says why it was not started
    asking,   \* the provider the Reset dialog is about
    reset,    \* its mutation
    told      \* the jobs this page was told it had queued

pageVars == <<queue, last, jobs, presses, faults, breaks, breaker, fetch, shown, trigger,
              refused, asking, reset, told>>
jobVars    == <<queue, last, jobs>>
statusVars == <<fetch, shown>>
resetVars  == <<breaker, breaks, asking, reset>>

Places == {"none", "waiting", "active", "delayed"}
Sections == {"runs", "queues", "breakers"}

NoJob == [job |-> 0, at |-> "none"]
NoRun == [job |-> 0, status |-> "NONE"]

\* Nothing of a status has been read, which was asked for after the page had been told of these jobs.
Reading(of) == [runs |-> [k \in Kinds |-> None], queues |-> [k \in Kinds |-> None],
                breakers |-> [p \in Providers |-> None], unreadable |-> {}, told |-> of]

\* The mutation, the jobs it was refused for, and those of its own that a readable status knew of
\* when it was pressed.
Idle == [step |-> "idle", kind |-> None, job |-> 0, holders |-> {}, known |-> {}]

Init ==
    /\ queue = [k \in Kinds |-> NoJob] /\ last = [k \in Kinds |-> NoRun]
    /\ jobs = 0 /\ presses = 0 /\ faults = 0 /\ breaks = 0
    /\ breaker = [p \in Providers |-> "closed"]
    /\ fetch = Reading({}) /\ shown = None
    /\ trigger = Idle /\ refused = None
    /\ asking = None /\ reset = [step |-> "idle", provider |-> None]
    /\ told = {}

Fault == faults < MaxFaults /\ faults' = faults + 1

-----------------------------------------------------------------------------
(* The jobs.                                                                  *)

Held(k) == queue[k].at # "none"
Live(k, job) == Held(k) /\ queue[k].job = job

Queue(k) ==
    /\ jobs < MaxJobs /\ jobs' = jobs + 1
    /\ queue' = [queue EXCEPT ![k] = [job |-> jobs + 1, at |-> "waiting"]]

\* The nightly scheduler or another administrator, whose adds the key deduplicates.
SomeoneQueues(k) ==
    /\ ~Held(k) /\ (trigger.step = "sent" => jobs + 1 < MaxJobs) /\ Queue(k)
    /\ UNCHANGED <<last, presses, faults, statusVars, trigger, refused, resetVars, told>>

\* startOrResume: the job's own RUNNING row goes on, else there is a new one.
Starts(k) ==
    /\ queue[k].at = "waiting"
    /\ queue' = [queue EXCEPT ![k].at = "active"]
    /\ last' = [last EXCEPT ![k] = [job |-> queue[k].job, status |-> "RUNNING"]]
    /\ UNCHANGED <<jobs, presses, faults, statusVars, trigger, refused, resetVars, told>>

Closes(k) ==
    /\ queue[k].at = "active" /\ last[k].status = "RUNNING"
    /\ last' = [last EXCEPT ![k].status = "CLOSED"]
    /\ UNCHANGED <<queue, jobs, presses, faults, statusVars, trigger, refused, resetVars, told>>

Completes(k) ==
    /\ queue[k].at = "active" /\ last[k].status = "CLOSED"
    /\ queue' = [queue EXCEPT ![k].at = "none"]
    /\ UNCHANGED <<last, jobs, presses, faults, statusVars, trigger, refused, resetVars, told>>

\* An attempt fails, before it had a row, with its row open or just closed: the job waits to be
\* tried again, or is given up.
AttemptFails(k) ==
    /\ queue[k].at \in {"waiting", "active"} /\ Fault
    /\ \E at \in {"delayed", "none"} : queue' = [queue EXCEPT ![k].at = at]
    /\ UNCHANGED <<last, jobs, presses, statusVars, trigger, refused, resetVars, told>>

TriesAgain(k) ==
    /\ queue[k].at = "delayed"
    /\ queue' = [queue EXCEPT ![k].at = "waiting"]
    /\ UNCHANGED <<last, jobs, presses, faults, statusVars, trigger, refused, resetVars, told>>

\* onFailed closes the row of a job given up, if the process lives to do so.
OnFailed(k) ==
    /\ last[k].status = "RUNNING" /\ ~Live(k, last[k].job)
    /\ last' = [last EXCEPT ![k].status = "CLOSED"]
    /\ UNCHANGED <<queue, jobs, presses, faults, statusVars, trigger, refused, resetVars, told>>

Worker(k) == Starts(k) \/ Closes(k) \/ Completes(k) \/ TriesAgain(k)

-----------------------------------------------------------------------------
(* The status: three sections, each read on its own and in parts.             *)

Unread(section) == section \notin fetch.unreadable

Put(f) ==
    /\ "runs" \notin f.unreadable => \A k \in Kinds : f.runs[k] # None /\ f.runs[k].stale # None
    /\ "queues" \notin f.unreadable => \A k \in Kinds : f.queues[k] # None
    /\ "breakers" \notin f.unreadable => \A p \in Providers : f.breakers[p] # None

\* A mutation is pending until the refetch that its success began has ended, in whichever way.
Settled(m, step) == IF m.step = "settling" THEN [m EXCEPT !.step = step] ELSE m
RefetchEnds ==
    /\ trigger' = Settled(trigger, "success")
    /\ reset' = Settled(reset, "idle")
    /\ asking' = IF reset.step = "settling" THEN None ELSE asking

\* One more part is read.  A status that is whole is shown: what happens while it is on its way is
\* as if it had happened after.
Goes(f) ==
    IF Put(f)
    THEN shown' = f /\ fetch' = None /\ RefetchEnds
    ELSE fetch' = f /\ UNCHANGED <<shown, trigger, reset, asking>>

\* lastRunPerKind.  The kinds' rows are read in one step, as are the depths of their queues: no
\* property relates one kind's to another's.
ReadsRows ==
    /\ Unread("runs") /\ \A k \in Kinds : fetch.runs[k] = None
    /\ Goes([fetch EXCEPT !.runs = [k \in Kinds |->
          [job |-> last[k].job, status |-> last[k].status,
           stale |-> IF last[k].status = "RUNNING" THEN None ELSE "no"]]])
    /\ UNCHANGED faults

FinishedNever(k, job) == FALSE
FinishedOrDelayed(k, job) == ~Live(k, job) \/ queue[k].at = "delayed"

\* FINISHED_STATES, read of the job the row names.
Finished(k, job) == ~Live(k, job)

\* isStale, after the row was read; a job that cannot be asked about leaves it unknown.
ReadsJob(k) ==
    /\ Unread("runs") /\ fetch.runs[k] # None /\ fetch.runs[k].stale = None
    /\ \/ /\ Goes([fetch EXCEPT !.runs[k].stale =
                       IF Finished(k, fetch.runs[k].job) THEN "yes" ELSE "no"])
          /\ UNCHANGED faults
       \/ Fault /\ Goes([fetch EXCEPT !.runs[k].stale = "unknown"])

ReadsDepths ==
    /\ Unread("queues") /\ \A k \in Kinds : fetch.queues[k] = None
    /\ Goes([fetch EXCEPT !.queues = [k \in Kinds |-> queue[k].at]])
    /\ UNCHANGED faults

ReadsBreakers ==
    /\ Unread("breakers") /\ \A p \in Providers : fetch.breakers[p] = None
    /\ Goes([fetch EXCEPT !.breakers = breaker])
    /\ UNCHANGED faults

\* section(): what cannot be read is null, and the rest is answered.
SectionFails(section) ==
    /\ Unread(section) /\ Fault
    /\ section = "breakers" => Providers # {}
    /\ Goes([fetch EXCEPT !.unreadable = @ \union {section}])

Server ==
    /\ fetch # None
    /\ \/ ReadsRows \/ ReadsDepths \/ ReadsBreakers
       \/ \E k \in Kinds : ReadsJob(k)
       \/ \E section \in Sections : SectionFails(section)
    /\ UNCHANGED <<jobVars, presses, refused, breaker, breaks, told>>

-----------------------------------------------------------------------------
(* The page.                                                                  *)

Run(s, k) == IF "runs" \in s.unreadable THEN NoRun ELSE s.runs[k]

Running(s) == \E k \in Kinds : Run(s, k).status = "RUNNING" /\ Run(s, k).stale # "yes"

SyncBusy(s) ==
    \/ "queues" \notin s.unreadable /\ \E k \in Kinds : s.queues[k] # "none"
    \/ Running(s)

\* The job this page queued, until a run that carries its id shows up in the status.
Queued ==
    /\ trigger.step = "success" /\ shown # None
    /\ \A k \in Kinds : Run(shown, k).job # trigger.job

Starting == trigger.step \notin {"idle", "success", "error"}

BusyReasonOfRuns == Starting \/ Running(shown) \/ Queued
BusyReason == Starting \/ Running(shown) \/ SyncBusy(shown) \/ Queued

Polls ==
    /\ fetch = None /\ fetch' = Reading(told)
    /\ UNCHANGED <<jobVars, presses, faults, shown, trigger, refused, resetVars, told>>

\* The status on screen stays.
FetchFails ==
    /\ fetch # None /\ Fault /\ fetch' = None /\ RefetchEnds
    /\ UNCHANGED <<jobVars, presses, shown, refused, breaker, breaks, told>>

\* Nothing else can be pressed while the dialog is open, which it is not while the breakers
\* cannot be read.
DialogOpen == asking # None /\ "breakers" \notin shown.unreadable

Press(k) ==
    /\ shown # None /\ ~DialogOpen /\ ~BusyReason
    /\ jobs < MaxJobs /\ presses < MaxPresses /\ presses' = presses + 1
    /\ trigger' = [Idle EXCEPT !.step = "sent", !.kind = k,
              !.known = IF "queues" \in shown.unreadable THEN {} ELSE shown.told]
    /\ refused' = None
    /\ UNCHANGED <<jobVars, faults, statusVars, resetVars, told>>

ServerQueues ==
    /\ trigger.step = "sent" /\ \A k \in Kinds : ~Held(k)
    /\ Queue(trigger.kind)
    /\ trigger' = [Idle EXCEPT !.step = "queued", !.job = jobs + 1]
    /\ UNCHANGED <<last, presses, faults, statusVars, refused, resetVars, told>>

ServerRefuses ==
    /\ trigger.step = "sent"
    /\ LET holders == {queue[k].job : k \in {i \in Kinds : Held(i)}}
       IN  /\ holders # {}
           /\ trigger' = [trigger EXCEPT !.step = "refused", !.holders = holders]
    /\ UNCHANGED <<jobVars, presses, faults, statusVars, refused, resetVars, told>>

\* 503 from the API, or no answer, whether or not the job was queued.
AnswerLost ==
    /\ trigger.step \in {"sent", "queued"} /\ Fault
    /\ trigger' = [Idle EXCEPT !.step = "refused", !.kind = trigger.kind]
    /\ UNCHANGED <<jobVars, presses, statusVars, refused, resetVars, told>>

\* Success invalidates the status, cancels a fetch under way and is told after the refetch.
OnQueued ==
    /\ trigger.step = "queued"
    /\ trigger' = [trigger EXCEPT !.step = "settling"]
    /\ reset' = Settled(reset, "idle")
    /\ asking' = IF reset.step = "settling" THEN None ELSE asking
    /\ told' = told \union {trigger.job} /\ fetch' = Reading(told')
    /\ UNCHANGED <<jobVars, presses, faults, shown, refused, breaker, breaks>>

OnRefused ==
    /\ trigger.step = "refused"
    /\ trigger' = [Idle EXCEPT !.step = "error"]
    /\ refused' = trigger.kind
    /\ UNCHANGED <<jobVars, presses, faults, statusVars, resetVars, told>>

-----------------------------------------------------------------------------
(* The breakers.                                                              *)

\* Calls fail or succeed, and keys expire.
BreakerMoves(p) ==
    /\ breaks < MaxBreaks /\ breaks' = breaks + 1
    /\ \E b \in {"closed", "counting", "open"} \ {breaker[p]} :
          breaker' = [breaker EXCEPT ![p] = b]
    /\ UNCHANGED <<jobVars, presses, faults, statusVars, trigger, refused, asking, reset, told>>

AskReset(p) ==
    /\ shown # None /\ asking = None
    /\ "breakers" \notin shown.unreadable /\ shown.breakers[p] # "closed"
    /\ asking' = p
    /\ UNCHANGED <<jobVars, presses, faults, statusVars, trigger, refused, breaker, breaks, reset, told>>

DismissibleAlways == TRUE
\* The dialog cannot be dismissed while its reset is under way.
Dismissible == reset.step = "idle"

DismissReset ==
    /\ DialogOpen /\ Dismissible
    /\ asking' = None
    /\ UNCHANGED <<jobVars, presses, faults, statusVars, trigger, refused, breaker, breaks, reset, told>>

ConfirmReset ==
    /\ DialogOpen /\ reset.step = "idle"
    /\ reset' = [step |-> "sent", provider |-> asking]
    /\ UNCHANGED <<jobVars, presses, faults, statusVars, trigger, refused, breaker, breaks, asking, told>>

ServerResets ==
    /\ reset.step = "sent"
    /\ breaker' = [breaker EXCEPT ![reset.provider] = "closed"]
    /\ reset' = [reset EXCEPT !.step = "done"]
    /\ UNCHANGED <<jobVars, presses, faults, breaks, statusVars, trigger, refused, asking, told>>

OnReset ==
    /\ reset.step = "done"
    /\ reset' = [reset EXCEPT !.step = "settling"]
    /\ trigger' = Settled(trigger, "success")
    /\ fetch' = Reading(told)
    /\ UNCHANGED <<jobVars, presses, faults, shown, refused, breaker, breaks, asking, told>>

\* A reset that failed, or whose answer was lost, is told by a toast; the dialog stays.
ResetFails ==
    /\ reset.step \in {"sent", "done"} /\ Fault
    /\ reset' = [reset EXCEPT !.step = "idle"]
    /\ UNCHANGED <<jobVars, presses, breaks, statusVars, trigger, refused, breaker, asking, told>>

-----------------------------------------------------------------------------

Client == ServerQueues \/ ServerRefuses \/ OnQueued \/ OnRefused \/ ServerResets \/ OnReset
Status == Server \/ Polls

Next ==
    \/ \E k \in Kinds : \/ SomeoneQueues(k) \/ Worker(k) \/ AttemptFails(k) \/ OnFailed(k)
                        \/ Press(k)
    \/ Status \/ FetchFails
    \/ Client \/ AnswerLost
    \/ \E p \in Providers : BreakerMoves(p) \/ AskReset(p)
    \/ DismissReset \/ ConfirmReset \/ ResetFails

Spec == Init /\ [][Next]_pageVars

-----------------------------------------------------------------------------

\* Type invariant.
TypeOK ==
    /\ queue \in [Kinds -> [job : 0 .. MaxJobs, at : Places]]
    /\ last \in [Kinds -> [job : 0 .. MaxJobs, status : {"NONE", "RUNNING", "CLOSED"}]]
    /\ \A k \in Kinds : last[k].job <= jobs
    /\ fetch # None => fetch.unreadable \subseteq Sections
    /\ shown # None => Put(shown)
    /\ refused \in Kinds \union {None} /\ asking \in Providers \union {None}
    /\ trigger.step \in {"idle", "sent", "queued", "refused", "settling", "success", "error"}
    /\ reset.step \in {"idle", "sent", "done", "settling"}

\* A run is called stalled (admin-sync.service.ts:134-138) only when its job is over: however the
\* row, the job and the page's polls interleave, no job is about to go on with it.
StalledRunsHaveNoJob ==
    shown # None =>
        \A k \in Kinds : Run(shown, k).status = "RUNNING" /\ Run(shown, k).stale = "yes"
                            => ~Live(k, Run(shown, k).job)

\* The page does not offer what its own job forbids (sync-control.tsx:177-193): a press that the
\* API refuses is never refused for a job that this page had been told it had queued before it asked
\* for the status it showed, unless the queues could not be read.
OwnJobsRefuseNoPress ==
    trigger.step = "refused" => trigger.holders \intersect trigger.known = {}

\* The reset under way is the one that its dialog asks about (sync-control.tsx:246-256).
ResetsAreOfTheDialog == reset.step # "idle" => asking = reset.provider

\* The job this page queued is over and another run, or none, is the newest: nothing that the
\* status can say will tell the page that its job has become a run.
Overtaken ==
    /\ trigger.step = "success"
    /\ \A k \in Kinds : ~Live(k, trigger.job) /\ last[k].job # trigger.job

\* When jobs and polls go on, the Run buttons come back, unless the page lost track of its job.
ButtonsAreBack == shown # None /\ (~BusyReason \/ Overtaken)
=============================================================================
