----------------------------- MODULE AdminSync -----------------------------
(***************************************************************************)
(* The admin's sync controls: start a catalog sync or a price sweep, and   *)
(* reset a breaker.  Each writes its audit row and calls Redis inside one  *)
(* PostgreSQL transaction, which Redis cannot join, under a timeout of two *)
(* seconds: a call that timed out may still reach Redis later.  The crons  *)
(* add under the same deduplication key.  A trigger's job id is its own.   *)
(***************************************************************************)
EXTENDS Integers, FiniteSets

CONSTANTS
    Triggers,  \* requests to POST /admin/sync/trigger; also the ids of their jobs
    Resets,    \* requests to POST /admin/sync/breakers/:provider/reset
    Free,      \* no job holds the key
    Cron       \* the job of a cron

Queues == {"catalog", "price"}
\* TRIGGERS: either kind of sync is refused while the other runs.
Blocker(queue) == CHOOSE other \in Queues : other # queue

Asked == Triggers \cup Resets

VARIABLES
    holder,   \* holder[q]: the job that holds q's deduplication key, or Free
    breaker,  \* do the breaker's keys exist?
    req,      \* req[r]: the step of r, its queue, and the id add() returned
    sent,     \* calls on their way to Redis
    landed,   \* ghost: triggers whose job was stored, resets whose DEL was done
    audit     \* audit_logs: the requests whose row is committed

avars == <<holder, breaker, req, sent, landed, audit>>

Steps == {"idle", "begin", "calling", "commit",
          "ok", "refused", "unavailable", "failed", "died"}

TypeOK ==
    /\ holder \in [Queues -> Triggers \cup {Free, Cron}]
    /\ breaker \in BOOLEAN
    /\ req \in [Asked -> [step : Steps, queue : Queues, reply : Triggers \cup {Free, Cron}]]
    /\ sent \subseteq Asked /\ landed \subseteq Asked /\ audit \subseteq Asked

Init ==
    /\ holder = [q \in Queues |-> Free] /\ breaker \in BOOLEAN
    /\ req \in [Asked -> {[step |-> "idle", queue |-> q, reply |-> Free] : q \in Queues}]
    /\ sent = {} /\ landed = {} /\ audit = {}

Goes(r, step) == req' = [req EXCEPT ![r].step = step]

\* trigger: both keys are read in one call.
ReadKeys(r) ==
    /\ req[r].step = "idle"
    /\ \/ Goes(r, "unavailable")
       \/ /\ holder[req[r].queue] = Free /\ holder[Blocker(req[r].queue)] = Free
          /\ Goes(r, "begin")
       \/ /\ holder[req[r].queue] # Free \/ holder[Blocker(req[r].queue)] # Free
          /\ Goes(r, "refused")
    /\ UNCHANGED <<holder, breaker, sent, landed, audit>>

\* resetBreaker: with neither key there is nothing to reset, or to record.
ReadBreaker(r) ==
    /\ req[r].step = "idle"
    /\ \/ Goes(r, "unavailable")
       \/ Goes(r, IF breaker THEN "begin" ELSE "refused")
    /\ UNCHANGED <<holder, breaker, sent, landed, audit>>

\* The transaction inserts its audit row, or fails to; then Redis is called.
Insert(r) ==
    /\ req[r].step = "begin"
    /\ \/ Goes(r, "calling") /\ sent' = sent \cup {r}
       \/ Goes(r, "failed") /\ UNCHANGED sent
    /\ UNCHANGED <<holder, breaker, landed, audit>>

\* Queue.add in Redis: one script, which stores the job unless the key is held, and
\* returns the id of the holder.  Nobody may be waiting for it any more.
AddLands(r) ==
    LET q == req[r].queue
        won == holder[q] = Free
    IN /\ r \in sent /\ sent' = sent \ {r}
       /\ holder' = IF won THEN [holder EXCEPT ![q] = r] ELSE holder
       /\ landed' = IF won THEN landed \cup {r} ELSE landed
       /\ req' = [req EXCEPT ![r].reply = holder'[q]]
       /\ UNCHANGED <<breaker, audit>>

\* DEL of both keys.
DelLands(r) ==
    /\ r \in sent /\ sent' = sent \ {r}
    /\ breaker' = FALSE /\ landed' = landed \cup {r}
    /\ UNCHANGED <<holder, req, audit>>

\* redisCall gives up, and the transaction rolls back; the call may be on its way,
\* or have landed already.
TimesOut(r) ==
    /\ req[r].step = "calling" /\ Goes(r, "unavailable")
    /\ UNCHANGED <<holder, breaker, sent, landed, audit>>

\* Mutant of Accepts: the id that add returned is not looked at.
AcceptsAny(r) == TRUE
\* added.id = jobId: the job was stored, and is not somebody else's.
Accepts(r) == req[r].reply = r

\* The call returns: go on to commit, or roll back with 409.
Returns(r) ==
    /\ req[r].step = "calling" /\ r \notin sent
    /\ Goes(r, IF r \in Resets \/ Accepts(r) THEN "commit" ELSE "refused")
    /\ UNCHANGED <<holder, breaker, sent, landed, audit>>

Commits(r) ==
    /\ req[r].step = "commit"
    /\ \/ Goes(r, "ok") /\ audit' = audit \cup {r}
       \/ Goes(r, "failed") /\ UNCHANGED audit
    /\ UNCHANGED <<holder, breaker, sent, landed>>

\* The API dies; what it had not handed to Redis is gone.
Dies ==
    /\ \E kept \in SUBSET sent : sent' = kept
    /\ req' = [r \in Asked |-> IF req[r].step \in {"begin", "calling", "commit"}
                               THEN [req[r] EXCEPT !.step = "died"] ELSE req[r]]
    /\ UNCHANGED <<holder, breaker, landed, audit>>

\* The scheduler of a queue: skipped while the key is held, blind to the other queue.
CronFires(q) ==
    /\ holder[q] = Free /\ holder' = [holder EXCEPT ![q] = Cron]
    /\ UNCHANGED <<breaker, req, sent, landed, audit>>

\* The job completes or finally fails, and its key is released.
JobEnds(q) ==
    /\ holder[q] # Free /\ holder' = [holder EXCEPT ![q] = Free]
    /\ UNCHANGED <<breaker, req, sent, landed, audit>>

\* A job counts a failure.
BreakerCounts ==
    /\ breaker' \in BOOLEAN
    /\ UNCHANGED <<holder, req, sent, landed, audit>>

Next ==
    \/ \E r \in Triggers : ReadKeys(r) \/ AddLands(r)
    \/ \E r \in Resets : ReadBreaker(r) \/ DelLands(r)
    \/ \E r \in Asked : Insert(r) \/ TimesOut(r) \/ Returns(r) \/ Commits(r)
    \/ \E q \in Queues : CronFires(q) \/ JobEnds(q)
    \/ Dies \/ BreakerCounts

Spec == Init /\ [][Next]_avars

-----------------------------------------------------------------------------

Interrupted == {"unavailable", "failed", "died"}

\* The audit log is true: a row names a job that was stored, or a reset that was
\* done, and an accepted request has its row.  The other way round, what was done
\* without a row is one of the cases docs/API.md ("Triggers") accepts: the call
\* timed out and landed later, the COMMIT failed after it, or the API died.
AuditRowsAreTrue ==
    /\ audit \subseteq landed
    /\ \A r \in Asked : req[r].step = "ok" <=> r \in audit
    /\ \A r \in landed \ audit : req[r].step \in Interrupted \cup {"calling", "commit"}
=============================================================================
