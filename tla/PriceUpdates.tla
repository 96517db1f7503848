--------------------------- MODULE PriceUpdates ---------------------------
(***************************************************************************)
(* How a card's price gets fresh outside the nightly sweep: a member asks  *)
(* for one card, behind a cooldown key and a queue, and a job four times a *)
(* day refreshes the cards in use whose price is stale.  Both end in the   *)
(* same batch: fetch, group, write in one transaction, clear the cache.    *)
(* The two queues run side by side in the worker.  A price is the number   *)
(* of the fetch it came from, which is also its capturedAt; 0 is NULL, and *)
(* whatever is older than the freshness limit.  One UTC day is modelled.   *)
(***************************************************************************)
EXTENDS Integers, FiniteSets

CONSTANTS
    Cards,      \* the cards of the mirror
    InUse,      \* the cards somebody owns, decks or trades at first
    Moving,     \* the cards that come into use, or go out of it
    Requests,   \* POST /cards/:id/price/refresh
    Asked,      \* the cards they ask for
    BatchSize,  \* BATCH_SIZE
    MaxCards,   \* maxCards: the bound of one active refresh
    MaxStalls,  \* rate limits in a row that end a run
    Attempts,   \* how often BullMQ runs a job that throws
    MaxFetches  \* bound: how often a provider answers

Markets == {"usd", "eur"}   \* TCGPLAYER and CARDMARKET
Slots == {"refresh", "active"}

VARIABLES
    price,    \* price[c]: the columns usd, eur and at (priceUpdatedAt)
    history,  \* <<card, market>>: price_snapshots has a row of today
    clock,    \* the number of answers so far
    inUse,    \* cards in inventories, decks and recent trades
    cooldown, \* cards whose throttle:price:refresh key exists
    req,      \* req[r]: where request r stands, and for which card
    queue,    \* queue[c]: price-sync jobs for c that wait or run
    batch,    \* batch[s]: {}, or {answer} that slot s still has to write
    job,      \* the active job: attempts left, and is it over?
    call,     \* its process() call, if one runs
    run,      \* {}, or {row}: the newest sync_runs row of the job
    due       \* ghost: the stale cards in use when that run began

pvars == <<price, history, clock, inUse, cooldown, req, queue, batch, job, call, run, due>>

Answer == [at : 1 .. MaxFetches, asked : SUBSET Cards, points : SUBSET (Cards \X Markets)]
NoCall == [step |-> "idle", left |-> {}, unpriced |-> FALSE, failed |-> FALSE,
           stopped |-> FALSE, truncated |-> FALSE, stalls |-> 0]

TypeOK ==
    /\ price \in [Cards -> [usd : 0 .. MaxFetches, eur : 0 .. MaxFetches, at : 0 .. MaxFetches]]
    /\ history \subseteq Cards \X Markets /\ clock \in 0 .. MaxFetches
    /\ inUse \subseteq Cards /\ cooldown \subseteq Cards
    /\ queue \in [Cards -> 0 .. Cardinality(Requests)]
    /\ \A r \in Requests : req[r].step \in {"idle", "adding", "queued", "refused", "failed"}
    /\ \A s \in Slots : batch[s] \subseteq Answer /\ Cardinality(batch[s]) <= 1
    /\ job \in [left : 0 .. Attempts, open : BOOLEAN]
    /\ call.step \in {"idle", "select", "batch", "record", "close", "broken"}
    /\ call.left \subseteq Cards /\ call.stalls \in 0 .. MaxStalls
    /\ run \subseteq [fallback : BOOLEAN, status : {"RUNNING", "SUCCEEDED", "PARTIAL", "FAILED"}]
    /\ Cardinality(run) <= 1 /\ due \subseteq Cards

Init ==
    /\ price = [c \in Cards |-> [usd |-> 0, eur |-> 0, at |-> 0]]
    /\ history = {} /\ clock = 0 /\ inUse = InUse
    /\ cooldown = {} /\ queue = [c \in Cards |-> 0]
    /\ req = [r \in Requests |-> [step |-> "idle", card |-> CHOOSE c \in Asked : TRUE]]
    /\ batch = [s \in Slots |-> {}]
    /\ job = [left |-> Attempts, open |-> TRUE] /\ call = NoCall
    /\ run = {} /\ due = {}

activeVars == <<job, call, run, due>>
tableVars == <<price, history, inUse>>

-----------------------------------------------------------------------------
(* One batch: PriceBatchService.refreshBatch and PriceWriter.              *)

\* The provider answers for some of the cards asked, in some of the markets; a
\* card in neither is not in the answer at all.
Fetch(s, asked) ==
    /\ clock < MaxFetches /\ batch[s] = {}
    /\ clock' = clock + 1
    /\ \E points \in SUBSET (asked \X Markets) :
          batch' = [batch EXCEPT ![s] = {[at |-> clock + 1, asked |-> asked, points |-> points]}]

Priced(a) == {p[1] : p \in a.points}

\* Mutant of Latest: a market the answer is silent about keeps its figure.
LatestKept(c, a, old) == [usd |-> IF <<c, "usd">> \in a.points THEN a.at ELSE old.usd,
                          eur |-> IF <<c, "eur">> \in a.points THEN a.at ELSE old.eur,
                          at |-> a.at]
\* Both columns are written, with NULL for the market the answer is silent about.
Latest(c, a, old) == [usd |-> IF <<c, "usd">> \in a.points THEN a.at ELSE 0,
                      eur |-> IF <<c, "eur">> \in a.points THEN a.at ELSE 0,
                      at |-> a.at]

\* One transaction: the columns of every card that was priced, unguarded, and
\* today's snapshots, where there is none yet.
Write(a) ==
    /\ price' = [c \in Cards |-> IF c \in Priced(a) THEN Latest(c, a, price[c]) ELSE price[c]]
    /\ history' = history \cup a.points

\* A card comes into use, or goes out of it: openings, trades, decks.
Use ==
    /\ \E c \in Moving :
          /\ inUse' = IF c \in inUse THEN inUse \ {c} ELSE inUse \cup {c}
          /\ due' = due \cap inUse'
    /\ UNCHANGED <<price, history, clock, cooldown, req, queue, batch, job, call, run>>

-----------------------------------------------------------------------------
(* The refresh a member asks for.                                          *)

\* No headroom, or the cooldown is held: SET NX EX, and the answer is "not now".
TakeCooldown(r, c) ==
    /\ req[r].step = "idle"
    /\ \/ /\ c \notin cooldown /\ cooldown' = cooldown \cup {c}
          /\ req' = [req EXCEPT ![r] = [step |-> "adding", card |-> c]]
       \/ /\ req' = [req EXCEPT ![r] = [step |-> "refused", card |-> c]]
          /\ UNCHANGED cooldown
    /\ UNCHANGED <<tableVars, clock, queue, batch, activeVars>>

Added(c) == [queue EXCEPT ![c] = queue[c] + 1]
Removed(c) == [queue EXCEPT ![c] = queue[c] - 1]

\* The job is added; a lost reply reads like a failure, and releases the key.
Add(r) ==
    /\ req[r].step = "adding"
    /\ \/ /\ queue' = Added(req[r].card)
          /\ req' = [req EXCEPT ![r].step = "queued"] /\ UNCHANGED cooldown
       \/ /\ queue' \in {queue, Added(req[r].card)}
          /\ req' = [req EXCEPT ![r].step = "failed"]
          /\ cooldown' \in {cooldown, cooldown \ {req[r].card}}
    /\ UNCHANGED <<tableVars, clock, batch, activeVars>>

\* The API dies with the cooldown taken and the job not added.
DieAdding(r) ==
    /\ req[r].step = "adding"
    /\ req' = [req EXCEPT ![r].step = "failed"]
    /\ UNCHANGED <<tableVars, clock, cooldown, queue, batch, activeVars>>

\* The key's TTL.
CooldownEnds(c) ==
    /\ c \in cooldown /\ cooldown' = cooldown \ {c}
    /\ UNCHANGED <<tableVars, clock, req, queue, batch, activeVars>>

\* PriceSyncProcessor.process: select a provider, and run one batch.
FetchOne ==
    /\ \E c \in Cards : queue[c] > 0 /\ Fetch("refresh", {c})
    /\ UNCHANGED <<tableVars, cooldown, req, queue, activeVars>>

WriteOne ==
    /\ \E a \in batch["refresh"] : Write(a) /\ \E c \in a.asked : queue' = Removed(c)
    /\ batch' = [batch EXCEPT !["refresh"] = {}]
    /\ UNCHANGED <<clock, inUse, cooldown, req, activeVars>>

\* The batch fails, and is retried or given up; the cooldown stays.
FailOne ==
    /\ \E c \in Cards :
          /\ queue[c] > 0 /\ \A a \in batch["refresh"] : c \in a.asked
          /\ queue' \in {queue, Removed(c)}
    /\ batch' = [batch EXCEPT !["refresh"] = {}]
    /\ UNCHANGED <<tableVars, clock, cooldown, req, activeVars>>

-----------------------------------------------------------------------------
(* The active refresh: PriceActiveProcessor.process.                       *)

others == <<cooldown, req, queue>>
Running == call.step # "idle"
Resumable == {row \in run : row.status = "RUNNING"}
Close(status) == run' = {[row EXCEPT !.status = status] : row \in run}
StaleCards == {c \in inUse : price[c].at = 0}

\* The provider is chosen, or the one of the open row resumed, and the row is found
\* or written.  due is what the run is for, from its first attempt.
Begin ==
    /\ job.open /\ ~Running
    /\ IF Resumable # {} THEN UNCHANGED <<run, due>>
       ELSE /\ \E fallback \in BOOLEAN : run' = {[fallback |-> fallback, status |-> "RUNNING"]}
            /\ due' = StaleCards
    /\ call' = [NoCall EXCEPT !.step = "select"]
    /\ UNCHANGED <<tableVars, clock, others, batch, job>>

\* The resumed run's breaker is open: the run is closed and the job completes.
Abandon ==
    /\ job.open /\ ~Running /\ Resumable # {}
    /\ Close("PARTIAL") /\ job' = [job EXCEPT !.open = FALSE]
    /\ UNCHANGED <<tableVars, clock, others, batch, call, due>>

\* ActiveCardSelector.select: afresh on every attempt, the stalest first.
Select ==
    /\ call.step = "select"
    /\ \E chosen \in SUBSET StaleCards :
          /\ IF Cardinality(StaleCards) <= MaxCards THEN chosen = StaleCards
             ELSE Cardinality(chosen) = MaxCards
          /\ call' = [call EXCEPT !.left = chosen,
                          !.truncated = Cardinality(StaleCards) > MaxCards,
                          !.step = IF chosen = {} THEN "close" ELSE "batch"]
    /\ UNCHANGED <<tableVars, clock, others, batch, job, run, due>>

\* The next BATCH_SIZE ids, in the order they were selected.
Ids == {ids \in SUBSET call.left :
          IF Cardinality(call.left) <= BatchSize THEN ids = call.left
          ELSE Cardinality(ids) = BatchSize}

\* The day's budget is spent, less the reserve.
OutOfBudget ==
    /\ call.step = "batch" /\ batch["active"] = {}
    /\ call' = [call EXCEPT !.stopped = TRUE, !.step = "close"]
    /\ UNCHANGED <<tableVars, clock, others, batch, job, run, due>>

FetchBatch ==
    /\ call.step = "batch"
    /\ \E ids \in Ids : Fetch("active", ids)
    /\ UNCHANGED <<tableVars, others, activeVars>>

\* result.priced is smaller than what was asked.
Unpriced(a) == Priced(a) # a.asked

WriteBatch ==
    /\ call.step = "batch"
    /\ \E a \in batch["active"] :
          /\ Write(a)
          /\ call' = [call EXCEPT !.step = "record", !.left = call.left \ a.asked,
                          !.unpriced = call.unpriced \/ Unpriced(a), !.stalls = 0]
    /\ batch' = [batch EXCEPT !["active"] = {}]
    /\ UNCHANGED <<clock, inUse, others, job, run, due>>

\* A 429: wait and ask again, until it has been one too many.
Stalled ==
    /\ call.step = "batch" /\ batch["active"] = {}
    /\ call' = [call EXCEPT !.stalls = call.stalls + 1,
                    !.stopped = call.stalls + 1 >= MaxStalls,
                    !.step = IF call.stalls + 1 >= MaxStalls THEN "close" ELSE "batch"]
    /\ UNCHANGED <<tableVars, clock, others, batch, job, run, due>>

\* A provider that is unavailable, perhaps down, or a failure of our own, the
\* transaction's included: the batch is counted as failed and passed over.
BatchFails ==
    /\ call.step = "batch"
    /\ \E ids \in (IF batch["active"] = {} THEN Ids ELSE {a.asked : a \in batch["active"]}),
          down \in BOOLEAN :
          call' = [call EXCEPT !.step = "record", !.left = call.left \ ids, !.failed = TRUE,
                      !.stopped = down /\ batch["active"] = {}, !.stalls = 0]
    /\ batch' = [batch EXCEPT !["active"] = {}]
    /\ UNCHANGED <<tableVars, clock, others, job, run, due>>

\* The answer does not have the documented shape.
ContractBroken ==
    /\ call.step = "batch" /\ batch["active"] = {}
    /\ call' = [call EXCEPT !.step = "broken"]
    /\ UNCHANGED <<tableVars, clock, others, batch, job, run, due>>

\* recordProgress, and on to the next batch unless the breaker has opened.
Record ==
    /\ call.step = "record"
    /\ call' = [call EXCEPT !.step = IF call.stopped \/ call.left = {} THEN "close" ELSE "batch"]
    /\ UNCHANGED <<tableVars, clock, others, batch, job, run, due>>

Complete(row) == ~(row.fallback \/ call.stopped \/ call.truncated \/ call.unpriced \/ call.failed)

CloseRun ==
    /\ call.step = "close"
    /\ \E row \in run : Close(IF Complete(row) THEN "SUCCEEDED" ELSE "PARTIAL")
    /\ call' = NoCall /\ job' = [job EXCEPT !.open = FALSE]
    /\ UNCHANGED <<tableVars, clock, others, batch, due>>

\* The attempt is over: the job waits for its next one, or has had its last, and
\* onFailed closes the row, unless the database fails it.
Throw(status) ==
    /\ job' = [left |-> job.left - 1, open |-> job.left > 1]
    /\ call' = NoCall
    /\ IF job.left > 1 THEN Close(status)
       ELSE run' = {[row EXCEPT !.status = IF status = "RUNNING" THEN "FAILED" ELSE status]
                      : row \in run} \/ run' = run
    /\ batch' = [batch EXCEPT !["active"] = {}]
    /\ UNCHANGED <<tableVars, clock, others, due>>

CloseBroken == call.step = "broken" /\ Throw("FAILED")

\* A query of the attempt failed, or the worker died in it.
AttemptFails == Running /\ Throw("RUNNING")

Active == \/ Begin \/ Abandon \/ Select \/ OutOfBudget \/ FetchBatch \/ WriteBatch \/ Stalled
          \/ BatchFails \/ ContractBroken \/ Record \/ CloseRun \/ CloseBroken \/ AttemptFails

Next ==
    \/ Use \/ FetchOne \/ WriteOne \/ FailOne \/ Active
    \/ \E r \in Requests : (\E c \in Asked : TakeCooldown(r, c)) \/ Add(r) \/ DieAdding(r)
    \/ \E c \in Cards : CooldownEnds(c)

Spec == Init /\ [][Next]_pvars

-----------------------------------------------------------------------------

\* What a card shows is one answer of one provider: priceUpdatedAt is true of both
\* columns, whichever jobs wrote last, and today's history has a point for each
\* figure shown (price-batch.service.ts:81-85, the comment on one timestamp for two).
ShownPricesAreOneAnswer ==
    \A c \in Cards :
        /\ price[c].usd \in {0, price[c].at} /\ price[c].eur \in {0, price[c].at}
        /\ price[c].at # 0 => \E m \in Markets : <<c, m>> \in history
        /\ price[c].usd # 0 => <<c, "usd">> \in history
        /\ price[c].eur # 0 => <<c, "eur">> \in history

\* An active refresh that says SUCCEEDED has made fresh every card in use that was
\* stale when it began, over all its attempts, except cards that went out of use.
SucceededMeansFresh ==
    \A row \in run : row.status = "SUCCEEDED" =>
        /\ ~row.fallback
        /\ \A c \in due : price[c].at # 0

=============================================================================
