----------------------------- MODULE CardSources -----------------------------
(***************************************************************************)
(* The two card sources' clients: lists, pages and prices, fetched by      *)
(* requests that are retried and counted against a day's budget.  TCGdex   *)
(* has no bulk path to cards: a page is a slice of its index, hydrated     *)
(* card by card by a pool of workers that share one queue.  The first      *)
(* worker to fail refuses the page, and the others go on for nobody.       *)
(*                                                                         *)
(* One process, one catalog job and one price job at a time, one UTC day.  *)
(* An id's payload is told by what the schemas and the mapper make of it.  *)
(***************************************************************************)
EXTENDS Integers, Sequences, FiniteSets, FiniteSetsExt, SequencesExt

CONSTANTS
    Items,         \* a run of naturals from 1, in the order of their ids
    Quality,       \* Quality[source][id]: what its payload is
    Lists,         \* the ids that a source may list, whenever it is asked
    Pooled,        \* HYDRATION_CONCURRENCY
    PageSize,
    PriceBatch,    \* the cards of a price job's batch
    MAX_ATTEMPTS,  \* of a request (the clients' are 5 and 3)
    Limit, Reserve,   \* the primary's daily budget, and what a price job leaves of it
    MaxCalls       \* bound: calls made of the clients

Sources == {"pokemontcg", "tcgdex"}
\* A payload is "good", "imageless", "gone", "unreadable", or a "misfit", which has the source's
\* documented shape and not the mirror's.

VARIABLES
    index,    \* TCGdex's brief index in the client's memory, or {}
    calls,    \* the calls that are not over, or just are
    made,     \* how many there were
    redis,    \* is it there?
    spent,    \* the primary's requests counted in it (TCGdex has no limit)
    synced    \* ghost: some of the primary's were a catalog job's

sourceVars == <<index, calls, made, redis, spent, synced>>

\* A worker is at a request for an id, or for a list or a whole page (0).
Due(id) == [id |-> id, attempt |-> 1, at |-> "due"]
Ended == [id |-> 0, attempt |-> 0, at |-> "ended"]
Idle == [w \in 1 .. Pooled |-> Ended]

TypeOK ==
    /\ index \in Lists \cup {{}}
    /\ \A k \in DOMAIN calls :
          /\ calls[k].source \in Sources
          /\ calls[k].kind \in {"sets", "cards", "prices"}
          /\ calls[k].stage \in {"list", "page", "pool"}
          /\ \A w \in 1 .. Pooled :
                /\ calls[k].workers[w].at \in {"due", "sent", "ended"}
                /\ calls[k].workers[w].attempt \in 0 .. MAX_ATTEMPTS
    /\ made \in 0 .. MaxCalls /\ {redis, synced} \subseteq BOOLEAN
    /\ spent \in Nat

Init ==
    /\ index = {}
    /\ calls = <<>> /\ made = 0
    /\ redis \in BOOLEAN
    /\ spent = 0 /\ synced = FALSE

-----------------------------------------------------------------------------
(* What becomes of an id's payload.                                        *)

Imaged(s, id) == s # "tcgdex" \/ Quality[s][id] # "imageless"

\* Mutant of Hydrated: what does not fit the mirror is thrown.
HydratedOrThrown(q) ==
    CASE q = "good" -> "item" [] q = "misfit" -> "throws" [] OTHER -> "skipped"
\* A card of a pool: one that is gone, unreadable or does not fit is skipped.
Hydrated(q) == IF q = "good" THEN "item" ELSE "skipped"
\* A card of a page: it is not caught that one does not fit.
Projected(q) ==
    CASE q = "good" -> "item" [] q = "misfit" -> "throws" [] OTHER -> "skipped"
SetRead(q) ==
    CASE q \in {"gone", "unreadable"} -> "nothing" [] q = "misfit" -> "throws"
      [] OTHER -> "item"
Priced(q) == IF q \in {"gone", "unreadable"} THEN "nothing" ELSE "item"

Verdict(call, id) ==
    LET q == Quality[call.source][id]
    IN  CASE call.kind = "sets" -> SetRead(q)
          [] call.kind = "prices" -> Priced(q)
          [] call.source = "tcgdex" -> Hydrated(q)
          [] OTHER -> Projected(q)

-----------------------------------------------------------------------------
(* A call.                                                                 *)

\* A page of a list in id order.
InOrder(ids) ==
    [n \in 1 .. Cardinality(ids) |-> CHOOSE id \in ids : Cardinality({d \in ids : d < id}) = n - 1]
\* Mutant of SliceOf: pages are counted from 0.
SliceFromZero(ids, page) ==
    LET s == InOrder(ids) IN SubSeq(s, page * PageSize + 1, Min({(page + 1) * PageSize, Len(s)}))
SliceOf(ids, page) ==
    LET s == InOrder(ids) IN SubSeq(s, (page - 1) * PageSize + 1, Min({page * PageSize, Len(s)}))

None == [id \in Items |-> 0]
Tally(f, id) == [f EXCEPT ![id] = Min({2, @ + 1})]

Asked(source, kind, page, stage) ==
    [source |-> source, kind |-> kind, page |-> page, stage |-> stage, scope |-> {},
     queue |-> <<>>, workers |-> [Idle EXCEPT ![1] = Due(0)],
     items |-> None, skipped |-> None, troubled |-> FALSE, uncounted |-> FALSE, out |-> "running"]

Over(call) == \A w \in 1 .. Pooled : call.workers[w].at = "ended"
\* Promise.all: the call is answered when every worker has ended and none threw.
Settled(call) == IF Over(call) /\ call.out = "running" THEN [call EXCEPT !.out = "answered"] ELSE call

\* Mutant of Taken: the queue is looked at.
Peeked(call, w) ==
    IF call.queue = <<>> THEN [call EXCEPT !.workers[w] = Ended]
    ELSE [call EXCEPT !.workers[w] = Due(Head(call.queue)),
                      !.queue = IF Len(@) > 1 /\ call.items[@[1]] = 0 THEN @ ELSE Tail(@)]
\* queue.shift(), or the end of the worker.
Taken(call, w) ==
    IF call.queue = <<>> THEN [call EXCEPT !.workers[w] = Ended]
    ELSE [call EXCEPT !.workers[w] = Due(Head(call.queue)), !.queue = Tail(@)]

\* The pool starts: each worker in turn takes what is next.
Pool(call, ids, concurrency) ==
    LET order == SelectSeq(ids, LAMBDA id : call.kind # "cards" \/ Imaged(call.source, id))
        bare == ToSet(ids) \ ToSet(order)
        start == [call EXCEPT !.stage = "pool", !.queue = order, !.workers = Idle,
                              !.skipped = [id \in Items |-> IF id \in bare THEN 1 ELSE 0]]
    IN  Settled(FoldLeft(Taken, start, [w \in 1 .. concurrency |-> w]))

\* A page of TCGdex's cards, in the index it is cut from.
PageOf(call, ids) == Pool([call EXCEPT !.scope = ids], SliceOf(ids, call.page), Pooled)

Caller(kind) == IF kind = "prices" THEN "prices" ELSE "catalog"
Running == {k \in DOMAIN calls : calls[k].out = "running"}
Free(kind) ==
    /\ made < MaxCalls
    /\ \A k \in Running : Caller(calls[k].kind) # Caller(kind)

\* What a call that is over left is its caller's.
Ask(call) ==
    /\ calls' = Append(SelectSeq(calls, LAMBDA c : ~Over(c)), call)
    /\ made' = made + 1

FetchSets(source) ==
    /\ Free("sets")
    /\ Ask(Asked(source, "sets", 1, IF source = "tcgdex" THEN "list" ELSE "page"))
    /\ UNCHANGED <<index, redis, spent, synced>>

\* The index is used if it is not an hour old, and fetched again otherwise.
FetchCards(source, page) ==
    /\ Free("cards")
    /\ \/ Ask(Asked(source, "cards", page, IF source = "tcgdex" THEN "list" ELSE "page"))
       \/ /\ source = "tcgdex" /\ index # {}
          /\ Ask(PageOf(Asked(source, "cards", page, "pool"), index))
    /\ UNCHANGED <<index, redis, spent, synced>>

\* hasHeadroom: strictly more than the reserve is left, or Redis cannot say; only the primary has
\* a limit.
HasHeadroom(source) == source = "tcgdex" \/ ~redis \/ Limit - spent > Reserve

FetchPrices(source) ==
    /\ Free("prices") /\ HasHeadroom(source)
    /\ LET call == [Asked(source, "prices", 1, "page") EXCEPT !.scope = PriceBatch]
       IN  Ask(IF source = "tcgdex" THEN Pool(call, InOrder(PriceBatch), Pooled) ELSE call)
    /\ UNCHANGED <<index, redis, spent, synced>>

-----------------------------------------------------------------------------
(* A request.                                                              *)

\* Mutant of Recorded: only a first attempt is counted.
RecordedFirst(attempt) == redis /\ attempt = 1
\* record(), which never throws.
Recorded(attempt) == redis

\* One attempt: it is counted, and then made.
Request(k, w) ==
    LET call == calls[k] worker == call.workers[w]
    IN  /\ worker.at = "due"
        /\ spent' = IF call.source = "pokemontcg" /\ Recorded(worker.attempt) THEN spent + 1
                    ELSE spent
        /\ synced' = (synced \/ (call.source = "pokemontcg" /\ call.kind # "prices"))
        /\ calls' = [calls EXCEPT ![k].workers[w].at = "sent",
                                  ![k].uncounted = @ \/ ~Recorded(worker.attempt)]
        /\ UNCHANGED <<index, made, redis>>

\* The first worker that throws decides; the others are not stopped.
Refused(call, w) ==
    [call EXCEPT !.workers[w] = Ended, !.out = IF @ = "running" THEN "refused" ELSE @]

\* The payload of an id: the worker goes on with the next.
Told(call, w, id) ==
    LET verdict == Verdict(call, id)
    IN  CASE verdict = "throws" -> Refused(call, w)
          [] verdict = "item" -> Taken([call EXCEPT !.items = Tally(@, id)], w)
          [] verdict = "skipped" -> Taken([call EXCEPT !.skipped = Tally(@, id)], w)
          [] OTHER -> Taken(call, w)

\* A whole page, card by card; what throws ends it.
Read(call, list, ids) ==
    LET of(v) == {id \in ids : Verdict(call, id) = v}
        count(S) == [id \in Items |-> IF id \in S THEN 1 ELSE 0]
    IN  IF of("throws") # {} THEN Refused(call, 1)
        ELSE Settled([call EXCEPT !.workers = Idle, !.scope = list,
                                  !.items = count(of("item")), !.skipped = count(of("skipped"))])

\* The documented answer: of an id, of a page or of a list.
Answer(k, w) ==
    LET call == calls[k] worker == call.workers[w]
    IN  /\ worker.at = "sent"
        /\ \E list \in IF call.stage = "pool" \/ call.kind = "prices" THEN {{}} ELSE Lists :
              /\ calls' = [calls EXCEPT ![k] =
                    CASE call.stage = "pool" -> Settled(Told(call, w, worker.id))
                      [] call.kind = "prices" -> Read(call, call.scope, call.scope)
                      [] call.stage = "page" ->
                            Read(call, list, IF call.kind = "sets" THEN list
                                             ELSE ToSet(SliceOf(list, call.page)))
                      [] call.kind = "sets" -> Pool([call EXCEPT !.scope = list], InOrder(list), 1)
                      [] OTHER -> PageOf(call, list)]
              /\ index' = IF call.kind = "cards" /\ call.stage = "list" THEN list ELSE index
        /\ UNCHANGED <<made, redis, spent, synced>>

\* Mutant of Again: a request that failed is made until it succeeds.
AgainAlways(call, w) == [call EXCEPT !.workers[w].at = "due"]
\* After a pause the next attempt is due, if one is left.
Again(call, w) ==
    IF call.workers[w].attempt = MAX_ATTEMPTS THEN Refused(call, w)
    ELSE [call EXCEPT !.workers[w].at = "due", !.workers[w].attempt = @ + 1]

Troubled(call) == [call EXCEPT !.troubled = TRUE]

\* The network, the clock or the server fails, or a 429 says to ask later.
Fail(k, w) ==
    /\ calls[k].workers[w].at = "sent"
    /\ calls' = [calls EXCEPT ![k] = Troubled(Again(@, w))]
    /\ UNCHANGED <<index, made, redis, spent, synced>>

\* A 4xx, a 200 that is not JSON, or a list that is not the documented one.
FailForGood(k, w) ==
    /\ calls[k].workers[w].at = "sent"
    /\ calls' = [calls EXCEPT ![k] = Troubled(Refused(@, w))]
    /\ UNCHANGED <<index, made, redis, spent, synced>>

-----------------------------------------------------------------------------
(* The world.                                                              *)

\* The process dies with its calls and its index.
Crash ==
    /\ \E k \in DOMAIN calls : ~Over(calls[k])
    /\ calls' = <<>> /\ index' = {}
    /\ UNCHANGED <<made, redis, spent, synced>>

Pages == 1 .. 2

Requests ==
    \E k \in DOMAIN calls, w \in 1 .. Pooled :
        Request(k, w) \/ Answer(k, w) \/ Fail(k, w) \/ FailForGood(k, w)

Next ==
    \/ Requests
    \/ \E s \in Sources : FetchSets(s) \/ FetchPrices(s) \/ \E p \in Pages : FetchCards(s, p)
    \/ Crash

-----------------------------------------------------------------------------

Answered(k) == calls[k].out = "answered"
\* The ids that a call is about, by the list that it was cut from.
Of(call) ==
    CASE call.kind = "cards" ->
            {id \in call.scope :
                LET before == Cardinality({d \in call.scope : d < id})
                IN  before \div PageSize = call.page - 1}
      [] OTHER -> call.scope

\* A page that is answered has each card of its slice once, read or skipped, and skips for the
\* card's own reasons only: whatever workers, retries and other calls did meanwhile, no card is
\* lost to them or taken twice.  Likewise sets and prices, whose unreadable ones are left out.
AnswersAreWhole ==
    \A k \in DOMAIN calls : Answered(k) =>
        LET call == calls[k]
            read == {id \in Of(call) : Quality[call.source][id] = "good"}
        IN  /\ \A id \in Items :
                  call.items[id] + call.skipped[id] <= (IF id \in Of(call) THEN 1 ELSE 0)
            /\ \A id \in read : call.items[id] = 1
            /\ call.kind = "cards" =>
                  \A id \in Of(call) : call.items[id] + call.skipped[id] = 1

\* "one absent card must cost one card rather than the page it sits in" (tcgdex/http.ts:61-62), and
\* so must one that cannot be read or does not fit: without a failed request no page of TCGdex's cards is
\* refused.
OneCardCostsOneCard ==
    \A k \in DOMAIN calls :
        calls[k].source = "tcgdex" /\ calls[k].kind = "cards" /\ ~calls[k].troubled =>
            calls[k].out \in {"running", "answered"}

\* No request escapes the budget while Redis is there, the retries and those of a refused page's
\* workers included; and a price job, which asks before each batch, overshoots its reserve by
\* one batch's attempts at most.
BudgetIsTrue ==
    redis =>
        /\ \A k \in DOMAIN calls : ~calls[k].uncounted
        /\ synced \/ spent < Max({Limit - Reserve, 0}) + MAX_ATTEMPTS

\* Every call ends, answered or refused, however its requests fail.
EveryCallEnds == \A k \in DOMAIN calls : calls[k].out # "running"
=============================================================================
