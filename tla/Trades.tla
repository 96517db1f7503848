------------------------------- MODULE Trades -------------------------------
(***************************************************************************)
(* The trade core: proposals that lock the initiator's cards, every way    *)
(* out of PENDING, settlement, reversal, counter-offers, the expiry job    *)
(* and an account suspension that voids all of a member's trades.          *)
(*                                                                         *)
(* Every transaction is one step, placed at its COMMIT: a row it writes is *)
(* locked, by a guarded UPDATE that tests it, until then.  What the code   *)
(* reads WITHOUT a lock is read in a step of its own, and may be stale     *)
(* when the transaction commits: the recipient's suspension and the        *)
(* initiator's coins (propose, counter), the status a void branches on,    *)
(* and the snapshot voidAllPendingOf takes of a member's PENDING trades.   *)
(*                                                                         *)
(* An inventory row with no copies is the same as no row.                  *)
(***************************************************************************)
EXTENDS Integers, Sequences, FiniteSetsExt

CONSTANTS
    Users, Cards,
    TradeIds,          \* bound: the trades there can ever be
    Terms,             \* the terms a member may put in a proposal or a counter
    Holdings,          \* what everyone owns at first: [Users -> [Cards -> Nat]]
    Coins,             \* and in coins: [Users -> Nat]
    PackCost,
    MaxCounterChain,   \* MAX_COUNTER_CHAIN
    MaxRequests,       \* bound: proposals, counters and voids in flight at once
    MaxPacks,          \* bound: packs opened, in all
    Suspendable,       \* bound: the members an administrator suspends
    None

TermsShape ==
    [offered : [Cards -> Nat], requested : [Cards -> Nat],
     currencyFromInitiator : Nat, currencyFromRecipient : Nat]

Trade == [initiator : Users, recipient : Users, terms : Terms, countered : TradeIds \cup {None}]
Closed == {"ACCEPTED", "DECLINED", "CANCELLED", "COUNTERED", "VOIDED"}
Statuses == {"PENDING"} \cup Closed

ASSUME TradesAssumption ==
    /\ IsFiniteSet(Cards)
    /\ Terms \subseteq TermsShape
    /\ \A t \in Terms, c \in Cards : t.offered[c] = 0 \/ t.requested[c] = 0
    /\ Holdings \in [Users -> [Cards -> Nat]]
    /\ Coins \in [Users -> Nat]
    /\ PackCost \in Nat
    /\ MaxCounterChain \in Nat \ {0}
    /\ None \notin TradeIds \cup Statuses \cup Trade

VARIABLES
    quantity, locked,   \* inventory_items, per member and card
    currency,           \* users.currency
    suspended,          \* users.suspendedAt is set
    trade,              \* the immutable part of a trades row and its items, or None
    status,             \* trades.status, or None
    ledger,             \* currency_transactions of type TRADE and TRADE_REVERSAL
    audit,              \* the audit rows of each trade, oldest first
    offers,             \* proposals and counters that passed their checks, not yet committed
    voids,              \* void requests that have loaded their trade
    suspending,         \* the members whose suspension is under way
    seen,               \* the PENDING trades it has seen in its snapshot
    opened              \* packs opened, per member and card

inventory == <<quantity, locked>>
requests  == <<offers, voids, suspending, seen>>
vars == <<inventory, currency, suspended, trade, status, ledger, audit, requests, opened>>

Offer == [by : Users, to : Users, terms : Terms, countered : TradeIds \cup {None}]
Actions == {"trade.propose", "trade.accept", "trade.decline", "trade.cancel", "trade.expire",
            "trade.counter", "trade.void"}

Init ==
    /\ quantity = Holdings
    /\ locked = [u \in Users |-> [c \in Cards |-> 0]]
    /\ currency = Coins
    /\ suspended = [u \in Users |-> FALSE]
    /\ trade = [t \in TradeIds |-> None]
    /\ status = [t \in TradeIds |-> None]
    /\ ledger = {}
    /\ audit = [t \in TradeIds |-> <<>>]
    /\ offers = {}
    /\ voids = {}
    /\ suspending = {}
    /\ seen = [u \in Users |-> {}]
    /\ opened = [u \in Users |-> [c \in Cards |-> 0]]

-----------------------------------------------------------------------------
(* What a trade would move.                                                *)

Party(t) == {trade[t].initiator, trade[t].recipient}

\* Copies of c, and coins, that settling t brings member u; what u gives counts negative.
CardGain(t, u, c) ==
    LET toRecipient == trade[t].terms.offered[c] - trade[t].terms.requested[c]
    IN  IF u = trade[t].recipient THEN toRecipient
        ELSE IF u = trade[t].initiator THEN 0 - toRecipient ELSE 0

CoinGain(t, u) ==
    LET toInitiator == trade[t].terms.currencyFromRecipient - trade[t].terms.currencyFromInitiator
    IN  IF u = trade[t].initiator THEN toInitiator
        ELSE IF u = trade[t].recipient THEN 0 - toInitiator ELSE 0

Available(u, c) == quantity[u][c] - locked[u][c]

Pending(t) == status[t] = "PENDING"

\* The PENDING trades of S that u initiated: their OFFERED lines are what u has locked.
Promised(u, S, c) ==
    LET promises == {t \in S : Pending(t) /\ trade[t].initiator = u}
    IN  SumFunction([t \in promises |-> trade[t].terms.offered[c]])

-----------------------------------------------------------------------------
(* InventoryService and TradeCloseService, inside a transaction.           *)

AuditRow(action, from, to) == [action |-> action, from |-> from, to |-> to]

\* TradeCloseService.close: guarded by the status it expects, and audited.
Close(t, from, to, action) ==
    /\ status[t] = from
    /\ status' = [status EXCEPT ![t] = to]
    /\ audit' = [audit EXCEPT ![t] = Append(@, AuditRow(action, from, to))]

\* InventoryService.lock: only available copies; no row to update is CARDS_UNAVAILABLE.
Lockable(u, lines) == \A c \in Cards : Available(u, c) >= lines[c]

\* InventoryService.release: fewer locked copies than the trade locked is a broken invariant, an
\* Error that rolls the transaction back.
Releasable(u, lines) == \A c \in Cards : locked[u][c] >= lines[c]

Lock(u, lines)    == [locked EXCEPT ![u] = [c \in Cards |-> @[c] + lines[c]]]
Release(u, lines) == [locked EXCEPT ![u] = [c \in Cards |-> @[c] - lines[c]]]

\* close with release: the way out of PENDING for decline, cancel, expiry and a void.
CloseAndRelease(t, to, action) ==
    /\ Close(t, "PENDING", to, action)
    /\ Releasable(trade[t].initiator, trade[t].terms.offered)
    /\ locked' = Release(trade[t].initiator, trade[t].terms.offered)

LedgerRow(u, type, t, n) == [userId |-> u, type |-> type, refId |-> t, amount |-> n]

\* Mutant of MoveCoins: a reversal is written to the ledger as a trade.
MoveCoinsAsTrade(t, direction, type) ==
    \/ /\ \A u \in Party(t) : CoinGain(t, u) = 0
       /\ UNCHANGED <<currency, ledger>>
    \/ /\ \E u \in Party(t) : CoinGain(t, u) # 0
       /\ \A u \in Party(t) : currency[u] + direction * CoinGain(t, u) >= 0
       /\ currency' = [u \in Users |-> currency[u] + direction * CoinGain(t, u)]
       /\ ledger' = ledger \cup {LedgerRow(u, "TRADE", t, direction * CoinGain(t, u)) : u \in Party(t)}

\* moveCoins: one net amount, nothing at all when it is zero; the payer's balance is guarded.
\* "direction" is 1 to settle and -1 to reverse.
MoveCoins(t, direction, type) ==
    \/ /\ \A u \in Party(t) : CoinGain(t, u) = 0
       /\ UNCHANGED <<currency, ledger>>
    \/ /\ \E u \in Party(t) : CoinGain(t, u) # 0
       /\ \A u \in Party(t) : currency[u] + direction * CoinGain(t, u) >= 0
       /\ currency' = [u \in Users |-> currency[u] + direction * CoinGain(t, u)]
       /\ ledger' = ledger \cup {LedgerRow(u, type, t, direction * CoinGain(t, u)) : u \in Party(t)}

\* applyMoves(cardMoves): the offered copies leave through their lock, the requested ones must
\* be available - the recipient promised nothing.
SettleCards(t) ==
    LET i == trade[t].initiator
        r == trade[t].recipient
    IN  /\ Releasable(i, trade[t].terms.offered)
        /\ Lockable(r, trade[t].terms.requested)
        /\ quantity' = [u \in Users |-> [c \in Cards |-> quantity[u][c] + CardGain(t, u, c)]]
        /\ locked' = Release(i, trade[t].terms.offered)

\* applyMoves(reverseMoves): both sides give back available copies only.
ReverseCards(t) ==
    LET i == trade[t].initiator
        r == trade[t].recipient
    IN  /\ Lockable(r, trade[t].terms.offered)
        /\ Lockable(i, trade[t].terms.requested)
        /\ quantity' = [u \in Users |-> [c \in Cards |-> quantity[u][c] - CardGain(t, u, c)]]
        /\ UNCHANGED locked

\* The recursive query of counter(): t and the trades it goes back to.
ChainLength(t) ==
    LET len[s \in {x \in TradeIds : trade[x] # None}] ==
            IF trade[s].countered = None THEN 1 ELSE 1 + len[trade[s].countered]
    IN  len[t]

\* trade.create in propose and counter, with the audit row that ends both.
Create(t, o) ==
    /\ trade[t] = None
    /\ trade' = [trade EXCEPT ![t] = [initiator |-> o.by, recipient |-> o.to, terms |-> o.terms,
                                      countered |-> o.countered]]

Born == AuditRow("trade.propose", None, "PENDING")

-----------------------------------------------------------------------------
(* Proposals and counter-offers: unlocked checks, then a transaction.      *)

Submit(o) ==
    /\ Cardinality(offers \cup voids) < MaxRequests
    /\ ~suspended[o.by]                                     \* SessionGuard
    /\ currency[o.by] >= o.terms.currencyFromInitiator      \* assertTerms
    /\ offers' = offers \cup {o}
    /\ UNCHANGED <<inventory, currency, suspended, trade, status, ledger, audit, voids,
                   suspending, seen, opened>>

\* propose(), up to its transaction.
ProposeCheck(u, v, terms) ==
    /\ u # v
    /\ ~suspended[v]
    /\ Submit([by |-> u, to |-> v, terms |-> terms, countered |-> None])

\* counter(), up to its transaction: whose trade it is never changes, so only the balance can
\* be stale.  Nobody's suspension is looked at.
CounterCheck(t, terms) ==
    /\ trade[t] # None
    /\ Submit([by |-> trade[t].recipient, to |-> trade[t].initiator, terms |-> terms,
               countered |-> t])

\* Mutants of ProposeCommit: copies already promised count as available; no lock is taken.
ProposeCommitOverPromising(o, t) ==
    /\ o \in offers /\ o.countered = None
    /\ Create(t, o)
    /\ \A c \in Cards : quantity[o.by][c] >= o.terms.offered[c]
    /\ locked' = Lock(o.by, o.terms.offered)
    /\ status' = [status EXCEPT ![t] = "PENDING"]
    /\ audit' = [audit EXCEPT ![t] = <<Born>>]
    /\ offers' = offers \ {o}
    /\ UNCHANGED <<quantity, currency, suspended, ledger, voids, suspending, seen, opened>>

ProposeCommitUnlocked(o, t) ==
    /\ o \in offers /\ o.countered = None
    /\ Create(t, o)
    /\ Lockable(o.by, o.terms.offered)
    /\ status' = [status EXCEPT ![t] = "PENDING"]
    /\ audit' = [audit EXCEPT ![t] = <<Born>>]
    /\ offers' = offers \ {o}
    /\ UNCHANGED <<inventory, currency, suspended, ledger, voids, suspending, seen, opened>>

ProposeCommit(o, t) ==
    /\ o \in offers /\ o.countered = None
    /\ Create(t, o)
    /\ Lockable(o.by, o.terms.offered)
    /\ locked' = Lock(o.by, o.terms.offered)
    /\ status' = [status EXCEPT ![t] = "PENDING"]
    /\ audit' = [audit EXCEPT ![t] = <<Born>>]
    /\ offers' = offers \ {o}
    /\ UNCHANGED <<quantity, currency, suspended, ledger, voids, suspending, seen, opened>>

\* The rest of counter()'s transaction, once the original may be closed.
Replace(o, t) ==
    LET old == o.countered
    IN  /\ Create(t, o)
        /\ Releasable(o.to, trade[old].terms.offered)
        /\ Lockable(o.by, o.terms.offered)
        /\ locked' = [u \in Users |->
                        IF u = o.by THEN Lock(o.by, o.terms.offered)[u]
                        ELSE Release(o.to, trade[old].terms.offered)[u]]
        /\ status' = [status EXCEPT ![old] = "COUNTERED", ![t] = "PENDING"]
        /\ audit' = [audit EXCEPT ![old] = Append(@, AuditRow("trade.counter", "PENDING", "COUNTERED")),
                                  ![t] = <<Born>>]
        /\ offers' = offers \ {o}
        /\ UNCHANGED <<quantity, currency, suspended, ledger, voids, suspending, seen, opened>>

\* Mutants of CounterCommit: the chain may grow one trade too long; the original is not guarded.
CounterCommitTooLong(o, t) ==
    /\ o \in offers /\ o.countered # None
    /\ Pending(o.countered)
    /\ ChainLength(o.countered) <= MaxCounterChain
    /\ Replace(o, t)

CounterCommitUnguarded(o, t) ==
    /\ o \in offers /\ o.countered # None
    /\ ChainLength(o.countered) < MaxCounterChain
    /\ Replace(o, t)

CounterCommit(o, t) ==
    /\ o \in offers /\ o.countered # None
    /\ Pending(o.countered)
    /\ ChainLength(o.countered) < MaxCounterChain
    /\ Replace(o, t)

\* The request is refused, fails or dies with its process: its transaction rolls back.
DropOffer(o) ==
    /\ o \in offers
    /\ offers' = offers \ {o}
    /\ UNCHANGED <<inventory, currency, suspended, trade, status, ledger, audit, voids,
                   suspending, seen, opened>>

-----------------------------------------------------------------------------
(* The recipient's and the initiator's answers, and the hourly job.        *)

\* decline(), cancel() and one trade of TradeExpiryService.run: a close with release.
CallOff(t, to, action) ==
    /\ CloseAndRelease(t, to, action)
    /\ UNCHANGED <<quantity, currency, suspended, trade, ledger, requests, opened>>

Decline(t) == CallOff(t, "DECLINED", "trade.decline")
Cancel(t)  == CallOff(t, "CANCELLED", "trade.cancel")
Expire(t)  == CallOff(t, "CANCELLED", "trade.expire")

\* Mutant of Accept: the copies move, the lock that guarded them stays behind.
AcceptKeepingLock(t) ==
    /\ Close(t, "PENDING", "ACCEPTED", "trade.accept")
    /\ MoveCoins(t, 1, "TRADE")
    /\ Lockable(trade[t].recipient, trade[t].terms.requested)
    /\ quantity' = [u \in Users |-> [c \in Cards |-> quantity[u][c] + CardGain(t, u, c)]]
    /\ UNCHANGED <<locked, suspended, trade, requests, opened>>

\* accept(): close without release, then settle - coins before cards.
Accept(t) ==
    /\ Close(t, "PENDING", "ACCEPTED", "trade.accept")
    /\ MoveCoins(t, 1, "TRADE")
    /\ SettleCards(t)
    /\ UNCHANGED <<suspended, trade, requests, opened>>

-----------------------------------------------------------------------------
(* Administrators: voiding a trade, suspending an account.                 *)

\* voidTrade() loads the trade before its transaction and branches on what it saw.
VoidLoad(t) ==
    /\ trade[t] # None
    /\ Cardinality(offers \cup voids) < MaxRequests
    /\ voids' = voids \cup {[trade |-> t, saw |-> status[t]]}
    /\ UNCHANGED <<inventory, currency, suspended, trade, status, ledger, audit, offers,
                   suspending, seen, opened>>

\* Mutants of VoidCommit: a reversal that leaves the coins where they went; a void that closes
\* the trade whatever became of it since it was loaded.
VoidCommitCardsOnly(v) ==
    /\ v \in voids
    /\ voids' = voids \ {v}
    /\ \/ /\ v.saw = "ACCEPTED"
          /\ Close(v.trade, "ACCEPTED", "VOIDED", "trade.void")
          /\ ReverseCards(v.trade)
          /\ UNCHANGED <<currency, ledger>>
       \/ /\ v.saw # "ACCEPTED"
          /\ CloseAndRelease(v.trade, "VOIDED", "trade.void")
          /\ UNCHANGED <<quantity, currency, ledger>>
    /\ UNCHANGED <<suspended, trade, offers, suspending, seen, opened>>

VoidCommitAnyStatus(v) ==
    /\ v \in voids
    /\ voids' = voids \ {v}
    /\ v.saw = "PENDING"
    /\ Close(v.trade, status[v.trade], "VOIDED", "trade.void")
    /\ Releasable(trade[v.trade].initiator, trade[v.trade].terms.offered)
    /\ locked' = Release(trade[v.trade].initiator, trade[v.trade].terms.offered)
    /\ UNCHANGED <<quantity, currency, ledger, suspended, trade, offers, suspending, seen, opened>>

\* voidIn(): an ACCEPTED trade's swap is reversed, or the whole void is refused; any other is
\* closed as PENDING - or refused, when it no longer is.
VoidCommit(v) ==
    /\ v \in voids
    /\ voids' = voids \ {v}
    /\ \/ /\ v.saw = "ACCEPTED"
          /\ Close(v.trade, "ACCEPTED", "VOIDED", "trade.void")
          /\ MoveCoins(v.trade, -1, "TRADE_REVERSAL")
          /\ ReverseCards(v.trade)
       \/ /\ v.saw # "ACCEPTED"
          /\ CloseAndRelease(v.trade, "VOIDED", "trade.void")
          /\ UNCHANGED <<quantity, currency, ledger>>
    /\ UNCHANGED <<suspended, trade, offers, suspending, seen, opened>>

DropVoid(v) ==
    /\ v \in voids
    /\ voids' = voids \ {v}
    /\ UNCHANGED <<inventory, currency, suspended, trade, status, ledger, audit, offers,
                   suspending, seen, opened>>

\* suspend(): the target is not suspended, and the UPDATE of voidAllPendingOf takes its snapshot.
SuspendBegin(u) ==
    /\ u \in Suspendable /\ ~suspended[u] /\ u \notin suspending
    /\ suspending' = suspending \cup {u}
    /\ seen' = [seen EXCEPT ![u] = {t \in TradeIds : Pending(t) /\ u \in Party(t)}]
    /\ UNCHANGED <<inventory, currency, suspended, trade, status, ledger, audit, offers, voids,
                   opened>>

EndSuspension(u) ==
    /\ suspending' = suspending \ {u}
    /\ seen' = [seen EXCEPT ![u] = {}]

\* suspend(), from its row locks on: "closing" is voided, the locks it gives back are released in
\* one go per initiator, then the account is suspended.
SuspendVoiding(u, closing) ==
    /\ u \in suspending /\ ~suspended[u]
    /\ \A w \in Users, c \in Cards : Promised(w, closing, c) \in 0 .. locked[w][c]
    /\ locked' = [w \in Users |-> [c \in Cards |-> locked[w][c] - Promised(w, closing, c)]]
    /\ status' = [t \in TradeIds |-> IF t \in closing THEN "VOIDED" ELSE status[t]]
    /\ audit' = [t \in TradeIds |->
                    IF t \in closing
                    THEN Append(audit[t], AuditRow("trade.void", "PENDING", "VOIDED"))
                    ELSE audit[t]]
    /\ suspended' = [suspended EXCEPT ![u] = TRUE]
    /\ EndSuspension(u)
    /\ UNCHANGED <<quantity, currency, trade, ledger, offers, voids, opened>>

\* The trades of the snapshot that are still PENDING once their rows are locked are voided.
SuspendCommit(u) == SuspendVoiding(u, {t \in seen[u] : Pending(t)})

\* The last-admin rule, a lost race or a timeout: everything rolls back.
SuspendFail(u) ==
    /\ u \in suspending
    /\ EndSuspension(u)
    /\ UNCHANGED <<inventory, currency, suspended, trade, status, ledger, audit, offers, voids,
                   opened>>

Unsuspend(u) ==
    /\ suspended[u]
    /\ suspended' = [suspended EXCEPT ![u] = FALSE]
    /\ UNCHANGED <<inventory, currency, trade, status, ledger, audit, requests, opened>>

\* A pack is opened (module PackOpening): coins go and copies come outside any trade.
OpenPack(u, c) ==
    /\ SumFunction([w \in Users |-> SumFunction(opened[w])]) < MaxPacks
    /\ currency[u] >= PackCost
    /\ currency' = [currency EXCEPT ![u] = @ - PackCost]
    /\ quantity' = [quantity EXCEPT ![u][c] = @ + 1]
    /\ opened' = [opened EXCEPT ![u][c] = @ + 1]
    /\ UNCHANGED <<locked, suspended, trade, status, ledger, audit, requests>>

Next ==
    \/ \E u, v \in Users, terms \in Terms : ProposeCheck(u, v, terms)
    \/ \E t \in TradeIds, terms \in Terms : CounterCheck(t, terms)
    \/ \E o \in offers : DropOffer(o) \/ \E t \in TradeIds : ProposeCommit(o, t) \/ CounterCommit(o, t)
    \/ \E t \in TradeIds : Decline(t) \/ Cancel(t) \/ Expire(t) \/ Accept(t) \/ VoidLoad(t)
    \/ \E v \in voids : VoidCommit(v) \/ DropVoid(v)
    \/ \E u \in Users : SuspendBegin(u) \/ SuspendCommit(u) \/ SuspendFail(u) \/ Unsuspend(u)
    \/ \E u \in Users, c \in Cards : OpenPack(u, c)

Spec == Init /\ [][Next]_vars

\* The hourly expiry job attempts every PENDING trade past its age, each in its own transaction.
FairSpec == Spec /\ \A t \in TradeIds : WF_vars(Expire(t))

-----------------------------------------------------------------------------
(* Properties.                                                             *)

\* Type invariant, with the CHECK constraints of the schema: no statement ever meets one.
TypeOK ==
    /\ quantity \in [Users -> [Cards -> Nat]]
    /\ locked \in [Users -> [Cards -> Nat]]
    /\ \A u \in Users, c \in Cards : locked[u][c] <= quantity[u][c]
    /\ currency \in [Users -> Nat]
    /\ suspended \in [Users -> BOOLEAN]
    /\ trade \in [TradeIds -> Trade \cup {None}]
    /\ status \in [TradeIds -> Statuses \cup {None}]
    /\ ledger \subseteq [userId : Users, type : {"TRADE", "TRADE_REVERSAL"}, refId : TradeIds,
                         amount : Int]
    /\ audit \in [TradeIds -> Seq([action : Actions, from : Statuses \cup {None}, to : Statuses])]
    /\ offers \subseteq Offer
    /\ voids \subseteq [trade : TradeIds, saw : Statuses]
    /\ suspending \subseteq Users
    /\ seen \in [Users -> SUBSET TradeIds]
    /\ opened \in [Users -> [Cards -> Nat]]

\* The lock invariant of the data model, which the expiry job reconciles: what a member has
\* locked is what their PENDING trades offer, card by card.
LocksArePromises ==
    \A u \in Users, c \in Cards : locked[u][c] = Promised(u, TradeIds, c)

InForce == {t \in TradeIds : status[t] = "ACCEPTED"}

\* Everybody owns what they started with, what their packs brought and what the ACCEPTED trades
\* moved - cards and coins: nothing is created, lost, moved twice or half reversed.
HoldingsAreExplained ==
    \A u \in Users :
        /\ \A c \in Cards :
              quantity[u][c] = Holdings[u][c] + opened[u][c]
                                 + SumFunction([t \in InForce |-> CardGain(t, u, c)])
        /\ currency[u] = Coins[u] - PackCost * SumFunction(opened[u])
                           + SumFunction([t \in InForce |-> CoinGain(t, u)])

Rows(t, type) == {e \in ledger : e.refId = t /\ e.type = type}

WasAccepted(t) == \E i \in DOMAIN audit[t] : audit[t][i].to = "ACCEPTED"

\* The ledger and the audit log tell the same story: a trade that was accepted has its two TRADE
\* rows, one that was voided after that has the two rows that undo them, any other has none.
LedgerMatchesAudit ==
    \A t \in TradeIds :
        LET moved(direction) == {u \in Party(t) : direction # 0 /\ CoinGain(t, u) # 0}
            expected(type, direction) ==
                {LedgerRow(u, type, t, direction * CoinGain(t, u)) : u \in moved(direction)}
        IN  IF trade[t] = None \/ ~WasAccepted(t)
            THEN Rows(t, "TRADE") \cup Rows(t, "TRADE_REVERSAL") = {}
            ELSE /\ Rows(t, "TRADE") = expected("TRADE", 1)
                 /\ Rows(t, "TRADE_REVERSAL") =
                        expected("TRADE_REVERSAL", IF status[t] = "VOIDED" THEN -1 ELSE 0)

\* A trade's audit rows lead, each from where the last one ended, from nothing to its status.
AuditTellsTheStory ==
    \A t \in TradeIds :
        LET rows == audit[t]
        IN  IF status[t] = None
            THEN rows = <<>>
            ELSE /\ rows # <<>> /\ rows[1].from = None /\ rows[Len(rows)].to = status[t]
                 /\ \A i \in 2 .. Len(rows) : rows[i].from = rows[i - 1].to

Replacing(t) == {s \in TradeIds : trade[s] # None /\ trade[s].countered = t}

\* A trade is COUNTERED exactly when one trade replaces it, between the same two members with
\* the sides swapped: racing counters, answers and voids never fork a negotiation.
CounteredTradesAreReplacedOnce ==
    \A t \in TradeIds : trade[t] # None =>
        /\ status[t] = "COUNTERED" => Cardinality(Replacing(t)) = 1
        /\ status[t] # "COUNTERED" => Replacing(t) = {}
        /\ \A s \in Replacing(t) : /\ trade[s].initiator = trade[t].recipient
                                  /\ trade[s].recipient = trade[t].initiator

\* No negotiation outgrows MAX_COUNTER_CHAIN, though the length is counted in one transaction
\* and other counters commit around it.
NegotiationsAreBounded ==
    \A t \in TradeIds : trade[t] # None => ChainLength(t) <= MaxCounterChain

\* Both, for a run.
NegotiationsAreSound == CounteredTradesAreReplacedOnce /\ NegotiationsAreBounded

\* A closed trade stays closed - only a settled one can still be voided - and its terms are
\* never touched, however many answers, voids and jobs were looking at it.
ClosedTradesStayClosed ==
    [][\A t \in TradeIds :
          /\ trade[t] # None => trade'[t] = trade[t]
          /\ status[t] \in Closed => \/ status'[t] = status[t]
                                     \/ status[t] = "ACCEPTED" /\ status'[t] = "VOIDED"]_vars

\* No lock is forever: the job's release never fails, so every PENDING trade is closed.
EveryTradeCloses == \A t \in TradeIds : Pending(t) ~> status[t] \in Closed

\* What docs/API.md says of a suspension: every PENDING trade on either side of which the member
\* stands is voided by it.  Here for the trades offered TO the member, which the boundary the same
\* page accepts does not mention: voidAllPendingOf works from a snapshot, and may miss one.
SuspensionVoidsOffersToTheMember ==
    [][\A u \in Users : ~suspended[u] /\ suspended'[u] =>
          \A t \in TradeIds : status'[t] = "PENDING" => trade[t].recipient # u]_vars
=============================================================================
