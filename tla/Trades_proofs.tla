---------------------------- MODULE Trades_proofs ----------------------------
(***************************************************************************)
(* Theorems about Trades, for any members, cards, terms and bounds: the    *)
(* CHECK constraints of the schema are never met, a closed trade stays     *)
(* closed, the audit log tells every trade's story; what members have      *)
(* locked is what their PENDING trades promise, what they own is explained *)
(* by packs and by the trades in force, the ledger tells what the audit    *)
(* log tells, and no negotiation forks or outgrows its bound.              *)
(***************************************************************************)
EXTENDS Trades, SumTheorems

Holding == [Users -> [Cards -> Nat]]
Row == [action : Actions, from : Statuses \cup {None}, to : Statuses]

\* The parts of TypeOK that a step changes together.
InventoryOK ==
    /\ quantity \in Holding
    /\ locked \in Holding
    /\ \A u \in Users, c \in Cards : locked[u][c] <= quantity[u][c]

MoneyOK ==
    /\ currency \in [Users -> Nat]
    /\ ledger \subseteq [userId : Users, type : {"TRADE", "TRADE_REVERSAL"}, refId : TradeIds,
                         amount : Int]

\* A trade has a status once it exists; nobody trades with themselves.
TradesOK ==
    /\ trade \in [TradeIds -> Trade \cup {None}]
    /\ status \in [TradeIds -> Statuses \cup {None}]
    /\ audit \in [TradeIds -> Seq(Row)]
    /\ \A t \in TradeIds : /\ status[t] = None <=> trade[t] = None
                           /\ trade[t] # None => trade[t].initiator # trade[t].recipient

RequestsOK ==
    /\ offers \subseteq Offer
    /\ \A o \in offers : o.by # o.to
    /\ voids \subseteq [trade : TradeIds, saw : Statuses]
    /\ suspending \subseteq Users
    /\ seen \in [Users -> SUBSET TradeIds]

\* The inductive invariant.
TradeInv ==
    /\ InventoryOK /\ MoneyOK /\ TradesOK /\ RequestsOK
    /\ suspended \in [Users -> BOOLEAN]
    /\ opened \in Holding

LEMMA InvTypes == TradeInv => TypeOK
  BY DEF TradeInv, InventoryOK, MoneyOK, TradesOK, RequestsOK, TypeOK, Holding, Row

-----------------------------------------------------------------------------
(* What the parts of a transaction preserve.                               *)

\* A trade that has a status has parties and terms.
LEMMA TradeExists ==
    ASSUME TradesOK, NEW t \in TradeIds, status[t] # None
    PROVE  /\ trade[t] \in Trade
           /\ trade[t].initiator \in Users /\ trade[t].recipient \in Users
           /\ trade[t].initiator # trade[t].recipient
           /\ trade[t].terms \in Terms /\ trade[t].terms \in TermsShape
           /\ trade[t].terms.offered \in [Cards -> Nat]
           /\ trade[t].terms.requested \in [Cards -> Nat]
           /\ trade[t].terms.currencyFromInitiator \in Nat
           /\ trade[t].terms.currencyFromRecipient \in Nat
  <1>1. trade[t] \in Trade /\ trade[t].initiator # trade[t].recipient
    BY DEF TradesOK
  <1>2. trade[t].terms \in Terms /\ trade[t].initiator \in Users /\ trade[t].recipient \in Users
    BY <1>1 DEF Trade
  <1>3. trade[t].terms \in TermsShape
    BY <1>2, TradesAssumption
  <1> QED
    BY <1>1, <1>2, <1>3 DEF TermsShape

LEMMA CloseTypes ==
    ASSUME TradesOK, NEW t \in TradeIds, NEW from \in Statuses, NEW to \in Statuses,
           NEW action \in Actions, Close(t, from, to, action), UNCHANGED trade
    PROVE  TradesOK'
  <1>1. /\ status[t] = from
        /\ status' = [status EXCEPT ![t] = to]
        /\ audit' = [audit EXCEPT ![t] = Append(@, AuditRow(action, from, to))]
    BY DEF Close
  <1>2. from # None /\ to # None
    BY TradesAssumption
  <1>3. AuditRow(action, from, to) \in Row
    BY DEF AuditRow, Row
  <1>4. audit' \in [TradeIds -> Seq(Row)]
    <2>1. audit[t] \in Seq(Row)
      BY DEF TradesOK
    <2>2. Append(audit[t], AuditRow(action, from, to)) \in Seq(Row)
      BY <1>3, <2>1
    <2> QED
      BY <1>1, <2>2 DEF TradesOK
  <1>5. status' \in [TradeIds -> Statuses \cup {None}]
    BY <1>1 DEF TradesOK
  <1>6. \A s \in TradeIds : status'[s] = None <=> status[s] = None
    BY <1>1, <1>2 DEF TradesOK
  <1> QED
    BY <1>4, <1>5, <1>6 DEF TradesOK

\* Copies that are given back were locked, so no more are locked than owned.
LEMMA ReleaseTypes ==
    ASSUME InventoryOK, NEW u \in Users, NEW lines \in [Cards -> Nat],
           Releasable(u, lines), locked' = Release(u, lines), UNCHANGED quantity
    PROVE  InventoryOK'
  <1>1. locked' = [locked EXCEPT ![u] = [c \in Cards |-> locked[u][c] - lines[c]]]
    BY DEF Release, InventoryOK, Holding
  <1>2. \A c \in Cards : locked[u][c] - lines[c] \in Nat /\ locked[u][c] - lines[c] <= quantity[u][c]
    BY DEF Releasable, InventoryOK, Holding
  <1>3. locked' \in Holding
    BY <1>1, <1>2 DEF InventoryOK, Holding
  <1> QED
    BY <1>1, <1>2, <1>3 DEF InventoryOK, Holding

\* Only available copies are locked.
LEMMA LockTypes ==
    ASSUME InventoryOK, NEW u \in Users, NEW lines \in [Cards -> Nat],
           Lockable(u, lines), locked' = Lock(u, lines), UNCHANGED quantity
    PROVE  InventoryOK'
  <1>1. locked' = [locked EXCEPT ![u] = [c \in Cards |-> locked[u][c] + lines[c]]]
    BY DEF Lock, InventoryOK, Holding
  <1>2. \A c \in Cards : locked[u][c] + lines[c] \in Nat /\ locked[u][c] + lines[c] <= quantity[u][c]
    BY DEF Lockable, Available, InventoryOK, Holding
  <1>3. locked' \in Holding
    BY <1>1, <1>2 DEF InventoryOK, Holding
  <1> QED
    BY <1>1, <1>2, <1>3 DEF InventoryOK, Holding

\* What the cards of a trade move, side by side.
LEMMA CardGainValue ==
    ASSUME TradesOK, NEW t \in TradeIds, status[t] # None, NEW u \in Users, NEW c \in Cards
    PROVE  /\ u = trade[t].recipient =>
                CardGain(t, u, c) = trade[t].terms.offered[c] - trade[t].terms.requested[c]
           /\ u = trade[t].initiator =>
                CardGain(t, u, c) = trade[t].terms.requested[c] - trade[t].terms.offered[c]
           /\ u \notin {trade[t].initiator, trade[t].recipient} => CardGain(t, u, c) = 0
  BY TradeExists DEF CardGain

\* Settling a trade: what leaves through its lock was locked, what leaves otherwise was available.
LEMMA SettleTypes ==
    ASSUME TradesOK, InventoryOK, NEW t \in TradeIds, status[t] # None, SettleCards(t)
    PROVE  InventoryOK'
  <1> DEFINE i == trade[t].initiator
             r == trade[t].recipient
             off == trade[t].terms.offered
             req == trade[t].terms.requested
  <1>0. i \in Users /\ r \in Users /\ i # r /\ off \in [Cards -> Nat] /\ req \in [Cards -> Nat]
    BY TradeExists
  <1>1. /\ Releasable(i, off) /\ Lockable(r, req)
        /\ quantity' = [u \in Users |-> [c \in Cards |-> quantity[u][c] + CardGain(t, u, c)]]
        /\ locked' = Release(i, off)
    BY DEF SettleCards
  <1>2. locked' = [locked EXCEPT ![i] = [c \in Cards |-> locked[i][c] - off[c]]]
    BY <1>0, <1>1 DEF Release, InventoryOK, Holding
  <1>3. ASSUME NEW u \in Users, NEW c \in Cards
        PROVE  /\ quantity'[u][c] \in Nat /\ locked'[u][c] \in Nat
               /\ locked'[u][c] <= quantity'[u][c]
    <2>0. /\ quantity[u][c] \in Nat /\ locked[u][c] \in Nat /\ locked[u][c] <= quantity[u][c]
          /\ off[c] \in Nat /\ req[c] \in Nat
          /\ quantity'[u][c] = quantity[u][c] + CardGain(t, u, c)
      BY <1>0, <1>1, <1>3 DEF InventoryOK, Holding
    <2>1. CASE u = i
      <3>1. locked'[u][c] = locked[u][c] - off[c] /\ locked[u][c] >= off[c]
        BY <1>0, <1>1, <1>2, <2>1 DEF Releasable, InventoryOK, Holding
      <3>2. CardGain(t, u, c) = req[c] - off[c]
        BY <2>1, CardGainValue
      <3> QED
        BY <2>0, <3>1, <3>2
    <2>2. CASE u = r
      <3>1. locked'[u][c] = locked[u][c] /\ quantity[u][c] - locked[u][c] >= req[c]
        BY <1>0, <1>1, <1>2, <2>2 DEF Lockable, Available, InventoryOK, Holding
      <3>2. CardGain(t, u, c) = off[c] - req[c]
        BY <2>2, CardGainValue
      <3> QED
        BY <2>0, <3>1, <3>2
    <2>3. CASE u \notin {i, r}
      <3>1. locked'[u][c] = locked[u][c]
        BY <1>2, <2>3 DEF InventoryOK, Holding
      <3>2. CardGain(t, u, c) = 0
        BY <2>3, CardGainValue
      <3> QED
        BY <2>0, <3>1, <3>2
    <2> QED
      BY <2>1, <2>2, <2>3
  <1>4. quantity' \in Holding
    BY <1>1, <1>3 DEF Holding
  <1>5. locked' \in Holding
    BY <1>2, <1>3 DEF Holding, InventoryOK
  <1> QED
    BY <1>3, <1>4, <1>5 DEF InventoryOK

\* Reversing one: both sides give back available copies.
LEMMA ReverseTypes ==
    ASSUME TradesOK, InventoryOK, NEW t \in TradeIds, status[t] # None, ReverseCards(t)
    PROVE  InventoryOK'
  <1> DEFINE i == trade[t].initiator
             r == trade[t].recipient
             off == trade[t].terms.offered
             req == trade[t].terms.requested
  <1>0. i \in Users /\ r \in Users /\ i # r /\ off \in [Cards -> Nat] /\ req \in [Cards -> Nat]
    BY TradeExists
  <1>1. /\ Lockable(r, off) /\ Lockable(i, req)
        /\ quantity' = [u \in Users |-> [c \in Cards |-> quantity[u][c] - CardGain(t, u, c)]]
        /\ locked' = locked
    BY DEF ReverseCards
  <1>3. ASSUME NEW u \in Users, NEW c \in Cards
        PROVE  quantity'[u][c] \in Nat /\ locked[u][c] <= quantity'[u][c]
    <2>0. /\ quantity[u][c] \in Nat /\ locked[u][c] \in Nat /\ locked[u][c] <= quantity[u][c]
          /\ off[c] \in Nat /\ req[c] \in Nat
          /\ quantity'[u][c] = quantity[u][c] - CardGain(t, u, c)
      BY <1>0, <1>1, <1>3 DEF InventoryOK, Holding
    <2>1. CASE u = i
      <3>1. quantity[u][c] - locked[u][c] >= req[c]
        BY <1>1, <2>1 DEF Lockable, Available
      <3>2. CardGain(t, u, c) = req[c] - off[c]
        BY <2>1, CardGainValue
      <3> QED
        BY <2>0, <3>1, <3>2
    <2>2. CASE u = r
      <3>1. quantity[u][c] - locked[u][c] >= off[c]
        BY <1>1, <2>2 DEF Lockable, Available
      <3>2. CardGain(t, u, c) = off[c] - req[c]
        BY <2>2, CardGainValue
      <3> QED
        BY <2>0, <3>1, <3>2
    <2>3. CASE u \notin {i, r}
      BY <2>0, <2>3, CardGainValue
    <2> QED
      BY <2>1, <2>2, <2>3
  <1>4. quantity' \in Holding
    BY <1>1, <1>3 DEF Holding
  <1> QED
    BY <1>1, <1>3, <1>4 DEF InventoryOK

LEMMA CoinGainType ==
    ASSUME TradesOK, NEW t \in TradeIds, status[t] # None, NEW u \in Users
    PROVE  CoinGain(t, u) \in Int /\ (u \notin Party(t) => CoinGain(t, u) = 0)
  BY TradeExists DEF CoinGain, Party

\* The payer's balance is guarded.
LEMMA MoveCoinsTypes ==
    ASSUME TradesOK, MoneyOK, NEW t \in TradeIds, status[t] # None, NEW direction \in {1, -1},
           NEW type \in {"TRADE", "TRADE_REVERSAL"}, MoveCoins(t, direction, type)
    PROVE  MoneyOK'
  <1>1. CASE UNCHANGED <<currency, ledger>>
    BY <1>1 DEF MoneyOK
  <1>2. CASE /\ \A u \in Party(t) : currency[u] + direction * CoinGain(t, u) >= 0
             /\ currency' = [u \in Users |-> currency[u] + direction * CoinGain(t, u)]
             /\ ledger' = ledger \cup {LedgerRow(u, type, t, direction * CoinGain(t, u)) : u \in Party(t)}
    <2>1. ASSUME NEW u \in Users PROVE direction * CoinGain(t, u) \in Int
      <3>1. CoinGain(t, u) \in Int
        BY <2>1, CoinGainType
      <3>2. CASE direction = 1
        BY <3>1, <3>2
      <3>3. CASE direction = -1
        BY <3>1, <3>3
      <3> QED
        BY <3>2, <3>3
    <2>2. ASSUME NEW u \in Users PROVE currency[u] + direction * CoinGain(t, u) \in Nat
      <3>1. currency[u] \in Nat
        BY DEF MoneyOK
      <3>2. CASE u \in Party(t)
        BY <1>2, <2>1, <3>1, <3>2
      <3>3. CASE u \notin Party(t)
        <4>1. CoinGain(t, u) = 0
          BY <3>3, CoinGainType
        <4>2. direction * CoinGain(t, u) = 0
          BY <4>1
        <4> QED
          BY <3>1, <4>2
      <3> QED
        BY <3>2, <3>3
    <2>3. currency' \in [Users -> Nat]
      BY <1>2, <2>2
    <2>4. Party(t) \subseteq Users
      BY TradeExists DEF Party
    <2>5. \A u \in Party(t) : LedgerRow(u, type, t, direction * CoinGain(t, u)) \in
              [userId : Users, type : {"TRADE", "TRADE_REVERSAL"}, refId : TradeIds, amount : Int]
      BY <2>1, <2>4 DEF LedgerRow
    <2> QED
      BY <1>2, <2>3, <2>5 DEF MoneyOK
  <1> QED
    BY <1>1, <1>2 DEF MoveCoins
-----------------------------------------------------------------------------
(* The inductive invariant, action by action.                              *)

LEMMA InvInit == Init => TradeInv
  <1> SUFFICES ASSUME Init PROVE TradeInv
    OBVIOUS
  <1>1. InventoryOK
    BY TradesAssumption DEF Init, InventoryOK, Holding
  <1>2. MoneyOK
    BY TradesAssumption DEF Init, MoneyOK
  <1>3. TradesOK
    BY DEF Init, TradesOK
  <1>4. RequestsOK
    BY DEF Init, RequestsOK
  <1>5. suspended \in [Users -> BOOLEAN] /\ opened \in Holding
    BY DEF Init, Holding
  <1> QED
    BY <1>1, <1>2, <1>3, <1>4, <1>5 DEF TradeInv

\* A trade is born PENDING, with its audit row.
LEMMA BirthTypes ==
    ASSUME TradesOK, NEW t \in TradeIds, NEW o \in Offer, o.by # o.to, Create(t, o),
           status' = [status EXCEPT ![t] = "PENDING"], audit' = [audit EXCEPT ![t] = <<Born>>]
    PROVE  TradesOK'
  <1> DEFINE new == [initiator |-> o.by, recipient |-> o.to, terms |-> o.terms, countered |-> o.countered]
  <1>1. trade' = [trade EXCEPT ![t] = new] /\ trade[t] = None
    BY DEF Create
  <1>2. new \in Trade /\ new # None
    BY TradesAssumption DEF Offer, Trade
  <1>3. "PENDING" \in Statuses /\ "PENDING" # None
    BY TradesAssumption DEF Statuses
  <1>4. <<Born>> \in Seq(Row)
    <2>1. Born \in Row
      BY <1>3 DEF Born, AuditRow, Row, Actions
    <2> QED
      BY <2>1
  <1>5. trade' \in [TradeIds -> Trade \cup {None}] /\ status' \in [TradeIds -> Statuses \cup {None}]
    BY <1>1, <1>2, <1>3 DEF TradesOK
  <1>6. audit' \in [TradeIds -> Seq(Row)]
    BY <1>4 DEF TradesOK
  <1>7. ASSUME NEW s \in TradeIds
        PROVE  /\ status'[s] = None <=> trade'[s] = None
               /\ trade'[s] # None => trade'[s].initiator # trade'[s].recipient
    <2>1. CASE s = t
      BY <1>1, <1>2, <1>3, <2>1 DEF TradesOK
    <2>2. CASE s # t
      BY <1>1, <2>2 DEF TradesOK
    <2> QED
      BY <2>1, <2>2
  <1> QED
    BY <1>5, <1>6, <1>7 DEF TradesOK

\* A counter-offer takes the place of the trade it answers.
LEMMA ReplaceTypes ==
    ASSUME TradesOK, InventoryOK, NEW t \in TradeIds, NEW o \in Offer, o.by # o.to,
           o.countered \in TradeIds, status[o.countered] = "PENDING", Replace(o, t)
    PROVE  TradesOK' /\ InventoryOK' /\ t # o.countered
  <1> DEFINE old == o.countered
             new == [initiator |-> o.by, recipient |-> o.to, terms |-> o.terms, countered |-> old]
             give == trade[old].terms.offered
             take == o.terms.offered
  <1>0. status[old] # None /\ "PENDING" # None /\ "COUNTERED" # None
    BY TradesAssumption DEF Statuses, Closed
  <1>1. /\ trade' = [trade EXCEPT ![t] = new] /\ trade[t] = None
        /\ Releasable(o.to, give) /\ Lockable(o.by, take)
        /\ locked' = [u \in Users |-> IF u = o.by THEN Lock(o.by, take)[u] ELSE Release(o.to, give)[u]]
        /\ status' = [status EXCEPT ![old] = "COUNTERED", ![t] = "PENDING"]
        /\ audit' = [audit EXCEPT ![old] = Append(@, AuditRow("trade.counter", "PENDING", "COUNTERED")),
                                  ![t] = <<Born>>]
        /\ UNCHANGED quantity
    BY DEF Replace, Create
  <1>2. trade[old] # None /\ t # old
    BY <1>0, <1>1 DEF TradesOK
  <1>3. o.by \in Users /\ o.to \in Users /\ o.terms \in Terms /\ new \in Trade /\ new # None
    BY TradesAssumption DEF Offer, Trade
  <1>4. give \in [Cards -> Nat] /\ take \in [Cards -> Nat]
    BY <1>0, <1>3, TradeExists, TradesAssumption DEF TermsShape
  <1>5. InventoryOK'
    <2>1. ASSUME NEW u \in Users, NEW c \in Cards
          PROVE  locked'[u][c] \in Nat /\ locked'[u][c] <= quantity[u][c]
      <3>0. /\ quantity[u][c] \in Nat /\ locked[u][c] \in Nat /\ locked[u][c] <= quantity[u][c]
            /\ give[c] \in Nat /\ take[c] \in Nat
        BY <1>4, <2>1 DEF InventoryOK, Holding
      <3>1. CASE u = o.by
        <4>1. locked'[u] = [d \in Cards |-> locked[u][d] + take[d]]
          BY <1>1, <1>3, <3>1 DEF Lock, InventoryOK, Holding
        <4>2. quantity[u][c] - locked[u][c] >= take[c]
          BY <1>1, <3>1 DEF Lockable, Available
        <4> QED
          BY <3>0, <4>1, <4>2
      <3>2. CASE u = o.to
        <4>1. locked'[u] = [d \in Cards |-> locked[u][d] - give[d]]
          BY <1>1, <1>3, <3>2 DEF Release, InventoryOK, Holding
        <4>2. locked[u][c] >= give[c]
          BY <1>1, <3>2 DEF Releasable
        <4> QED
          BY <3>0, <4>1, <4>2
      <3>3. CASE u \notin {o.by, o.to}
        <4>1. locked'[u] = locked[u]
          BY <1>1, <1>3, <3>3 DEF Release, InventoryOK, Holding
        <4> QED
          BY <3>0, <4>1
      <3> QED
        BY <3>1, <3>2, <3>3
    <2>2. ASSUME NEW u \in Users PROVE locked'[u] \in [Cards -> Nat]
      <3>1. Lock(o.by, take)[o.by] = [d \in Cards |-> locked[o.by][d] + take[d]]
        BY <1>3 DEF Lock, InventoryOK, Holding
      <3>2. Release(o.to, give)[u] =
                IF u = o.to THEN [d \in Cards |-> locked[u][d] - give[d]] ELSE locked[u]
        BY <1>3 DEF Release, InventoryOK, Holding
      <3>3. locked[u] \in [Cards -> Nat]
        BY DEF InventoryOK, Holding
      <3>4. locked'[u] = IF u = o.by THEN [d \in Cards |-> locked[u][d] + take[d]]
                         ELSE IF u = o.to THEN [d \in Cards |-> locked[u][d] - give[d]] ELSE locked[u]
        BY <1>1, <3>1, <3>2
      <3> QED
        BY <2>1, <3>3, <3>4
    <2>3. locked' \in Holding
      BY <1>1, <2>2 DEF Holding
    <2> QED
      BY <1>1, <2>1, <2>3 DEF InventoryOK
  <1>6. TradesOK'
    <2>1. trade' \in [TradeIds -> Trade \cup {None}]
      BY <1>1, <1>3 DEF TradesOK
    <2>2. status' \in [TradeIds -> Statuses \cup {None}]
      BY <1>1 DEF TradesOK, Statuses, Closed
    <2>3. audit' \in [TradeIds -> Seq(Row)]
      <3>1. Born \in Row /\ AuditRow("trade.counter", "PENDING", "COUNTERED") \in Row
        BY DEF Born, AuditRow, Row, Actions, Statuses, Closed
      <3>2. audit[old] \in Seq(Row) /\ <<Born>> \in Seq(Row)
        BY <3>1 DEF TradesOK
      <3>3. Append(audit[old], AuditRow("trade.counter", "PENDING", "COUNTERED")) \in Seq(Row)
        BY <3>1, <3>2
      <3> QED
        BY <1>1, <3>2, <3>3 DEF TradesOK
    <2>4. ASSUME NEW s \in TradeIds
          PROVE  /\ status'[s] = None <=> trade'[s] = None
                 /\ trade'[s] # None => trade'[s].initiator # trade'[s].recipient
      <3>1. CASE s = t
        BY <1>0, <1>1, <1>3, <3>1 DEF TradesOK
      <3>2. CASE s = old
        BY <1>0, <1>1, <1>2, <3>2 DEF TradesOK
      <3>3. CASE s \notin {t, old}
        BY <1>1, <3>3 DEF TradesOK
      <3> QED
        BY <3>1, <3>2, <3>3
    <2> QED
      BY <2>1, <2>2, <2>3, <2>4 DEF TradesOK
  <1> QED
    BY <1>2, <1>5, <1>6

LEMMA VoidingTypes ==
    ASSUME TradeInv, NEW u \in Users, SuspendCommit(u)
    PROVE  TradeInv'
  <1> DEFINE closing == {t \in seen[u] : Pending(t)}
             row == AuditRow("trade.void", "PENDING", "VOIDED")
  <1>1. /\ \A w \in Users, c \in Cards : Promised(w, closing, c) \in 0 .. locked[w][c]
        /\ locked' = [w \in Users |-> [c \in Cards |-> locked[w][c] - Promised(w, closing, c)]]
        /\ status' = [t \in TradeIds |-> IF t \in closing THEN "VOIDED" ELSE status[t]]
        /\ audit' = [t \in TradeIds |-> IF t \in closing THEN Append(audit[t], row) ELSE audit[t]]
        /\ suspended' = [suspended EXCEPT ![u] = TRUE]
        /\ EndSuspension(u)
        /\ UNCHANGED <<quantity, currency, trade, ledger, offers, voids, opened>>
    BY DEF SuspendCommit, SuspendVoiding
  <1>2. InventoryOK'
    <2>1. ASSUME NEW w \in Users, NEW c \in Cards
          PROVE  /\ locked[w][c] - Promised(w, closing, c) \in Nat
                 /\ locked[w][c] - Promised(w, closing, c) <= quantity[w][c]
      <3> DEFINE n == Promised(w, closing, c)
      <3>1. n \in 0 .. locked[w][c] /\ locked[w][c] \in Nat /\ quantity[w][c] \in Nat
            /\ locked[w][c] <= quantity[w][c]
        BY <1>1 DEF TradeInv, InventoryOK, Holding
      <3> HIDE DEF n
      <3> QED
        BY <3>1 DEF n
    <2> DEFINE left(w, c) == locked[w][c] - Promised(w, closing, c)
    <2>2. locked' = [w \in Users |-> [c \in Cards |-> left(w, c)]]
      BY <1>1
    <2>3. \A w \in Users, c \in Cards : left(w, c) \in Nat /\ left(w, c) <= quantity[w][c]
      BY <2>1
    <2> HIDE DEF left
    <2>4. locked' \in Holding
      BY <2>2, <2>3 DEF Holding
    <2>5. \A w \in Users, c \in Cards : locked'[w][c] = left(w, c)
      BY <2>2
    <2> QED
      BY <1>1, <2>3, <2>4, <2>5 DEF TradeInv, InventoryOK
  <1>3. TradesOK'
    <2>1. "VOIDED" \in Statuses /\ "VOIDED" # None /\ "PENDING" # None
      BY TradesAssumption DEF Statuses, Closed
    <2>2. row \in Row
      BY DEF AuditRow, Row, Actions, Statuses, Closed
    <2>3. \A t \in TradeIds : audit[t] \in Seq(Row) /\ Append(audit[t], row) \in Seq(Row)
      BY <2>2 DEF TradeInv, TradesOK
    <2> HIDE DEF row
    <2>4. audit' \in [TradeIds -> Seq(Row)]
      BY <1>1, <2>3
    <2>5. status' \in [TradeIds -> Statuses \cup {None}]
      BY <1>1, <2>1 DEF TradeInv, TradesOK
    <2>6. \A t \in TradeIds : status'[t] = None <=> status[t] = None
      BY <1>1, <2>1 DEF Pending
    <2> QED
      BY <1>1, <2>4, <2>5, <2>6 DEF TradeInv, TradesOK
  <1>4. RequestsOK'
    BY <1>1 DEF TradeInv, RequestsOK, EndSuspension
  <1> QED
    BY <1>1, <1>2, <1>3, <1>4 DEF TradeInv, MoneyOK

LEMMA InvNext == TradeInv /\ [Next]_vars => TradeInv'
  <1> SUFFICES ASSUME TradeInv, [Next]_vars PROVE TradeInv'
    OBVIOUS
  <1>0. InventoryOK /\ MoneyOK /\ TradesOK /\ RequestsOK
    BY DEF TradeInv
  <1>p. "PENDING" # None /\ "ACCEPTED" # None /\ {"PENDING", "ACCEPTED"} \subseteq Statuses
        /\ Closed \subseteq Statuses
    BY TradesAssumption DEF Statuses, Closed
  <1>1. ASSUME NEW u \in Users, NEW v \in Users, NEW terms \in Terms, ProposeCheck(u, v, terms)
        PROVE  TradeInv'
    <2> DEFINE o == [by |-> u, to |-> v, terms |-> terms, countered |-> None]
    <2>1. u # v /\ Submit(o)
      BY <1>1 DEF ProposeCheck
    <2>2. o \in Offer /\ o.by # o.to
      BY <2>1 DEF Offer
    <2> HIDE DEF o
    <2>3. RequestsOK'
      BY <2>1, <2>2 DEF Submit, TradeInv, RequestsOK
    <2> QED
      BY <2>1, <2>3 DEF Submit, TradeInv, InventoryOK, MoneyOK, TradesOK, inventory
  <1>2. ASSUME NEW t \in TradeIds, NEW terms \in Terms, CounterCheck(t, terms) PROVE TradeInv'
    <2> DEFINE o == [by |-> trade[t].recipient, to |-> trade[t].initiator, terms |-> terms,
                     countered |-> t]
    <2>1. trade[t] # None /\ Submit(o)
      BY <1>2 DEF CounterCheck
    <2>2. o \in Offer /\ o.by # o.to
      <3>1. status[t] # None
        BY <1>0, <2>1 DEF TradesOK
      <3> QED
        BY <1>0, <3>1, TradeExists DEF Offer
    <2> HIDE DEF o
    <2>3. RequestsOK'
      BY <2>1, <2>2 DEF Submit, TradeInv, RequestsOK
    <2> QED
      BY <2>1, <2>3 DEF Submit, TradeInv, InventoryOK, MoneyOK, TradesOK, inventory
  <1>3. ASSUME NEW o \in offers, DropOffer(o) PROVE TradeInv'
    BY <1>3 DEF DropOffer, TradeInv, InventoryOK, MoneyOK, TradesOK, RequestsOK, inventory
  <1>4. ASSUME NEW o \in offers, NEW t \in TradeIds, ProposeCommit(o, t) PROVE TradeInv'
    <2>1. o \in Offer /\ o.by # o.to
      BY <1>0 DEF RequestsOK
    <2>2. TradesOK'
      BY <1>0, <1>4, <2>1, BirthTypes DEF ProposeCommit
    <2>3. InventoryOK'
      <3>1. o.by \in Users /\ o.terms.offered \in [Cards -> Nat]
        BY <2>1, TradesAssumption DEF Offer, TermsShape
      <3> QED
        BY <1>0, <1>4, <3>1, LockTypes DEF ProposeCommit
    <2>4. RequestsOK'
      BY <1>4 DEF ProposeCommit, TradeInv, RequestsOK
    <2> QED
      BY <1>4, <2>2, <2>3, <2>4 DEF ProposeCommit, TradeInv, MoneyOK
  <1>5. ASSUME NEW o \in offers, NEW t \in TradeIds, CounterCommit(o, t) PROVE TradeInv'
    <2>1. o \in Offer /\ o.by # o.to
      BY <1>0 DEF RequestsOK
    <2>2. o.countered \in TradeIds /\ status[o.countered] = "PENDING" /\ Replace(o, t)
      BY <1>5, <2>1 DEF CounterCommit, Offer, Pending
    <2>3. TradesOK' /\ InventoryOK'
      BY <1>0, <2>1, <2>2, ReplaceTypes
    <2>4. RequestsOK'
      BY <2>2 DEF Replace, TradeInv, RequestsOK
    <2> QED
      BY <2>2, <2>3, <2>4 DEF Replace, TradeInv, MoneyOK
  <1>6. ASSUME NEW t \in TradeIds, NEW to \in Closed, NEW action \in Actions, CallOff(t, to, action)
        PROVE  TradeInv'
    <2>1. /\ Close(t, "PENDING", to, action) /\ status[t] = "PENDING"
          /\ Releasable(trade[t].initiator, trade[t].terms.offered)
          /\ locked' = Release(trade[t].initiator, trade[t].terms.offered)
          /\ UNCHANGED <<quantity, currency, suspended, trade, ledger, requests, opened>>
      BY <1>6 DEF CallOff, CloseAndRelease, Close
    <2>2. TradesOK'
      BY <1>0, <1>p, <2>1, CloseTypes
    <2>3. trade[t].initiator \in Users /\ trade[t].terms.offered \in [Cards -> Nat]
      BY <1>0, <1>p, <2>1, TradeExists
    <2>4. InventoryOK'
      BY <1>0, <2>1, <2>3, ReleaseTypes
    <2> QED
      BY <2>1, <2>2, <2>4 DEF TradeInv, MoneyOK, RequestsOK, requests
  <1>7. ASSUME NEW t \in TradeIds, Accept(t) PROVE TradeInv'
    <2>1. /\ Close(t, "PENDING", "ACCEPTED", "trade.accept") /\ status[t] = "PENDING"
          /\ MoveCoins(t, 1, "TRADE") /\ SettleCards(t)
          /\ UNCHANGED <<suspended, trade, requests, opened>>
      BY <1>7 DEF Accept, Close
    <2>2. TradesOK'
      BY <1>0, <1>p, <2>1, CloseTypes DEF Actions
    <2>3. InventoryOK'
      BY <1>0, <1>p, <2>1, SettleTypes
    <2>4. MoneyOK'
      BY <1>0, <1>p, <2>1, MoveCoinsTypes
    <2> QED
      BY <2>1, <2>2, <2>3, <2>4 DEF TradeInv, RequestsOK, requests
  <1>8. ASSUME NEW t \in TradeIds, VoidLoad(t) PROVE TradeInv'
    <2>1. status[t] \in Statuses
      BY <1>0, <1>8 DEF VoidLoad, TradesOK
    <2>2. RequestsOK'
      BY <1>8, <2>1 DEF VoidLoad, TradeInv, RequestsOK
    <2> QED
      BY <1>8, <2>2 DEF VoidLoad, TradeInv, InventoryOK, MoneyOK, TradesOK, inventory
  <1>9. ASSUME NEW v \in voids, VoidCommit(v) PROVE TradeInv'
    <2>0. v.trade \in TradeIds
      BY <1>0 DEF RequestsOK
    <2>1. RequestsOK' /\ UNCHANGED <<suspended, trade, opened>>
      BY <1>9 DEF VoidCommit, TradeInv, RequestsOK
    <2>2. CASE /\ Close(v.trade, "ACCEPTED", "VOIDED", "trade.void")
               /\ MoveCoins(v.trade, -1, "TRADE_REVERSAL")
               /\ ReverseCards(v.trade)
      <3>1. status[v.trade] = "ACCEPTED"
        BY <2>2 DEF Close
      <3>2. TradesOK'
        BY <1>0, <1>p, <2>0, <2>1, <2>2, CloseTypes DEF Actions, Closed
      <3>3. InventoryOK'
        BY <1>0, <1>p, <2>0, <2>2, <3>1, ReverseTypes
      <3>4. MoneyOK'
        BY <1>0, <1>p, <2>0, <2>2, <3>1, MoveCoinsTypes
      <3> QED
        BY <2>1, <3>2, <3>3, <3>4 DEF TradeInv
    <2>3. CASE /\ CloseAndRelease(v.trade, "VOIDED", "trade.void")
               /\ UNCHANGED <<quantity, currency, ledger>>
      <3>1. /\ Close(v.trade, "PENDING", "VOIDED", "trade.void") /\ status[v.trade] = "PENDING"
            /\ Releasable(trade[v.trade].initiator, trade[v.trade].terms.offered)
            /\ locked' = Release(trade[v.trade].initiator, trade[v.trade].terms.offered)
        BY <2>3 DEF CloseAndRelease, Close
      <3>2. TradesOK'
        BY <1>0, <1>p, <2>0, <2>1, <3>1, CloseTypes DEF Actions, Closed
      <3>3. InventoryOK'
        BY <1>0, <1>p, <2>0, <2>3, <3>1, TradeExists, ReleaseTypes
      <3> QED
        BY <2>1, <2>3, <3>2, <3>3 DEF TradeInv, MoneyOK
    <2> QED
      BY <1>9, <2>2, <2>3 DEF VoidCommit
  <1>10. ASSUME NEW v \in voids, DropVoid(v) PROVE TradeInv'
    BY <1>10 DEF DropVoid, TradeInv, InventoryOK, MoneyOK, TradesOK, RequestsOK, inventory
  <1>11. ASSUME NEW u \in Users, SuspendBegin(u) PROVE TradeInv'
    <2>1. RequestsOK'
      BY <1>11 DEF SuspendBegin, TradeInv, RequestsOK
    <2> QED
      BY <1>11, <2>1 DEF SuspendBegin, TradeInv, InventoryOK, MoneyOK, TradesOK, inventory
  <1>12. ASSUME NEW u \in Users, SuspendFail(u) PROVE TradeInv'
    <2>1. RequestsOK'
      BY <1>12 DEF SuspendFail, EndSuspension, TradeInv, RequestsOK
    <2> QED
      BY <1>12, <2>1 DEF SuspendFail, TradeInv, InventoryOK, MoneyOK, TradesOK, inventory
  <1>13. ASSUME NEW u \in Users, Unsuspend(u) PROVE TradeInv'
    BY <1>13 DEF Unsuspend, TradeInv, InventoryOK, MoneyOK, TradesOK, RequestsOK, inventory, requests
  <1>14. ASSUME NEW u \in Users, NEW c \in Cards, OpenPack(u, c) PROVE TradeInv'
    <2>1. /\ currency[u] >= PackCost
          /\ currency' = [currency EXCEPT ![u] = @ - PackCost]
          /\ quantity' = [quantity EXCEPT ![u][c] = @ + 1]
          /\ opened' = [opened EXCEPT ![u][c] = @ + 1]
          /\ UNCHANGED <<locked, suspended, trade, status, ledger, audit, requests>>
      BY <1>14 DEF OpenPack
    <2>2. currency' \in [Users -> Nat]
      BY <1>0, <2>1, TradesAssumption DEF MoneyOK
    <2>3. ASSUME NEW f \in Holding
          PROVE  /\ [f EXCEPT ![u][c] = @ + 1] \in Holding
                 /\ \A w \in Users, d \in Cards : [f EXCEPT ![u][c] = @ + 1][w][d] >= f[w][d]
      BY <2>3 DEF Holding
    <2>4. quantity' \in Holding /\ opened' \in Holding
      BY <2>1, <2>3 DEF TradeInv, InventoryOK
    <2>5. \A w \in Users, d \in Cards : locked[w][d] <= quantity'[w][d]
      <3>1. \A w \in Users, d \in Cards : quantity'[w][d] >= quantity[w][d]
        BY <1>0, <2>1, <2>3 DEF InventoryOK
      <3>2. ASSUME NEW w \in Users, NEW d \in Cards PROVE locked[w][d] <= quantity'[w][d]
        <4>1. /\ locked[w][d] \in Nat /\ quantity[w][d] \in Nat /\ quantity'[w][d] \in Nat
              /\ locked[w][d] <= quantity[w][d]
          BY <1>0, <2>4 DEF InventoryOK, Holding
        <4> QED
          BY <3>1, <4>1
      <3> QED
        BY <3>2
    <2> QED
      BY <2>1, <2>2, <2>4, <2>5 DEF TradeInv, InventoryOK, MoneyOK, TradesOK, RequestsOK, requests
  <1>15. CASE UNCHANGED vars
    BY <1>15 DEF vars, TradeInv, InventoryOK, MoneyOK, TradesOK, RequestsOK, inventory, requests
  <1>16. ASSUME NEW t \in TradeIds, Decline(t) \/ Cancel(t) \/ Expire(t) PROVE TradeInv'
    BY <1>6, <1>16 DEF Decline, Cancel, Expire, Closed, Actions
  <1> QED
    BY <1>1, <1>2, <1>3, <1>4, <1>5, <1>7, <1>8, <1>9, <1>10, <1>11, <1>12, <1>13, <1>14, <1>15,
       <1>16, VoidingTypes DEF Next

\* TypeOK holds for any members, cards and terms: nobody ever has more copies locked than they
\* own, a negative number of copies or of coins - the CHECK constraints of the schema are a second
\* line of defence that is never reached.
THEOREM TypeCorrect == Spec => []TypeOK
  BY InvInit, InvNext, InvTypes, PTL DEF Spec
-----------------------------------------------------------------------------
(* What steps do to trades.                                                *)

\* One trade is answered, expired or voided.
Closing ==
    \E t \in TradeIds, from \in {"PENDING", "ACCEPTED"}, to \in Closed, action \in Actions :
        /\ Close(t, from, to, action)
        /\ from = "PENDING" \/ to = "VOIDED"
        /\ to # "COUNTERED"
        /\ UNCHANGED trade

\* Every step leaves all trades alone, closes one, creates one, replaces one or suspends a member.
LEMMA StepShapes ==
    ASSUME TradeInv, [Next]_vars
    PROVE  \/ UNCHANGED <<trade, status, audit>>
           \/ Closing
           \/ \E o \in offers, t \in TradeIds : ProposeCommit(o, t)
           \/ \E o \in offers, t \in TradeIds : CounterCommit(o, t)
           \/ \E u \in Users : SuspendCommit(u)
  <1> DEFINE Goal == \/ UNCHANGED <<trade, status, audit>>
                     \/ Closing
                     \/ \E o \in offers, t \in TradeIds : ProposeCommit(o, t)
                     \/ \E o \in offers, t \in TradeIds : CounterCommit(o, t)
                     \/ \E u \in Users : SuspendCommit(u)
  <1>1. ASSUME NEW t \in TradeIds, NEW from \in {"PENDING", "ACCEPTED"}, NEW to \in Closed \ {"COUNTERED"},
               NEW action \in Actions, Close(t, from, to, action), from = "PENDING" \/ to = "VOIDED",
               UNCHANGED trade
        PROVE  Goal
    BY <1>1 DEF Closing
  <1>2. ASSUME NEW u \in Users, NEW v \in Users, NEW terms \in Terms, ProposeCheck(u, v, terms)
        PROVE  Goal
    BY <1>2 DEF ProposeCheck, Submit
  <1>3. ASSUME NEW t \in TradeIds, NEW terms \in Terms, CounterCheck(t, terms) PROVE Goal
    BY <1>3 DEF CounterCheck, Submit
  <1>4. ASSUME NEW o \in offers, DropOffer(o) PROVE Goal
    BY <1>4 DEF DropOffer
  <1>5. ASSUME NEW t \in TradeIds, Decline(t) PROVE Goal
    <2>1. Close(t, "PENDING", "DECLINED", "trade.decline") /\ UNCHANGED trade
      BY <1>5 DEF Decline, CallOff, CloseAndRelease
    <2> QED
      BY <1>1, <2>1 DEF Closed, Actions
  <1>6. ASSUME NEW t \in TradeIds, Cancel(t) PROVE Goal
    <2>1. Close(t, "PENDING", "CANCELLED", "trade.cancel") /\ UNCHANGED trade
      BY <1>6 DEF Cancel, CallOff, CloseAndRelease
    <2> QED
      BY <1>1, <2>1 DEF Closed, Actions
  <1>7. ASSUME NEW t \in TradeIds, Expire(t) PROVE Goal
    <2>1. Close(t, "PENDING", "CANCELLED", "trade.expire") /\ UNCHANGED trade
      BY <1>7 DEF Expire, CallOff, CloseAndRelease
    <2> QED
      BY <1>1, <2>1 DEF Closed, Actions
  <1>8. ASSUME NEW t \in TradeIds, Accept(t) PROVE Goal
    <2>1. Close(t, "PENDING", "ACCEPTED", "trade.accept") /\ UNCHANGED trade
      BY <1>8 DEF Accept
    <2> QED
      BY <1>1, <2>1 DEF Closed, Actions
  <1>9. ASSUME NEW t \in TradeIds, VoidLoad(t) PROVE Goal
    BY <1>9 DEF VoidLoad
  <1>10. ASSUME NEW v \in voids, VoidCommit(v) PROVE Goal
    <2>1. v.trade \in TradeIds
      BY DEF TradeInv, RequestsOK
    <2>2. /\ \/ Close(v.trade, "ACCEPTED", "VOIDED", "trade.void")
             \/ Close(v.trade, "PENDING", "VOIDED", "trade.void")
          /\ UNCHANGED trade
      BY <1>10 DEF VoidCommit, CloseAndRelease
    <2> QED
      BY <1>1, <2>1, <2>2 DEF Closed, Actions
  <1>11. ASSUME NEW v \in voids, DropVoid(v) PROVE Goal
    BY <1>11 DEF DropVoid
  <1>12. ASSUME NEW u \in Users, SuspendBegin(u) \/ SuspendFail(u) \/ Unsuspend(u) PROVE Goal
    BY <1>12 DEF SuspendBegin, SuspendFail, Unsuspend
  <1>13. ASSUME NEW u \in Users, NEW c \in Cards, OpenPack(u, c) PROVE Goal
    BY <1>13 DEF OpenPack
  <1>14. CASE UNCHANGED vars
    BY <1>14 DEF vars
  <1>15. ASSUME NEW o \in offers, NEW t \in TradeIds, ProposeCommit(o, t) \/ CounterCommit(o, t)
         PROVE  Goal
    BY <1>15
  <1>16. ASSUME NEW u \in Users, SuspendCommit(u) PROVE Goal
    BY <1>16
  <1> QED
    BY <1>2, <1>3, <1>4, <1>5, <1>6, <1>7, <1>8, <1>9, <1>10, <1>11, <1>12, <1>13, <1>14, <1>15,
       <1>16 DEF Next

-----------------------------------------------------------------------------
(* Closed trades stay closed.                                              *)

StaysClosed(t) ==
    /\ trade[t] # None => trade'[t] = trade[t]
    /\ status[t] \in Closed => \/ status'[t] = status[t]
                               \/ status[t] = "ACCEPTED" /\ status'[t] = "VOIDED"

LEMMA StepsKeepClosed ==
    ASSUME TradeInv, [Next]_vars
    PROVE  \A t \in TradeIds : StaysClosed(t)
  <1>0. TradesOK
    BY DEF TradeInv
  <1>p. None \notin Closed /\ "PENDING" \notin Closed
    BY TradesAssumption DEF Statuses, Closed
  <1>1. CASE UNCHANGED <<trade, status, audit>>
    BY <1>1 DEF StaysClosed
  <1>2. CASE Closing
    <2>1. PICK t \in TradeIds, from \in {"PENDING", "ACCEPTED"}, to \in Closed, action \in Actions :
              Close(t, from, to, action) /\ (from = "PENDING" \/ to = "VOIDED") /\ UNCHANGED trade
      BY <1>2 DEF Closing
    <2> QED
      BY <1>0, <1>p, <2>1 DEF StaysClosed, Close, TradesOK
  <1>3. ASSUME NEW o \in offers, NEW t \in TradeIds, ProposeCommit(o, t)
        PROVE  \A s \in TradeIds : StaysClosed(s)
    <2>1. /\ trade[t] = None /\ status[t] = None
          /\ \A s \in TradeIds \ {t} : trade'[s] = trade[s] /\ status'[s] = status[s]
      BY <1>0, <1>3 DEF ProposeCommit, Create, TradesOK
    <2> QED
      BY <1>p, <2>1 DEF StaysClosed
  <1>4. ASSUME NEW o \in offers, NEW t \in TradeIds, CounterCommit(o, t)
        PROVE  \A s \in TradeIds : StaysClosed(s)
    <2>1. /\ trade[t] = None /\ status[t] = None /\ status[o.countered] = "PENDING"
          /\ trade' = [trade EXCEPT ![t] = [initiator |-> o.by, recipient |-> o.to,
                                            terms |-> o.terms, countered |-> o.countered]]
          /\ status' = [status EXCEPT ![o.countered] = "COUNTERED", ![t] = "PENDING"]
      BY <1>0, <1>4 DEF CounterCommit, Replace, Create, TradesOK, Pending
    <2>2. \A s \in TradeIds \ {t} : trade'[s] = trade[s]
      BY <1>0, <2>1 DEF TradesOK
    <2>3. \A s \in TradeIds \ {t, o.countered} : status'[s] = status[s]
      BY <1>0, <2>1 DEF TradesOK
    <2> QED
      BY <1>p, <2>1, <2>2, <2>3 DEF StaysClosed
  <1>5. ASSUME NEW u \in Users, SuspendCommit(u)
        PROVE  \A s \in TradeIds : StaysClosed(s)
    BY <1>5, <1>p DEF SuspendCommit, SuspendVoiding, StaysClosed, Pending
  <1> QED
    BY <1>1, <1>2, <1>3, <1>4, <1>5, StepShapes

\* Whatever answers, counters, voids, jobs and suspensions were looking at a trade: its terms
\* never change, and once it is closed only the void of a settled one changes its status.
THEOREM ClosedForGood == Spec => ClosedTradesStayClosed
  <1>1. TradeInv /\ [Next]_vars =>
            [\A t \in TradeIds :
                /\ trade[t] # None => trade'[t] = trade[t]
                /\ status[t] \in Closed => \/ status'[t] = status[t]
                                           \/ status[t] = "ACCEPTED" /\ status'[t] = "VOIDED"]_vars
    BY StepsKeepClosed DEF StaysClosed
  <1> QED
    BY <1>1, InvInit, InvNext, PTL DEF Spec, ClosedTradesStayClosed

-----------------------------------------------------------------------------
(* The audit log tells the story of every trade.                           *)

Story(rows, now) ==
    /\ rows # <<>> /\ rows[1].from = None /\ rows[Len(rows)].to = now
    /\ \A i \in 2 .. Len(rows) : rows[i].from = rows[i - 1].to

\* A row that starts where the story stands continues it.
LEMMA StoryGoesOn ==
    ASSUME NEW rows \in Seq(Row), NEW now, Story(rows, now), NEW action, NEW to
    PROVE  Story(Append(rows, AuditRow(action, now, to)), to)
  <1> DEFINE row == AuditRow(action, now, to)
             more == Append(rows, row)
  <1>1. Len(rows) \in Nat \ {0}
    BY DEF Story
  <1>2. /\ Len(more) = Len(rows) + 1
        /\ \A i \in 1 .. Len(rows) : more[i] = rows[i]
        /\ more[Len(rows) + 1] = row
        /\ more # <<>>
    BY <1>1
  <1>3. row.from = now /\ row.to = to
    BY DEF AuditRow
  <1> HIDE DEF row, more
  <1>4. more[1].from = None /\ more[Len(more)].to = to
    BY <1>1, <1>2, <1>3 DEF Story
  <1>5. ASSUME NEW i \in 2 .. Len(more) PROVE more[i].from = more[i - 1].to
    <2>1. CASE i = Len(rows) + 1
      <3>1. more[i] = row /\ more[i - 1] = rows[Len(rows)]
        BY <1>1, <1>2, <2>1
      <3> QED
        BY <1>3, <3>1 DEF Story
    <2>2. CASE i \in 2 .. Len(rows)
      <3>1. more[i] = rows[i] /\ more[i - 1] = rows[i - 1]
        BY <1>1, <1>2, <2>2
      <3> QED
        BY <2>2, <3>1 DEF Story
    <2>3. i = Len(rows) + 1 \/ i \in 2 .. Len(rows)
      BY <1>1, <1>2
    <2> QED
      BY <2>1, <2>2, <2>3
  <1>6. Story(more, to)
    BY <1>2, <1>4, <1>5 DEF Story
  <1> QED
    BY <1>6 DEF more, row

Told(t) == IF status[t] = None THEN audit[t] = <<>> ELSE Story(audit[t], status[t])

LEMMA StoryStep ==
    ASSUME TradeInv, [Next]_vars, \A t \in TradeIds : Told(t)
    PROVE  \A t \in TradeIds : Told(t)'
  <1>0. TradesOK
    BY DEF TradeInv
  <1>p. None \notin Closed /\ "PENDING" # None
    BY TradesAssumption DEF Statuses, Closed
  <1>b. Story(<<Born>>, "PENDING")
    BY DEF Story, Born, AuditRow
  <1>1. CASE UNCHANGED <<trade, status, audit>>
    BY <1>1 DEF Told
  <1>2. CASE Closing
    <2>1. PICK t \in TradeIds, from \in {"PENDING", "ACCEPTED"}, to \in Closed, action \in Actions :
              Close(t, from, to, action)
      BY <1>2 DEF Closing
    <2>2. /\ status[t] = from /\ status' = [status EXCEPT ![t] = to]
          /\ audit' = [audit EXCEPT ![t] = Append(@, AuditRow(action, from, to))]
      BY <2>1 DEF Close
    <2>3. from # None
      BY TradesAssumption DEF Statuses, Closed
    <2>4. audit[t] \in Seq(Row) /\ Story(audit[t], from)
      BY <1>0, <2>2, <2>3 DEF Told, TradesOK
    <2>5. Story(Append(audit[t], AuditRow(action, from, to)), to)
      BY <2>4, StoryGoesOn
    <2>6. Told(t)'
      BY <1>0, <1>p, <2>2, <2>5 DEF Told, TradesOK
    <2>7. \A s \in TradeIds \ {t} : Told(s)'
      BY <1>0, <2>2 DEF Told, TradesOK
    <2> QED
      BY <2>6, <2>7
  <1>3. ASSUME NEW o \in offers, NEW t \in TradeIds, ProposeCommit(o, t)
        PROVE  \A s \in TradeIds : Told(s)'
    <2>1. status' = [status EXCEPT ![t] = "PENDING"] /\ audit' = [audit EXCEPT ![t] = <<Born>>]
      BY <1>3 DEF ProposeCommit
    <2>2. Told(t)'
      BY <1>0, <1>p, <1>b, <2>1 DEF Told, TradesOK
    <2>3. \A s \in TradeIds \ {t} : Told(s)'
      BY <1>0, <2>1 DEF Told, TradesOK
    <2> QED
      BY <2>2, <2>3
  <1>4. ASSUME NEW o \in offers, NEW t \in TradeIds, CounterCommit(o, t)
        PROVE  \A s \in TradeIds : Told(s)'
    <2> DEFINE old == o.countered
               row == AuditRow("trade.counter", "PENDING", "COUNTERED")
    <2>1. /\ status' = [status EXCEPT ![old] = "COUNTERED", ![t] = "PENDING"]
          /\ audit' = [audit EXCEPT ![old] = Append(@, row), ![t] = <<Born>>]
          /\ status[old] = "PENDING" /\ trade[t] = None
      BY <1>4 DEF CounterCommit, Replace, Create, Pending
    <2>2. old \in TradeIds /\ t # old
      <3>1. o \in Offer
        BY DEF TradeInv, RequestsOK
      <3>2. old \in TradeIds
        BY <1>4, <3>1 DEF CounterCommit, Offer
      <3> QED
        BY <1>0, <1>p, <2>1, <3>2 DEF TradesOK
    <2>3. Story(Append(audit[old], row), "COUNTERED")
      <3>1. audit[old] \in Seq(Row) /\ Story(audit[old], "PENDING")
        BY <1>0, <1>p, <2>1, <2>2 DEF Told, TradesOK
      <3> QED
        BY <3>1, StoryGoesOn
    <2> HIDE DEF row
    <2>4. Told(old)'
      BY <1>0, <1>p, <2>1, <2>2, <2>3 DEF Told, TradesOK, Closed
    <2>5. Told(t)'
      BY <1>0, <1>p, <1>b, <2>1, <2>2 DEF Told, TradesOK
    <2>6. \A s \in TradeIds \ {t, old} : Told(s)'
      BY <1>0, <2>1 DEF Told, TradesOK
    <2> QED
      BY <2>4, <2>5, <2>6
  <1>5. ASSUME NEW u \in Users, SuspendCommit(u)
        PROVE  \A s \in TradeIds : Told(s)'
    <2> DEFINE closing == {t \in seen[u] : Pending(t)}
               row == AuditRow("trade.void", "PENDING", "VOIDED")
    <2>1. /\ status' = [t \in TradeIds |-> IF t \in closing THEN "VOIDED" ELSE status[t]]
          /\ audit' = [t \in TradeIds |-> IF t \in closing THEN Append(audit[t], row) ELSE audit[t]]
      BY <1>5 DEF SuspendCommit, SuspendVoiding
    <2>2. ASSUME NEW s \in TradeIds PROVE Told(s)'
      <3>1. CASE s \in closing
        <4>1. audit[s] \in Seq(Row) /\ Story(audit[s], "PENDING")
          BY <1>0, <1>p, <3>1 DEF Told, TradesOK, Pending
        <4>2. Story(Append(audit[s], row), "VOIDED")
          BY <4>1, StoryGoesOn
        <4>3. status'[s] = "VOIDED" /\ audit'[s] = Append(audit[s], row) /\ "VOIDED" # None
          BY <1>p, <2>1, <3>1 DEF Closed
        <4> QED
          BY <4>2, <4>3 DEF Told
      <3>2. CASE s \notin closing
        <4>1. status'[s] = status[s] /\ audit'[s] = audit[s]
          BY <2>1, <3>2
        <4> QED
          BY <4>1 DEF Told
      <3> QED
        BY <3>1, <3>2
    <2> QED
      BY <2>2
  <1> QED
    BY <1>1, <1>2, <1>3, <1>4, <1>5, StepShapes

\* For every trade the audit log is a chain from nothing to the status it has, one row for each
\* change of it: of the requests that race for a trade, only those that changed it are recorded.
THEOREM AuditComplete == Spec => []AuditTellsTheStory
  <1>1. Init => \A t \in TradeIds : Told(t)
    BY DEF Init, Told
  <1>2. TradeInv /\ (\A t \in TradeIds : Told(t)) /\ [Next]_vars => (\A t \in TradeIds : Told(t))'
    BY StoryStep
  <1>3. (\A t \in TradeIds : Told(t)) => AuditTellsTheStory
    BY DEF Told, Story, AuditTellsTheStory
  <1> QED
    BY <1>1, <1>2, <1>3, InvInit, InvNext, PTL DEF Spec

-----------------------------------------------------------------------------
(* The books.  The sums run over the trades that exist, of which there are *)
(* finitely many at any time.                                              *)

Exist == {t \in TradeIds : trade[t] # None}

FiniteTrades == IsFiniteSet(Exist)

-----------------------------------------------------------------------------
(* What steps do to trades and to holdings.                                *)

\* A trade is declined, cancelled, expired or voided out of PENDING.
CalledOff(t) ==
    /\ \E to \in Closed \ {"ACCEPTED", "COUNTERED"}, action \in Actions :
          CloseAndRelease(t, to, action)
    /\ UNCHANGED <<quantity, currency, trade, ledger, opened>>

\* A settled trade is voided.
Reversed(t) ==
    /\ Close(t, "ACCEPTED", "VOIDED", "trade.void")
    /\ MoveCoins(t, -1, "TRADE_REVERSAL")
    /\ ReverseCards(t)
    /\ UNCHANGED <<trade, opened>>

Quiet == UNCHANGED <<inventory, currency, trade, status, ledger, audit, opened>>

LEMMA StepEffects ==
    ASSUME TradeInv, [Next]_vars
    PROVE  \/ Quiet
           \/ \E t \in TradeIds : CalledOff(t) \/ Accept(t) \/ Reversed(t)
           \/ \E o \in offers, t \in TradeIds : ProposeCommit(o, t) \/ CounterCommit(o, t)
           \/ \E u \in Users : SuspendCommit(u)
           \/ \E u \in Users, c \in Cards : OpenPack(u, c)
  <1> DEFINE Goal == \/ Quiet
                     \/ \E t \in TradeIds : CalledOff(t) \/ Accept(t) \/ Reversed(t)
                     \/ \E o \in offers, t \in TradeIds : ProposeCommit(o, t) \/ CounterCommit(o, t)
                     \/ \E u \in Users : SuspendCommit(u)
                     \/ \E u \in Users, c \in Cards : OpenPack(u, c)
  <1>1. ASSUME \/ \E u, v \in Users, terms \in Terms : ProposeCheck(u, v, terms)
               \/ \E t \in TradeIds, terms \in Terms : CounterCheck(t, terms)
               \/ \E o \in offers : DropOffer(o)
               \/ \E t \in TradeIds : VoidLoad(t)
               \/ \E v \in voids : DropVoid(v)
               \/ \E u \in Users : SuspendBegin(u) \/ SuspendFail(u) \/ Unsuspend(u)
               \/ UNCHANGED vars
        PROVE  Quiet
    BY <1>1 DEF Quiet, ProposeCheck, CounterCheck, Submit, DropOffer, VoidLoad, DropVoid, SuspendBegin,
                SuspendFail, Unsuspend, inventory, vars
  <1>2. ASSUME NEW t \in TradeIds, Decline(t) \/ Cancel(t) \/ Expire(t) PROVE CalledOff(t)
    BY <1>2 DEF Decline, Cancel, Expire, CallOff, CalledOff, Closed, Actions
  <1>3. ASSUME NEW v \in voids, VoidCommit(v)
        PROVE  v.trade \in TradeIds /\ (CalledOff(v.trade) \/ Reversed(v.trade))
    <2>1. v.trade \in TradeIds
      BY DEF TradeInv, RequestsOK
    <2> QED
      BY <1>3, <2>1 DEF VoidCommit, CalledOff, Reversed, Closed, Actions
  <1>4. ASSUME NEW t \in TradeIds, Decline(t) \/ Cancel(t) \/ Expire(t) \/ Accept(t) PROVE Goal
    BY <1>2, <1>4
  <1>5. ASSUME NEW v \in voids, VoidCommit(v) PROVE Goal
    BY <1>3, <1>5
  <1>6. ASSUME Quiet PROVE Goal
    BY <1>6
  <1>7. ASSUME NEW o \in offers, NEW t \in TradeIds, ProposeCommit(o, t) \/ CounterCommit(o, t)
        PROVE  Goal
    BY <1>7
  <1>8. ASSUME NEW u \in Users, SuspendCommit(u) PROVE Goal
    BY <1>8
  <1>9. ASSUME NEW u \in Users, NEW c \in Cards, OpenPack(u, c) PROVE Goal
    BY <1>9
  <1> HIDE DEF Goal
  <1>10. Goal
    BY <1>1, <1>4, <1>5, <1>6, <1>7, <1>8, <1>9 DEF Next
  <1> QED
    BY <1>10 DEF Goal

-----------------------------------------------------------------------------
(* Trades are created one by one.                                          *)

\* What a commit of an offer does to trades: one is created, and an offer that answers another
\* trade closes that one.
LEMMA Birth ==
    ASSUME TradeInv, NEW o \in offers, NEW t \in TradeIds, ProposeCommit(o, t) \/ CounterCommit(o, t)
    PROVE  /\ o \in Offer /\ o.by # o.to
           /\ trade[t] = None /\ status[t] = None
           /\ trade' = [trade EXCEPT ![t] = [initiator |-> o.by, recipient |-> o.to, terms |-> o.terms,
                                             countered |-> o.countered]]
           /\ trade'[t] = [initiator |-> o.by, recipient |-> o.to, terms |-> o.terms,
                           countered |-> o.countered]
           /\ trade'[t] # None /\ trade'[t] \in Trade
           /\ \A s \in TradeIds \ {t} : trade'[s] = trade[s]
           /\ Exist' = Exist \cup {t} /\ t \notin Exist
           /\ UNCHANGED <<quantity, currency, ledger, opened>>
  <1>1. o \in Offer /\ o.by # o.to
    BY DEF TradeInv, RequestsOK
  <1> DEFINE new == [initiator |-> o.by, recipient |-> o.to, terms |-> o.terms, countered |-> o.countered]
  <1>2. trade[t] = None /\ trade' = [trade EXCEPT ![t] = new]
    BY DEF ProposeCommit, CounterCommit, Replace, Create
  <1>3. UNCHANGED <<quantity, currency, ledger, opened>>
    BY DEF ProposeCommit, CounterCommit, Replace
  <1>4. new \in Trade /\ new # None
    BY <1>1, TradesAssumption DEF Offer, Trade
  <1>5. trade \in [TradeIds -> Trade \cup {None}] /\ status[t] = None
    BY <1>2 DEF TradeInv, TradesOK
  <1> HIDE DEF new
  <1>6. trade'[t] = new /\ \A s \in TradeIds \ {t} : trade'[s] = trade[s]
    BY <1>2, <1>5
  <1>7. Exist' = Exist \cup {t} /\ t \notin Exist
    BY <1>2, <1>4, <1>6 DEF Exist
  <1> QED
    BY <1>1, <1>2, <1>3, <1>4, <1>5, <1>6, <1>7 DEF new

\* Steps that create no trade leave them all as they are.
LEMMA NoBirth ==
    ASSUME TradeInv, [Next]_vars
    PROVE  \/ UNCHANGED trade
           \/ \E o \in offers, t \in TradeIds : ProposeCommit(o, t) \/ CounterCommit(o, t)
  BY StepEffects DEF Quiet, CalledOff, Accept, Reversed, SuspendCommit, SuspendVoiding, OpenPack

LEMMA FiniteStep == ASSUME TradeInv, FiniteTrades, [Next]_vars PROVE FiniteTrades'
  <1>1. CASE UNCHANGED trade
    BY <1>1 DEF FiniteTrades, Exist
  <1>2. ASSUME NEW o \in offers, NEW t \in TradeIds, ProposeCommit(o, t) \/ CounterCommit(o, t)
        PROVE  FiniteTrades'
    <2>1. Exist' = Exist \cup {t}
      BY <1>2, Birth
    <2> QED
      BY <2>1, FS_AddElement DEF FiniteTrades
  <1> QED
    BY <1>1, <1>2, NoBirth

\* An offer that answers a trade is from its recipient to its initiator.
OffersAnswer ==
    \A o \in offers : o.countered # None =>
        /\ o.countered \in Exist
        /\ trade[o.countered].initiator = o.to
        /\ trade[o.countered].recipient = o.by

LEMMA OffersAnswerStep == ASSUME TradeInv, OffersAnswer, [Next]_vars PROVE OffersAnswer'
  <1>0. \A s \in TradeIds : s \in Exist => s \in Exist' /\ trade'[s] = trade[s]
    <2>1. CASE UNCHANGED trade
      BY <2>1 DEF Exist
    <2>2. ASSUME NEW o \in offers, NEW t \in TradeIds, ProposeCommit(o, t) \/ CounterCommit(o, t)
          PROVE  \A s \in TradeIds : s \in Exist => s \in Exist' /\ trade'[s] = trade[s]
      BY <2>2, Birth
    <2> QED
      BY <2>1, <2>2, NoBirth
  <1>1. \A o \in offers' : o \in offers =>
            (o.countered # None =>
                /\ o.countered \in Exist'
                /\ trade'[o.countered].initiator = o.to
                /\ trade'[o.countered].recipient = o.by)
    <2> SUFFICES ASSUME NEW o \in offers, o.countered # None
                 PROVE  /\ o.countered \in Exist'
                        /\ trade'[o.countered].initiator = o.to
                        /\ trade'[o.countered].recipient = o.by
      OBVIOUS
    <2>1. o.countered \in Exist /\ o.countered \in TradeIds
      BY DEF OffersAnswer, Exist
    <2> QED
      BY <1>0, <2>1 DEF OffersAnswer
  <1>2. ASSUME NEW u \in Users, NEW v \in Users, NEW terms \in Terms, ProposeCheck(u, v, terms)
        PROVE  OffersAnswer'
    BY <1>1, <1>2 DEF ProposeCheck, Submit, OffersAnswer
  <1>3. ASSUME NEW t \in TradeIds, NEW terms \in Terms, CounterCheck(t, terms)
        PROVE  OffersAnswer'
    <2>1. t \in Exist /\ UNCHANGED trade
      BY <1>3 DEF CounterCheck, Submit, Exist
    <2>2. offers' = offers \cup {[by |-> trade[t].recipient, to |-> trade[t].initiator,
                                  terms |-> terms, countered |-> t]}
      BY <1>3 DEF CounterCheck, Submit
    <2>3. t \in Exist'
      BY <2>1 DEF Exist
    <2> QED
      BY <1>1, <2>1, <2>2, <2>3 DEF OffersAnswer
  <1>4. CASE offers' \subseteq offers
    BY <1>1, <1>4 DEF OffersAnswer
  <1>5. \/ offers' \subseteq offers
        \/ \E u, v \in Users, terms \in Terms : ProposeCheck(u, v, terms)
        \/ \E t \in TradeIds, terms \in Terms : CounterCheck(t, terms)
    BY DEF Next, DropOffer, ProposeCommit, CounterCommit, Replace, Decline, Cancel, Expire, CallOff,
           Accept, VoidLoad, VoidCommit, DropVoid, SuspendBegin, SuspendCommit, SuspendVoiding,
           SuspendFail, Unsuspend, OpenPack, requests, vars
  <1> QED
    BY <1>2, <1>3, <1>4, <1>5

-----------------------------------------------------------------------------
(* What is locked is what is promised.                                     *)

Mine(u) == {t \in TradeIds : Pending(t) /\ trade[t].initiator = u}
Offered(c) == [t \in TradeIds |-> trade[t].terms.offered[c]]

LocksInv ==
    \A u \in Users, c \in Cards : locked[u][c] = SumFunctionOnSet(Offered(c), Mine(u))

\* Promises are of trades that exist: they are finitely many, and each promises a number.
LEMMA MineFinite ==
    ASSUME TradeInv, FiniteTrades, NEW u \in Users, NEW c \in Cards, NEW S \in SUBSET Mine(u)
    PROVE  IsFiniteSet(S) /\ \A t \in S : t \in Exist /\ Offered(c)[t] \in Nat
  <1>1. ASSUME NEW t \in Mine(u) PROVE t \in Exist /\ Offered(c)[t] \in Nat
    <2>1. t \in TradeIds /\ status[t] # None
      BY TradesAssumption DEF Mine, Pending, Statuses
    <2>2. trade[t].terms.offered \in [Cards -> Nat] /\ trade[t] # None
      BY <2>1, TradeExists DEF TradeInv, TradesOK
    <2> QED
      BY <2>1, <2>2 DEF Offered, Exist
  <1>2. S \in SUBSET Exist
    BY <1>1
  <1> QED
    BY <1>1, <1>2, FS_Subset DEF FiniteTrades

\* Promised, as the code adds it up, is the sum over what is PENDING of the set it is given.
LEMMA PromisedSum ==
    ASSUME TradeInv, FiniteTrades, NEW u \in Users, NEW c \in Cards, NEW S \in SUBSET TradeIds
    PROVE  Promised(u, S, c) = SumFunctionOnSet(Offered(c), S \cap Mine(u))
  <1> DEFINE promises == {t \in S : Pending(t) /\ trade[t].initiator = u}
             f == [t \in promises |-> trade[t].terms.offered[c]]
  <1>1. promises = S \cap Mine(u)
    BY DEF Mine
  <1>2. Promised(u, S, c) = SumFunction(f)
    BY DEF Promised
  <1>3. DOMAIN f = promises /\ \A t \in promises : f[t] = Offered(c)[t]
    BY DEF Offered
  <1>4. promises \in SUBSET Mine(u)
    BY <1>1
  <1> HIDE DEF promises, f
  <1>5. IsFiniteSet(promises) /\ \A t \in promises : Offered(c)[t] \in Int
    BY <1>4, MineFinite
  <1>6. SumFunctionOnSet(f, promises) = SumFunctionOnSet(Offered(c), promises)
    BY <1>3, <1>5, SumSame
  <1> QED
    BY <1>1, <1>2, <1>3, <1>6 DEF SumFunction

\* A trade that leaves PENDING takes its promise with it.
LEMMA PromiseKept ==
    ASSUME TradeInv, FiniteTrades, LocksInv, NEW t \in TradeIds, Pending(t),
           NEW to \in Closed, status' = [status EXCEPT ![t] = to], UNCHANGED trade,
           locked' = Release(trade[t].initiator, trade[t].terms.offered)
    PROVE  LocksInv'
  <1> DEFINE i == trade[t].initiator
  <1>0. i \in Users /\ trade[t].terms.offered \in [Cards -> Nat]
    <2>1. status[t] # None
      BY TradesAssumption DEF Pending, Statuses
    <2> QED
      BY <2>1, TradeExists DEF TradeInv
  <1>1. locked' = [locked EXCEPT ![i] = [c \in Cards |-> locked[i][c] - trade[t].terms.offered[c]]]
    BY <1>0 DEF Release, TradeInv, InventoryOK, Holding
  <1>2. Mine(i)' = Mine(i) \ {t} /\ t \in Mine(i) /\ \A u \in Users \ {i} : Mine(u)' = Mine(u)
    BY DEF Mine, Pending, TradeInv, TradesOK, Closed
  <1>3. \A c \in Cards : Offered(c)' = Offered(c)
    BY DEF Offered
  <1>4. ASSUME NEW u \in Users, NEW c \in Cards
        PROVE  locked'[u][c] = SumFunctionOnSet(Offered(c), Mine(u)')
    <2>1. CASE u = i
      <3>1. locked'[u][c] = locked[u][c] - Offered(c)[t]
        BY <1>0, <1>1, <2>1 DEF Offered, TradeInv, InventoryOK, Holding
      <3>2. IsFiniteSet(Mine(u)) /\ \A s \in Mine(u) : Offered(c)[s] \in Int
        BY MineFinite
      <3>3. t \in Mine(u) /\ Mine(u)' = Mine(u) \ {t}
        BY <1>2, <2>1
      <3>4. SumFunctionOnSet(Offered(c), Mine(u))
              = Offered(c)[t] + SumFunctionOnSet(Offered(c), Mine(u) \ {t})
        BY <3>2, <3>3, SumRemove
      <3>5. SumFunctionOnSet(Offered(c), Mine(u) \ {t}) \in Int /\ Offered(c)[t] \in Int
        BY <3>2, <3>3, FS_RemoveElement, SumType
      <3>6. locked[u][c] = SumFunctionOnSet(Offered(c), Mine(u))
        BY DEF LocksInv
      <3> QED
        BY <3>1, <3>3, <3>4, <3>5, <3>6
    <2>2. CASE u # i
      <3>1. locked'[u] = locked[u]
        BY <1>1, <2>2 DEF TradeInv, InventoryOK, Holding
      <3> QED
        BY <1>2, <2>2, <3>1 DEF LocksInv
    <2> QED
      BY <2>1, <2>2
  <1> QED
    BY <1>3, <1>4 DEF LocksInv

\* A step that leaves the locks and who promises what alone.
LEMMA PromisesAlone ==
    ASSUME TradeInv, LocksInv, UNCHANGED <<locked, trade>>,
           \A t \in TradeIds : Pending(t)' <=> Pending(t)
    PROVE  LocksInv'
  <1>1. \A u \in Users : Mine(u)' = Mine(u)
    BY DEF Mine
  <1>2. \A c \in Cards : Offered(c)' = Offered(c)
    BY DEF Offered
  <1> QED
    BY <1>1, <1>2 DEF LocksInv

\* An offer that is committed promises what it locks; the trade it answers no longer does.
LEMMA PromiseMade ==
    ASSUME TradeInv, FiniteTrades, LocksInv, OffersAnswer,
           NEW o \in offers, NEW t \in TradeIds, ProposeCommit(o, t) \/ CounterCommit(o, t)
    PROVE  LocksInv'
  <1> DEFINE old == o.countered
  <1>0. /\ o \in Offer /\ o.by # o.to /\ o.by \in Users /\ o.to \in Users
        /\ o.terms.offered \in [Cards -> Nat]
        /\ trade'[t].initiator = o.by /\ trade'[t].terms = o.terms
        /\ t \notin Exist /\ status[t] = None
        /\ \A s \in TradeIds \ {t} : trade'[s] = trade[s]
    <2>1. o \in Offer /\ o.by # o.to /\ t \notin Exist /\ status[t] = None
          /\ \A s \in TradeIds \ {t} : trade'[s] = trade[s]
      BY Birth
    <2>2. trade'[t].initiator = o.by /\ trade'[t].terms = o.terms
      <3>1. trade'[t] = [initiator |-> o.by, recipient |-> o.to, terms |-> o.terms,
                         countered |-> o.countered]
        BY Birth
      <3> QED
        BY <3>1
    <2>3. o.by \in Users /\ o.to \in Users /\ o.terms \in TermsShape
      BY <2>1, TradesAssumption DEF Offer
    <2> QED
      BY <2>1, <2>2, <2>3 DEF TermsShape
  <1>1. t \notin Mine(o.by) /\ \A u \in Users : t \notin Mine(u)
    BY <1>0, TradesAssumption DEF Mine, Pending, Statuses
  <1>2. ASSUME NEW u \in Users, NEW c \in Cards, NEW S \in SUBSET Mine(u)
        PROVE  SumFunctionOnSet(Offered(c)', S) = SumFunctionOnSet(Offered(c), S)
    <2>1. IsFiniteSet(S) /\ \A s \in S : Offered(c)[s] \in Int
      BY MineFinite
    <2>2. \A s \in S : Offered(c)'[s] = Offered(c)[s]
      BY <1>0, <1>1 DEF Offered, Mine
    <2> QED
      BY <2>1, <2>2, SumSame
  <1>3. ASSUME NEW c \in Cards, NEW S \in SUBSET Mine(o.by), S = Mine(o.by),
               Mine(o.by)' = S \cup {t}
        PROVE  SumFunctionOnSet(Offered(c)', Mine(o.by)') = locked[o.by][c] + o.terms.offered[c]
    <2>0. o.by \in Users
      BY <1>0
    <2>1. IsFiniteSet(S) /\ \A s \in S : Offered(c)[s] \in Int
      BY <2>0, MineFinite
    <2>2. \A s \in S : Offered(c)'[s] = Offered(c)[s]
      BY <1>0, <1>1 DEF Offered, Mine
    <2>3. Offered(c)'[t] = o.terms.offered[c] /\ o.terms.offered[c] \in Int
      BY <1>0 DEF Offered
    <2>4. SumFunctionOnSet(Offered(c)', S \cup {t}) = SumFunctionOnSet(Offered(c)', S) + Offered(c)'[t]
      <3>1. t \notin S /\ \A s \in S \cup {t} : Offered(c)'[s] \in Int
        BY <1>1, <2>1, <2>2, <2>3
      <3> QED
        BY <2>1, <3>1, SumAdd
    <2>5. SumFunctionOnSet(Offered(c)', S) = locked[o.by][c]
      BY <1>0, <1>2, <1>3 DEF LocksInv
    <2> QED
      BY <1>3, <2>3, <2>4, <2>5
  <1>4. ASSUME ProposeCommit(o, t) PROVE LocksInv'
    <2>1. locked' = [locked EXCEPT ![o.by] = [c \in Cards |-> locked[o.by][c] + o.terms.offered[c]]]
          /\ status' = [status EXCEPT ![t] = "PENDING"]
      BY <1>0, <1>4 DEF ProposeCommit, Lock, TradeInv, InventoryOK, Holding
    <2>2. Mine(o.by)' = Mine(o.by) \cup {t} /\ \A u \in Users \ {o.by} : Mine(u)' = Mine(u)
      BY <1>0, <1>1, <2>1 DEF Mine, Pending, TradeInv, TradesOK
    <2>3. ASSUME NEW u \in Users, NEW c \in Cards
          PROVE  locked'[u][c] = SumFunctionOnSet(Offered(c)', Mine(u)')
      <3>1. CASE u = o.by
        <4>1. locked'[u][c] = locked[o.by][c] + o.terms.offered[c]
          BY <1>0, <2>1, <3>1 DEF TradeInv, InventoryOK, Holding
        <4> QED
          BY <1>3, <2>2, <3>1, <4>1
      <3>2. CASE u # o.by
        <4>1. locked'[u][c] = locked[u][c]
          BY <2>1, <3>2 DEF TradeInv, InventoryOK, Holding
        <4> QED
          BY <1>2, <2>2, <3>2, <4>1 DEF LocksInv
      <3> QED
        BY <3>1, <3>2
    <2> QED
      BY <2>3 DEF LocksInv
  <1>5. ASSUME CounterCommit(o, t) PROVE LocksInv'
    <2> DEFINE give == trade[old].terms.offered
    <2>0. /\ old \in TradeIds /\ old # t /\ Pending(old) /\ status[old] = "PENDING"
          /\ trade[old].initiator = o.to /\ give \in [Cards -> Nat]
      <3>1. old # None /\ Pending(old)
        BY <1>5 DEF CounterCommit
      <3>2. old \in Exist /\ trade[old].initiator = o.to
        BY <3>1 DEF OffersAnswer
      <3>3. old \in TradeIds /\ status[old] # None
        BY <3>2 DEF Exist, TradeInv, TradesOK
      <3> QED
        BY <1>0, <3>1, <3>2, <3>3, TradeExists DEF TradeInv, Pending
    <2>1. /\ locked' = [u \in Users |-> IF u = o.by THEN Lock(o.by, o.terms.offered)[u]
                                        ELSE Release(o.to, give)[u]]
          /\ status' = [status EXCEPT ![old] = "COUNTERED", ![t] = "PENDING"]
      BY <1>5 DEF CounterCommit, Replace
    <2>2. /\ \A c \in Cards : locked'[o.by][c] = locked[o.by][c] + o.terms.offered[c]
          /\ \A c \in Cards : locked'[o.to][c] = locked[o.to][c] - give[c]
          /\ \A u \in Users \ {o.by, o.to} : locked'[u] = locked[u]
      BY <1>0, <2>1 DEF Lock, Release, TradeInv, InventoryOK, Holding
    <2>3. \A s \in TradeIds : Pending(s)' <=> (s = t \/ (Pending(s) /\ s # old))
      BY <2>0, <2>1 DEF Pending, TradeInv, TradesOK
    <2>4. /\ Mine(o.by)' = Mine(o.by) \cup {t}
          /\ Mine(o.to)' = Mine(o.to) \ {old} /\ old \in Mine(o.to)
          /\ \A u \in Users \ {o.by, o.to} : Mine(u)' = Mine(u)
      BY <1>0, <1>1, <2>0, <2>3 DEF Mine
    <2>5. ASSUME NEW u \in Users, NEW c \in Cards
          PROVE  locked'[u][c] = SumFunctionOnSet(Offered(c)', Mine(u)')
      <3>1. CASE u = o.by
        BY <1>3, <2>2, <2>4, <3>1
      <3>2. CASE u = o.to
        <4>1. IsFiniteSet(Mine(u)) /\ \A s \in Mine(u) : Offered(c)[s] \in Int
          BY MineFinite
        <4>2. SumFunctionOnSet(Offered(c), Mine(u))
                = Offered(c)[old] + SumFunctionOnSet(Offered(c), Mine(u) \ {old})
          BY <2>4, <3>2, <4>1, SumRemove
        <4>3. SumFunctionOnSet(Offered(c)', Mine(u)') = SumFunctionOnSet(Offered(c), Mine(u) \ {old})
          BY <1>2, <2>4, <3>2
        <4>4. Offered(c)[old] = give[c] /\ give[c] \in Int
          BY <2>0 DEF Offered
        <4>5. SumFunctionOnSet(Offered(c), Mine(u) \ {old}) \in Int
          BY <4>1, FS_RemoveElement, SumType
        <4>6. locked[u][c] = SumFunctionOnSet(Offered(c), Mine(u))
          BY DEF LocksInv
        <4>7. locked'[u][c] = locked[u][c] - give[c]
          BY <2>2, <3>2
        <4> HIDE DEF give, old
        <4> QED
          BY <4>2, <4>3, <4>4, <4>5, <4>6, <4>7
      <3>3. CASE u \notin {o.by, o.to}
        BY <1>2, <2>2, <2>4, <3>3 DEF LocksInv
      <3> QED
        BY <3>1, <3>2, <3>3
    <2> QED
      BY <2>5 DEF LocksInv
  <1> QED
    BY <1>4, <1>5

\* A suspension gives back, per initiator, the sum of what it voids.
LEMMA PromisesVoided ==
    ASSUME TradeInv, FiniteTrades, LocksInv, NEW u \in Users, SuspendCommit(u)
    PROVE  LocksInv'
  <1> DEFINE closing == {t \in seen[u] : Pending(t)}
  <1>1. /\ locked' = [w \in Users |-> [c \in Cards |-> locked[w][c] - Promised(w, closing, c)]]
        /\ status' = [t \in TradeIds |-> IF t \in closing THEN "VOIDED" ELSE status[t]]
        /\ UNCHANGED trade
    BY DEF SuspendCommit, SuspendVoiding
  <1>2. closing \in SUBSET TradeIds
    BY DEF TradeInv, RequestsOK
  <1> HIDE DEF closing
  <1>3. \A w \in Users : Mine(w)' = Mine(w) \ closing
    BY <1>1 DEF Mine, Pending
  <1>4. \A c \in Cards : Offered(c)' = Offered(c)
    BY <1>1 DEF Offered
  <1>5. ASSUME NEW w \in Users, NEW c \in Cards
        PROVE  locked'[w][c] = SumFunctionOnSet(Offered(c), Mine(w)')
    <2> DEFINE gone == closing \cap Mine(w)
               left == Mine(w) \ closing
    <2>1. /\ gone \in SUBSET Mine(w) /\ left \in SUBSET Mine(w)
          /\ gone \cap left = {} /\ gone \cup left = Mine(w)
      OBVIOUS
    <2>2. locked'[w][c] = locked[w][c] - Promised(w, closing, c)
      BY <1>1
    <2>3. Promised(w, closing, c) = SumFunctionOnSet(Offered(c), gone)
      BY <1>2, PromisedSum
    <2>4. Mine(w)' = left
      BY <1>3
    <2>5. locked[w][c] = SumFunctionOnSet(Offered(c), Mine(w))
      BY DEF LocksInv
    <2> HIDE DEF gone, left
    <2>6. /\ IsFiniteSet(gone) /\ \A t \in gone : Offered(c)[t] \in Int
          /\ IsFiniteSet(left) /\ \A t \in left : Offered(c)[t] \in Int
      BY <2>1, MineFinite
    <2>7. SumFunctionOnSet(Offered(c), gone \cup left)
            = SumFunctionOnSet(Offered(c), gone) + SumFunctionOnSet(Offered(c), left)
      BY <2>1, <2>6, SumUnion
    <2>9. SumFunctionOnSet(Offered(c), Mine(w)) = SumFunctionOnSet(Offered(c), gone \cup left)
      BY <2>1
    <2>8. SumFunctionOnSet(Offered(c), gone) \in Int /\ SumFunctionOnSet(Offered(c), left) \in Int
      BY <2>6, SumType
    <2> QED
      BY <2>2, <2>3, <2>4, <2>5, <2>7, <2>8, <2>9
  <1> QED
    BY <1>4, <1>5 DEF LocksInv

LEMMA LocksStep ==
    ASSUME TradeInv, FiniteTrades, OffersAnswer, LocksInv, [Next]_vars
    PROVE  LocksInv'
  <1>1. CASE Quiet
    BY <1>1, PromisesAlone DEF Quiet, inventory, Pending
  <1>2. ASSUME NEW t \in TradeIds, CalledOff(t) \/ Accept(t) PROVE LocksInv'
    <2>1. /\ Pending(t) /\ UNCHANGED trade
          /\ \E to \in Closed : status' = [status EXCEPT ![t] = to]
          /\ locked' = Release(trade[t].initiator, trade[t].terms.offered)
      BY <1>2 DEF CalledOff, CloseAndRelease, Close, Accept, SettleCards, Pending, Closed
    <2> QED
      BY <2>1, PromiseKept
  <1>3. ASSUME NEW t \in TradeIds, Reversed(t) PROVE LocksInv'
    <2>1. /\ UNCHANGED <<locked, trade>> /\ status[t] = "ACCEPTED"
          /\ status' = [status EXCEPT ![t] = "VOIDED"]
      BY <1>3 DEF Reversed, ReverseCards, Close
    <2>2. \A s \in TradeIds : Pending(s)' <=> Pending(s)
      BY <2>1 DEF Pending, TradeInv, TradesOK
    <2> QED
      BY <2>1, <2>2, PromisesAlone
  <1>4. ASSUME NEW u \in Users, NEW c \in Cards, OpenPack(u, c) PROVE LocksInv'
    BY <1>4, PromisesAlone DEF OpenPack, Pending
  <1> QED
    BY <1>1, <1>2, <1>3, <1>4, PromiseMade, PromisesVoided, StepEffects

LEMMA LocksInit == Init => FiniteTrades /\ OffersAnswer /\ LocksInv
  <1> SUFFICES ASSUME Init PROVE FiniteTrades /\ OffersAnswer /\ LocksInv
    OBVIOUS
  <1>1. Exist = {} /\ offers = {} /\ \A t \in TradeIds : status[t] = None
    BY DEF Init, Exist
  <1>2. "PENDING" # None
    BY TradesAssumption DEF Statuses
  <1>3. \A u \in Users : Mine(u) = {}
    BY <1>1, <1>2 DEF Mine, Pending
  <1>4. \A u \in Users, c \in Cards : locked[u][c] = 0
    BY DEF Init
  <1>5. LocksInv
    BY <1>3, <1>4, SumEmpty DEF LocksInv
  <1> QED
    BY <1>1, <1>5, FS_EmptySet DEF FiniteTrades, OffersAnswer

\* What holds at all times of trades, offers and locks.
LEMMA Standing == Spec => [](TradeInv /\ FiniteTrades /\ OffersAnswer /\ LocksInv)
  BY InvInit, InvNext, LocksInit, FiniteStep, OffersAnswerStep, LocksStep, PTL DEF Spec

\* The lock invariant of the data model: whatever proposals, counters, answers, voids, jobs,
\* suspensions and packs interleave, every member has locked exactly the copies that their own
\* PENDING trades offer, card by card - none is freed twice, none stays locked behind.
THEOREM LocksHold == Spec => []LocksArePromises
  <1>1. ASSUME TradeInv, FiniteTrades, LocksInv PROVE LocksArePromises
    <2> SUFFICES ASSUME NEW u \in Users, NEW c \in Cards
                 PROVE  locked[u][c] = Promised(u, TradeIds, c)
      BY DEF LocksArePromises
    <2>1. Promised(u, TradeIds, c) = SumFunctionOnSet(Offered(c), TradeIds \cap Mine(u))
      BY <1>1, PromisedSum
    <2>2. TradeIds \cap Mine(u) = Mine(u)
      BY DEF Mine
    <2>3. locked[u][c] = SumFunctionOnSet(Offered(c), Mine(u))
      BY <1>1 DEF LocksInv
    <2> QED
      BY <2>1, <2>2, <2>3
  <1> QED
    BY <1>1, Standing, PTL

-----------------------------------------------------------------------------
(* What members own is explained by packs and by the trades in force.      *)

CardMoves(u, c) == [t \in TradeIds |-> CardGain(t, u, c)]
CoinMoves(u) == [t \in TradeIds |-> CoinGain(t, u)]

CardsInv ==
    \A u \in Users, c \in Cards :
        quantity[u][c] = Holdings[u][c] + opened[u][c] + SumFunctionOnSet(CardMoves(u, c), InForce)

CoinsInv ==
    \A u \in Users :
        currency[u] = Coins[u] - PackCost * SumFunction(opened[u])
                        + SumFunctionOnSet(CoinMoves(u), InForce)

\* Finitely many trades are in force, and each moves a number.
LEMMA InForceFinite ==
    ASSUME TradeInv, FiniteTrades
    PROVE  /\ IsFiniteSet(InForce) /\ InForce \subseteq Exist /\ InForce \subseteq TradeIds
           /\ \A t \in Exist, u \in Users : CoinMoves(u)[t] \in Int
           /\ \A t \in Exist, u \in Users, c \in Cards : CardMoves(u, c)[t] \in Int
  <1>1. \A t \in TradeIds : t \in Exist <=> status[t] # None
    BY DEF Exist, TradeInv, TradesOK
  <1>2. InForce \in SUBSET Exist
    BY <1>1, TradesAssumption DEF InForce, Statuses, Closed
  <1>3. IsFiniteSet(InForce)
    BY <1>2, FS_Subset DEF FiniteTrades
  <1>4. ASSUME NEW t \in Exist, NEW u \in Users PROVE CoinMoves(u)[t] \in Int
    <2>1. t \in TradeIds /\ status[t] # None
      BY <1>1 DEF Exist
    <2> QED
      BY <2>1, CoinGainType DEF CoinMoves, TradeInv
  <1>5. ASSUME NEW t \in Exist, NEW u \in Users, NEW c \in Cards PROVE CardMoves(u, c)[t] \in Int
    <2>1. t \in TradeIds /\ status[t] # None
      BY <1>1 DEF Exist
    <2>2. trade[t].terms.offered[c] \in Nat /\ trade[t].terms.requested[c] \in Nat
      BY <2>1, TradeExists DEF TradeInv
    <2>3. CardGain(t, u, c) \in Int
      BY <2>2 DEF CardGain
    <2> QED
      BY <2>1, <2>3 DEF CardMoves
  <1> QED
    BY <1>2, <1>3, <1>4, <1>5 DEF Exist

\* The coins that went into packs are a number, as the catalog is finite.
LEMMA SpentType ==
    ASSUME TradeInv, NEW u \in Users
    PROVE  /\ SumFunction(opened[u]) = SumFunctionOnSet(opened[u], Cards)
           /\ SumFunction(opened[u]) \in Int
           /\ PackCost * SumFunction(opened[u]) \in Int
  <1>1. DOMAIN opened[u] = Cards /\ \A c \in Cards : opened[u][c] \in Int
    BY DEF TradeInv, Holding
  <1>2. SumFunction(opened[u]) = SumFunctionOnSet(opened[u], Cards)
    BY <1>1 DEF SumFunction
  <1>3. SumFunctionOnSet(opened[u], Cards) \in Int
    BY <1>1, SumType, TradesAssumption
  <1>4. SumFunction(opened[u]) \in Int
    BY <1>2, <1>3
  <1>5. \A n \in Int : PackCost * n \in Int
    BY TradesAssumption
  <1> QED
    BY <1>2, <1>4, <1>5

\* A step that moves nothing leaves the books as they are.
LEMMA HoldingsAlone ==
    ASSUME TradeInv, FiniteTrades, CardsInv, CoinsInv, UNCHANGED <<quantity, currency, opened>>,
           InForce' = InForce, \A t \in InForce : trade'[t] = trade[t]
    PROVE  CardsInv' /\ CoinsInv'
  <1> DEFINE S == InForce
  <1>0. IsFiniteSet(S) /\ S \subseteq Exist /\ S \subseteq TradeIds
    BY InForceFinite
  <1>1. ASSUME NEW u \in Users, NEW c \in Cards
        PROVE  SumFunctionOnSet(CardMoves(u, c)', S) = SumFunctionOnSet(CardMoves(u, c), S)
    <2>1. \A t \in S : CardMoves(u, c)[t] \in Int
      BY <1>0, InForceFinite
    <2>2. \A t \in S : CardMoves(u, c)'[t] = CardMoves(u, c)[t]
      BY <1>0 DEF CardMoves, CardGain
    <2> QED
      BY <1>0, <2>1, <2>2, SumSame
  <1>2. ASSUME NEW u \in Users
        PROVE  SumFunctionOnSet(CoinMoves(u)', S) = SumFunctionOnSet(CoinMoves(u), S)
    <2>1. \A t \in S : CoinMoves(u)[t] \in Int
      BY <1>0, InForceFinite
    <2>2. \A t \in S : CoinMoves(u)'[t] = CoinMoves(u)[t]
      BY <1>0 DEF CoinMoves, CoinGain
    <2> QED
      BY <1>0, <2>1, <2>2, SumSame
  <1> QED
    BY <1>1, <1>2 DEF CardsInv, CoinsInv

\* Coins that are moved reach both parties; nobody else has any to gain.
LEMMA MoveCoinsEffect ==
    ASSUME TradesOK, MoneyOK, NEW t \in TradeIds, status[t] # None, NEW direction \in {1, -1},
           NEW type, MoveCoins(t, direction, type), NEW u \in Users
    PROVE  currency'[u] = currency[u] + direction * CoinGain(t, u)
  <1>1. CASE (\A w \in Party(t) : CoinGain(t, w) = 0) /\ currency' = currency
    <2>1. CoinGain(t, u) = 0
      BY <1>1, CoinGainType
    <2>2. direction * CoinGain(t, u) = 0
      BY <2>1
    <2> QED
      BY <1>1, <2>2 DEF MoneyOK
  <1>2. CASE currency' = [w \in Users |-> currency[w] + direction * CoinGain(t, w)]
    BY <1>2
  <1> QED
    BY <1>1, <1>2 DEF MoveCoins

\* A settled trade is in force.
LEMMA HoldingsSettled ==
    ASSUME TradeInv, FiniteTrades, CardsInv, CoinsInv, NEW t \in TradeIds, Accept(t)
    PROVE  CardsInv' /\ CoinsInv'
  <1> DEFINE S == InForce
  <1>0. /\ status[t] = "PENDING" /\ status[t] # None /\ status' = [status EXCEPT ![t] = "ACCEPTED"]
        /\ UNCHANGED <<trade, opened>> /\ MoveCoins(t, 1, "TRADE")
        /\ quantity' = [u \in Users |-> [c \in Cards |-> quantity[u][c] + CardGain(t, u, c)]]
    BY TradesAssumption DEF Accept, Close, SettleCards, Statuses
  <1>1. S' = S \cup {t} /\ t \notin S /\ t \in Exist
    BY <1>0 DEF InForce, Exist, TradeInv, TradesOK
  <1>2. IsFiniteSet(S) /\ S \subseteq Exist
    BY InForceFinite
  <1> HIDE DEF S
  <1>3. ASSUME NEW u \in Users, NEW c \in Cards
        PROVE  quantity'[u][c] = Holdings[u][c] + opened[u][c]
                                   + SumFunctionOnSet(CardMoves(u, c), S \cup {t})
    <2>1. \A s \in S \cup {t} : CardMoves(u, c)[s] \in Int
      BY <1>1, <1>2, InForceFinite
    <2>2. SumFunctionOnSet(CardMoves(u, c), S \cup {t})
            = SumFunctionOnSet(CardMoves(u, c), S) + CardMoves(u, c)[t]
      BY <1>1, <1>2, <2>1, SumAdd
    <2>3. quantity'[u][c] = quantity[u][c] + CardMoves(u, c)[t]
      BY <1>0 DEF CardMoves
    <2>4. quantity[u][c] = Holdings[u][c] + opened[u][c] + SumFunctionOnSet(CardMoves(u, c), S)
      BY DEF CardsInv, S
    <2>5. /\ SumFunctionOnSet(CardMoves(u, c), S) \in Int /\ CardMoves(u, c)[t] \in Int
          /\ Holdings[u][c] \in Int /\ opened[u][c] \in Int
      BY <1>2, <2>1, SumType, TradesAssumption DEF TradeInv, Holding
    <2> QED
      BY <2>2, <2>3, <2>4, <2>5
  <1>4. ASSUME NEW u \in Users
        PROVE  currency'[u] = Coins[u] - PackCost * SumFunction(opened[u])
                                + SumFunctionOnSet(CoinMoves(u), S \cup {t})
    <2> DEFINE spent == PackCost * SumFunction(opened[u])
    <2>1. \A s \in S \cup {t} : CoinMoves(u)[s] \in Int
      BY <1>1, <1>2, InForceFinite
    <2>2. SumFunctionOnSet(CoinMoves(u), S \cup {t})
            = SumFunctionOnSet(CoinMoves(u), S) + CoinMoves(u)[t]
      BY <1>1, <1>2, <2>1, SumAdd
    <2>3. currency'[u] = currency[u] + CoinMoves(u)[t]
      <3>1. currency'[u] = currency[u] + 1 * CoinGain(t, u)
        BY <1>0, MoveCoinsEffect DEF TradeInv
      <3>2. CoinGain(t, u) \in Int /\ CoinMoves(u)[t] = CoinGain(t, u)
        BY <2>1 DEF CoinMoves
      <3> QED
        BY <3>1, <3>2
    <2>4. currency[u] = Coins[u] - spent + SumFunctionOnSet(CoinMoves(u), S)
      BY DEF CoinsInv, S
    <2>5. spent \in Int
      BY SpentType
    <2>6. SumFunctionOnSet(CoinMoves(u), S) \in Int /\ CoinMoves(u)[t] \in Int /\ Coins[u] \in Int
      BY <1>2, <2>1, SumType, TradesAssumption
    <2> HIDE DEF spent
    <2>7. currency'[u] = Coins[u] - spent + SumFunctionOnSet(CoinMoves(u), S \cup {t})
      BY <2>2, <2>3, <2>4, <2>5, <2>6
    <2> QED
      BY <2>7 DEF spent
  <1>5. \A u \in Users, c \in Cards : CardMoves(u, c)' = CardMoves(u, c)
    BY <1>0 DEF CardMoves, CardGain
  <1>6. \A u \in Users : CoinMoves(u)' = CoinMoves(u)
    BY <1>0 DEF CoinMoves, CoinGain
  <1>7. InForce' = S \cup {t}
    BY <1>1 DEF S
  <1> QED
    BY <1>0, <1>3, <1>4, <1>5, <1>6, <1>7 DEF CardsInv, CoinsInv

\* A trade that is reversed no longer is.
LEMMA HoldingsReversed ==
    ASSUME TradeInv, FiniteTrades, CardsInv, CoinsInv, NEW t \in TradeIds, Reversed(t)
    PROVE  CardsInv' /\ CoinsInv'
  <1> DEFINE S == InForce
  <1>0. /\ status[t] = "ACCEPTED" /\ status[t] # None /\ status' = [status EXCEPT ![t] = "VOIDED"]
        /\ UNCHANGED <<trade, opened>> /\ MoveCoins(t, -1, "TRADE_REVERSAL")
        /\ quantity' = [u \in Users |-> [c \in Cards |-> quantity[u][c] - CardGain(t, u, c)]]
    BY TradesAssumption DEF Reversed, Close, ReverseCards, Statuses, Closed
  <1>1. S' = S \ {t} /\ t \in S
    BY <1>0 DEF InForce, TradeInv, TradesOK
  <1>2. IsFiniteSet(S) /\ S \subseteq Exist /\ IsFiniteSet(S \ {t})
    BY InForceFinite, FS_RemoveElement
  <1> HIDE DEF S
  <1>3. ASSUME NEW u \in Users, NEW c \in Cards
        PROVE  quantity'[u][c] = Holdings[u][c] + opened[u][c]
                                   + SumFunctionOnSet(CardMoves(u, c), S \ {t})
    <2>1. \A s \in S : CardMoves(u, c)[s] \in Int
      BY <1>2, InForceFinite
    <2>2. SumFunctionOnSet(CardMoves(u, c), S)
            = CardMoves(u, c)[t] + SumFunctionOnSet(CardMoves(u, c), S \ {t})
      BY <1>1, <1>2, <2>1, SumRemove
    <2>3. quantity'[u][c] = quantity[u][c] - CardMoves(u, c)[t]
      BY <1>0 DEF CardMoves
    <2>4. quantity[u][c] = Holdings[u][c] + opened[u][c] + SumFunctionOnSet(CardMoves(u, c), S)
      BY DEF CardsInv, S
    <2>5. /\ SumFunctionOnSet(CardMoves(u, c), S \ {t}) \in Int /\ CardMoves(u, c)[t] \in Int
          /\ Holdings[u][c] \in Int /\ opened[u][c] \in Int
      BY <1>1, <1>2, <2>1, SumType, TradesAssumption DEF TradeInv, Holding
    <2> QED
      BY <2>2, <2>3, <2>4, <2>5
  <1>4. ASSUME NEW u \in Users
        PROVE  currency'[u] = Coins[u] - PackCost * SumFunction(opened[u])
                                + SumFunctionOnSet(CoinMoves(u), S \ {t})
    <2> DEFINE spent == PackCost * SumFunction(opened[u])
    <2>1. \A s \in S : CoinMoves(u)[s] \in Int
      BY <1>2, InForceFinite
    <2>2. SumFunctionOnSet(CoinMoves(u), S)
            = CoinMoves(u)[t] + SumFunctionOnSet(CoinMoves(u), S \ {t})
      BY <1>1, <1>2, <2>1, SumRemove
    <2>3. currency'[u] = currency[u] - CoinMoves(u)[t]
      <3>1. currency'[u] = currency[u] + (-1) * CoinGain(t, u)
        BY <1>0, MoveCoinsEffect DEF TradeInv
      <3>2. CoinGain(t, u) \in Int /\ CoinMoves(u)[t] = CoinGain(t, u)
        BY <1>1, <2>1 DEF CoinMoves
      <3>3. currency[u] \in Int
        BY DEF TradeInv, MoneyOK
      <3> QED
        BY <3>1, <3>2, <3>3
    <2>4. currency[u] = Coins[u] - spent + SumFunctionOnSet(CoinMoves(u), S)
      BY DEF CoinsInv, S
    <2>5. spent \in Int
      BY SpentType
    <2>6. SumFunctionOnSet(CoinMoves(u), S \ {t}) \in Int /\ CoinMoves(u)[t] \in Int /\ Coins[u] \in Int
      BY <1>1, <1>2, <2>1, SumType, TradesAssumption
    <2> HIDE DEF spent
    <2>7. currency'[u] = Coins[u] - spent + SumFunctionOnSet(CoinMoves(u), S \ {t})
      BY <2>2, <2>3, <2>4, <2>5, <2>6
    <2> QED
      BY <2>7 DEF spent
  <1>5. \A u \in Users, c \in Cards : CardMoves(u, c)' = CardMoves(u, c)
    BY <1>0 DEF CardMoves, CardGain
  <1>6. \A u \in Users : CoinMoves(u)' = CoinMoves(u)
    BY <1>0 DEF CoinMoves, CoinGain
  <1>7. InForce' = S \ {t}
    BY <1>1 DEF S
  <1> QED
    BY <1>0, <1>3, <1>4, <1>5, <1>6, <1>7 DEF CardsInv, CoinsInv


\* A pack that is opened.
LEMMA HoldingsOpened ==
    ASSUME TradeInv, FiniteTrades, CardsInv, CoinsInv, NEW i \in Users, NEW d \in Cards, OpenPack(i, d)
    PROVE  CardsInv' /\ CoinsInv'
  <1>0. /\ currency' = [currency EXCEPT ![i] = currency[i] - PackCost]
        /\ quantity' = [quantity EXCEPT ![i] = [quantity[i] EXCEPT ![d] = quantity[i][d] + 1]]
        /\ opened' = [opened EXCEPT ![i] = [opened[i] EXCEPT ![d] = opened[i][d] + 1]]
        /\ UNCHANGED <<trade, status>>
    BY DEF OpenPack
  <1>1. InForce' = InForce /\ IsFiniteSet(InForce) /\ InForce \subseteq Exist
    BY <1>0, InForceFinite DEF InForce
  <1>2. \A u \in Users, c \in Cards : CardMoves(u, c)' = CardMoves(u, c)
    BY <1>0 DEF CardMoves, CardGain
  <1>3. \A u \in Users : CoinMoves(u)' = CoinMoves(u)
    BY <1>0 DEF CoinMoves, CoinGain
  <1>4. ASSUME NEW u \in Users, NEW c \in Cards
        PROVE  quantity'[u][c] - quantity[u][c] = opened'[u][c] - opened[u][c]
               /\ quantity'[u][c] \in Int /\ opened'[u][c] \in Int
    BY <1>0 DEF TradeInv, InventoryOK, Holding
  <1>5. ASSUME NEW u \in Users, NEW c \in Cards
        PROVE  quantity'[u][c] = Holdings[u][c] + opened'[u][c] + SumFunctionOnSet(CardMoves(u, c), InForce)
    <2>1. \A t \in InForce : CardMoves(u, c)[t] \in Int
      BY <1>1, InForceFinite
    <2>2. SumFunctionOnSet(CardMoves(u, c), InForce) \in Int
      BY <1>1, <2>1, SumType
    <2>3. quantity[u][c] = Holdings[u][c] + opened[u][c] + SumFunctionOnSet(CardMoves(u, c), InForce)
      BY DEF CardsInv
    <2>4. quantity[u][c] \in Int /\ Holdings[u][c] \in Int /\ opened[u][c] \in Int
      BY TradesAssumption DEF TradeInv, InventoryOK, Holding
    <2>5. /\ quantity'[u][c] - quantity[u][c] = opened'[u][c] - opened[u][c]
          /\ quantity'[u][c] \in Int /\ opened'[u][c] \in Int
      BY <1>4
    <2> QED
      BY <2>2, <2>3, <2>4, <2>5
  <1>6. ASSUME NEW u \in Users
        PROVE  currency'[u] = Coins[u] - PackCost * SumFunction(opened'[u])
                                + SumFunctionOnSet(CoinMoves(u), InForce)
    <2>0. currency[u] = Coins[u] - PackCost * SumFunction(opened[u])
                          + SumFunctionOnSet(CoinMoves(u), InForce)
      BY DEF CoinsInv
    <2>1. CASE u # i
      <3>1. opened'[u] = opened[u] /\ currency'[u] = currency[u]
        BY <1>0, <2>1 DEF TradeInv, MoneyOK, Holding
      <3> QED
        BY <2>0, <3>1
    <2>2. CASE u = i
      <3>1. opened'[u] \in [Cards -> Int] /\ opened[u] \in [Cards -> Int]
            /\ opened'[u][d] = opened[u][d] + 1
            /\ \A c \in Cards : c # d => opened'[u][c] = opened[u][c]
        BY <1>0, <2>2 DEF TradeInv, Holding
      <3>2. SumFunctionOnSet(opened'[u], Cards)
              = SumFunctionOnSet(opened[u], Cards) + opened'[u][d] - opened[u][d]
        BY <3>1, SumChange, TradesAssumption
      <3>3. SumFunction(opened'[u]) = SumFunctionOnSet(opened'[u], Cards)
        BY <3>1 DEF SumFunction
      <3>4. SumFunction(opened[u]) = SumFunctionOnSet(opened[u], Cards)
            /\ SumFunction(opened[u]) \in Int
        BY SpentType
      <3>5. opened[u][d] \in Int
        BY <3>1
      <3>6. SumFunction(opened'[u]) = SumFunction(opened[u]) + 1
        BY <3>1, <3>2, <3>3, <3>4, <3>5
      <3>7. \A n \in Int : PackCost * (n + 1) = PackCost * n + PackCost
        BY TradesAssumption
      <3>8. PackCost * SumFunction(opened'[u]) = PackCost * SumFunction(opened[u]) + PackCost
        BY <3>4, <3>6, <3>7
      <3>9. currency'[u] = currency[u] - PackCost
        BY <1>0, <2>2 DEF TradeInv, MoneyOK
      <3>10. /\ PackCost * SumFunction(opened[u]) \in Int /\ PackCost \in Int /\ Coins[u] \in Int
        BY SpentType, TradesAssumption
      <3>11. SumFunctionOnSet(CoinMoves(u), InForce) \in Int
        <4>1. \A t \in InForce : CoinMoves(u)[t] \in Int
          BY <1>1, InForceFinite
        <4> QED
          BY <1>1, <4>1, SumType
      <3> DEFINE before == PackCost * SumFunction(opened[u])
                 after == PackCost * SumFunction(opened'[u])
                 moved == SumFunctionOnSet(CoinMoves(u), InForce)
      <3>12. /\ after = before + PackCost /\ currency[u] = Coins[u] - before + moved
             /\ before \in Int /\ moved \in Int
        BY <2>0, <3>8, <3>10, <3>11
      <3> HIDE DEF before, after, moved
      <3>13. currency'[u] = Coins[u] - after + moved
        BY <3>9, <3>10, <3>12
      <3> QED
        BY <3>13 DEF after, moved
    <2> QED
      BY <2>1, <2>2
  <1> QED
    BY <1>1, <1>2, <1>3, <1>5, <1>6 DEF CardsInv, CoinsInv

LEMMA HoldingsStep ==
    ASSUME TradeInv, FiniteTrades, OffersAnswer, CardsInv, CoinsInv, [Next]_vars
    PROVE  CardsInv' /\ CoinsInv'
  <1>0. InForce \subseteq Exist
    BY InForceFinite
  <1>1. CASE Quiet
    BY <1>1, HoldingsAlone DEF Quiet, inventory, InForce
  <1>2. ASSUME NEW t \in TradeIds, CalledOff(t) PROVE CardsInv' /\ CoinsInv'
    <2>1. \E to \in Closed \ {"ACCEPTED"} : status[t] = "PENDING" /\ status' = [status EXCEPT ![t] = to]
      BY <1>2 DEF CalledOff, CloseAndRelease, Close
    <2>2. InForce' = InForce
      BY <2>1 DEF InForce, TradeInv, TradesOK
    <2> QED
      BY <1>2, <2>2, HoldingsAlone DEF CalledOff
  <1>3. ASSUME NEW o \in offers, NEW t \in TradeIds, ProposeCommit(o, t) \/ CounterCommit(o, t)
        PROVE  CardsInv' /\ CoinsInv'
    <2>1. UNCHANGED <<quantity, currency, opened>>
      BY <1>3, Birth
    <2>2. t \notin Exist /\ \A s \in TradeIds \ {t} : trade'[s] = trade[s]
      BY <1>3, Birth
    <2>3. \A s \in TradeIds : status'[s] = "ACCEPTED" <=> status[s] = "ACCEPTED"
      <3>1. ASSUME ProposeCommit(o, t)
            PROVE  \A s \in TradeIds : status'[s] = "ACCEPTED" <=> status[s] = "ACCEPTED"
        <4>1. status' = [status EXCEPT ![t] = "PENDING"] /\ status[t] = None
          BY <1>3, <3>1, Birth DEF ProposeCommit
        <4>2. None # "ACCEPTED"
          BY TradesAssumption DEF Statuses, Closed
        <4> QED
          BY <4>1, <4>2 DEF TradeInv, TradesOK
      <3>2. ASSUME CounterCommit(o, t)
            PROVE  \A s \in TradeIds : status'[s] = "ACCEPTED" <=> status[s] = "ACCEPTED"
        <4>1. status[t] = None
          BY <1>3, Birth
        <4>2. /\ status' = [status EXCEPT ![o.countered] = "COUNTERED", ![t] = "PENDING"]
              /\ status[o.countered] = "PENDING"
          BY <3>2 DEF CounterCommit, Replace, Pending
        <4>3. None # "ACCEPTED"
          BY TradesAssumption DEF Statuses, Closed
        <4> QED
          BY <4>1, <4>2, <4>3 DEF TradeInv, TradesOK
      <3> QED
        BY <1>3, <3>1, <3>2
    <2>4. InForce' = InForce
      BY <2>3 DEF InForce
    <2>5. \A s \in InForce : trade'[s] = trade[s]
      BY <1>0, <2>2 DEF InForce
    <2> QED
      BY <2>1, <2>4, <2>5, HoldingsAlone
  <1>4. ASSUME NEW u \in Users, SuspendCommit(u) PROVE CardsInv' /\ CoinsInv'
    <2>1. /\ status' = [t \in TradeIds |-> IF t \in {s \in seen[u] : Pending(s)} THEN "VOIDED" ELSE status[t]]
          /\ UNCHANGED <<quantity, currency, opened, trade>>
      BY <1>4 DEF SuspendCommit, SuspendVoiding
    <2>2. InForce' = InForce
      BY <2>1 DEF InForce, Pending
    <2> QED
      BY <2>1, <2>2, HoldingsAlone
  <1> QED
    BY <1>1, <1>2, <1>3, <1>4, HoldingsSettled, HoldingsReversed, HoldingsOpened, StepEffects

LEMMA HoldingsInit == Init => CardsInv /\ CoinsInv
  <1> SUFFICES ASSUME Init PROVE CardsInv /\ CoinsInv
    OBVIOUS
  <1>1. None # "ACCEPTED"
    BY TradesAssumption DEF Statuses, Closed
  <1>2. InForce = {}
    BY <1>1 DEF Init, InForce
  <1>3. ASSUME NEW u \in Users, NEW c \in Cards
        PROVE  quantity[u][c] = Holdings[u][c] + opened[u][c] + SumFunctionOnSet(CardMoves(u, c), InForce)
    <2>1. SumFunctionOnSet(CardMoves(u, c), InForce) = 0
      BY <1>2, SumEmpty
    <2>2. quantity[u][c] = Holdings[u][c] /\ opened[u][c] = 0 /\ Holdings[u][c] \in Int
      BY TradesAssumption DEF Init
    <2> QED
      BY <2>1, <2>2
  <1>4. ASSUME NEW u \in Users
        PROVE  currency[u] = Coins[u] - PackCost * SumFunction(opened[u])
                               + SumFunctionOnSet(CoinMoves(u), InForce)
    <2>1. SumFunctionOnSet(CoinMoves(u), InForce) = 0
      BY <1>2, SumEmpty
    <2>2. opened[u] = [c \in Cards |-> 0] /\ currency[u] = Coins[u] /\ Coins[u] \in Int
      BY TradesAssumption DEF Init
    <2>3. SumFunction(opened[u]) = 0
      <3>1. DOMAIN opened[u] = Cards /\ \A c \in Cards : opened[u][c] = 0
        BY <2>2
      <3>2. SumFunctionOnSet(opened[u], Cards) = 0
        BY <3>1, SumZero, TradesAssumption
      <3> QED
        BY <3>1, <3>2 DEF SumFunction
    <2>4. PackCost * SumFunction(opened[u]) = 0
      BY <2>3, TradesAssumption
    <2> QED
      BY <2>1, <2>2, <2>4
  <1> QED
    BY <1>3, <1>4 DEF CardsInv, CoinsInv

\* What everyone owns, cards and coins, is what they started with, what their packs brought and
\* cost, and what the trades in force moved: no race of answers, voids and jobs makes anything
\* appear, vanish, move twice or come back by half.
THEOREM HoldingsHold == Spec => []HoldingsAreExplained
  <1>1. ASSUME TradeInv, FiniteTrades, CardsInv, CoinsInv PROVE HoldingsAreExplained
    <2>0. IsFiniteSet(InForce) /\ InForce \subseteq Exist /\ InForce \subseteq TradeIds
      BY <1>1, InForceFinite
    <2>1. ASSUME NEW u \in Users, NEW c \in Cards
          PROVE  SumFunction([t \in InForce |-> CardGain(t, u, c)])
                   = SumFunctionOnSet(CardMoves(u, c), InForce)
      <3> DEFINE f == [t \in InForce |-> CardGain(t, u, c)]
      <3>1. DOMAIN f = InForce /\ \A t \in InForce : f[t] = CardMoves(u, c)[t]
        BY <2>0 DEF CardMoves
      <3> HIDE DEF f
      <3>2. \A t \in InForce : CardMoves(u, c)[t] \in Int
        BY <1>1, <2>0, InForceFinite
      <3>3. SumFunctionOnSet(f, InForce) = SumFunctionOnSet(CardMoves(u, c), InForce)
        BY <2>0, <3>1, <3>2, SumSame
      <3>4. SumFunction(f) = SumFunctionOnSet(f, InForce)
        BY <3>1 DEF SumFunction
      <3> QED
        BY <3>3, <3>4 DEF f
    <2>2. ASSUME NEW u \in Users
          PROVE  SumFunction([t \in InForce |-> CoinGain(t, u)])
                   = SumFunctionOnSet(CoinMoves(u), InForce)
      <3> DEFINE f == [t \in InForce |-> CoinGain(t, u)]
      <3>1. DOMAIN f = InForce /\ \A t \in InForce : f[t] = CoinMoves(u)[t]
        BY <2>0 DEF CoinMoves
      <3> HIDE DEF f
      <3>2. \A t \in InForce : CoinMoves(u)[t] \in Int
        BY <1>1, <2>0, InForceFinite
      <3>3. SumFunctionOnSet(f, InForce) = SumFunctionOnSet(CoinMoves(u), InForce)
        BY <2>0, <3>1, <3>2, SumSame
      <3>4. SumFunction(f) = SumFunctionOnSet(f, InForce)
        BY <3>1 DEF SumFunction
      <3> QED
        BY <3>3, <3>4 DEF f
    <2>3. \A u \in Users, c \in Cards :
              quantity[u][c] = Holdings[u][c] + opened[u][c]
                                 + SumFunction([t \in InForce |-> CardGain(t, u, c)])
      BY <1>1, <2>1 DEF CardsInv
    <2>4. \A u \in Users :
              currency[u] = Coins[u] - PackCost * SumFunction(opened[u])
                              + SumFunction([t \in InForce |-> CoinGain(t, u)])
      BY <1>1, <2>2 DEF CoinsInv
    <2> QED
      BY <2>3, <2>4 DEF HoldingsAreExplained
  <1> QED
    BY <1>1, Standing, InvNext, HoldingsInit, HoldingsStep, PTL DEF Spec

-----------------------------------------------------------------------------
(* The ledger tells what the audit log tells.                              *)

\* The rows that moving the coins of t writes; none when no coins change hands.
Expected(t, type, direction) ==
    {LedgerRow(u, type, t, direction * CoinGain(t, u)) :
        u \in {w \in Party(t) : direction # 0 /\ CoinGain(t, w) # 0}}

\* A trade that is in force was accepted, one that is open or was called off never was; those
\* that were have their rows, and the rows that undo them once they are voided.
LedgerInv(t) ==
    /\ status[t] \in {"PENDING", "DECLINED", "CANCELLED", "COUNTERED", None} => ~WasAccepted(t)
    /\ status[t] = "ACCEPTED" => WasAccepted(t)
    /\ ~WasAccepted(t) => Rows(t, "TRADE") = {} /\ Rows(t, "TRADE_REVERSAL") = {}
    /\ WasAccepted(t) =>
          /\ Rows(t, "TRADE") = Expected(t, "TRADE", 1)
          /\ status[t] = "VOIDED" => Rows(t, "TRADE_REVERSAL") = Expected(t, "TRADE_REVERSAL", -1)
          /\ status[t] # "VOIDED" => Rows(t, "TRADE_REVERSAL") = {}

\* The coins that leave one party reach the other.
LEMMA CoinGainOpposite ==
    ASSUME TradesOK, NEW t \in TradeIds, status[t] # None, NEW u \in Party(t), NEW w \in Party(t),
           CoinGain(t, u) # 0
    PROVE  CoinGain(t, w) # 0
  <1> DEFINE toInitiator == trade[t].terms.currencyFromRecipient - trade[t].terms.currencyFromInitiator
  <1>1. toInitiator \in Int /\ trade[t].initiator # trade[t].recipient
    BY TradeExists
  <1>2. CoinGain(t, trade[t].initiator) = toInitiator
        /\ CoinGain(t, trade[t].recipient) = 0 - toInitiator
    BY <1>1 DEF CoinGain
  <1> HIDE DEF toInitiator
  <1>3. u \in {trade[t].initiator, trade[t].recipient} /\ w \in {trade[t].initiator, trade[t].recipient}
    BY DEF Party
  <1>4. toInitiator # 0
    BY <1>1, <1>2, <1>3
  <1> QED
    BY <1>1, <1>2, <1>3, <1>4

\* Coins that move are written to the ledger, on both sides, and nowhere else.
LEMMA MoveCoinsRows ==
    ASSUME TradesOK, NEW t \in TradeIds, status[t] # None, NEW direction \in {1, -1}, NEW type,
           MoveCoins(t, direction, type), UNCHANGED trade
    PROVE  /\ Rows(t, type)' = Rows(t, type) \cup Expected(t, type, direction)
           /\ \A s \in TradeIds : \A other : s # t \/ other # type => Rows(s, other)' = Rows(s, other)
  <1> DEFINE new == {LedgerRow(u, type, t, direction * CoinGain(t, u)) : u \in Party(t)}
  <1>1. CASE (\A u \in Party(t) : CoinGain(t, u) = 0) /\ ledger' = ledger
    <2>1. Expected(t, type, direction) = {}
      BY <1>1 DEF Expected
    <2> QED
      BY <1>1, <2>1 DEF Rows
  <1>2. CASE (\E u \in Party(t) : CoinGain(t, u) # 0) /\ ledger' = ledger \cup new
    <2>1. \A u \in Party(t) : CoinGain(t, u) # 0
      BY <1>2, CoinGainOpposite
    <2>2. {w \in Party(t) : direction # 0 /\ CoinGain(t, w) # 0} = Party(t)
      BY <2>1
    <2>3. Expected(t, type, direction) = new
      BY <2>2 DEF Expected
    <2>4. \A e \in new : e.refId = t /\ e.type = type
      BY DEF LedgerRow
    <2> HIDE DEF new
    <2> QED
      BY <1>2, <2>3, <2>4 DEF Rows
  <1> QED
    BY <1>1, <1>2 DEF MoveCoins

\* A row more says that the trade was accepted only if it is the row of an acceptance.
LEMMA WasAcceptedGrows ==
    ASSUME TradesOK, NEW t \in TradeIds, NEW action, NEW from, NEW to,
           audit'[t] = Append(audit[t], AuditRow(action, from, to))
    PROVE  WasAccepted(t)' <=> WasAccepted(t) \/ to = "ACCEPTED"
  <1> DEFINE row == AuditRow(action, from, to)
             rows == audit[t]
  <1>1. rows \in Seq(Row) /\ row.to = to
    BY DEF TradesOK, AuditRow
  <1> HIDE DEF row, rows
  <1>2. /\ DOMAIN Append(rows, row) = 1 .. Len(rows) + 1 /\ DOMAIN rows = 1 .. Len(rows)
        /\ Len(rows) \in Nat
        /\ \A i \in 1 .. Len(rows) : Append(rows, row)[i] = rows[i]
        /\ Append(rows, row)[Len(rows) + 1] = row
    BY <1>1
  <1>3. (\E i \in DOMAIN Append(rows, row) : Append(rows, row)[i].to = "ACCEPTED")
            <=> (\E i \in DOMAIN rows : rows[i].to = "ACCEPTED") \/ to = "ACCEPTED"
    <2>1. 1 .. Len(rows) + 1 = (1 .. Len(rows)) \cup {Len(rows) + 1}
      BY <1>2
    <2> QED
      BY <1>1, <1>2, <2>1
  <1>4. audit'[t] = Append(rows, row)
    BY DEF row, rows
  <1> QED
    BY <1>3, <1>4 DEF WasAccepted, rows

\* A trade that the step leaves alone.
LEMMA LedgerAlone ==
    ASSUME NEW t \in TradeIds, LedgerInv(t), trade'[t] = trade[t], status'[t] = status[t],
           audit'[t] = audit[t], Rows(t, "TRADE")' = Rows(t, "TRADE"),
           Rows(t, "TRADE_REVERSAL")' = Rows(t, "TRADE_REVERSAL")
    PROVE  LedgerInv(t)'
  <1>1. WasAccepted(t)' <=> WasAccepted(t)
    BY DEF WasAccepted
  <1>2. \A type, direction : Expected(t, type, direction)' = Expected(t, type, direction)
    BY DEF Expected, CoinGain, Party
  <1> QED
    BY <1>1, <1>2 DEF LedgerInv

\* A trade that leaves PENDING without being settled, and one that is born.
LEMMA LedgerCalledOff ==
    ASSUME TradesOK, NEW t \in TradeIds, LedgerInv(t), status[t] = "PENDING", UNCHANGED ledger,
           NEW to \in Closed \ {"ACCEPTED"}, status'[t] = to, NEW action, NEW from,
           audit'[t] = Append(audit[t], AuditRow(action, from, to))
    PROVE  LedgerInv(t)'
  <1>1. ~WasAccepted(t)
    BY DEF LedgerInv
  <1>2. ~WasAccepted(t)'
    BY <1>1, WasAcceptedGrows
  <1>3. Rows(t, "TRADE")' = {} /\ Rows(t, "TRADE_REVERSAL")' = {}
    BY <1>1 DEF LedgerInv, Rows
  <1>4. status'[t] # "ACCEPTED"
    OBVIOUS
  <1> QED
    BY <1>2, <1>3, <1>4 DEF LedgerInv

LEMMA LedgerBorn ==
    ASSUME NEW t \in TradeIds, LedgerInv(t), status[t] = None, UNCHANGED ledger,
           status'[t] = "PENDING", audit'[t] = <<Born>>
    PROVE  LedgerInv(t)'
  <1>1. ~WasAccepted(t)
    BY DEF LedgerInv
  <1>2. ~WasAccepted(t)'
    BY DEF WasAccepted, Born, AuditRow
  <1>3. Rows(t, "TRADE")' = {} /\ Rows(t, "TRADE_REVERSAL")' = {}
    BY <1>1 DEF LedgerInv, Rows
  <1> QED
    BY <1>2, <1>3 DEF LedgerInv

\* A trade that is settled gets its rows, one that is voided after that the rows that undo them.
LEMMA LedgerSettled ==
    ASSUME TradeInv, NEW t \in TradeIds, \A s \in TradeIds : LedgerInv(s), Accept(t)
    PROVE  \A s \in TradeIds : LedgerInv(s)'
  <1>0. TradesOK
    BY DEF TradeInv
  <1>1. /\ status[t] = "PENDING" /\ status' = [status EXCEPT ![t] = "ACCEPTED"]
        /\ audit' = [audit EXCEPT ![t] = Append(@, AuditRow("trade.accept", "PENDING", "ACCEPTED"))]
        /\ MoveCoins(t, 1, "TRADE") /\ UNCHANGED trade
    BY DEF Accept, Close
  <1>2. status[t] # None /\ None # "VOIDED"
    BY <1>1, TradesAssumption DEF Statuses, Closed
  <1>3. \A s \in TradeIds : \A other : s # t \/ other # "TRADE" => Rows(s, other)' = Rows(s, other)
    BY <1>0, <1>1, <1>2, MoveCoinsRows
  <1>4. Rows(t, "TRADE")' = Rows(t, "TRADE") \cup Expected(t, "TRADE", 1)
    BY <1>0, <1>1, <1>2, MoveCoinsRows
  <1>5. \A s \in TradeIds \ {t} : LedgerInv(s)'
    BY <1>0, <1>1, <1>3, LedgerAlone DEF TradesOK
  <1>6. LedgerInv(t)'
    <2>1. ~WasAccepted(t) /\ Rows(t, "TRADE") = {} /\ Rows(t, "TRADE_REVERSAL") = {}
      BY <1>1 DEF LedgerInv
    <2>2. status'[t] = "ACCEPTED"
          /\ audit'[t] = Append(audit[t], AuditRow("trade.accept", "PENDING", "ACCEPTED"))
      BY <1>0, <1>1 DEF TradesOK
    <2>3. WasAccepted(t)'
      BY <1>0, <2>2, WasAcceptedGrows
    <2>4. \A type, direction : Expected(t, type, direction)' = Expected(t, type, direction)
      BY <1>1 DEF Expected, CoinGain, Party
    <2>6. Rows(t, "TRADE_REVERSAL")' = {} /\ Rows(t, "TRADE")' = Expected(t, "TRADE", 1)
      BY <1>3, <1>4, <2>1
    <2>7. status'[t] # "VOIDED"
          /\ status'[t] \notin {"PENDING", "DECLINED", "CANCELLED", "COUNTERED", None}
      BY <2>2, TradesAssumption DEF Statuses, Closed
    <2>8. Rows(t, "TRADE")' = Expected(t, "TRADE", 1)'
      BY <2>4, <2>6
    <2> QED
      BY <2>3, <2>6, <2>7, <2>8 DEF LedgerInv
  <1> QED
    BY <1>5, <1>6

LEMMA LedgerReversed ==
    ASSUME TradeInv, NEW t \in TradeIds, \A s \in TradeIds : LedgerInv(s), Reversed(t)
    PROVE  \A s \in TradeIds : LedgerInv(s)'
  <1>0. TradesOK
    BY DEF TradeInv
  <1>1. /\ status[t] = "ACCEPTED" /\ status' = [status EXCEPT ![t] = "VOIDED"]
        /\ audit' = [audit EXCEPT ![t] = Append(@, AuditRow("trade.void", "ACCEPTED", "VOIDED"))]
        /\ MoveCoins(t, -1, "TRADE_REVERSAL") /\ UNCHANGED trade
    BY DEF Reversed, Close
  <1>2. status[t] # None /\ None # "VOIDED"
    BY <1>1, TradesAssumption DEF Statuses, Closed
  <1>3. \A s \in TradeIds : \A other : s # t \/ other # "TRADE_REVERSAL" => Rows(s, other)' = Rows(s, other)
    BY <1>0, <1>1, <1>2, MoveCoinsRows
  <1>4. Rows(t, "TRADE_REVERSAL")' = Rows(t, "TRADE_REVERSAL") \cup Expected(t, "TRADE_REVERSAL", -1)
    BY <1>0, <1>1, <1>2, MoveCoinsRows
  <1>5. \A s \in TradeIds \ {t} : LedgerInv(s)'
    BY <1>0, <1>1, <1>3, LedgerAlone DEF TradesOK
  <1>6. LedgerInv(t)'
    <2>1. /\ WasAccepted(t) /\ Rows(t, "TRADE") = Expected(t, "TRADE", 1)
          /\ Rows(t, "TRADE_REVERSAL") = {}
      BY <1>1 DEF LedgerInv
    <2>2. status'[t] = "VOIDED"
          /\ audit'[t] = Append(audit[t], AuditRow("trade.void", "ACCEPTED", "VOIDED"))
      BY <1>0, <1>1 DEF TradesOK
    <2>3. WasAccepted(t)'
      BY <1>0, <2>1, <2>2, WasAcceptedGrows
    <2>4. \A type, direction : Expected(t, type, direction)' = Expected(t, type, direction)
      BY <1>1 DEF Expected, CoinGain, Party
    <2>6. Rows(t, "TRADE_REVERSAL")' = Expected(t, "TRADE_REVERSAL", -1)
      BY <1>4, <2>1
    <2>7. Rows(t, "TRADE")' = Expected(t, "TRADE", 1)
      BY <1>3, <2>1
    <2> QED
      BY <1>2, <2>2, <2>3, <2>4, <2>6, <2>7 DEF LedgerInv
  <1> QED
    BY <1>5, <1>6

LEMMA LedgerStep ==
    ASSUME TradeInv, OffersAnswer, [Next]_vars, \A t \in TradeIds : LedgerInv(t)
    PROVE  \A t \in TradeIds : LedgerInv(t)'
  <1>0. TradesOK
    BY DEF TradeInv
  <1>1. ASSUME UNCHANGED <<trade, status, audit, ledger>> PROVE \A t \in TradeIds : LedgerInv(t)'
    BY <1>1, LedgerAlone DEF Rows
  <1>2. ASSUME NEW t \in TradeIds, CalledOff(t) PROVE \A s \in TradeIds : LedgerInv(s)'
    <2>1. PICK to, action :
              /\ to \in Closed \ {"ACCEPTED"}
              /\ status[t] = "PENDING" /\ status' = [status EXCEPT ![t] = to]
              /\ audit' = [audit EXCEPT ![t] = Append(@, AuditRow(action, "PENDING", to))]
              /\ UNCHANGED <<trade, ledger>>
      BY <1>2 DEF CalledOff, CloseAndRelease, Close
    <2>2. LedgerInv(t)'
      BY <1>0, <2>1, LedgerCalledOff DEF TradesOK
    <2>3. \A s \in TradeIds \ {t} : LedgerInv(s)'
      BY <1>0, <2>1, LedgerAlone DEF TradesOK, Rows
    <2> QED
      BY <2>2, <2>3
  <1>3. ASSUME NEW o \in offers, NEW t \in TradeIds, ProposeCommit(o, t)
        PROVE  \A s \in TradeIds : LedgerInv(s)'
    <2>1. /\ status[t] = None /\ UNCHANGED ledger
          /\ \A s \in TradeIds \ {t} : trade'[s] = trade[s]
      BY <1>3, Birth
    <2>2. status' = [status EXCEPT ![t] = "PENDING"] /\ audit' = [audit EXCEPT ![t] = <<Born>>]
      BY <1>3 DEF ProposeCommit
    <2>3. LedgerInv(t)'
      BY <1>0, <2>1, <2>2, LedgerBorn DEF TradesOK
    <2>4. \A s \in TradeIds \ {t} : LedgerInv(s)'
      BY <1>0, <2>1, <2>2, LedgerAlone DEF TradesOK, Rows
    <2> QED
      BY <2>3, <2>4
  <1>4. ASSUME NEW o \in offers, NEW t \in TradeIds, CounterCommit(o, t)
        PROVE  \A s \in TradeIds : LedgerInv(s)'
    <2> DEFINE old == o.countered
               row == AuditRow("trade.counter", "PENDING", "COUNTERED")
    <2>1. /\ status[t] = None /\ UNCHANGED ledger
          /\ \A s \in TradeIds \ {t} : trade'[s] = trade[s]
      BY <1>4, Birth
    <2>2. /\ status' = [status EXCEPT ![old] = "COUNTERED", ![t] = "PENDING"]
          /\ audit' = [audit EXCEPT ![old] = Append(@, row), ![t] = <<Born>>]
          /\ status[old] = "PENDING" /\ old # None
      BY <1>4 DEF CounterCommit, Replace, Pending
    <2>3. old \in TradeIds /\ old # t
      BY <2>1, <2>2, TradesAssumption DEF OffersAnswer, Exist, Statuses
    <2>4. LedgerInv(t)'
      BY <1>0, <2>1, <2>2, LedgerBorn DEF TradesOK
    <2>5. status'[old] = "COUNTERED" /\ audit'[old] = Append(audit[old], row)
      BY <1>0, <2>2, <2>3 DEF TradesOK
    <2>6. LedgerInv(old)'
      BY <1>0, <2>1, <2>2, <2>3, <2>5, LedgerCalledOff DEF Closed
    <2>7. \A s \in TradeIds \ {t, old} : LedgerInv(s)'
      BY <1>0, <2>1, <2>2, <2>3, LedgerAlone DEF TradesOK, Rows
    <2> QED
      BY <2>4, <2>6, <2>7
  <1>5. ASSUME NEW u \in Users, SuspendCommit(u) PROVE \A s \in TradeIds : LedgerInv(s)'
    <2> DEFINE closing == {t \in seen[u] : Pending(t)}
               row == AuditRow("trade.void", "PENDING", "VOIDED")
    <2>1. /\ status' = [t \in TradeIds |-> IF t \in closing THEN "VOIDED" ELSE status[t]]
          /\ audit' = [t \in TradeIds |-> IF t \in closing THEN Append(audit[t], row) ELSE audit[t]]
          /\ UNCHANGED <<trade, ledger>>
      BY <1>5 DEF SuspendCommit, SuspendVoiding
    <2>2. ASSUME NEW s \in TradeIds PROVE LedgerInv(s)'
      <3>1. CASE s \in closing
        <4>1. status[s] = "PENDING" /\ status'[s] = "VOIDED" /\ audit'[s] = Append(audit[s], row)
          BY <2>1, <3>1 DEF Pending
        <4> QED
          BY <1>0, <2>1, <4>1, LedgerCalledOff DEF Closed
      <3>2. CASE s \notin closing
        <4>1. status'[s] = status[s] /\ audit'[s] = audit[s]
          BY <2>1, <3>2
        <4> QED
          BY <2>1, <4>1, LedgerAlone DEF Rows
      <3> QED
        BY <3>1, <3>2
    <2> QED
      BY <2>2
  <1>6. ASSUME NEW u \in Users, NEW c \in Cards, OpenPack(u, c)
        PROVE  \A t \in TradeIds : LedgerInv(t)'
    BY <1>1, <1>6 DEF OpenPack
  <1>7. ASSUME Quiet PROVE \A t \in TradeIds : LedgerInv(t)'
    BY <1>1, <1>7 DEF Quiet
  <1> QED
    BY <1>2, <1>3, <1>4, <1>5, <1>6, <1>7, LedgerSettled, LedgerReversed, StepEffects

LEMMA LedgerInit == Init => \A t \in TradeIds : LedgerInv(t)
  <1> SUFFICES ASSUME Init, NEW t \in TradeIds PROVE LedgerInv(t)
    OBVIOUS
  <1>1. audit[t] = <<>> /\ ledger = {} /\ status[t] = None
    BY DEF Init
  <1>2. ~WasAccepted(t) /\ \A type : Rows(t, type) = {}
    BY <1>1 DEF WasAccepted, Rows
  <1>3. None # "ACCEPTED"
    BY TradesAssumption DEF Statuses, Closed
  <1> QED
    BY <1>1, <1>2, <1>3 DEF LedgerInv

\* The ledger and the audit log agree about every trade: one that was accepted has a row for each
\* side of what it moved, one that was voided after that the rows that undo them, and any other,
\* whatever raced for it, has none.
THEOREM LedgerTold == Spec => []LedgerMatchesAudit
  <1>1. ASSUME TradeInv, \A t \in TradeIds : LedgerInv(t) PROVE LedgerMatchesAudit
    <2> SUFFICES ASSUME NEW t \in TradeIds
                 PROVE  IF trade[t] = None \/ ~WasAccepted(t)
                        THEN Rows(t, "TRADE") \cup Rows(t, "TRADE_REVERSAL") = {}
                        ELSE /\ Rows(t, "TRADE") = Expected(t, "TRADE", 1)
                             /\ Rows(t, "TRADE_REVERSAL") =
                                    Expected(t, "TRADE_REVERSAL", IF status[t] = "VOIDED" THEN -1 ELSE 0)
      BY DEF LedgerMatchesAudit, Expected
    <2>1. trade[t] = None => ~WasAccepted(t)
      BY <1>1 DEF TradeInv, TradesOK, LedgerInv
    <2>2. Expected(t, "TRADE_REVERSAL", 0) = {}
      BY DEF Expected
    <2>3. CASE ~WasAccepted(t)
      BY <1>1, <2>3 DEF LedgerInv
    <2>4. CASE WasAccepted(t)
      BY <1>1, <2>1, <2>2, <2>4 DEF LedgerInv
    <2> QED
      BY <2>3, <2>4
  <1>2. TradeInv /\ OffersAnswer /\ (\A t \in TradeIds : LedgerInv(t)) /\ [Next]_vars
            => (\A t \in TradeIds : LedgerInv(t))'
    BY LedgerStep
  <1> QED
    BY <1>1, <1>2, Standing, LedgerInit, PTL DEF Spec

-----------------------------------------------------------------------------
(* Negotiations: one answer to each trade, and not too many in a row.      *)

ReplacedInv ==
    \A t \in TradeIds :
        /\ status[t] = "COUNTERED" => \E s \in TradeIds : Replacing(t) = {s}
        /\ status[t] # "COUNTERED" => Replacing(t) = {}
        /\ \A s \in Replacing(t) : /\ trade[s].initiator = trade[t].recipient
                                  /\ trade[s].recipient = trade[t].initiator

\* Only existing trades are answered.
LEMMA ReplacingExists ==
    ASSUME TradeInv, ReplacedInv, NEW t \in TradeIds, Replacing(t) # {}
    PROVE  t \in Exist
  <1>1. status[t] = "COUNTERED"
    BY DEF ReplacedInv
  <1>2. status[t] # None
    BY <1>1, TradesAssumption DEF Statuses, Closed
  <1> QED
    BY <1>2 DEF Exist, TradeInv, TradesOK

LEMMA ReplacedAlone ==
    ASSUME ReplacedInv, UNCHANGED trade,
           \A t \in TradeIds : status'[t] = "COUNTERED" <=> status[t] = "COUNTERED"
    PROVE  ReplacedInv'
  <1>1. \A t \in TradeIds : Replacing(t)' = Replacing(t)
    BY DEF Replacing
  <1> QED
    BY <1>1 DEF ReplacedInv

LEMMA ReplacedStep ==
    ASSUME TradeInv, OffersAnswer, ReplacedInv, [Next]_vars
    PROVE  ReplacedInv'
  <1>0. TradesOK
    BY DEF TradeInv
  <1>n. None # "COUNTERED"
    BY TradesAssumption DEF Statuses, Closed
  <1>1. ASSUME Quiet PROVE ReplacedInv'
    BY <1>1, ReplacedAlone DEF Quiet
  <1>2. ASSUME NEW t \in TradeIds, CalledOff(t) \/ Accept(t) \/ Reversed(t) PROVE ReplacedInv'
    <2>1. /\ UNCHANGED trade /\ status[t] \in {"PENDING", "ACCEPTED"}
          /\ \E to : to # "COUNTERED" /\ status' = [status EXCEPT ![t] = to]
      BY <1>2 DEF CalledOff, CloseAndRelease, Accept, Reversed, Close
    <2>2. \A s \in TradeIds : status'[s] = "COUNTERED" <=> status[s] = "COUNTERED"
      BY <1>0, <2>1 DEF TradesOK
    <2> QED
      BY <2>1, <2>2, ReplacedAlone
  <1>3. ASSUME NEW u \in Users, SuspendCommit(u) PROVE ReplacedInv'
    <2>1. /\ UNCHANGED trade
          /\ status' = [t \in TradeIds |-> IF t \in {s \in seen[u] : Pending(s)} THEN "VOIDED" ELSE status[t]]
      BY <1>3 DEF SuspendCommit, SuspendVoiding
    <2>2. \A s \in TradeIds : status'[s] = "COUNTERED" <=> status[s] = "COUNTERED"
      BY <2>1 DEF Pending
    <2> QED
      BY <2>1, <2>2, ReplacedAlone
  <1>4. ASSUME NEW u \in Users, NEW c \in Cards, OpenPack(u, c) PROVE ReplacedInv'
    BY <1>4, ReplacedAlone DEF OpenPack
  <1>5. ASSUME NEW o \in offers, NEW t \in TradeIds, ProposeCommit(o, t) \/ CounterCommit(o, t)
        PROVE  ReplacedInv'
    <2> DEFINE old == o.countered
    <2>1. t \notin Exist /\ status[t] = None
      BY <1>5, Birth
    <2>2. trade'[t] # None
      BY <1>5, Birth
    <2>3. \A s \in TradeIds \ {t} : trade'[s] = trade[s]
      BY <1>5, Birth
    <2>4. trade'[t].initiator = o.by /\ trade'[t].recipient = o.to /\ trade'[t].countered = old
      <3>1. trade'[t] = [initiator |-> o.by, recipient |-> o.to, terms |-> o.terms, countered |-> old]
        BY <1>5, Birth
      <3> QED
        BY <3>1
    <2>5. \A s \in TradeIds : Replacing(s)' = IF s = old THEN Replacing(s) \cup {t} ELSE Replacing(s)
      BY <2>1, <2>2, <2>3, <2>4 DEF Replacing, Exist
    <2>6. Replacing(t) = {}
      BY <2>1, <1>n DEF ReplacedInv
    <2>7. ASSUME NEW s \in TradeIds, s # t, s # old, status'[s] = status[s]
          PROVE  /\ status'[s] = "COUNTERED" => \E r \in TradeIds : Replacing(s)' = {r}
                 /\ status'[s] # "COUNTERED" => Replacing(s)' = {}
                 /\ \A r \in Replacing(s)' : /\ trade'[r].initiator = trade'[s].recipient
                                             /\ trade'[r].recipient = trade'[s].initiator
      <3>1. Replacing(s)' = Replacing(s) /\ trade'[s] = trade[s]
        BY <2>3, <2>5, <2>7
      <3>2. \A r \in Replacing(s) : r # t /\ r \in TradeIds
        BY <2>1 DEF Replacing, Exist
      <3>3. \A r \in Replacing(s) : trade'[r] = trade[r]
        BY <2>3, <3>2
      <3> QED
        BY <2>7, <3>1, <3>3 DEF ReplacedInv
    <2>8. ASSUME status'[t] = "PENDING", t # old
          PROVE  /\ status'[t] # "COUNTERED" /\ Replacing(t)' = {}
      BY <2>5, <2>6, <2>8
    <2>9. ASSUME ProposeCommit(o, t) PROVE ReplacedInv'
      <3>1. old = None /\ old \notin TradeIds /\ status' = [status EXCEPT ![t] = "PENDING"]
        BY <2>9, TradesAssumption DEF ProposeCommit
      <3>2. \A s \in TradeIds : s # t => status'[s] = status[s]
        BY <1>0, <3>1 DEF TradesOK
      <3>3. status'[t] = "PENDING" /\ t # old
        BY <1>0, <3>1 DEF TradesOK
      <3> HIDE DEF old
      <3> QED
        BY <2>7, <2>8, <3>1, <3>2, <3>3 DEF ReplacedInv
    <2>10. ASSUME CounterCommit(o, t) PROVE ReplacedInv'
      <3>1. /\ old # None /\ status[old] = "PENDING"
            /\ status' = [status EXCEPT ![old] = "COUNTERED", ![t] = "PENDING"]
        BY <2>10 DEF CounterCommit, Replace, Pending
      <3>2. old \in Exist /\ old \in TradeIds /\ old # t
            /\ trade[old].initiator = o.to /\ trade[old].recipient = o.by
        BY <2>1, <3>1 DEF OffersAnswer, Exist
      <3> HIDE DEF old
      <3>3. \A s \in TradeIds : s # t /\ s # old => status'[s] = status[s]
        BY <1>0, <3>1 DEF TradesOK
      <3>4. status'[t] = "PENDING" /\ status'[old] = "COUNTERED"
        BY <1>0, <3>1, <3>2 DEF TradesOK
      <3>5. Replacing(old)' = {t}
        <4>1. Replacing(old) = {}
          BY <3>1, <3>2 DEF ReplacedInv
        <4> QED
          BY <2>5, <3>2, <4>1
      <3>6. trade'[t].initiator = trade'[old].recipient /\ trade'[t].recipient = trade'[old].initiator
        BY <2>3, <2>4, <3>2
      <3> QED
        BY <2>7, <2>8, <3>2, <3>3, <3>4, <3>5, <3>6 DEF ReplacedInv
    <2> QED
      BY <1>5, <2>9, <2>10
  <1> QED
    BY <1>1, <1>2, <1>3, <1>4, <1>5, StepEffects

\* The length of a negotiation, as the recursive query counts it.
LenEq(len) ==
    len = [s \in Exist |-> IF trade[s].countered = None THEN 1 ELSE 1 + len[trade[s].countered]]

ChainInv ==
    /\ \A t \in Exist : trade[t].countered # None => trade[t].countered \in Exist
    /\ \E len \in [Exist -> 1 .. MaxCounterChain] : LenEq(len)

LEMMA LenEqAt ==
    ASSUME NEW len, LenEq(len), NEW s \in Exist
    PROVE  len[s] = IF trade[s].countered = None THEN 1 ELSE 1 + len[trade[s].countered]
  <1>1. len = [x \in Exist |-> IF trade[x].countered = None THEN 1 ELSE 1 + len[trade[x].countered]]
    BY DEF LenEq
  <1> QED
    BY <1>1

\* As no negotiation goes round in circles, there is one way to count them.
LEMMA LenUnique ==
    ASSUME ChainInv, NEW f \in [Exist -> 1 .. MaxCounterChain], LenEq(f), NEW g, LenEq(g),
           NEW t \in Exist
    PROVE  g[t] = f[t]
  <1> DEFINE Bad == {f[s] : s \in {x \in Exist : g[x] # f[x]}}
  <1>1. SUFFICES ASSUME Bad # {} PROVE FALSE
    OBVIOUS
  <1>2. Bad \in SUBSET Nat
    OBVIOUS
  <1>3. PICK m \in Bad : \A x \in Bad : m <= x
    BY <1>1, <1>2, Least
  <1>4. PICK s \in Exist : g[s] # f[s] /\ m = f[s]
    OBVIOUS
  <1>5. CASE trade[s].countered = None
    BY <1>4, <1>5, LenEqAt
  <1>6. CASE trade[s].countered # None
    <2> DEFINE r == trade[s].countered
    <2>1. r \in Exist
      BY <1>6 DEF ChainInv
    <2>2. f[s] = 1 + f[r] /\ g[s] = 1 + g[r]
      BY <1>6, LenEqAt
    <2>3. f[r] \in Nat /\ f[r] < m
      BY <1>4, <2>1, <2>2
    <2> HIDE DEF r
    <2>4. f[r] \notin Bad
      BY <1>2, <1>3, <2>3
    <2>5. g[r] = f[r]
      BY <2>1, <2>4
    <2> QED
      BY <1>4, <2>2, <2>5
  <1> QED
    BY <1>5, <1>6

\* What the query answers.
LEMMA ChainLengthIs ==
    ASSUME ChainInv, NEW f \in [Exist -> 1 .. MaxCounterChain], LenEq(f), NEW t \in Exist
    PROVE  ChainLength(t) = f[t]
  <1> DEFINE g == CHOOSE len : LenEq(len)
  <1>1. ChainLength(t) = g[t]
    BY DEF ChainLength, LenEq, Exist
  <1>2. LenEq(g)
    OBVIOUS
  <1> HIDE DEF g
  <1> QED
    BY <1>1, <1>2, LenUnique

LEMMA ChainStep ==
    ASSUME TradeInv, OffersAnswer, ChainInv, [Next]_vars
    PROVE  ChainInv'
  <1>1. CASE UNCHANGED trade
    <2>1. Exist' = Exist /\ \A len : LenEq(len)' <=> LenEq(len)
      BY <1>1 DEF Exist, LenEq
    <2> QED
      BY <1>1, <2>1 DEF ChainInv
  <1>2. ASSUME NEW o \in offers, NEW t \in TradeIds, ProposeCommit(o, t) \/ CounterCommit(o, t)
        PROVE  ChainInv'
    <2> DEFINE old == o.countered
    <2>0. PICK f \in [Exist -> 1 .. MaxCounterChain] : LenEq(f)
      BY DEF ChainInv
    <2>1. Exist' = Exist \cup {t} /\ t \notin Exist
      BY <1>2, Birth
    <2>2. \A s \in TradeIds \ {t} : trade'[s] = trade[s]
      BY <1>2, Birth
    <2>3. trade'[t].countered = old
      <3>1. trade'[t] = [initiator |-> o.by, recipient |-> o.to, terms |-> o.terms, countered |-> old]
        BY <1>2, Birth
      <3> QED
        BY <3>1
    <2>4. \A s \in Exist : trade'[s] = trade[s] /\ s # t
      BY <2>1, <2>2 DEF Exist
    <2>5. old # None => old \in Exist /\ f[old] < MaxCounterChain
      <3> SUFFICES ASSUME old # None PROVE old \in Exist /\ f[old] < MaxCounterChain
        OBVIOUS
      <3>1. old \in Exist
        BY DEF OffersAnswer
      <3>2. ChainLength(old) < MaxCounterChain
        BY <1>2 DEF ProposeCommit, CounterCommit
      <3> QED
        BY <2>0, <3>1, <3>2, ChainLengthIs
    <2> DEFINE n == IF old = None THEN 1 ELSE 1 + f[old]
               g == [s \in Exist \cup {t} |-> IF s = t THEN n ELSE f[s]]
    <2>6. n \in 1 .. MaxCounterChain
      <3>1. CASE old = None
        BY <3>1, TradesAssumption
      <3>2. CASE old # None
        BY <2>5, <3>2, TradesAssumption
      <3> QED
        BY <3>1, <3>2
    <2>7. g[t] = n /\ \A s \in Exist : g[s] = f[s]
      BY <2>1
    <2>8. g \in [Exist' -> 1 .. MaxCounterChain]
      <3> HIDE DEF n
      <3> QED
        BY <2>1, <2>6
    <2>9. ASSUME NEW s \in Exist \cup {t}
          PROVE  g[s] = IF trade'[s].countered = None THEN 1 ELSE 1 + g[trade'[s].countered]
      <3>1. CASE s = t
        <4>1. old # None => g[old] = f[old]
          BY <2>5, <2>7
        <4> HIDE DEF g
        <4> QED
          BY <2>3, <2>7, <3>1, <4>1
      <3>2. CASE s # t
        <4>1. s \in Exist /\ trade'[s] = trade[s] /\ g[s] = f[s]
          BY <2>4, <2>7, <3>2
        <4>2. trade[s].countered # None => g[trade[s].countered] = f[trade[s].countered]
          BY <2>7, <4>1 DEF ChainInv
        <4>3. f[s] = IF trade[s].countered = None THEN 1 ELSE 1 + f[trade[s].countered]
          BY <2>0, <4>1, LenEqAt
        <4> HIDE DEF g
        <4> QED
          BY <4>1, <4>2, <4>3
      <3> QED
        BY <3>1, <3>2
    <2>10. DOMAIN g = Exist \cup {t} /\ g = [s \in DOMAIN g |-> g[s]]
      OBVIOUS
    <2>11. \A s \in Exist' : trade'[s].countered # None => trade'[s].countered \in Exist'
      <3> HIDE DEF g, n
      <3> QED
        BY <2>1, <2>3, <2>4, <2>5 DEF ChainInv
    <2> HIDE DEF g
    <2>12. g = [s \in Exist \cup {t} |->
                  IF trade'[s].countered = None THEN 1 ELSE 1 + g[trade'[s].countered]]
      BY <2>9, <2>10
    <2>13. PICK h : h = g
      OBVIOUS
    <2>14. LenEq(h)'
      BY <2>1, <2>12, <2>13 DEF LenEq
    <2> QED
      BY <2>8, <2>11, <2>13, <2>14 DEF ChainInv
  <1> QED
    BY <1>1, <1>2, NoBirth

LEMMA NegotiationsInit == Init => ReplacedInv /\ ChainInv
  <1> SUFFICES ASSUME Init PROVE ReplacedInv /\ ChainInv
    OBVIOUS
  <1>1. \A t \in TradeIds : trade[t] = None /\ status[t] = None
    BY DEF Init
  <1>2. None # "COUNTERED"
    BY TradesAssumption DEF Statuses, Closed
  <1>3. Exist = {} /\ \A t \in TradeIds : Replacing(t) = {}
    BY <1>1 DEF Exist, Replacing
  <1>4. ReplacedInv
    BY <1>1, <1>2, <1>3 DEF ReplacedInv
  <1> DEFINE f == [s \in {} |-> IF trade[s].countered = None THEN 1 ELSE 1]
             g == [s \in {} |-> IF trade[s].countered = None THEN 1 ELSE 1 + f[trade[s].countered]]
  <1>5. f = g /\ f \in [{} -> 1 .. MaxCounterChain]
    OBVIOUS
  <1>6. LenEq(f) /\ f \in [Exist -> 1 .. MaxCounterChain]
    BY <1>3, <1>5 DEF LenEq
  <1> QED
    BY <1>3, <1>4, <1>6 DEF ChainInv

\* Counters, answers, voids and jobs that race for a trade never fork a negotiation - a trade is
\* COUNTERED exactly when one trade replaces it, with the sides swapped - and none outgrows
\* MAX_COUNTER_CHAIN, though each counter counts the length before it commits.
THEOREM NegotiationsHold == Spec => []NegotiationsAreSound
  <1>1. ASSUME TradeInv, ReplacedInv PROVE CounteredTradesAreReplacedOnce
    <2>1. \A s : Cardinality({s}) = 1
      BY FS_Singleton
    <2> QED
      BY <1>1, <2>1 DEF ReplacedInv, CounteredTradesAreReplacedOnce
  <1>2. ASSUME ChainInv PROVE NegotiationsAreBounded
    <2>1. PICK f \in [Exist -> 1 .. MaxCounterChain] : LenEq(f)
      BY <1>2 DEF ChainInv
    <2>2. ASSUME NEW t \in TradeIds, trade[t] # None PROVE ChainLength(t) <= MaxCounterChain
      <3>1. t \in Exist
        BY <2>2 DEF Exist
      <3>2. ChainLength(t) = f[t] /\ f[t] \in 1 .. MaxCounterChain
        BY <1>2, <2>1, <3>1, ChainLengthIs
      <3> QED
        BY <3>2, TradesAssumption
    <2> QED
      BY <2>2 DEF NegotiationsAreBounded
  <1> QED
    BY <1>1, <1>2, Standing, NegotiationsInit, ReplacedStep, ChainStep, PTL
       DEF Spec, NegotiationsAreSound

=============================================================================
