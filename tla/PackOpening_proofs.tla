------------------------ MODULE PackOpening_proofs ------------------------
(***************************************************************************)
(* For every set of requests, members and openIds: types, the exclusivity  *)
(* of the claimed index entry and of the users row, that answers are the   *)
(* recorded opening, that a charge and an opening come together and once,  *)
(* that balances are the sums of their ledger rows, that what was opened   *)
(* was minted, and that the handler implements OpenOnce.                   *)
(***************************************************************************)
EXTENDS PackOpening, SumTheorems

USE PackAssumption

(***************************************************************************)
(* Type correctness.                                                       *)
(***************************************************************************)

LEMMA AskType ==
    ASSUME NEW r \in Requests
    PROVE  User(r) \in Users /\ Id(r) \in OpenIds /\ Ask[r].templateId \in Templates
BY DEF User, Id

\* What a handler that may be inside its transaction has read before it began.
QuoteInv == \A r \in Requests : pc[r] \in {"insert"} \cup InTransaction => quote[r] \in Quote

\* The users row's lock keeps the balance the debit's guard saw until the transaction ends.
RowInv ==
    \A r \in Requests :
        pc[r] = "commit" => userRow[User(r)] = r /\ currency[User(r)] >= quote[r].cost

TypeInv == TypeOK /\ QuoteInv /\ RowInv

LEMMA TypeInit == Init => TypeInv
BY DEF Init, TypeInv, TypeOK, QuoteInv, RowInv, PCs, Finished, InTransaction

LEMMA LeaveType ==
    ASSUME TypeOK, NEW r \in Requests, NEW a \in Answer, Leave(r, a)
    PROVE  /\ pc' = [pc EXCEPT ![r] = "release"]
           /\ pc' \in [Requests -> PCs]
           /\ answer' \in [Requests -> Answer \cup {None}]
BY DEF TypeOK, Leave, Goto, Respond, PCs

LEMMA RefuseType ==
    ASSUME TypeOK, NEW r \in Requests, NEW code \in Refusals, Refuse(r, code)
    PROVE  /\ pc' = [pc EXCEPT ![r] = "release"]
           /\ pc' \in [Requests -> PCs]
           /\ answer' \in [Requests -> Answer \cup {None}]
BY LeaveType DEF Refuse, Answer

LEMMA PresentType ==
    ASSUME TypeOK, NEW r \in Requests, NEW p \in Packs, Present(r, p)
    PROVE  /\ pc' = [pc EXCEPT ![r] = "release"]
           /\ pc' \in [Requests -> PCs]
           /\ answer' \in [Requests -> Answer \cup {None}]
BY LeaveType DEF Present, Answer

LEMMA ReplayType ==
    ASSUME TypeOK, NEW r \in Requests, Replay(r), opening[Id(r)] # None
    PROVE  /\ pc' = [pc EXCEPT ![r] = "release"]
           /\ pc' \in [Requests -> PCs]
           /\ answer' \in [Requests -> Answer \cup {None}]
<1>1. opening[Id(r)] \in Opening
    BY AskType DEF TypeOK
<1>2. opening[Id(r)].pack \in Packs
    BY <1>1 DEF Opening
<1>3. CASE Refuse(r, "OPEN_ID_CONFLICT")
    BY <1>3, RefuseType DEF Refusals
<1>4. CASE Present(r, opening[Id(r)].pack)
    BY <1>4, <1>2, PresentType
<1> QED
    BY <1>3, <1>4 DEF Replay

LEMMA EndType ==
    ASSUME TypeOK, NEW r \in Requests, EndTransaction(r)
    PROVE  /\ claimed' \in [OpenIds -> Requests \cup {None}]
           /\ userRow' \in [Users -> Requests \cup {None}]
           /\ \A u \in Users : userRow'[u] # userRow[u] => userRow[u] = r
           /\ \A id \in OpenIds : claimed'[id] # claimed[id] => claimed[id] = r
           /\ \A u \in Users : userRow'[u] # r \/ u # User(r)
           /\ \A id \in OpenIds : claimed'[id] # r \/ id # Id(r)
BY AskType DEF TypeOK, EndTransaction

\* Inside its transaction the handler compares two numbers.
LEMMA CommitOrDebitQuote ==
    ASSUME TypeOK, QuoteInv, NEW r \in Requests, pc[r] \in InTransaction
    PROVE  quote[r].cost \in Nat /\ currency[User(r)] \in Nat
BY AskType DEF TypeOK, QuoteInv, Quote

\* At COMMIT the handler knows a price and a pack, and the balance still covers the price.
LEMMA CommitQuote ==
    ASSUME TypeOK, QuoteInv, RowInv, NEW r \in Requests, pc[r] = "commit"
    PROVE  /\ quote[r].cost \in Nat /\ quote[r].pack \in Packs
           /\ currency[User(r)] \in Nat /\ currency[User(r)] >= quote[r].cost
BY AskType DEF TypeOK, QuoteInv, RowInv, Quote, InTransaction

LEMMA GotoType ==
    ASSUME TypeOK, NEW r \in Requests, NEW label \in PCs, Goto(r, label)
    PROVE  pc' \in [Requests -> PCs]
BY DEF TypeOK, Goto

LEMMA ForgetType ==
    ASSUME TypeOK, NEW r \in Requests, Forget(r)
    PROVE  /\ attempt' \in [Requests -> {"none", "acquired", "held", "unavailable"}]
           /\ quote' \in [Requests -> Quote \cup {None}]
BY DEF TypeOK, Forget

\* Where a handler goes when it leaves its transaction or never entered one.
LEMMA LabelType ==
    /\ {"find", "acquire", "wait", "look", "quote", "insert", "winner", "release", "debit",
        "commit", "done", "dead"} = PCs
    /\ InTransaction = {"debit", "commit"}
BY DEF PCs, InTransaction, Finished

LEMMA TypeStep == TypeInv /\ [Next]_vars => TypeOK'
<1> SUFFICES ASSUME TypeOK, QuoteInv, RowInv, [Next]_vars PROVE TypeOK'
    BY DEF TypeInv
<1>1. ASSUME NEW r \in Requests, FindExisting(r) PROVE TypeOK'
  <2>1. UNCHANGED <<tables, template, redisLock, txn, attempt, quote>>
    BY <1>1 DEF FindExisting
  <2>2. pc' \in [Requests -> PCs]
    BY <1>1, ReplayType, GotoType, LabelType DEF FindExisting, TypeOK
  <2>3. answer' \in [Requests -> Answer \cup {None}]
    BY <1>1, ReplayType DEF FindExisting, TypeOK
  <2> QED
    BY <2>1, <2>2, <2>3 DEF TypeOK, tables, txn
<1>2. ASSUME NEW r \in Requests, AcquireLock(r) PROVE TypeOK'
  <2>1. UNCHANGED <<tables, template, txn, quote, answer>>
    BY <1>2 DEF AcquireLock
  <2>2. pc' \in [Requests -> PCs]
    BY <1>2, GotoType, LabelType DEF AcquireLock
  <2>3. redisLock' \in [OpenIds -> Requests \cup {None}]
    BY <1>2 DEF AcquireLock, TypeOK
  <2>4. attempt' \in [Requests -> {"none", "acquired", "held", "unavailable"}]
    BY <1>2 DEF AcquireLock, TypeOK
  <2> QED
    BY <2>1, <2>2, <2>3, <2>4 DEF TypeOK, tables, txn
<1>3. ASSUME NEW r \in Requests, Poll(r) PROVE TypeOK'
  <2>1. UNCHANGED <<tables, template, redisLock, txn, attempt, quote>>
    BY <1>3 DEF Poll
  <2>2. pc' \in [Requests -> PCs]
    BY <1>3, ReplayType, GotoType, LabelType DEF Poll
  <2>3. answer' \in [Requests -> Answer \cup {None}]
    BY <1>3, ReplayType DEF Poll, TypeOK
  <2> QED
    BY <2>1, <2>2, <2>3 DEF TypeOK, tables, txn
<1>4. ASSUME NEW r \in Requests, LookAgain(r) PROVE TypeOK'
  <2>1. UNCHANGED <<tables, template, redisLock, txn, attempt, quote>>
    BY <1>4 DEF LookAgain
  <2>2. pc' \in [Requests -> PCs]
    BY <1>4, ReplayType, GotoType, LabelType DEF LookAgain, TypeOK
  <2>3. answer' \in [Requests -> Answer \cup {None}]
    BY <1>4, ReplayType DEF LookAgain, TypeOK
  <2> QED
    BY <2>1, <2>2, <2>3 DEF TypeOK, tables, txn
<1>5. ASSUME NEW r \in Requests, PriceAndGenerate(r) PROVE TypeOK'
  <2>1. UNCHANGED <<tables, template, redisLock, txn, attempt>>
    BY <1>5 DEF PriceAndGenerate
  <2>2. pc' \in [Requests -> PCs]
    BY <1>5, RefuseType, GotoType, LabelType DEF PriceAndGenerate, Refusals, TypeOK
  <2>3. answer' \in [Requests -> Answer \cup {None}]
    BY <1>5, RefuseType DEF PriceAndGenerate, Refusals, TypeOK
  <2>4. quote' \in [Requests -> Quote \cup {None}]
    <3>1. template[Ask[r].templateId].cost \in Costs
        BY AskType DEF TypeOK
    <3>2. CASE UNCHANGED quote
        BY <3>2 DEF TypeOK
    <3>3. ASSUME NEW p \in Packs,
                 quote' = [quote EXCEPT ![r] = [cost |-> template[Ask[r].templateId].cost,
                                                pack |-> p]]
          PROVE  quote' \in [Requests -> Quote \cup {None}]
        BY <3>1, <3>3 DEF TypeOK, Quote
    <3> QED
        BY <1>5, <3>2, <3>3 DEF PriceAndGenerate
  <2> QED
    BY <2>1, <2>2, <2>3, <2>4 DEF TypeOK, tables, txn
<1>6. ASSUME NEW r \in Requests, ClaimOpenId(r) PROVE TypeOK'
  <2>1. UNCHANGED <<tables, template, redisLock, userRow, attempt, quote, answer>>
    BY <1>6 DEF ClaimOpenId
  <2>2. pc' \in [Requests -> PCs]
    BY <1>6, GotoType, LabelType DEF ClaimOpenId
  <2>3. claimed' \in [OpenIds -> Requests \cup {None}]
    BY <1>6 DEF ClaimOpenId, TypeOK
  <2> QED
    BY <2>1, <2>2, <2>3 DEF TypeOK, tables
<1>7. ASSUME NEW r \in Requests, Debit(r) PROVE TypeOK'
  <2>1. UNCHANGED <<tables, template, redisLock, attempt, quote>>
    BY <1>7 DEF Debit
  <2>2. pc' \in [Requests -> PCs]
    BY <1>7, RefuseType, GotoType, LabelType DEF Debit, Refusals
  <2>3. answer' \in [Requests -> Answer \cup {None}]
    BY <1>7, RefuseType DEF Debit, Refusals, TypeOK
  <2>4. claimed' \in [OpenIds -> Requests \cup {None}]
    BY <1>7, EndType DEF Debit, TypeOK
  <2>5. userRow' \in [Users -> Requests \cup {None}]
    BY <1>7, EndType DEF Debit, TypeOK
  <2> QED
    BY <2>1, <2>2, <2>3, <2>4, <2>5 DEF TypeOK, tables
<1>8. ASSUME NEW r \in Requests, Commit(r) PROVE TypeOK'
  <2>1. UNCHANGED <<template, redisLock, attempt, quote>> /\ EndTransaction(r)
    BY <1>8 DEF Commit
  <2>2. pc' \in [Requests -> PCs]
    BY <1>8, PresentType, GotoType, LabelType, CommitQuote DEF Commit, TypeOK
  <2>3. answer' \in [Requests -> Answer \cup {None}]
    BY <1>8, PresentType, CommitQuote DEF Commit, TypeOK
  <2>4. opening' \in [OpenIds -> Opening \cup {None}]
    <3>1. [userId |-> User(r), templateId |-> Ask[r].templateId, pack |-> quote[r].pack] \in Opening
        BY <1>8, AskType, CommitQuote DEF Commit, Opening
    <3> QED
        BY <1>8, <3>1 DEF Commit, TypeOK, tables
  <2>5. currency' \in [Users -> Nat]
    <3>1. currency[User(r)] - quote[r].cost \in Nat
        BY <1>8, CommitQuote, AskType DEF Commit, TypeOK
    <3> QED
        BY <1>8, <3>1 DEF Commit, TypeOK, tables
  <2>6. ledger' \subseteq LedgerEntry
    <3>1. SpendRow(r) \in LedgerEntry
        BY <1>8, CommitQuote, AskType DEF Commit, SpendRow, LedgerEntry
    <3> QED
        BY <1>8, <3>1 DEF Commit, TypeOK, tables
  <2>7. inventory' \in [Users -> [Packs -> Nat]]
    <3>1. CASE UNCHANGED inventory
        BY <3>1 DEF TypeOK
    <3>2. CASE inventory' = [inventory EXCEPT ![User(r)][quote[r].pack] = @ + 1]
        <4>1. inventory[User(r)] \in [Packs -> Nat] /\ quote[r].pack \in Packs
            BY <1>8, CommitQuote, AskType DEF Commit, TypeOK
        <4>2. [inventory[User(r)] EXCEPT ![quote[r].pack] = @ + 1] \in [Packs -> Nat]
            BY <4>1
        <4>3. inventory' = [inventory EXCEPT ![User(r)] =
                              [inventory[User(r)] EXCEPT ![quote[r].pack] = @ + 1]]
            BY <3>2
        <4> QED
            BY <4>2, <4>3 DEF TypeOK
    <3> QED
        BY <1>8, <3>1, <3>2 DEF Commit, tables
  <2> QED
    BY <2>1, <2>2, <2>3, <2>4, <2>5, <2>6, <2>7, EndType DEF TypeOK
<1>9. ASSUME NEW r \in Requests, FindWinner(r) PROVE TypeOK'
  <2>1. UNCHANGED <<tables, template, redisLock, txn, attempt, quote>>
    BY <1>9 DEF FindWinner
  <2>2. pc' \in [Requests -> PCs] /\ answer' \in [Requests -> Answer \cup {None}]
    BY <1>9, ReplayType, RefuseType, LabelType DEF FindWinner, Refusals, TypeOK
  <2> QED
    BY <2>1, <2>2 DEF TypeOK, tables, txn
<1>10. ASSUME NEW r \in Requests, ReleaseLock(r) PROVE TypeOK'
  <2>1. UNCHANGED <<tables, template, txn, answer>> /\ Forget(r)
    BY <1>10 DEF ReleaseLock
  <2>2. pc' \in [Requests -> PCs]
    BY <1>10, GotoType, LabelType DEF ReleaseLock
  <2>3. redisLock' \in [OpenIds -> Requests \cup {None}]
    BY <1>10 DEF ReleaseLock, TypeOK
  <2> QED
    BY <2>1, <2>2, <2>3, ForgetType DEF TypeOK, tables, txn
<1>11. ASSUME NEW r \in Requests, Abort(r) PROVE TypeOK'
  <2>1. UNCHANGED <<tables, template, redisLock, attempt, quote>> /\ EndTransaction(r)
    BY <1>11 DEF Abort
  <2>2. pc' \in [Requests -> PCs] /\ answer' \in [Requests -> Answer \cup {None}]
    BY <1>11, RefuseType, LabelType DEF Abort, Refusals, TypeOK
  <2> QED
    BY <2>1, <2>2, EndType DEF TypeOK, tables
<1>12. ASSUME NEW r \in Requests, Crash(r) PROVE TypeOK'
  <2>1. UNCHANGED <<tables, template, redisLock>> /\ EndTransaction(r) /\ Forget(r)
    BY <1>12 DEF Crash
  <2>2. pc' \in [Requests -> PCs]
    BY <1>12, GotoType, LabelType DEF Crash
  <2>3. answer' \in [Requests -> Answer \cup {None}]
    BY <1>12 DEF Crash, TypeOK
  <2> QED
    BY <2>1, <2>2, <2>3, EndType, ForgetType DEF TypeOK, tables
<1>13. ASSUME NEW id \in OpenIds, ExpireLock(id) PROVE TypeOK'
  BY <1>13 DEF ExpireLock, TypeOK, tables, txn
<1>14. ASSUME NEW u \in Users, NEW g \in Grants, GrantCurrency(u, g) PROVE TypeOK'
  BY <1>14 DEF GrantCurrency, TypeOK, txn, LedgerEntry
<1>15. ASSUME NEW t \in Templates, UpdateTemplate(t) PROVE TypeOK'
  BY <1>15 DEF UpdateTemplate, TypeOK, tables, txn
<1>16. CASE UNCHANGED vars
  BY <1>16 DEF vars, tables, txn, TypeOK
<1> QED
  BY <1>1, <1>2, <1>3, <1>4, <1>5, <1>6, <1>7, <1>8, <1>9, <1>10, <1>11, <1>12, <1>13, <1>14,
     <1>15, <1>16 DEF Next, Step

(***************************************************************************)
(* The inductive invariant.  TypeOK alone is not inductive: that a debit   *)
(* never goes below zero rests on the users row's lock, and that an        *)
(* opening is never overwritten on the claimed index entry.                *)
(***************************************************************************)

\* A transaction past its first statement holds its openId's index entry, and no committed
\* opening has that openId.
ClaimInv ==
    \A r \in Requests :
        pc[r] \in InTransaction => claimed[Id(r)] = r /\ opening[Id(r)] = None

Spends(id) == {e \in ledger : e.type = "PACK_SPEND" /\ e.refId = id}

\* ChargedOncePerOpening without counting: no row, or the one row of the opening's member.
ChargeInv ==
    \A id \in OpenIds :
        /\ opening[id] = None => Spends(id) = {}
        /\ opening[id] # None => \E e : Spends(id) = {e} /\ e.userId = opening[id].userId

IInv == TypeInv /\ ClaimInv /\ ChargeInv /\ AnswersAreTheRecordedOpening

LEMMA InvInit == Init => IInv
<1> SUFFICES ASSUME Init PROVE IInv
    OBVIOUS
<1>1. TypeInv
    BY TypeInit
<1>2. ClaimInv /\ ChargeInv /\ AnswersAreTheRecordedOpening
    BY AskType DEF Init, ClaimInv, ChargeInv, Spends, AnswersAreTheRecordedOpening, InTransaction
<1> QED
    BY <1>1, <1>2 DEF IInv

\* A handler outside its transaction, before and after, disturbs no other handler's.
LEMMA OutsideStep ==
    ASSUME TypeOK, QuoteInv, RowInv, ClaimInv,
           NEW r \in Requests, NEW label \in PCs \ {"insert", "debit", "commit"},
           pc' = [pc EXCEPT ![r] = label],
           UNCHANGED <<opening, currency>>,
           \A q \in Requests \ {r} : quote'[q] = quote[q],
           \A u \in Users : userRow'[u] # userRow[u] => userRow[u] = r,
           \A id \in OpenIds : claimed'[id] # claimed[id] => claimed[id] = r
    PROVE  QuoteInv' /\ RowInv' /\ ClaimInv'
<1>1. \A q \in Requests : pc'[q] \in {"insert", "debit", "commit"} => q # r /\ pc'[q] = pc[q]
    BY DEF TypeOK
<1>2. QuoteInv'
    BY <1>1 DEF QuoteInv, InTransaction
<1>3. RowInv'
    BY <1>1, AskType DEF RowInv, QuoteInv, InTransaction
<1>4. ClaimInv'
    BY <1>1, AskType DEF ClaimInv, InTransaction
<1> QED
    BY <1>2, <1>3, <1>4

LEMMA LocalStep ==
    ASSUME IInv, [Next]_vars
    PROVE  QuoteInv' /\ RowInv' /\ ClaimInv'
<1> USE DEF IInv, TypeInv
<1>0. {"release", "acquire", "wait", "look", "quote", "winner", "done", "dead"}
         \subseteq PCs \ {"insert", "debit", "commit"}
    BY LabelType
<1>1. ASSUME NEW r \in Requests,
             FindExisting(r) \/ LookAgain(r) \/ Poll(r) \/ FindWinner(r)
      PROVE  QuoteInv' /\ RowInv' /\ ClaimInv'
  <2>1. UNCHANGED <<tables, template, redisLock, txn, attempt, quote>>
    BY <1>1 DEF FindExisting, LookAgain, Poll, FindWinner
  <2>2. \E label \in PCs \ {"insert", "debit", "commit"} : pc' = [pc EXCEPT ![r] = label]
    BY <1>0, <1>1, ReplayType, RefuseType
       DEF FindExisting, LookAgain, Poll, FindWinner, Goto, Refusals
  <2> QED
    BY <2>1, <2>2, OutsideStep DEF tables, txn
<1>2. ASSUME NEW r \in Requests, AcquireLock(r) \/ ReleaseLock(r)
      PROVE  QuoteInv' /\ RowInv' /\ ClaimInv'
  <2>1. UNCHANGED <<tables, txn>> /\ \A q \in Requests \ {r} : quote'[q] = quote[q]
    BY <1>2 DEF AcquireLock, ReleaseLock, Forget, TypeOK
  <2>2. \E label \in PCs \ {"insert", "debit", "commit"} : pc' = [pc EXCEPT ![r] = label]
    BY <1>0, <1>2 DEF AcquireLock, ReleaseLock, Goto
  <2> QED
    BY <2>1, <2>2, OutsideStep DEF tables, txn
<1>3. ASSUME NEW r \in Requests, PriceAndGenerate(r)
      PROVE  QuoteInv' /\ RowInv' /\ ClaimInv'
  <2>1. UNCHANGED <<tables, txn>>
    BY <1>3 DEF PriceAndGenerate
  <2>2. CASE quote' = quote /\ pc' = [pc EXCEPT ![r] = "release"]
    BY <1>0, <2>1, <2>2, OutsideStep DEF tables, txn
  <2>3. ASSUME NEW p \in Packs,
               quote' = [quote EXCEPT ![r] = [cost |-> template[Ask[r].templateId].cost,
                                              pack |-> p]],
               pc' = [pc EXCEPT ![r] = "insert"]
        PROVE  QuoteInv' /\ RowInv' /\ ClaimInv'
    <3>1. quote'[r] \in Quote
        BY <2>3, AskType DEF TypeOK, Quote
    <3>2. \A q \in Requests \ {r} : pc'[q] = pc[q] /\ quote'[q] = quote[q]
        BY <2>3 DEF TypeOK
    <3>3. pc'[r] = "insert"
        BY <2>3 DEF TypeOK
    <3>4. QuoteInv'
        BY <3>1, <3>2 DEF QuoteInv
    <3>5. RowInv'
        BY <2>1, <3>2, <3>3, AskType DEF RowInv, tables, txn
    <3>6. ClaimInv'
        BY <2>1, <3>2, <3>3, AskType DEF ClaimInv, InTransaction, tables, txn
    <3> QED
        BY <3>4, <3>5, <3>6
  <2> QED
    BY <1>3, <2>2, <2>3, RefuseType DEF PriceAndGenerate, Goto, Refusals
<1>4. ASSUME NEW r \in Requests, ClaimOpenId(r)
      PROVE  QuoteInv' /\ RowInv' /\ ClaimInv'
  <2>1. UNCHANGED <<tables, userRow, quote>> /\ pc[r] = "insert" /\ claimed[Id(r)] = None
    BY <1>4 DEF ClaimOpenId
  <2>2. CASE opening[Id(r)] # None
    <3>1. pc' = [pc EXCEPT ![r] = "winner"] /\ UNCHANGED claimed
        BY <1>4, <2>2 DEF ClaimOpenId, Goto
    <3> QED
        BY <1>0, <2>1, <3>1, OutsideStep DEF tables
  <2>3. CASE opening[Id(r)] = None
    <3>1. pc' = [pc EXCEPT ![r] = "debit"] /\ claimed' = [claimed EXCEPT ![Id(r)] = r]
        BY <1>4, <2>3 DEF ClaimOpenId, Goto
    <3>2. QuoteInv'
        BY <2>1, <3>1 DEF QuoteInv, InTransaction, TypeOK
    <3>3. RowInv'
        BY <2>1, <3>1, AskType DEF RowInv, TypeOK, tables
    <3>4. ClaimInv'
        BY <2>1, <2>3, <3>1, AskType DEF ClaimInv, InTransaction, TypeOK, tables
    <3> QED
        BY <3>2, <3>3, <3>4
  <2> QED
    BY <2>2, <2>3
<1>5. ASSUME NEW r \in Requests, Debit(r)
      PROVE  QuoteInv' /\ RowInv' /\ ClaimInv'
  <2>1. UNCHANGED <<tables, quote>> /\ pc[r] = "debit" /\ userRow[User(r)] = None
    BY <1>5 DEF Debit
  <2>2. CASE currency[User(r)] < quote[r].cost
    <3>1. pc' = [pc EXCEPT ![r] = "release"] /\ EndTransaction(r)
        BY <1>5, <2>1, <2>2, RefuseType, CommitOrDebitQuote DEF Debit, Refusals, InTransaction
    <3> QED
        BY <1>0, <2>1, <3>1, EndType, OutsideStep DEF tables
  <2>3. CASE currency[User(r)] >= quote[r].cost
    <3>1. pc' = [pc EXCEPT ![r] = "commit"] /\ userRow' = [userRow EXCEPT ![User(r)] = r]
          /\ UNCHANGED claimed
        BY <1>5, <2>1, <2>3, CommitOrDebitQuote DEF Debit, Goto, InTransaction
    <3>2. QuoteInv'
        BY <2>1, <3>1 DEF QuoteInv, InTransaction, TypeOK
    <3>3. RowInv'
        BY <2>1, <2>3, <3>1, AskType DEF RowInv, TypeOK, tables
    <3>4. ClaimInv'
        BY <2>1, <3>1, AskType DEF ClaimInv, InTransaction, TypeOK, tables
    <3> QED
        BY <3>2, <3>3, <3>4
  <2> QED
    BY <2>1, <2>2, <2>3, CommitOrDebitQuote DEF InTransaction
<1>6. ASSUME NEW r \in Requests, Commit(r)
      PROVE  QuoteInv' /\ RowInv' /\ ClaimInv'
  <2>1. pc[r] = "commit" /\ EndTransaction(r) /\ UNCHANGED quote
    BY <1>6 DEF Commit
  <2>2. \E label \in {"winner", "release"} : pc' = [pc EXCEPT ![r] = label]
    BY <1>6, CommitQuote, PresentType DEF Commit, Goto
  <2>3. \A q \in Requests : pc'[q] \in {"insert", "debit", "commit"} => q # r /\ pc'[q] = pc[q]
    BY <2>2 DEF TypeOK
  <2>4. \A q \in Requests \ {r} :
            pc[q] \in InTransaction => opening'[Id(q)] = opening[Id(q)]
    <3>1. ASSUME NEW q \in Requests \ {r}, pc[q] \in InTransaction PROVE Id(q) # Id(r)
        BY <2>1, <3>1 DEF ClaimInv, InTransaction
    <3> QED
        BY <1>6, <3>1, AskType DEF Commit, TypeOK, tables
  <2>5. \A q \in Requests \ {r} :
            pc[q] = "commit" => currency'[User(q)] = currency[User(q)]
    <3>1. ASSUME NEW q \in Requests \ {r}, pc[q] = "commit" PROVE User(q) # User(r)
        BY <2>1, <3>1 DEF RowInv
    <3> QED
        BY <1>6, <3>1, AskType DEF Commit, TypeOK, tables
  <2>6. QuoteInv'
    BY <2>1, <2>3 DEF QuoteInv, InTransaction
  <2>7. RowInv'
    BY <2>1, <2>3, <2>5, EndType, AskType DEF RowInv
  <2>8. ClaimInv'
    BY <2>1, <2>3, <2>4, EndType, AskType DEF ClaimInv, InTransaction
  <2> QED
    BY <2>6, <2>7, <2>8
<1>7. ASSUME NEW r \in Requests, Abort(r) \/ Crash(r)
      PROVE  QuoteInv' /\ RowInv' /\ ClaimInv'
  <2>1. EndTransaction(r) /\ UNCHANGED tables /\ \A q \in Requests \ {r} : quote'[q] = quote[q]
    BY <1>7 DEF Abort, Crash, Forget, TypeOK
  <2>2. \E label \in PCs \ {"insert", "debit", "commit"} : pc' = [pc EXCEPT ![r] = label]
    BY <1>0, <1>7, RefuseType DEF Abort, Crash, Goto, Refusals
  <2>3. /\ \A u \in Users : userRow'[u] # userRow[u] => userRow[u] = r
        /\ \A id \in OpenIds : claimed'[id] # claimed[id] => claimed[id] = r
    BY <2>1, EndType
  <2> QED
    BY <2>1, <2>2, <2>3, OutsideStep DEF tables
<1>8. ASSUME NEW u \in Users, NEW g \in Grants, GrantCurrency(u, g)
      PROVE  QuoteInv' /\ RowInv' /\ ClaimInv'
  <2>1. UNCHANGED <<opening, txn, pc, quote>> /\ userRow[u] = None
        /\ currency' = [currency EXCEPT ![u] = @ + GrantAmount[g]]
    BY <1>8 DEF GrantCurrency
  <2>2. QuoteInv' /\ ClaimInv'
    BY <2>1, AskType DEF QuoteInv, ClaimInv, txn
  <2>3. RowInv'
    BY <2>1, AskType DEF RowInv, txn, TypeOK
  <2> QED
    BY <2>2, <2>3
<1>9. CASE UNCHANGED <<tables, txn, pc, quote>>
  BY <1>9, AskType DEF QuoteInv, RowInv, ClaimInv, tables, txn
<1> QED
  BY <1>1, <1>2, <1>3, <1>4, <1>5, <1>6, <1>7, <1>8, <1>9
     DEF Next, Step, ExpireLock, UpdateTemplate, vars


\* A committed opening is never rewritten: Commit finds None where ClaimInv says so.
LEMMA OpeningStable ==
    ASSUME IInv, [Next]_vars, NEW id \in OpenIds, opening[id] # None
    PROVE  opening'[id] = opening[id]
<1> USE DEF IInv, TypeInv
<1>1. ASSUME NEW r \in Requests, Commit(r) PROVE opening'[id] = opening[id]
  <2>1. opening[Id(r)] = None
    BY <1>1 DEF Commit, ClaimInv, InTransaction
  <2> QED
    BY <1>1, <2>1, AskType DEF Commit, TypeOK, tables
<1>2. CASE UNCHANGED opening
  BY <1>2
<1> QED
  BY <1>1, <1>2
     DEF Next, Step, FindExisting, AcquireLock, Poll, LookAgain, PriceAndGenerate, ClaimOpenId,
         Debit, FindWinner, ReleaseLock, Abort, Crash, ExpireLock, GrantCurrency, UpdateTemplate,
         vars, tables

\* What a commit that finds no ledger row of its openId does to the tables.
LEMMA CommitEffect ==
    ASSUME IInv, NEW r \in Requests, Commit(r)
    PROVE  \/ UNCHANGED tables
           \/ /\ opening[Id(r)] = None
              /\ opening' = [opening EXCEPT ![Id(r)] =
                               [userId |-> User(r), templateId |-> Ask[r].templateId,
                                pack |-> quote[r].pack]]
              /\ currency' = [currency EXCEPT ![User(r)] = @ - quote[r].cost]
              /\ ledger' = ledger \cup {SpendRow(r)}
              /\ inventory' = [inventory EXCEPT ![User(r)][quote[r].pack] = @ + 1]
              /\ Present(r, quote[r].pack)
BY DEF Commit, IInv, ClaimInv, InTransaction

\* Only Commit and GrantCurrency write a table.
LEMMA TablesStep ==
    ASSUME [Next]_vars
    PROVE  \/ UNCHANGED tables
           \/ \E r \in Requests : Commit(r)
           \/ \E u \in Users, g \in Grants : GrantCurrency(u, g)
BY DEF Next, Step, FindExisting, AcquireLock, Poll, LookAgain, PriceAndGenerate, ClaimOpenId,
       Debit, FindWinner, ReleaseLock, Abort, Crash, ExpireLock, UpdateTemplate, vars, tables

LEMMA ChargeStep == ASSUME IInv, [Next]_vars PROVE ChargeInv'
<1> USE DEF IInv, TypeInv
<1>1. CASE UNCHANGED tables
  BY <1>1 DEF ChargeInv, Spends, tables
<1>2. ASSUME NEW r \in Requests, Commit(r), ~UNCHANGED tables PROVE ChargeInv'
  <2>1. /\ opening[Id(r)] = None
        /\ opening' = [opening EXCEPT ![Id(r)] =
                         [userId |-> User(r), templateId |-> Ask[r].templateId,
                          pack |-> quote[r].pack]]
        /\ ledger' = ledger \cup {SpendRow(r)}
    BY <1>2, CommitEffect
  <2>2. SpendRow(r).type = "PACK_SPEND" /\ SpendRow(r).refId = Id(r)
        /\ SpendRow(r).userId = User(r)
    BY DEF SpendRow
  <2>3. ASSUME NEW id \in OpenIds, id # Id(r)
        PROVE  Spends(id)' = Spends(id) /\ opening'[id] = opening[id]
    BY <2>1, <2>2, <2>3 DEF Spends, TypeOK
  <2>4. Spends(Id(r))' = {SpendRow(r)}
    BY <2>1, <2>2, AskType DEF Spends, ChargeInv
  <2>5. opening'[Id(r)] # None /\ opening'[Id(r)].userId = User(r)
    BY <1>2, <2>1, AskType, CommitQuote DEF TypeOK, Commit, PackAssumption
  <2>6. ASSUME NEW id \in OpenIds
        PROVE  /\ opening'[id] = None => Spends(id)' = {}
               /\ opening'[id] # None => \E e : Spends(id)' = {e} /\ e.userId = opening'[id].userId
    <3>1. CASE id = Id(r)
        BY <2>2, <2>4, <2>5, <3>1
    <3>2. CASE id # Id(r)
        BY <2>3, <3>2 DEF ChargeInv
    <3> QED
        BY <3>1, <3>2
  <2> QED
    BY <2>6 DEF ChargeInv
<1>3. ASSUME NEW u \in Users, NEW g \in Grants, GrantCurrency(u, g) PROVE ChargeInv'
  <2>1. UNCHANGED opening
        /\ ledger' = ledger \cup {[userId |-> u, type |-> "GRANT", refId |-> g,
                                   amount |-> GrantAmount[g]]}
    BY <1>3 DEF GrantCurrency
  <2>2. \A id \in OpenIds : Spends(id)' = Spends(id)
    BY <2>1 DEF Spends
  <2> QED
    BY <2>1, <2>2 DEF ChargeInv
<1> QED
  BY <1>1, <1>2, <1>3, TablesStep

\* A success is answered from a committed row: replayed, or the row this request commits.
Recorded(r) ==
    answer[r] # None /\ answer[r].status = "OK" =>
        /\ opening[Id(r)] # None
        /\ opening[Id(r)].userId = User(r)
        /\ opening[Id(r)].templateId = Ask[r].templateId
        /\ answer[r].pack = opening[Id(r)].pack

LEMMA ReplayRecorded ==
    ASSUME TypeOK, NEW r \in Requests, Replay(r), opening[Id(r)] # None, UNCHANGED opening
    PROVE  Recorded(r)' /\ \A q \in Requests \ {r} : answer'[q] = answer[q]
<1>1. CASE Refuse(r, "OPEN_ID_CONFLICT")
  BY <1>1 DEF Refuse, Leave, Respond, Recorded, TypeOK
<1>2. CASE /\ Present(r, opening[Id(r)].pack)
           /\ opening[Id(r)].userId = User(r) /\ opening[Id(r)].templateId = Ask[r].templateId
  BY <1>2 DEF Present, Leave, Respond, Recorded, TypeOK, User, Id
<1> QED
  BY <1>1, <1>2 DEF Replay

LEMMA RefuseRecorded ==
    ASSUME TypeOK, NEW r \in Requests, NEW code \in Refusals, Refuse(r, code)
    PROVE  Recorded(r)' /\ \A q \in Requests \ {r} : answer'[q] = answer[q]
BY DEF Refuse, Leave, Respond, Recorded, TypeOK, Refusals

LEMMA AnswerStep ==
    ASSUME IInv, [Next]_vars
    PROVE  AnswersAreTheRecordedOpening'
<1> USE DEF IInv, TypeInv
<1>0. \A q \in Requests : Recorded(q)
  BY DEF AnswersAreTheRecordedOpening, Recorded
<1>1. \A q \in Requests : answer'[q] = answer[q] => Recorded(q)'
  <2> SUFFICES ASSUME NEW q \in Requests, answer'[q] = answer[q], Recorded(q)
               PROVE  Recorded(q)'
    BY <1>0
  <2> QED
    BY OpeningStable, AskType DEF Recorded, User, Id
<1>2. ASSUME NEW r \in Requests,
             FindExisting(r) \/ LookAgain(r) \/ Poll(r) \/ FindWinner(r)
      PROVE  \A q \in Requests : Recorded(q)'
  <2>1. UNCHANGED opening
    BY <1>2 DEF FindExisting, LookAgain, Poll, FindWinner, tables
  <2>2. \/ Replay(r) /\ opening[Id(r)] # None
        \/ Refuse(r, "ERROR")
        \/ UNCHANGED answer
    BY <1>2 DEF FindExisting, LookAgain, Poll, FindWinner
  <2> QED
    BY <1>1, <2>1, <2>2, ReplayRecorded, RefuseRecorded DEF Refusals
<1>3. ASSUME NEW r \in Requests, PriceAndGenerate(r) \/ Debit(r) \/ Abort(r)
      PROVE  \A q \in Requests : Recorded(q)'
  <2>1. (\E code \in Refusals : Refuse(r, code)) \/ UNCHANGED answer
    BY <1>3 DEF PriceAndGenerate, Debit, Abort, Refusals
  <2> QED
    BY <1>1, <2>1, RefuseRecorded
<1>4. ASSUME NEW r \in Requests, Commit(r)
      PROVE  \A q \in Requests : Recorded(q)'
  <2>1. CASE UNCHANGED answer
    BY <1>1, <2>1
  <2>2. CASE ~UNCHANGED answer
    <3>1. /\ Present(r, quote[r].pack)
          /\ opening' = [opening EXCEPT ![Id(r)] =
                           [userId |-> User(r), templateId |-> Ask[r].templateId,
                            pack |-> quote[r].pack]]
        BY <1>4, <2>2 DEF Commit
    <3>2. [userId |-> User(r), templateId |-> Ask[r].templateId, pack |-> quote[r].pack] # None
        BY <1>4, CommitQuote, AskType DEF Commit
    <3>3. Recorded(r)'
        BY <3>1, <3>2, AskType DEF Present, Leave, Respond, Recorded, TypeOK, User, Id
    <3>4. \A q \in Requests \ {r} : answer'[q] = answer[q]
        BY <3>1 DEF Present, Leave, Respond, TypeOK
    <3> QED
        BY <1>1, <3>3, <3>4
  <2> QED
    BY <2>1, <2>2
<1>5. ASSUME NEW r \in Requests, Crash(r)
      PROVE  \A q \in Requests : Recorded(q)'
  <2>1. answer' = [answer EXCEPT ![r] = None]
    BY <1>5 DEF Crash
  <2>2. Recorded(r)' /\ \A q \in Requests \ {r} : answer'[q] = answer[q]
    BY <2>1 DEF Recorded, TypeOK
  <2> QED
    BY <1>1, <2>2
<1>6. ASSUME UNCHANGED answer
      PROVE  \A q \in Requests : Recorded(q)'
  <2>1. \A q \in Requests : answer'[q] = answer[q]
    BY <1>6
  <2> QED
    BY <1>1, <2>1
<1>7. ASSUME NEW r \in Requests, AcquireLock(r) \/ ClaimOpenId(r) \/ ReleaseLock(r)
      PROVE  \A q \in Requests : Recorded(q)'
  <2>1. UNCHANGED answer
    BY <1>7 DEF AcquireLock, ClaimOpenId, ReleaseLock
  <2> QED
    BY <1>6, <2>1
<1>8. ASSUME UNCHANGED vars \/ \E id \in OpenIds : ExpireLock(id)
      PROVE  \A q \in Requests : Recorded(q)'
  <2>1. UNCHANGED answer
    BY <1>8 DEF ExpireLock, vars
  <2> QED
    BY <1>6, <2>1
<1>9. ASSUME NEW u \in Users, NEW g \in Grants, GrantCurrency(u, g)
      PROVE  \A q \in Requests : Recorded(q)'
  <2>1. UNCHANGED answer
    BY <1>9 DEF GrantCurrency
  <2> QED
    BY <1>6, <2>1
<1>10. ASSUME NEW t \in Templates, UpdateTemplate(t)
      PROVE  \A q \in Requests : Recorded(q)'
  <2>1. UNCHANGED answer
    BY <1>10 DEF UpdateTemplate
  <2> QED
    BY <1>6, <2>1
<1>11. \A q \in Requests : Recorded(q)'
  <2> HIDE DEF IInv, TypeInv
  <2> QED
    BY <1>2, <1>3, <1>4, <1>5, <1>7, <1>8, <1>9, <1>10 DEF Next, Step
<1> QED
  BY <1>11 DEF Recorded, AnswersAreTheRecordedOpening

LEMMA InvStep == IInv /\ [Next]_vars => IInv'
<1> SUFFICES ASSUME IInv, [Next]_vars PROVE IInv'
  OBVIOUS
<1>1. TypeOK'
  BY TypeStep DEF IInv
<1> QED
  BY <1>1, LocalStep, ChargeStep, AnswerStep DEF IInv, TypeInv

THEOREM Invariant == Spec => []IInv
BY InvInit, InvStep, PTL DEF Spec

\* Every reachable state is well typed: in particular no balance is ever negative, because the
\* guarded debit holds the users row's lock until its transaction ends.
THEOREM TypeCorrect == Spec => []TypeOK
<1>1. IInv => TypeOK
    BY DEF IInv, TypeInv
<1> QED
    BY <1>1, Invariant, PTL

\* For every number of retries, members and openIds: a success shows the one recorded pack, to
\* the member who opened it (PackOpeningService.replay and present).
THEOREM AnswersCorrect == Spec => []AnswersAreTheRecordedOpening
<1>1. IInv => AnswersAreTheRecordedOpening
    BY DEF IInv
<1> QED
    BY <1>1, Invariant, PTL

\* A member pays for an openId exactly when it is opened, and once (PackOpeningService.write).
THEOREM ChargedOnce == Spec => []ChargedOncePerOpening
<1>1. IInv => ChargedOncePerOpening
  <2> SUFFICES ASSUME IInv, NEW id \in OpenIds
               PROVE  IF opening[id] = None
                      THEN Spends(id) = {}
                      ELSE /\ Cardinality(Spends(id)) = 1
                           /\ \A e \in Spends(id) : e.userId = opening[id].userId
    BY DEF ChargedOncePerOpening, Spends
  <2>1. CASE opening[id] = None
    BY <2>1 DEF IInv, ChargeInv
  <2>2. CASE opening[id] # None
    <3>1. PICK e : Spends(id) = {e} /\ e.userId = opening[id].userId
        BY <2>2 DEF IInv, ChargeInv
    <3>2. Cardinality(Spends(id)) = 1
        BY <3>1, FS_Singleton
    <3> QED
        BY <2>2, <3>1, <3>2
  <2> QED
    BY <2>1, <2>2
<1> QED
    BY <1>1, Invariant, PTL

\* Nobody who paid is told they cannot: when the debit refuses, the openId claimed just before
\* it has no committed opening (PackOpeningService.write, the opening is the first write).
THEOREM FundsRefusalHonest == Spec => NoFundsRefusalOncePaid
<1>1. ASSUME IInv, [Next]_vars, NEW r \in Requests,
             answer[r] = None, answer'[r] # None, answer'[r].status = "INSUFFICIENT_FUNDS"
      PROVE  opening[Id(r)] = None
  <2> USE DEF IInv, TypeInv
  <2>0. PICK q \in Requests : answer'[r] # answer[r] /\ (Step(q) \/ Abort(q) \/ Crash(q))
    BY <1>1 DEF Next, vars, ExpireLock, GrantCurrency, UpdateTemplate
  <2>1. CASE Debit(q)
    <3>1. Refuse(q, "INSUFFICIENT_FUNDS")
        BY <2>0, <2>1 DEF Debit
    <3>2. answer' = [answer EXCEPT ![q] = [status |-> "INSUFFICIENT_FUNDS", pack |-> None]]
        BY <3>1 DEF Refuse, Leave, Respond
    <3>3. answer \in [Requests -> Answer \cup {None}]
        BY <1>1 DEF TypeOK
    <3>4. q = r
        BY <2>0, <3>2, <3>3
    <3>5. pc[q] \in InTransaction
        BY <2>1 DEF Debit, InTransaction
    <3> QED
        BY <1>1, <3>4, <3>5 DEF ClaimInv
  <2>2. CASE FindExisting(q) \/ LookAgain(q) \/ Poll(q) \/ FindWinner(q)
    <3>1. \/ Replay(q)
          \/ Refuse(q, "ERROR")
          \/ UNCHANGED answer
        BY <2>2 DEF FindExisting, LookAgain, Poll, FindWinner
    <3>2. \E s \in ({"OK"} \cup Refusals) \ {"INSUFFICIENT_FUNDS"} : \E p :
             answer' = [answer EXCEPT ![q] = [status |-> s, pack |-> p]]
        BY <2>0, <3>1 DEF Replay, Refuse, Present, Leave, Respond, Refusals
    <3> QED
        BY <1>1, <2>0, <3>2 DEF TypeOK
  <2>3. CASE PriceAndGenerate(q) \/ Commit(q) \/ Abort(q)
    <3>1. \/ \E code \in {"NOT_FOUND", "PACK_UNAVAILABLE", "ERROR"} : Refuse(q, code)
          \/ \E p : Present(q, p)
          \/ UNCHANGED answer
        BY <2>3 DEF PriceAndGenerate, Commit, Abort
    <3>2. \E s \in ({"OK"} \cup Refusals) \ {"INSUFFICIENT_FUNDS"} : \E p :
             answer' = [answer EXCEPT ![q] = [status |-> s, pack |-> p]]
        BY <2>0, <3>1 DEF Refuse, Present, Leave, Respond, Refusals
    <3> QED
        BY <1>1, <2>0, <3>2 DEF TypeOK
  <2>4. CASE Crash(q)
    BY <1>1, <2>0, <2>4 DEF Crash, TypeOK
  <2>5. CASE AcquireLock(q) \/ ClaimOpenId(q) \/ ReleaseLock(q)
    BY <2>0, <2>5 DEF AcquireLock, ClaimOpenId, ReleaseLock
  <2> QED
    BY <2>0, <2>1, <2>2, <2>3, <2>4, <2>5 DEF Step
<1>2. IInv /\ [Next]_vars =>
        [\A r \in Requests :
            (answer[r] = None /\ answer'[r] # None /\ answer'[r].status = "INSUFFICIENT_FUNDS")
                => opening[Id(r)] = None]_vars
    BY <1>1
<1> QED
    BY <1>2, Invariant, PTL DEF Spec, NoFundsRefusalOncePaid

(***************************************************************************)
(* Balances and inventories.  Both are sums over rows, so there must be    *)
(* finitely many of them, which every step keeps.                          *)
(***************************************************************************)

RowsOf(u)    == {e \in ledger : e.userId = u}
Amounts      == [e \in LedgerEntry |-> e.amount]
Minted(u, p) == {id \in OpenIds : opening[id] # None /\ opening[id].userId = u /\ opening[id].pack = p}

FiniteRows == IsFiniteSet(ledger) /\ \A u \in Users, p \in Packs : IsFiniteSet(Minted(u, p))
BalanceInv == \A u \in Users : currency[u] = SumFunctionOnSet(Amounts, RowsOf(u))
MintedInv  == \A u \in Users, p \in Packs : inventory[u][p] = Cardinality(Minted(u, p))
BooksInv   == FiniteRows /\ BalanceInv /\ MintedInv

LEMMA BooksInit == Init => BooksInv
<1> SUFFICES ASSUME Init PROVE BooksInv
    OBVIOUS
<1>1. \A u \in Users : RowsOf(u) = {} /\ currency[u] = 0
    BY DEF Init, RowsOf
<1>2. \A u \in Users, p \in Packs : Minted(u, p) = {} /\ inventory[u][p] = 0
    BY DEF Init, Minted
<1>3. ledger = {}
    BY DEF Init
<1> QED
    BY <1>1, <1>2, <1>3, SumEmpty, FS_EmptySet DEF BooksInv, FiniteRows, BalanceInv, MintedInv

\* A new row of one member's, and the same amount on that member's balance: the books still agree.
LEMMA BookOneRow ==
    ASSUME TypeOK, FiniteRows, BalanceInv, NEW row \in LedgerEntry, row \notin ledger,
           ledger' = ledger \cup {row},
           currency' = [currency EXCEPT ![row.userId] = @ + row.amount]
    PROVE  IsFiniteSet(ledger') /\ BalanceInv'
<1>1. IsFiniteSet(ledger')
    BY FS_AddElement DEF FiniteRows
<1>2. row.userId \in Users /\ row.amount \in Int
    BY DEF LedgerEntry
<1>3. ASSUME NEW u \in Users
      PROVE  currency'[u] = SumFunctionOnSet(Amounts, RowsOf(u)')
  <2>1. /\ IsFiniteSet(RowsOf(u)) /\ row \notin RowsOf(u)
        /\ \A e \in RowsOf(u) \cup {row} : Amounts[e] \in Int
    <3>1. RowsOf(u) \in SUBSET ledger
        BY DEF RowsOf
    <3> QED
        BY <3>1, FS_Subset DEF FiniteRows, TypeOK, Amounts, LedgerEntry
  <2>2. CASE row.userId = u
    <3>1. RowsOf(u)' = RowsOf(u) \cup {row}
        BY <2>2 DEF RowsOf
    <3>2. SumFunctionOnSet(Amounts, RowsOf(u) \cup {row})
            = SumFunctionOnSet(Amounts, RowsOf(u)) + Amounts[row]
        BY <2>1, SumAdd
    <3>3. currency'[u] = currency[u] + row.amount /\ Amounts[row] = row.amount
        BY <1>2, <2>2 DEF TypeOK, Amounts
    <3> QED
        BY <3>1, <3>2, <3>3 DEF BalanceInv
  <2>3. CASE row.userId # u
    <3>1. RowsOf(u)' = RowsOf(u)
        BY <2>3 DEF RowsOf
    <3>2. currency'[u] = currency[u]
        BY <1>2, <2>3 DEF TypeOK
    <3> QED
        BY <3>1, <3>2 DEF BalanceInv
  <2> QED
    BY <2>2, <2>3
<1> QED
    BY <1>1, <1>3 DEF BalanceInv, Amounts, LedgerEntry

\* A new opening, and one more of its pack in its member's inventory.
LEMMA MintOnePack ==
    ASSUME TypeOK, FiniteRows, MintedInv, NEW id \in OpenIds, opening[id] = None,
           NEW row \in Opening, row # None,
           opening' = [opening EXCEPT ![id] = row],
           inventory' = [inventory EXCEPT ![row.userId][row.pack] = @ + 1]
    PROVE  MintedInv' /\ \A u \in Users, p \in Packs : IsFiniteSet(Minted(u, p)')
<1>1. row.userId \in Users /\ row.pack \in Packs
    BY DEF Opening
<1>2. ASSUME NEW u \in Users, NEW p \in Packs
      PROVE  inventory'[u][p] = Cardinality(Minted(u, p)') /\ IsFiniteSet(Minted(u, p)')
  <2>1. IsFiniteSet(Minted(u, p)) /\ inventory[u][p] = Cardinality(Minted(u, p))
        /\ id \notin Minted(u, p)
    BY DEF FiniteRows, MintedInv, Minted
  <2>2. CASE u = row.userId /\ p = row.pack
    <3>1. Minted(u, p)' = Minted(u, p) \cup {id}
        BY <2>2 DEF Minted, TypeOK
    <3>2. inventory'[u][p] = inventory[u][p] + 1
        BY <1>1, <2>2 DEF TypeOK
    <3> QED
        BY <2>1, <3>1, <3>2, FS_AddElement
  <2>3. CASE ~(u = row.userId /\ p = row.pack)
    <3>1. Minted(u, p)' = Minted(u, p)
        BY <2>1, <2>3 DEF Minted, TypeOK
    <3>2. inventory'[u][p] = inventory[u][p]
        BY <1>1, <2>3 DEF TypeOK
    <3> QED
        BY <2>1, <3>1, <3>2
  <2> QED
    BY <2>2, <2>3
<1> QED
    BY <1>2 DEF MintedInv

LEMMA BooksStep == ASSUME IInv, BooksInv, [Next]_vars PROVE BooksInv'
<1> USE DEF IInv, TypeInv
<1>1. CASE UNCHANGED tables
  BY <1>1 DEF BooksInv, FiniteRows, BalanceInv, MintedInv, RowsOf, Minted, Amounts, LedgerEntry,
              tables
<1>2. ASSUME NEW r \in Requests, Commit(r), ~UNCHANGED tables PROVE BooksInv'
  <2> DEFINE row == [userId |-> User(r), templateId |-> Ask[r].templateId, pack |-> quote[r].pack]
  <2>1. /\ opening[Id(r)] = None
        /\ opening' = [opening EXCEPT ![Id(r)] = row]
        /\ currency' = [currency EXCEPT ![User(r)] = @ - quote[r].cost]
        /\ ledger' = ledger \cup {SpendRow(r)}
        /\ inventory' = [inventory EXCEPT ![User(r)][quote[r].pack] = @ + 1]
    BY <1>2, CommitEffect
  <2>2. quote[r].cost \in Nat /\ quote[r].pack \in Packs
    BY <1>2, CommitQuote DEF Commit
  <2>3. /\ SpendRow(r) \in LedgerEntry
        /\ SpendRow(r).userId = User(r) /\ SpendRow(r).amount = 0 - quote[r].cost
    BY <2>2, AskType DEF SpendRow, LedgerEntry
  <2>4. SpendRow(r) \notin ledger
    <3>1. Spends(Id(r)) = {}
        BY <2>1, AskType DEF ChargeInv
    <3> QED
        BY <3>1 DEF Spends, SpendRow
  <2>5. currency' = [currency EXCEPT ![SpendRow(r).userId] = @ + SpendRow(r).amount]
    <3>1. currency[User(r)] - quote[r].cost = currency[User(r)] + (0 - quote[r].cost)
        BY <2>2, AskType DEF TypeOK
    <3> QED
        BY <2>1, <2>3, <3>1
  <2>6. IsFiniteSet(ledger') /\ BalanceInv'
    BY <2>1, <2>3, <2>4, <2>5, BookOneRow DEF BooksInv
  <2>7. row \in Opening /\ row # None /\ row.userId = User(r) /\ row.pack = quote[r].pack
    BY <2>2, AskType DEF Opening
  <2> HIDE DEF row
  <2>8. MintedInv' /\ \A u \in Users, p \in Packs : IsFiniteSet(Minted(u, p)')
    BY <2>1, <2>7, AskType, MintOnePack DEF BooksInv
  <2> QED
    BY <2>6, <2>8 DEF BooksInv, FiniteRows
<1>3. ASSUME NEW u \in Users, NEW g \in Grants, GrantCurrency(u, g) PROVE BooksInv'
  <2> DEFINE row == [userId |-> u, type |-> "GRANT", refId |-> g, amount |-> GrantAmount[g]]
  <2>1. /\ UNCHANGED <<opening, inventory>>
        /\ currency' = [currency EXCEPT ![u] = @ + GrantAmount[g]]
        /\ ledger' = ledger \cup {row}
    BY <1>3 DEF GrantCurrency
  <2>2. row \in LedgerEntry /\ row.userId = u /\ row.amount = GrantAmount[g]
    BY DEF LedgerEntry
  <2>3. row \notin ledger
    BY <1>3 DEF GrantCurrency, HasKey
  <2> HIDE DEF row
  <2>4. IsFiniteSet(ledger') /\ BalanceInv'
    BY <2>1, <2>2, <2>3, BookOneRow DEF BooksInv
  <2>5. MintedInv' /\ \A w \in Users, p \in Packs : IsFiniteSet(Minted(w, p)')
    BY <2>1 DEF BooksInv, MintedInv, FiniteRows, Minted
  <2> QED
    BY <2>4, <2>5 DEF BooksInv, FiniteRows
<1> QED
  BY <1>1, <1>2, <1>3, TablesStep

LEMMA Books == Spec => [](IInv /\ BooksInv)
<1>1. Init => IInv /\ BooksInv
    BY InvInit, BooksInit
<1>2. IInv /\ BooksInv /\ [Next]_vars => (IInv /\ BooksInv)'
    BY InvStep, BooksStep
<1> QED
    BY <1>1, <1>2, PTL DEF Spec

\* users.currency and the ledger are written by different statements and nothing in the schema
\* ties them: whatever requests, crashes and grants came, every balance is the sum of its rows.
THEOREM BalancesAddUp == Spec => []BalanceIsLedgerSum
<1>1. IInv /\ BooksInv => BalanceIsLedgerSum
  <2> SUFFICES ASSUME IInv, BooksInv, NEW u \in Users
               PROVE  currency[u] = SumFunction([e \in RowsOf(u) |-> e.amount])
    BY DEF BalanceIsLedgerSum, RowsOf
  <2> DEFINE own == [e \in RowsOf(u) |-> e.amount]
  <2>1. IsFiniteSet(RowsOf(u)) /\ \A e \in RowsOf(u) : Amounts[e] \in Int /\ own[e] = Amounts[e]
    <3>1. RowsOf(u) \in SUBSET ledger
        BY DEF RowsOf
    <3> QED
        BY <3>1, FS_Subset DEF IInv, TypeInv, TypeOK, BooksInv, FiniteRows, Amounts, LedgerEntry
  <2>2. DOMAIN own = RowsOf(u)
    OBVIOUS
  <2> HIDE DEF own
  <2>3. SumFunctionOnSet(own, RowsOf(u)) = SumFunctionOnSet(Amounts, RowsOf(u))
    BY <2>1, SumSame
  <2>4. currency[u] = SumFunction(own)
    BY <2>2, <2>3 DEF SumFunction, BooksInv, BalanceInv
  <2> QED
    BY <2>4 DEF own
<1> QED
    BY <1>1, Books, PTL

\* Every card in an inventory was minted by one opening of its member, and every opening minted:
\* a retry that replays an opening mints nothing, a crash loses nothing (PackOpeningService.write).
THEOREM MintedOnce == Spec => []MintedWhatWasOpened
<1>1. IInv /\ BooksInv => MintedWhatWasOpened
    BY DEF BooksInv, MintedInv, Minted, MintedWhatWasOpened
<1> QED
    BY <1>1, Books, PTL

(***************************************************************************)
(* The Redis lock.                                                         *)
(***************************************************************************)

\* A key leaves a request's hands by expiring, or in that request's own release: releasing
\* compares the token first (PackOpenLock.release), so a lock taken over is left alone.
THEOREM LocksAreKept == Spec => LockReleasedByItsHolder
<1>1. ASSUME IInv, [Next]_vars, NEW id \in OpenIds, NEW r \in Requests,
             redisLock[id] = r, redisLock'[id] # r
      PROVE  pc' = pc \/ pc'[r] # pc[r]
  <2> USE DEF IInv, TypeInv
  <2>1. ASSUME NEW q \in Requests, AcquireLock(q) PROVE FALSE
    BY <1>1, <2>1, AskType DEF AcquireLock, TypeOK
  <2>2. ASSUME NEW q \in Requests, ReleaseLock(q) PROVE pc'[r] # pc[r]
    <3>1. q = r /\ pc[q] = "release" /\ pc' = [pc EXCEPT ![q] = "done"]
        BY <1>1, <2>2, AskType DEF ReleaseLock, Goto, TypeOK
    <3> QED
        BY <1>1, <3>1 DEF TypeOK
  <2>3. ASSUME NEW i \in OpenIds, ExpireLock(i) PROVE pc' = pc
    BY <2>3 DEF ExpireLock
  <2>4. CASE UNCHANGED redisLock
    BY <1>1, <2>4
  <2> QED
    BY <1>1, <2>1, <2>2, <2>3, <2>4
       DEF Next, Step, FindExisting, Poll, LookAgain, PriceAndGenerate, ClaimOpenId, Debit, Commit,
           FindWinner, Abort, Crash, GrantCurrency, UpdateTemplate, vars
<1>2. IInv /\ [Next]_vars =>
        [\A id \in OpenIds, r \in Requests :
            redisLock[id] = r /\ redisLock'[id] # r => pc' = pc \/ pc'[r] # pc[r]]_vars
    BY <1>1
<1> QED
    BY <1>2, Invariant, PTL DEF Spec, LockReleasedByItsHolder

(***************************************************************************)
(* Refinement.                                                             *)
(***************************************************************************)

LEMMA CommitOpens ==
    ASSUME IInv, NEW r \in Requests, Commit(r)
    PROVE  OpenOnceSpec!Next \/ UNCHANGED tables
<1>1. CASE UNCHANGED tables
  BY <1>1
<1>2. CASE /\ opening[Id(r)] = None
           /\ opening' = [opening EXCEPT ![Id(r)] =
                            [userId |-> User(r), templateId |-> Ask[r].templateId,
                             pack |-> quote[r].pack]]
           /\ currency' = [currency EXCEPT ![User(r)] = @ - quote[r].cost]
           /\ ledger' = ledger \cup {SpendRow(r)}
           /\ inventory' = [inventory EXCEPT ![User(r)][quote[r].pack] = @ + 1]
  <2>0. pc[r] = "commit" /\ TypeInv
    BY DEF Commit, IInv
  <2>1. quote[r] \in Quote /\ currency[User(r)] >= quote[r].cost
    BY <2>0 DEF TypeInv, QuoteInv, RowInv, InTransaction
  <2>2. currency[User(r)] \in Nat
    BY AskType DEF IInv, TypeInv, TypeOK
  <2>3. quote[r].pack \in Packs /\ quote[r].cost \in Costs
    BY <2>1 DEF Quote
  <2>4. quote[r].cost \in 0 .. currency[User(r)]
  <3>1. quote[r].cost \in Nat
    BY <2>3, PackAssumption
  <3>2. quote[r].cost <= currency[User(r)]
    BY <2>1, <2>2, <3>1
  <3> QED
    BY <2>2, <2>3, <3>1, <3>2
  <2>5. SpendRow(r) = OpenOnceSpec!Entry(User(r), "PACK_SPEND", Id(r), 0 - quote[r].cost)
    BY DEF SpendRow, OpenOnceSpec!Entry
  <2>6. OpenOnceSpec!Open(Id(r), User(r), Ask[r].templateId, quote[r].pack)
    BY <1>2, <2>4, <2>5 DEF OpenOnceSpec!Open
  <2> QED
    BY <2>3, <2>6, AskType DEF OpenOnceSpec!Next
<1> QED
  BY <1>1, <1>2, CommitEffect

LEMMA GrantGrants ==
    ASSUME TypeOK, NEW u \in Users, NEW g \in Grants, GrantCurrency(u, g)
    PROVE  OpenOnceSpec!Next
<1>1. OpenOnceSpec!Grant(u, g, GrantAmount[g])
  <2>1. \A e \in ledger : ~(e.userId = u /\ e.type = "GRANT" /\ e.refId = g)
    BY DEF GrantCurrency, HasKey
  <2>2. currency[u] + GrantAmount[g] >= 0
    BY PackAssumption DEF GrantCurrency, TypeOK
  <2> QED
    BY <2>1, <2>2 DEF GrantCurrency, OpenOnceSpec!Grant, OpenOnceSpec!Entry
<1> QED
  BY <1>1 DEF OpenOnceSpec!Next

\* Requests, retries, locks, crashes and transactions add nothing that opening at most once,
\* atomically and for what was charged does not allow (PackOpeningService as a whole).
THEOREM OpensAtMostOnce == Spec => ImplementsOpenOnce
<1>1. Init => OpenOnceSpec!Init
    BY DEF Init, OpenOnceSpec!Init
<1>2. IInv /\ [Next]_vars => [OpenOnceSpec!Next]_(OpenOnceSpec!vars)
  <2> SUFFICES ASSUME IInv, [Next]_vars
               PROVE  OpenOnceSpec!Next \/ UNCHANGED OpenOnceSpec!vars
    OBVIOUS
  <2>1. UNCHANGED tables => UNCHANGED OpenOnceSpec!vars
    BY DEF tables, OpenOnceSpec!vars
  <2> QED
    BY <2>1, CommitOpens, GrantGrants, TablesStep DEF IInv, TypeInv
<1> QED
    BY <1>1, <1>2, Invariant, PTL DEF Spec, ImplementsOpenOnce, OpenOnceSpec!Spec
=============================================================================
