---------------------------- MODULE PackOpening ----------------------------
(***************************************************************************)
(* POST /packs/:templateId/open: the openId idempotency of                 *)
(* PackOpeningService under PostgreSQL READ COMMITTED and a Redis lock     *)
(* that may expire, be lost or be unreachable.                             *)
(*                                                                         *)
(* Each request is a handler that advances one awaited call at a time.     *)
(* What its transaction has written is invisible until Commit; what it has *)
(* locked - the openId's entry in the unique index, the member's users row *)
(* - is in "claimed" and "userRow" and makes other transactions wait.      *)
(* Inventory rows need no lock of their own here: only this member's       *)
(* transactions touch them and the users row is always taken first.        *)
(***************************************************************************)
EXTENDS Integers, FiniteSetsExt

CONSTANTS
    Requests,      \* the HTTP requests; a retry is another request with the same ask
    Ask,           \* who asks for what: [Requests -> [userId, templateId, openId]]
    Users, Templates, OpenIds, Packs, Costs,
    Grants,        \* the grantIds of admin grants, the welcome grant among them
    GrantAmount,   \* [Grants -> Int]
    MaxCurrency,   \* bound: no grant takes a balance above it
    None           \* no row, no holder

ASSUME PackAssumption ==
    /\ Ask \in [Requests -> [userId : Users, templateId : Templates, openId : OpenIds]]
    /\ Costs \subseteq Nat
    /\ GrantAmount \in [Grants -> Int]
    /\ MaxCurrency \in Nat
    /\ None \notin Requests
    /\ None \notin [userId : Users, templateId : Templates, pack : Packs]
    /\ None \notin [cost : Costs, pack : Packs]

VARIABLES
    opening,     \* committed pack_openings, by openId
    currency,    \* committed users.currency
    ledger,      \* committed currency_transactions
    inventory,   \* packs minted into inventory_items, per member
    template,    \* pack_templates: [active, cost]
    redisLock,   \* lock:open:{openId} -> the token of the request that set it
    claimed,     \* openId -> the open transaction whose uncommitted row holds the index entry
    userRow,     \* users row -> the open transaction that holds its row lock
    pc,          \* where each handler is
    attempt,     \* what PackOpenLock.acquire answered
    quote,       \* what openFresh read and generated before its transaction
    answer       \* the response, None until there is one

tables == <<opening, currency, ledger, inventory>>
txn    == <<claimed, userRow>>
vars   == <<tables, template, redisLock, txn, pc, attempt, quote, answer>>

OpenOnceSpec == INSTANCE OpenOnce WITH Amounts <- {GrantAmount[g] : g \in Grants}

Opening == [userId : Users, templateId : Templates, pack : Packs]
Quote   == [cost : Costs, pack : Packs]
Refusals == {"OPEN_ID_CONFLICT", "INSUFFICIENT_FUNDS", "PACK_UNAVAILABLE", "NOT_FOUND", "ERROR"}
Answer  == [status : {"OK"} \cup Refusals, pack : Packs \cup {None}]

InTransaction == {"debit", "commit"}
Finished == {"done", "dead"}
PCs == {"find", "acquire", "wait", "look", "quote", "insert", "winner", "release"}
          \cup InTransaction \cup Finished

Init ==
    /\ opening = [id \in OpenIds |-> None]
    /\ currency = [u \in Users |-> 0]
    /\ ledger = {}
    /\ inventory = [u \in Users |-> [p \in Packs |-> 0]]
    /\ template \in [Templates -> [active : BOOLEAN, cost : Costs]]
    /\ redisLock = [id \in OpenIds |-> None]
    /\ claimed = [id \in OpenIds |-> None]
    /\ userRow = [u \in Users |-> None]
    /\ pc = [r \in Requests |-> "find"]
    /\ attempt = [r \in Requests |-> "none"]
    /\ quote = [r \in Requests |-> None]
    /\ answer = [r \in Requests |-> None]

-----------------------------------------------------------------------------
(* Helpers.                                                                *)

User(r) == Ask[r].userId
Id(r)   == Ask[r].openId

Goto(r, label) == pc' = [pc EXCEPT ![r] = label]

Respond(r, a) == answer' = [answer EXCEPT ![r] = a]

\* Every way out of open() passes its finally block, which releases a lock this request acquired.
Leave(r, a) == Goto(r, "release") /\ Respond(r, a)
Refuse(r, code) == Leave(r, [status |-> code, pack |-> None])
Present(r, p)   == Leave(r, [status |-> "OK", pack |-> p])

\* Mutant of Replay: the recorded cards go to whoever sends the openId.
ReplayToAnyone(r) == Present(r, opening[Id(r)].pack)

\* replay(): another member's opening, or another template's, is refused; otherwise its cards.
Replay(r) ==
    LET row == opening[Id(r)]
        same == row.userId = User(r) /\ row.templateId = Ask[r].templateId
    IN  \/ ~same /\ Refuse(r, "OPEN_ID_CONFLICT")
        \/ same /\ Present(r, row.pack)

\* A handler that has ended keeps no locals.
Forget(r) ==
    /\ attempt' = [attempt EXCEPT ![r] = "none"]
    /\ quote' = [quote EXCEPT ![r] = None]

\* Mutant of EndTransaction: the index entry of a rolled-back opening stays taken.
EndKeepingClaim(r) ==
    /\ userRow' = [userRow EXCEPT ![User(r)] = IF @ = r THEN None ELSE @]
    /\ UNCHANGED claimed

\* Ending a transaction, either way, frees what it held.
EndTransaction(r) ==
    /\ claimed' = [claimed EXCEPT ![Id(r)] = IF @ = r THEN None ELSE @]
    /\ userRow' = [userRow EXCEPT ![User(r)] = IF @ = r THEN None ELSE @]

\* Mutant of SpendRow: the row records the template's price at commit, not the price charged.
SpendRowAtCurrentPrice(r) == [userId |-> User(r), type |-> "PACK_SPEND", refId |-> Id(r),
                              amount |-> 0 - template[Ask[r].templateId].cost]

SpendRow(r) == [userId |-> User(r), type |-> "PACK_SPEND", refId |-> Id(r),
                amount |-> 0 - quote[r].cost]

HasKey(u, type, ref) == \E e \in ledger : e.userId = u /\ e.type = type /\ e.refId = ref

-----------------------------------------------------------------------------
(* The handler, one awaited call per action.                               *)

\* open(): findOpening before anything else.
FindExisting(r) ==
    /\ pc[r] = "find"
    /\ \/ opening[Id(r)] # None /\ Replay(r)
       \/ opening[Id(r)] = None /\ Goto(r, "acquire") /\ UNCHANGED answer
    /\ UNCHANGED <<tables, template, redisLock, txn, attempt, quote>>

\* PackOpenLock.acquire: SET NX PX; a Redis failure is "unavailable", never an error.
AcquireLock(r) ==
    /\ pc[r] = "acquire"
    /\ \/ /\ redisLock[Id(r)] = None
          /\ redisLock' = [redisLock EXCEPT ![Id(r)] = r]
          /\ attempt' = [attempt EXCEPT ![r] = "acquired"]
          /\ Goto(r, "quote")
       \/ /\ redisLock[Id(r)] # None
          /\ attempt' = [attempt EXCEPT ![r] = "held"]
          /\ Goto(r, "wait")
          /\ UNCHANGED redisLock
       \/ /\ attempt' = [attempt EXCEPT ![r] = "unavailable"]
          /\ Goto(r, "quote")
          /\ UNCHANGED redisLock
    /\ UNCHANGED <<tables, template, txn, quote, answer>>

\* waitForOpening: poll until the opening is there, the lock is gone (or Redis does not
\* answer, which reads as gone), or 10 s have passed.  A poll that finds neither is a stutter.
Poll(r) ==
    /\ pc[r] = "wait"
    /\ \/ opening[Id(r)] # None /\ Replay(r)
       \/ opening[Id(r)] = None /\ Goto(r, "look") /\ UNCHANGED answer      \* isHeld said no
       \/ Goto(r, "quote") /\ UNCHANGED answer                             \* the deadline
    /\ UNCHANGED <<tables, template, redisLock, txn, attempt, quote>>

\* The last findOpening, after the lock was seen gone.
LookAgain(r) ==
    /\ pc[r] = "look"
    /\ \/ opening[Id(r)] # None /\ Replay(r)
       \/ opening[Id(r)] = None /\ Goto(r, "quote") /\ UNCHANGED answer
    /\ UNCHANGED <<tables, template, redisLock, txn, attempt, quote>>

\* openFresh before its transaction: getActive, loadPool and generatePack.  The pool is the
\* catalog's, so the cards are any pack, and a slot may turn out to have none.
PriceAndGenerate(r) ==
    /\ pc[r] = "quote"
    /\ LET t == template[Ask[r].templateId]
       IN  \/ /\ ~t.active
              /\ Refuse(r, "NOT_FOUND")
              /\ UNCHANGED quote
           \/ /\ t.active
              /\ Refuse(r, "PACK_UNAVAILABLE")
              /\ UNCHANGED quote
           \/ /\ t.active
              /\ \E p \in Packs : quote' = [quote EXCEPT ![r] = [cost |-> t.cost, pack |-> p]]
              /\ Goto(r, "insert")
              /\ UNCHANGED answer
    /\ UNCHANGED <<tables, template, redisLock, txn, attempt>>

\* Mutant of ClaimOpenId: the opening is not the first write, so nothing is claimed yet.
ClaimNothing(r) ==
    /\ pc[r] = "insert"
    /\ Goto(r, "debit")
    /\ UNCHANGED <<tables, template, redisLock, txn, attempt, quote, answer>>

\* write(), first statement: the opening row claims the openId.  An uncommitted row of another
\* transaction is waited for; a committed one is a unique violation and rolls back.
ClaimOpenId(r) ==
    /\ pc[r] = "insert"
    /\ claimed[Id(r)] = None
    /\ \/ opening[Id(r)] # None /\ Goto(r, "winner") /\ UNCHANGED claimed
       \/ /\ opening[Id(r)] = None
          /\ claimed' = [claimed EXCEPT ![Id(r)] = r]
          /\ Goto(r, "debit")
    /\ UNCHANGED <<tables, template, redisLock, userRow, attempt, quote, answer>>

\* Mutants of Debit: no guard on the balance; a balance read without taking the row's lock.
DebitUnguarded(r) ==
    /\ pc[r] = "debit"
    /\ userRow[User(r)] = None
    /\ userRow' = [userRow EXCEPT ![User(r)] = r]
    /\ Goto(r, "commit")
    /\ UNCHANGED <<tables, template, redisLock, claimed, attempt, quote, answer>>

DebitUnlocked(r) ==
    /\ pc[r] = "debit"
    /\ currency[User(r)] >= quote[r].cost
    /\ Goto(r, "commit")
    /\ UNCHANGED <<tables, template, redisLock, txn, attempt, quote, answer>>

\* write(), second statement: UPDATE users ... WHERE currency >= cost, under the row lock it takes.
Debit(r) ==
    /\ pc[r] = "debit"
    /\ userRow[User(r)] = None
    /\ \/ /\ currency[User(r)] >= quote[r].cost
          /\ userRow' = [userRow EXCEPT ![User(r)] = r]
          /\ Goto(r, "commit")
          /\ UNCHANGED <<claimed, answer>>
       \/ /\ currency[User(r)] < quote[r].cost
          /\ EndTransaction(r)
          /\ Refuse(r, "INSUFFICIENT_FUNDS")
    /\ UNCHANGED <<tables, template, redisLock, attempt, quote>>

\* Mutant of Commit: the ledger row is written apart, and may be lost.
CommitLedgerApart(r) ==
    /\ pc[r] = "commit"
    /\ EndTransaction(r)
    /\ opening' = [opening EXCEPT ![Id(r)] =
            [userId |-> User(r), templateId |-> Ask[r].templateId, pack |-> quote[r].pack]]
    /\ currency' = [currency EXCEPT ![User(r)] = @ - quote[r].cost]
    /\ ledger' \in {ledger, ledger \cup {SpendRow(r)}}
    /\ inventory' = [inventory EXCEPT ![User(r)][quote[r].pack] = @ + 1]
    /\ Present(r, quote[r].pack)
    /\ UNCHANGED <<template, redisLock, attempt, quote>>

\* The rest of write() - ledger row, cards, inventory - and COMMIT, which makes all of it
\* visible at once.  The ledger's own unique key refuses a second PACK_SPEND of one openId.
Commit(r) ==
    /\ pc[r] = "commit"
    /\ EndTransaction(r)
    /\ \/ /\ HasKey(User(r), "PACK_SPEND", Id(r))
          /\ Goto(r, "winner")
          /\ UNCHANGED <<tables, answer>>
       \/ /\ ~HasKey(User(r), "PACK_SPEND", Id(r))
          /\ opening' = [opening EXCEPT ![Id(r)] =
                            [userId |-> User(r), templateId |-> Ask[r].templateId,
                             pack |-> quote[r].pack]]
          /\ currency' = [currency EXCEPT ![User(r)] = @ - quote[r].cost]
          /\ ledger' = ledger \cup {SpendRow(r)}
          /\ inventory' = [inventory EXCEPT ![User(r)][quote[r].pack] = @ + 1]
          /\ Present(r, quote[r].pack)
    /\ UNCHANGED <<template, redisLock, attempt, quote>>

\* The transaction fails after it began: the 5 s timeout, a lost connection, a failed statement.
Abort(r) ==
    /\ pc[r] \in InTransaction
    /\ EndTransaction(r)
    /\ Refuse(r, "ERROR")
    /\ UNCHANGED <<tables, template, redisLock, attempt, quote>>

\* After a unique violation: answer from the opening that won, or rethrow.
FindWinner(r) ==
    /\ pc[r] = "winner"
    /\ \/ opening[Id(r)] # None /\ Replay(r)
       \/ opening[Id(r)] = None /\ Refuse(r, "ERROR")
    /\ UNCHANGED <<tables, template, redisLock, txn, attempt, quote>>

\* Mutant of ReleaseLock: a plain DEL, with no look at whose token is there.
ReleaseAnyLock(r) ==
    /\ pc[r] = "release"
    /\ Goto(r, "done")
    /\ redisLock' = IF attempt[r] = "acquired" THEN [redisLock EXCEPT ![Id(r)] = None] ELSE redisLock
    /\ Forget(r)
    /\ UNCHANGED <<tables, template, txn, answer>>

\* PackOpenLock.release: compare-and-delete; a Redis failure leaves the key to expire.
ReleaseLock(r) ==
    /\ pc[r] = "release"
    /\ Goto(r, "done")
    /\ \/ /\ attempt[r] = "acquired" /\ redisLock[Id(r)] = r
          /\ redisLock' = [redisLock EXCEPT ![Id(r)] = None]
       \/ UNCHANGED redisLock
    /\ Forget(r)
    /\ UNCHANGED <<tables, template, txn, answer>>

-----------------------------------------------------------------------------
(* Everything else that moves.                                             *)

\* The process dies: PostgreSQL rolls its transaction back, Redis keeps the lock until it expires.
Crash(r) ==
    /\ pc[r] \notin Finished
    /\ Goto(r, "dead")
    /\ EndTransaction(r)
    /\ Forget(r)
    /\ answer' = [answer EXCEPT ![r] = None]
    /\ UNCHANGED <<tables, template, redisLock>>

\* PX 10000 runs out, whoever holds the key and wherever that request is.
ExpireLock(id) ==
    /\ redisLock[id] # None
    /\ redisLock' = [redisLock EXCEPT ![id] = None]
    /\ UNCHANGED <<tables, template, txn, pc, attempt, quote, answer>>

\* An administrator's grant (or the welcome grant): the ledger row first, then the guarded
\* credit, in one transaction that waits for the member's users row.
GrantCurrency(u, g) ==
    /\ ~HasKey(u, "GRANT", g)
    /\ userRow[u] = None
    /\ currency[u] + GrantAmount[g] \in 0 .. MaxCurrency
    /\ currency' = [currency EXCEPT ![u] = @ + GrantAmount[g]]
    /\ ledger' = ledger \cup {[userId |-> u, type |-> "GRANT", refId |-> g,
                               amount |-> GrantAmount[g]]}
    /\ UNCHANGED <<opening, inventory, template, redisLock, txn, pc, attempt, quote, answer>>

\* An administrator edits a template: activates it, deactivates it or changes its price.
UpdateTemplate(t) ==
    /\ \E row \in [active : BOOLEAN, cost : Costs] : template' = [template EXCEPT ![t] = row]
    /\ UNCHANGED <<tables, redisLock, txn, pc, attempt, quote, answer>>

Step(r) ==
    \/ FindExisting(r) \/ AcquireLock(r) \/ Poll(r) \/ LookAgain(r)
    \/ PriceAndGenerate(r) \/ ClaimOpenId(r) \/ Debit(r) \/ Commit(r)
    \/ FindWinner(r) \/ ReleaseLock(r)

Next ==
    \/ \E r \in Requests : Step(r) \/ Abort(r) \/ Crash(r)
    \/ \E id \in OpenIds : ExpireLock(id)
    \/ \E u \in Users, g \in Grants : GrantCurrency(u, g)
    \/ \E t \in Templates : UpdateTemplate(t)

Spec == Init /\ [][Next]_vars

\* Node keeps running a handler whose awaited call has returned.  Nothing obliges a crash, a
\* grant or an expiry to happen.
FairSpec == Spec /\ \A r \in Requests : WF_vars(Step(r))

-----------------------------------------------------------------------------
(* Properties.                                                             *)

LedgerEntry ==
    [userId : Users, type : {"GRANT", "PACK_SPEND"}, refId : Grants \cup OpenIds, amount : Int]

\* Type invariant: every row and every handler's local state is of the shape the code gives it,
\* and no balance is ever negative.
TypeOK ==
    /\ opening \in [OpenIds -> Opening \cup {None}]
    /\ currency \in [Users -> Nat]
    /\ ledger \subseteq LedgerEntry
    /\ inventory \in [Users -> [Packs -> Nat]]
    /\ template \in [Templates -> [active : BOOLEAN, cost : Costs]]
    /\ redisLock \in [OpenIds -> Requests \cup {None}]
    /\ claimed \in [OpenIds -> Requests \cup {None}]
    /\ userRow \in [Users -> Requests \cup {None}]
    /\ pc \in [Requests -> PCs]
    /\ attempt \in [Requests -> {"none", "acquired", "held", "unavailable"}]
    /\ quote \in [Requests -> Quote \cup {None}]
    /\ answer \in [Requests -> Answer \cup {None}]

\* A member is charged for an openId exactly when it was opened, once, and it is the member who
\* opened it who paid - whatever retries, crashes and expired locks came between.
ChargedOncePerOpening ==
    \A id \in OpenIds :
        LET spends == {e \in ledger : e.type = "PACK_SPEND" /\ e.refId = id}
        IN  IF opening[id] = None
            THEN spends = {}
            ELSE /\ Cardinality(spends) = 1
                 /\ \A e \in spends : e.userId = opening[id].userId

\* What is in a member's inventory is what that member's openings recorded: nothing minted
\* twice by a retry, nothing lost.
MintedWhatWasOpened ==
    \A u \in Users, p \in Packs :
        inventory[u][p] = Cardinality({id \in OpenIds :
            opening[id] # None /\ opening[id].userId = u /\ opening[id].pack = p})

\* users.currency is the sum of the member's ledger rows, which nothing in the schema enforces.
BalanceIsLedgerSum ==
    \A u \in Users :
        currency[u] = SumFunction([e \in {e \in ledger : e.userId = u} |-> e.amount])

\* Every success for one openId shows the one recorded pack, and only to the member who owns it:
\* a replay is answered from what the first attempt recorded.
AnswersAreTheRecordedOpening ==
    \A r \in Requests :
        answer[r] # None /\ answer[r].status = "OK" =>
            /\ opening[Id(r)] # None
            /\ opening[Id(r)].userId = User(r)
            /\ opening[Id(r)].templateId = Ask[r].templateId
            /\ answer[r].pack = opening[Id(r)].pack

\* "Not enough coins" is never answered to a retry of an opening that was paid for: the openId
\* is claimed before the balance is looked at.
NoFundsRefusalOncePaid ==
    [][\A r \in Requests :
          (answer[r] = None /\ answer'[r] # None /\ answer'[r].status = "INSUFFICIENT_FUNDS")
              => opening[Id(r)] = None]_vars

\* A lock is given up only by the request whose token it holds, or by expiring: a request whose
\* lock expired and was taken over never releases its successor's.
LockReleasedByItsHolder ==
    [][\A id \in OpenIds, r \in Requests :
          redisLock[id] = r /\ redisLock'[id] # r => pc' = pc \/ pc'[r] # pc[r]]_vars

\* A request whose process survives is answered: nobody waits forever on a lock, an index entry
\* or a row, also when the first attempt was refused or crashed holding the Redis lock.
AllFinished == \A r \in Requests : pc[r] \in Finished
EveryRequestEnds == <>[]AllFinished

\* The whole handler implements "open at most once, atomically".
ImplementsOpenOnce == OpenOnceSpec!Spec
=============================================================================
