----------------------------- MODULE LockOrder -----------------------------
(***************************************************************************)
(* The row locks every writing transaction takes, in the order its         *)
(* statements take them, and who can end up waiting for whom.              *)
(*                                                                         *)
(* A row is <<table, key, key>>, and the tables are numbered in the order  *)
(* the data model prescribes: trades, then users, then inventory_items -   *)
(* so "in lock order" is the order of the tuples.  Users and cards are     *)
(* numbers, compared like their ids.  Foreign keys take KEY SHARE, which   *)
(* conflicts with none of these locks, and are left out.                   *)
(***************************************************************************)
EXTENDS Integers, Sequences, FiniteSets

CONSTANTS
    Transactions,
    Work,            \* what a transaction may be doing, built with the operators below
    Trades,          \* the trades there are: id -> [initiator, recipient, offered, requested, coins]
    Admins           \* the active administrators

VARIABLES
    work,            \* what each transaction does
    taken            \* how many of its rows it has locked; -1 when it has ended

vars == <<work, taken>>

TradeRow(t)   == <<1, t, 0>>
UserRow(u)    == <<2, u, 0>>
ItemRow(u, c) == <<3, u, c>>

Before(a, b) ==
    \/ a[1] < b[1]
    \/ a[1] = b[1] /\ a[2] < b[2]
    \/ a[1] = b[1] /\ a[2] = b[2] /\ a[3] < b[3]

\* The rows in lock order: as many come before a row as its place says.
Place(r, rows) == Cardinality({other \in rows : Before(other, r)}) + 1
Sorted(rows) == [i \in 1 .. Cardinality(rows) |-> CHOOSE r \in rows : Place(r, rows) = i]

Items(u, cards) == {ItemRow(u, c) : c \in cards}

-----------------------------------------------------------------------------
(* The rows of each transaction, in order.                                 *)

\* PackOpeningService.write: the member's row, then one statement mints the cards.
OpenPack(u, cards) == <<UserRow(u)>> \o Sorted(Items(u, cards))

\* AdminUsersService.grant, and the welcome grant.
Grant(u) == <<UserRow(u)>>

\* propose: the lock on what is offered.
Propose(u, cards) == Sorted(Items(u, cards))

Moved(t) == Trades[t].offered \cup Trades[t].requested

\* Mutant of Settle: cards before coins.
CardsFirst(t) ==
    LET both == {Trades[t].initiator, Trades[t].recipient}
    IN  <<TradeRow(t)>> \o Sorted(UNION {Items(u, Moved(t)) : u \in both})
          \o (IF Trades[t].coins THEN Sorted({UserRow(u) : u \in both}) ELSE <<>>)

\* accept, and the void of an accepted trade: close, moveCoins, applyMoves.
Settle(t) ==
    LET both == {Trades[t].initiator, Trades[t].recipient}
    IN  <<TradeRow(t)>>
          \o (IF Trades[t].coins THEN Sorted({UserRow(u) : u \in both}) ELSE <<>>)
          \o Sorted(UNION {Items(u, Moved(t)) : u \in both})

\* decline, cancel, expiry, the void of a pending trade: close with release.
CallOff(t) == <<TradeRow(t)>> \o Sorted(Items(Trades[t].initiator, Trades[t].offered))

\* counter: close, then release and lock by ascending userId.
Counter(t, cards) ==
    <<TradeRow(t)>>
      \o Sorted(Items(Trades[t].initiator, Trades[t].offered) \cup Items(Trades[t].recipient, cards))

\* changeRole: an administrator's change first locks every administrator (assertNotLastAdmin),
\* a member's only the member.
ChangeRole(u) == Sorted({UserRow(a) : a \in IF u \in Admins THEN Admins ELSE {u}})

\* suspend: the member's pending trades in id order, the locks they give back per initiator, and
\* only then users.
Suspend(u) ==
    LET mine == {t \in DOMAIN Trades : u \in {Trades[t].initiator, Trades[t].recipient}}
    IN  Sorted({TradeRow(t) : t \in mine})
          \o Sorted(UNION {Items(Trades[t].initiator, Trades[t].offered) : t \in mine})
          \o ChangeRole(u)

-----------------------------------------------------------------------------

Ended(x) == taken[x] = -1
Held(x) == IF Ended(x) THEN {} ELSE {work[x][i] : i \in 1 .. taken[x]}
Wants(x) == IF Ended(x) \/ taken[x] = Len(work[x]) THEN {} ELSE {work[x][taken[x] + 1]}
WaitsFor(x, y) == x # y /\ Wants(x) \cap Held(y) # {}

Init ==
    /\ work \in [Transactions -> Work]
    /\ taken = [x \in Transactions |-> 0]

\* A statement gets its next row, or waits.
TakeRow(x) ==
    /\ Wants(x) # {}
    /\ \A y \in Transactions : ~WaitsFor(x, y)
    /\ taken' = [taken EXCEPT ![x] = @ + 1]
    /\ UNCHANGED work

\* COMMIT after the last row, or ROLLBACK at any statement that may proceed: a guarded update
\* that matches no row.
End(x) ==
    /\ ~Ended(x)
    /\ \A y \in Transactions : ~WaitsFor(x, y)
    /\ taken' = [taken EXCEPT ![x] = -1]
    /\ UNCHANGED work

Next == \E x \in Transactions : TakeRow(x) \/ End(x)

Spec == Init /\ [][Next]_vars /\ \A x \in Transactions : WF_vars(End(x))

-----------------------------------------------------------------------------

\* Two open transactions never hold one row; nobody has locked more rows than it asks for.
TypeOK ==
    /\ work \in [Transactions -> Work]
    /\ \A x \in Transactions : taken[x] \in -1 .. Len(work[x])
    /\ \A x, y \in Transactions : x # y => Held(x) \cap Held(y) = {}

\* No ring of transactions waits for itself: what PostgreSQL would break with "deadlock
\* detected" and the user would see as a 500.
NoDeadlock ==
    \A ring \in (SUBSET Transactions) \ {{}} :
        \E x \in ring : \A y \in ring : ~WaitsFor(x, y)
=============================================================================
