--------------------------- MODULE Accounts_proofs ---------------------------
(***************************************************************************)
(* Theorems about Accounts: type correctness for any requests, and the     *)
(* last-admin rule while administrators only leave, and that suspensions   *)
(* and reinstatements alternate in the audit log - whatever the number of  *)
(* users and of requests at once.                                          *)
(***************************************************************************)
EXTENDS Accounts, TLAPS

Row == [target : Users, op : AllOps]

-----------------------------------------------------------------------------
(* Type correctness.                                                       *)

\* The locks go with the transaction that ends.
LEMMA EndTypes ==
    ASSUME TypeOK, NEW r \in Requests, EndTransaction(r)
    PROVE  /\ rowLock' \in [Users -> Requests \cup {None}]
           /\ pc' \in [Requests -> PCs]
           /\ \A u \in Users : rowLock'[u] # None => pc'[rowLock'[u]] \in {"write", "commit"}
  <1>1. rowLock \in [Users -> Requests \cup {None}] /\ pc \in [Requests -> PCs]
    BY DEF TypeOK
  <1>2. rowLock' = [u \in Users |-> IF rowLock[u] = r THEN None ELSE rowLock[u]]
    BY DEF EndTransaction, Unlocked
  <1>3. pc' = [pc EXCEPT ![r] = "done"]
    BY DEF EndTransaction, Goto
  <1>4. rowLock' \in [Users -> Requests \cup {None}]
    BY <1>1, <1>2
  <1>5. pc' \in [Requests -> PCs]
    BY <1>1, <1>3 DEF PCs
  <1>6. ASSUME NEW u \in Users, rowLock'[u] # None
        PROVE  pc'[rowLock'[u]] \in {"write", "commit"}
    <2>1. rowLock'[u] = rowLock[u] /\ rowLock[u] # r /\ rowLock[u] # None
      BY <1>2, <1>6
    <2>2. rowLock[u] \in Requests
      BY <1>1, <2>1
    <2>3. pc[rowLock[u]] \in {"write", "commit"}
      BY <2>1 DEF TypeOK
    <2> QED
      BY <1>1, <1>3, <2>1, <2>2, <2>3
  <1> QED
    BY <1>4, <1>5, <1>6

\* A step that takes no lock, of a request that holds none.
LEMMA GotoTypes ==
    ASSUME TypeOK, NEW r \in Requests, NEW l \in PCs, Goto(r, l), UNCHANGED rowLock,
           pc[r] \in {"write", "commit"} => l \in {"write", "commit"}
    PROVE  /\ rowLock' \in [Users -> Requests \cup {None}]
           /\ pc' \in [Requests -> PCs]
           /\ \A u \in Users : rowLock'[u] # None => pc'[rowLock'[u]] \in {"write", "commit"}
  BY DEF TypeOK, Goto

LEMMA InitTypes == Init => TypeOK
  <1> SUFFICES ASSUME Init PROVE TypeOK
    OBVIOUS
  <1> USE AccountsAssumption
  <1>1. /\ role \in [Users -> Roles] /\ suspended \in [Users -> BOOLEAN]
        /\ sessions \subseteq Users /\ signingIn \subseteq Users
    BY DEF Init, Roles
  <1>2. /\ rowLock \in [Users -> Requests \cup {None}]
        /\ \A u \in Users : rowLock[u] # None => pc[rowLock[u]] \in {"write", "commit"}
    BY DEF Init
  <1>3. request \in [Requests -> Ask]
    BY DEF Init, Ask
  <1>4. pc \in [Requests -> PCs] /\ saw \in [Requests -> Seen]
    BY DEF Init, PCs, Seen, NoOne, Roles
  <1>5. listed \in [Requests -> SUBSET Users] /\ doomed \in [Requests -> SUBSET Users]
    BY DEF Init
  <1>6. audit \in Seq([target : Users, op : AllOps])
    BY DEF Init
  <1> QED
    BY <1>1, <1>2, <1>3, <1>4, <1>5, <1>6 DEF TypeOK

LEMMA NextTypes == TypeOK /\ [Next]_vars => TypeOK'
  <1> SUFFICES ASSUME TypeOK, [Next]_vars PROVE TypeOK'
    OBVIOUS
  <1> DEFINE Locks == /\ rowLock \in [Users -> Requests \cup {None}]
                      /\ pc \in [Requests -> PCs]
                      /\ \A u \in Users : rowLock[u] # None => pc[rowLock[u]] \in {"write", "commit"}
  <1>1. ASSUME NEW r \in Requests, Authenticate(r) PROVE TypeOK'
    <2>1. Goto(r, "target") /\ UNCHANGED rowLock /\ pc[r] = "idle"
      BY <1>1 DEF Authenticate
    <2>2. Locks'
      BY <2>1, GotoTypes DEF PCs
    <2> QED
      BY <1>1, <2>2 DEF TypeOK, Authenticate, committed
  <1>2. ASSUME NEW r \in Requests, ReadTarget(r) PROVE TypeOK'
    <2>1. \E l \in PCs : l \in {"done", "list", "write"} /\ Goto(r, l)
      BY <1>2 DEF ReadTarget, PCs
    <2>2. UNCHANGED rowLock /\ pc[r] = "target"
      BY <1>2 DEF ReadTarget
    <2>3. Locks'
      BY <2>1, <2>2, GotoTypes
    <2>4. Target(r) \in Users
      BY DEF TypeOK, Ask, Target
    <2>5. [role |-> role[Target(r)], suspended |-> suspended[Target(r)]] \in Seen
      BY <2>4 DEF TypeOK, Seen
    <2>6. saw' \in [Requests -> Seen]
      BY <1>2, <2>5 DEF TypeOK, ReadTarget
    <2> QED
      BY <1>2, <2>3, <2>6 DEF TypeOK, ReadTarget, committed
  <1>3. ASSUME NEW r \in Requests, ListAdmins(r) PROVE TypeOK'
    <2>1. Goto(r, "lock") /\ UNCHANGED rowLock /\ pc[r] = "list"
      BY <1>3 DEF ListAdmins
    <2>2. Locks'
      BY <2>1, GotoTypes DEF PCs
    <2>3. listed' \in [Requests -> SUBSET Users]
      BY <1>3 DEF TypeOK, ListAdmins, ActiveAdmins
    <2> QED
      BY <1>3, <2>2, <2>3 DEF TypeOK, ListAdmins, committed
  <1>4. ASSUME NEW r \in Requests, CountAdmins(r) PROVE TypeOK'
    <2> DEFINE admins == listed[r] \cap ActiveAdmins
               locks == [u \in Users |-> IF u \in admins THEN r ELSE rowLock[u]]
    <2>1. Decide(r, admins, locks)
      BY <1>4 DEF CountAdmins
    <2>2. Locks'
      <3>1. CASE EndTransaction(r)
        BY <3>1, EndTypes
      <3>2. CASE rowLock' = locks /\ Goto(r, "write")
        <4>1. rowLock' \in [Users -> Requests \cup {None}]
          BY <3>2 DEF TypeOK
        <4>2. pc' = [pc EXCEPT ![r] = "write"] /\ pc' \in [Requests -> PCs]
          BY <3>2 DEF TypeOK, Goto, PCs
        <4>3. ASSUME NEW u \in Users, rowLock'[u] # None
              PROVE  pc'[rowLock'[u]] \in {"write", "commit"}
          <5>1. CASE u \in admins
            BY <3>2, <4>2, <5>1 DEF TypeOK
          <5>2. CASE u \notin admins
            <6>1. rowLock'[u] = rowLock[u]
              BY <3>2, <5>2
            <6>2. pc[rowLock[u]] \in {"write", "commit"} /\ rowLock[u] \in Requests
              BY <4>3, <6>1 DEF TypeOK
            <6> QED
              BY <4>2, <6>1, <6>2 DEF TypeOK
          <5> QED
            BY <5>1, <5>2
        <4> QED
          BY <4>1, <4>2, <4>3
      <3> QED
        BY <2>1, <3>1, <3>2 DEF Decide
    <2>3. listed' \in [Requests -> SUBSET Users]
      BY <1>4 DEF TypeOK, CountAdmins
    <2> QED
      BY <1>4, <2>2, <2>3 DEF TypeOK, CountAdmins, committed
  <1>5. ASSUME NEW r \in Requests, WriteTarget(r) PROVE TypeOK'
    <2>1. CASE ~StillApplies(Op(r), Target(r))
      <3>1. EndTransaction(r) /\ UNCHANGED doomed
        BY <1>5, <2>1 DEF WriteTarget
      <3>2. Locks'
        BY <3>1, EndTypes
      <3> QED
        BY <1>5, <3>1, <3>2 DEF TypeOK, WriteTarget, committed
    <2>2. CASE StillApplies(Op(r), Target(r))
      <3>1. /\ rowLock' = [rowLock EXCEPT ![Target(r)] = r]
            /\ pc' = [pc EXCEPT ![r] = "commit"]
            /\ doomed' = [doomed EXCEPT ![r] =
                    IF Op(r) \in {"suspend", "unsuspend"} THEN sessions \cap {Target(r)} ELSE {}]
        BY <1>5, <2>2 DEF WriteTarget, Goto
      <3>2. rowLock' \in [Users -> Requests \cup {None}] /\ pc' \in [Requests -> PCs]
        BY <3>1 DEF TypeOK, PCs
      <3>3. ASSUME NEW u \in Users, rowLock'[u] # None
            PROVE  pc'[rowLock'[u]] \in {"write", "commit"}
        <4>1. CASE rowLock'[u] = r
          BY <3>1, <4>1 DEF TypeOK
        <4>2. CASE rowLock'[u] # r
          <5>1. rowLock'[u] = rowLock[u]
            BY <3>1, <4>2 DEF TypeOK
          <5>2. pc[rowLock[u]] \in {"write", "commit"} /\ rowLock[u] \in Requests
            BY <3>3, <5>1 DEF TypeOK
          <5> QED
            BY <3>1, <5>1, <5>2 DEF TypeOK
        <4> QED
          BY <4>1, <4>2
      <3>4. doomed' \in [Requests -> SUBSET Users]
        BY <3>1 DEF TypeOK
      <3> QED
        BY <1>5, <3>2, <3>3, <3>4 DEF TypeOK, WriteTarget, committed
    <2> QED
      BY <2>1, <2>2
  <1>6. ASSUME NEW r \in Requests, Commit(r) PROVE TypeOK'
    <2>1. Locks'
      BY <1>6, EndTypes DEF Commit
    <2>2. request[r] \in Ask
      BY DEF TypeOK
    <2>3. role' \in [Users -> Roles] /\ suspended' \in [Users -> BOOLEAN]
      <3>1. CASE Op(r) \in {"promote", "demote"}
        BY <1>6, <2>2, <3>1 DEF TypeOK, Commit, NewRole, Roles
      <3>2. CASE Op(r) \in {"suspend", "unsuspend"}
        BY <1>6, <2>2, <3>2 DEF TypeOK, Commit
      <3> QED
        BY <1>6, <3>1, <3>2 DEF Commit
    <2>4. audit' \in Seq([target : Users, op : AllOps])
      <3>1. [target |-> Target(r), op |-> Op(r)] \in Row
        BY <2>2 DEF Ask, Row, Target, Op
      <3>2. audit \in Seq(Row)
        BY DEF TypeOK, Row
      <3>3. audit' = Append(audit, [target |-> Target(r), op |-> Op(r)])
        BY <1>6 DEF Commit
      <3>4. audit' \in Seq(Row)
        BY <3>1, <3>2, <3>3
      <3> QED
        BY <3>4 DEF Row
    <2>5. sessions' \subseteq Users
      BY <1>6 DEF TypeOK, Commit
    <2> QED
      BY <1>6, <2>1, <2>3, <2>4, <2>5 DEF TypeOK, Commit
  <1>7. ASSUME NEW r \in Requests, Fail(r) PROVE TypeOK'
    <2>1. Locks'
      BY <1>7, EndTypes DEF Fail
    <2> QED
      BY <1>7, <2>1 DEF TypeOK, Fail, committed
  <1>8. ASSUME NEW u \in Users, SignInHook(u) PROVE TypeOK'
    BY <1>8 DEF TypeOK, SignInHook, committed
  <1>9. ASSUME NEW u \in Users, SignInInsert(u) PROVE TypeOK'
    BY <1>9 DEF TypeOK, SignInInsert, committed
  <1>10. ASSUME NEW u \in Users, RefuseSession(u) PROVE TypeOK'
    BY <1>10 DEF TypeOK, RefuseSession, committed
  <1>11. CASE UNCHANGED vars
    BY <1>11 DEF TypeOK, vars, committed
  <1> QED
    BY <1>1, <1>2, <1>3, <1>4, <1>5, <1>6, <1>7, <1>8, <1>9, <1>10, <1>11 DEF Next, Step

\* TypeOK holds for any users and requests: in particular a users row is locked only by a
\* transaction that is still open and past its count - every way out of a transaction gives its
\* locks back.
THEOREM TypeCorrect == Spec => []TypeOK
  BY InitTypes, NextTypes, PTL DEF Spec

-----------------------------------------------------------------------------
(* The last administrator.                                                 *)

Departure(r) == Op(r) \in {"demote", "suspend"}

\* A departure past its count either removes nobody who is an active administrator, or keeps the
\* row of another one locked.
Safe(r) ==
    Departure(r) /\ pc[r] \in {"write", "commit"} =>
        \/ Target(r) \notin ActiveAdmins
        \/ \E u \in ActiveAdmins : u # Target(r) /\ rowLock[u] = r

\* What must hold before a transaction gets there: if nobody can become an administrator, whoever
\* was not one when it looked is not one now.
Remembers(r) ==
    /\ pc[r] = "lock" => ActiveAdmins \subseteq listed[r]
    /\ pc[r] = "commit" => rowLock[Target(r)] = r

AnAdminStays == ActiveAdmins # {} /\ \A r \in Requests : Remembers(r) /\ Safe(r)

\* The inductive invariant: all of it may be lost once somebody has joined.
LastAdminInv == TypeOK /\ (NobodyHasJoined => AnAdminStays)

LEMMA LastAdminInit == Init => LastAdminInv
  <1> SUFFICES ASSUME Init PROVE LastAdminInv
    OBVIOUS
  <1>1. TypeOK
    BY InitTypes
  <1>2. PICK u \in Admins : u \notin SuspendedAtFirst
    BY AccountsAssumption
  <1>3. u \in ActiveAdmins
    BY <1>2, AccountsAssumption DEF Init, ActiveAdmins
  <1>4. ASSUME NEW r \in Requests PROVE Remembers(r) /\ Safe(r)
    <2>1. pc[r] = "idle"
      BY DEF Init
    <2> QED
      BY <2>1 DEF Remembers, Safe
  <1> QED
    BY <1>1, <1>3, <1>4 DEF LastAdminInv, AnAdminStays

\* A step that leaves the administrators alone and only moves request r on disturbs no other.
LEMMA OthersUndisturbed ==
    ASSUME NEW r \in Requests, NEW s \in Requests, s # r,
           Remembers(s), Safe(s),
           pc'[s] = pc[s], listed'[s] = listed[s],
           UNCHANGED request, ActiveAdmins' \subseteq ActiveAdmins,
           \A u \in Users : rowLock[u] = s => rowLock'[u] = s /\ (u \in ActiveAdmins => u \in ActiveAdmins'),
           Target(s) \in Users
    PROVE  Remembers(s)' /\ Safe(s)'
  <1>1. Target(s)' = Target(s) /\ (Departure(s)' <=> Departure(s))
    BY DEF Target, Departure, Op
  <1>2. Remembers(s)'
    BY <1>1 DEF Remembers
  <1>3. ASSUME Departure(s)', pc'[s] \in {"write", "commit"}, Target(s)' \in ActiveAdmins'
        PROVE  \E u \in ActiveAdmins' : u # Target(s)' /\ rowLock'[u] = s
    <2>1. Target(s) \in ActiveAdmins
      BY <1>1, <1>3
    <2>2. PICK u \in ActiveAdmins : u # Target(s) /\ rowLock[u] = s
      BY <1>1, <1>3, <2>1 DEF Safe
    <2>3. u \in Users
      BY DEF ActiveAdmins
    <2> QED
      BY <1>1, <2>2, <2>3
  <1> QED
    BY <1>2, <1>3 DEF Safe

LEMMA AdminStaysNext ==
    ASSUME TypeOK, TypeOK', [Next]_vars, AnAdminStays, NobodyHasJoined'
    PROVE  AnAdminStays'
  <1>0. TypeOK /\ TypeOK'
    OBVIOUS
  <1>a. ASSUME UNCHANGED role, UNCHANGED suspended PROVE ActiveAdmins' = ActiveAdmins
    BY <1>a DEF ActiveAdmins
  <1>b. ASSUME NEW r \in Requests
        PROVE  /\ Remembers(r) /\ Safe(r)
               /\ Target(r) \in Users
    BY <1>0 DEF AnAdminStays, TypeOK, Ask, Target
  \* Three shapes of step: a request that ends, one that goes on without a lock, none at all.
  <1>c. ASSUME NEW r \in Requests, EndTransaction(r), UNCHANGED <<role, suspended, request>>,
               \A s \in Requests \ {r} : listed'[s] = listed[s]
        PROVE  AnAdminStays'
    <2>1. ActiveAdmins' = ActiveAdmins
      BY <1>a, <1>c
    <2>2. pc' = [pc EXCEPT ![r] = "done"]
          /\ rowLock' = [u \in Users |-> IF rowLock[u] = r THEN None ELSE rowLock[u]]
      BY <1>c DEF EndTransaction, Goto, Unlocked
    <2>3. ASSUME NEW s \in Requests
          PROVE  (Remembers(s) /\ Safe(s))'
      <3>2. CASE s = r
        <4>1. pc'[s] = "done"
          BY <1>0, <2>2, <3>2 DEF TypeOK
        <4> QED
          BY <4>1 DEF Remembers, Safe
      <3>3. CASE s # r
        <4>1. pc'[s] = pc[s] /\ \A u \in Users : rowLock[u] = s => rowLock'[u] = s
          BY <1>0, <2>2, <3>3 DEF TypeOK
        <4> QED
          BY <1>b, <1>c, <2>1, <3>3, <4>1, OthersUndisturbed
      <3> QED
        BY <3>2, <3>3
    <2> QED
      BY <1>0, <2>1, <2>3 DEF AnAdminStays
  <1>d. ASSUME NEW r \in Requests, UNCHANGED <<role, suspended, request>>,
               \A s \in Requests \ {r} : pc'[s] = pc[s] /\ listed'[s] = listed[s],
               \A s \in Requests \ {r}, u \in Users : rowLock[u] = s => rowLock'[u] = s,
               Remembers(r)', Safe(r)'
        PROVE  AnAdminStays'
    <2>1. ActiveAdmins' = ActiveAdmins
      BY <1>a, <1>d
    <2>2. ASSUME NEW s \in Requests
          PROVE  (Remembers(s) /\ Safe(s))'
      <3>2. CASE s # r
        BY <1>b, <1>d, <2>1, <3>2, OthersUndisturbed
      <3> QED
        BY <1>d, <3>2
    <2> QED
      BY <1>0, <2>1, <2>2 DEF AnAdminStays
  <1>1. ASSUME NEW r \in Requests, Authenticate(r) PROVE AnAdminStays'
    <2>1. pc' = [pc EXCEPT ![r] = "target"] /\ UNCHANGED <<role, suspended, request, saw, listed, rowLock>>
      BY <1>1 DEF Authenticate, Goto, committed
    <2>2. Remembers(r)' /\ Safe(r)'
      BY <1>0, <2>1 DEF Remembers, Safe, TypeOK
    <2> QED
      BY <1>0, <1>d, <2>1, <2>2 DEF TypeOK
  <1>2. ASSUME NEW r \in Requests, ReadTarget(r) PROVE AnAdminStays'
    <2> DEFINE seen == [role |-> role[Target(r)], suspended |-> suspended[Target(r)]]
    <2>1. saw' = [saw EXCEPT ![r] = seen] /\ UNCHANGED <<role, suspended, request, listed, rowLock>>
      BY <1>2 DEF ReadTarget, committed
    <2>2. saw'[r] = seen /\ Op(r)' = Op(r) /\ Target(r)' = Target(r)
      BY <1>0, <2>1 DEF TypeOK, Op, Target
    <2>3. /\ \A s \in Requests \ {r} : pc'[s] = pc[s]
          /\ \/ pc'[r] = "done"
             \/ pc'[r] = "list"
             \/ pc'[r] = "write" /\ ~NothingToDo(Op(r), seen) /\ ~MustCount(Op(r), seen)
      BY <1>0, <1>2 DEF ReadTarget, Goto, TypeOK
    <2>4. Remembers(r)'
      BY <2>3 DEF Remembers
    <2>5. Safe(r)'
      <3>1. CASE pc'[r] = "write" /\ ~NothingToDo(Op(r), seen) /\ ~MustCount(Op(r), seen)
        <4>1. Departure(r) => Target(r) \notin ActiveAdmins
          BY <1>b, <3>1 DEF Departure, NothingToDo, MustCount, ActiveAdmins, NewRole
        <4>2. ActiveAdmins' = ActiveAdmins
          BY <1>a, <2>1
        <4> QED
          BY <2>2, <4>1, <4>2 DEF Safe, Departure
      <3>2. CASE pc'[r] \in {"done", "list"}
        BY <3>2 DEF Safe
      <3> QED
        BY <2>3, <3>1, <3>2
    <2> QED
      BY <1>d, <2>1, <2>3, <2>4, <2>5
  <1>3. ASSUME NEW r \in Requests, ListAdmins(r) PROVE AnAdminStays'
    <2>1. /\ pc' = [pc EXCEPT ![r] = "lock"] /\ listed' = [listed EXCEPT ![r] = ActiveAdmins]
          /\ UNCHANGED <<role, suspended, request, saw, rowLock>>
      BY <1>3 DEF ListAdmins, Goto, committed
    <2>2. /\ pc'[r] = "lock" /\ listed'[r] = ActiveAdmins
          /\ \A s \in Requests \ {r} : pc'[s] = pc[s] /\ listed'[s] = listed[s]
      BY <1>0, <2>1 DEF TypeOK
    <2>3. Remembers(r)' /\ Safe(r)'
      BY <1>a, <2>1, <2>2 DEF Remembers, Safe
    <2> QED
      BY <1>d, <2>1, <2>2, <2>3
  <1>4. ASSUME NEW r \in Requests, CountAdmins(r) PROVE AnAdminStays'
    <2> DEFINE admins == listed[r] \cap ActiveAdmins
               locks == [u \in Users |-> IF u \in admins THEN r ELSE rowLock[u]]
    <2>1. /\ Decide(r, admins, locks) /\ pc[r] = "lock"
          /\ \A u \in listed[r] : rowLock[u] = None
          /\ listed' = [listed EXCEPT ![r] = {}]
          /\ UNCHANGED <<role, suspended, request, saw>>
      BY <1>4 DEF CountAdmins, committed
    <2>2. \A s \in Requests \ {r} : listed'[s] = listed[s]
      BY <1>0, <2>1 DEF TypeOK
    <2>3. CASE EndTransaction(r)
      BY <1>c, <2>1, <2>2, <2>3
    <2>4. CASE admins # {Target(r)} /\ rowLock' = locks /\ Goto(r, "write")
      <3>1. pc' = [pc EXCEPT ![r] = "write"]
        BY <2>4 DEF Goto
      <3>2. pc'[r] = "write" /\ \A s \in Requests \ {r} : pc'[s] = pc[s]
        BY <1>0, <3>1 DEF TypeOK
      <3>3. admins = ActiveAdmins
        BY <1>b, <2>1 DEF Remembers
      <3>4. ASSUME NEW s \in Requests \ {r}, NEW u \in Users, rowLock[u] = s
            PROVE  rowLock'[u] = s
        BY <2>1, <2>4, <3>4, AccountsAssumption
      <3>5. Remembers(r)'
        BY <3>2 DEF Remembers
      <3>6. Safe(r)'
        <4>1. ActiveAdmins' = ActiveAdmins /\ Target(r)' = Target(r)
          BY <1>a, <2>1 DEF Target
        <4>2. ASSUME Target(r) \in ActiveAdmins
              PROVE  \E u \in ActiveAdmins : u # Target(r) /\ rowLock'[u] = r
          <5>1. PICK u \in ActiveAdmins : u # Target(r)
            BY <2>4, <3>3, <4>2
          <5>2. u \in Users
            BY DEF ActiveAdmins
          <5> QED
            BY <2>4, <3>3, <5>1, <5>2
        <4> QED
          BY <4>1, <4>2 DEF Safe
      <3> QED
        BY <1>d, <2>1, <2>2, <3>2, <3>4, <3>5, <3>6
    <2> QED
      BY <2>1, <2>3, <2>4 DEF Decide
  <1>5. ASSUME NEW r \in Requests, WriteTarget(r) PROVE AnAdminStays'
    <2>1. pc[r] = "write" /\ rowLock[Target(r)] \in {None, r}
          /\ UNCHANGED <<role, suspended, request, saw, listed>>
      BY <1>5 DEF WriteTarget, committed
    <2>2. CASE EndTransaction(r)
      BY <1>c, <2>1, <2>2
    <2>3. CASE rowLock' = [rowLock EXCEPT ![Target(r)] = r] /\ Goto(r, "commit")
      <3>1. pc' = [pc EXCEPT ![r] = "commit"]
        BY <2>3 DEF Goto
      <3>2. pc'[r] = "commit" /\ \A s \in Requests \ {r} : pc'[s] = pc[s]
        BY <1>0, <3>1 DEF TypeOK
      <3>3. rowLock'[Target(r)] = r
        BY <1>0, <1>b, <2>3 DEF TypeOK
      <3>4. ASSUME NEW s \in Requests \ {r}, NEW u \in Users, rowLock[u] = s
            PROVE  rowLock'[u] = s
        BY <1>0, <2>1, <2>3, <3>4, AccountsAssumption DEF TypeOK
      <3>5. Target(r)' = Target(r) /\ ActiveAdmins' = ActiveAdmins
        BY <1>a, <2>1 DEF Target
      <3>6. Remembers(r)'
        BY <3>2, <3>3, <3>5 DEF Remembers
      <3>7. Safe(r)'
        <4>1. ASSUME Departure(r), Target(r) \in ActiveAdmins
              PROVE  \E u \in ActiveAdmins : u # Target(r) /\ rowLock'[u] = r
          <5>1. PICK u \in ActiveAdmins : u # Target(r) /\ rowLock[u] = r
            BY <1>b, <2>1, <4>1 DEF Safe
          <5> QED
            BY <1>0, <2>3, <5>1 DEF TypeOK, ActiveAdmins
        <4>2. Departure(r)' <=> Departure(r)
          BY <2>1 DEF Departure, Op
        <4> QED
          BY <3>5, <4>1, <4>2 DEF Safe
      <3> QED
        BY <1>d, <2>1, <3>2, <3>4, <3>6, <3>7
    <2> QED
      BY <1>5, <2>2, <2>3 DEF WriteTarget
  <1>6. ASSUME NEW r \in Requests, Commit(r) PROVE AnAdminStays'
    <2>1. pc[r] = "commit" /\ EndTransaction(r) /\ UNCHANGED <<request, saw, listed>>
      BY <1>6 DEF Commit
    <2>2. pc' = [pc EXCEPT ![r] = "done"]
          /\ rowLock' = [u \in Users |-> IF rowLock[u] = r THEN None ELSE rowLock[u]]
      BY <2>1 DEF EndTransaction, Goto, Unlocked
    <2>0. Departure(r)
      <3>1. audit \in Seq(Row) /\ audit' = Append(audit, [target |-> Target(r), op |-> Op(r)])
        BY <1>0, <1>6 DEF TypeOK, Row, Commit
      <3>2. Len(audit) + 1 \in DOMAIN audit' /\ audit'[Len(audit) + 1].op = Op(r)
        BY <3>1
      <3> QED
        BY <3>2 DEF NobodyHasJoined, Departure
    <2>3. ActiveAdmins' = ActiveAdmins \ {Target(r)}
      <3>1. CASE Op(r) = "demote"
        <4>1. role' = [role EXCEPT ![Target(r)] = "MEMBER"] /\ UNCHANGED suspended
          BY <1>6, <3>1 DEF Commit, NewRole
        <4> QED
          BY <1>0, <4>1 DEF ActiveAdmins, TypeOK
      <3>2. CASE Op(r) = "suspend"
        <4>1. suspended' = [suspended EXCEPT ![Target(r)] = TRUE] /\ UNCHANGED role
          BY <1>6, <3>2 DEF Commit
        <4> QED
          BY <1>0, <4>1 DEF ActiveAdmins, TypeOK
      <3> QED
        BY <2>0, <3>1, <3>2 DEF Departure
    <2>4. ActiveAdmins' # {}
      <3>1. CASE Target(r) \notin ActiveAdmins
        BY <2>3, <3>1 DEF AnAdminStays
      <3>2. CASE Target(r) \in ActiveAdmins
        BY <1>b, <2>0, <2>1, <2>3, <3>2 DEF Safe
      <3> QED
        BY <3>1, <3>2
    <2>5. ASSUME NEW s \in Requests
          PROVE  (Remembers(s) /\ Safe(s))'
      <3>2. CASE s = r
        <4>1. pc'[s] = "done"
          BY <1>0, <2>2, <3>2 DEF TypeOK
        <4> QED
          BY <4>1 DEF Remembers, Safe
      <3>3. CASE s # r
        <4>1. pc'[s] = pc[s]
          BY <1>0, <2>2, <3>3 DEF TypeOK
        <4>2. rowLock[Target(r)] = r
          BY <1>b, <2>1 DEF Remembers
        <4>3. \A u \in Users : rowLock[u] = s => rowLock'[u] = s /\ u # Target(r)
          BY <2>2, <3>3, <4>2
        <4>4. listed'[s] = listed[s] /\ UNCHANGED request
          BY <2>1
        <4>5. /\ ActiveAdmins' \subseteq ActiveAdmins
              /\ \A u \in Users : rowLock[u] = s
                    => rowLock'[u] = s /\ (u \in ActiveAdmins => u \in ActiveAdmins')
          BY <2>3, <4>3
        <4> QED
          BY <1>b, <3>3, <4>1, <4>4, <4>5, OthersUndisturbed
      <3> QED
        BY <3>2, <3>3
    <2> QED
      BY <1>0, <2>4, <2>5 DEF AnAdminStays
  <1>7. ASSUME NEW r \in Requests, Fail(r) PROVE AnAdminStays'
    BY <1>c, <1>7 DEF Fail, committed
  <1>8. ASSUME UNCHANGED <<role, suspended, rowLock, request, pc, listed>> PROVE AnAdminStays'
    BY <1>0, <1>8 DEF AnAdminStays, ActiveAdmins, Remembers, Safe, Departure, Op, Target
  <1>9. ASSUME NEW u \in Users, SignInHook(u) \/ SignInInsert(u) \/ RefuseSession(u)
        PROVE  AnAdminStays'
    BY <1>8, <1>9 DEF SignInHook, SignInInsert, RefuseSession, committed
  <1>10. CASE UNCHANGED vars
    BY <1>8, <1>10 DEF vars, committed
  <1> QED
    BY <1>1, <1>2, <1>3, <1>4, <1>5, <1>6, <1>7, <1>9, <1>10 DEF Next, Step

\* Only a commit writes an audit row, and it only adds one.
LEMMA AuditGrows ==
    ASSUME TypeOK, [Next]_vars, NobodyHasJoined'
    PROVE  NobodyHasJoined
  <1>1. ASSUME UNCHANGED audit PROVE NobodyHasJoined
    BY <1>1 DEF NobodyHasJoined
  <1>2. ASSUME NEW r \in Requests, Commit(r) PROVE NobodyHasJoined
    <2> DEFINE row == [target |-> Target(r), op |-> Op(r)]
    <2>1. audit \in Seq(Row) /\ audit' = Append(audit, row)
      BY <1>2 DEF TypeOK, Row, Commit
    <2>2. ASSUME NEW i \in DOMAIN audit PROVE i \in DOMAIN audit' /\ audit'[i] = audit[i]
      BY <2>1, <2>2
    <2> QED
      BY <2>2 DEF NobodyHasJoined
  <1> QED
    BY <1>1, <1>2 DEF Next, Step, vars, committed, Authenticate, ReadTarget, ListAdmins, CountAdmins,
                      WriteTarget, Fail, SignInHook, SignInInsert, RefuseSession

LEMMA LastAdminNext == LastAdminInv /\ [Next]_vars => LastAdminInv'
  BY NextTypes, AuditGrows, AdminStaysNext DEF LastAdminInv

\* However many administrators demote and suspend one another at once, through stale reads, lost
\* races and failed transactions, one who is active remains until somebody joins them: the rows
\* assertNotLastAdmin locks are enough.  Run accounts_lastadmin shows that a join undoes it.
THEOREM LastAdminStays == Spec => []DeparturesLeaveAnAdmin
  <1>1. Init => LastAdminInv
    BY LastAdminInit
  <1>2. LastAdminInv /\ [Next]_vars => LastAdminInv'
    BY LastAdminNext
  <1>3. LastAdminInv => DeparturesLeaveAnAdmin
    BY DEF LastAdminInv, AnAdminStays, DeparturesLeaveAnAdmin, AnActiveAdminRemains
  <1> QED
    BY <1>1, <1>2, <1>3, PTL DEF Spec

-----------------------------------------------------------------------------
(* Suspensions and their ends.                                             *)

\* Past its UPDATE, a request holds its target's row, and the row is still as its WHERE wants it.
Applies(r) ==
    pc[r] = "commit" =>
        rowLock[Target(r)] = r /\ StillApplies(Op(r), Target(r))

FlipsInv == TypeOK /\ (\A r \in Requests : Applies(r)) /\ SuspensionRowsAlternate

\* A step that writes no users row.
LEMMA FlipsAlone ==
    ASSUME FlipsInv, TypeOK', UNCHANGED <<suspended, audit, request>>,
           \A r \in Requests :
               pc'[r] = "commit" =>
                  \/ pc[r] = "commit" /\ \A u \in Users : rowLock[u] = r => rowLock'[u] = r
                  \/ rowLock'[Target(r)] = r /\ StillApplies(Op(r), Target(r))
    PROVE  FlipsInv'
  <1>1. ASSUME NEW r \in Requests PROVE Applies(r)'
    <2>1. Target(r)' = Target(r) /\ Op(r)' = Op(r) /\ Target(r) \in Users
      BY DEF Target, Op, FlipsInv, TypeOK, Ask
    <2>2. StillApplies(Op(r), Target(r))' <=> StillApplies(Op(r), Target(r))
      BY <2>1 DEF StillApplies
    <2> QED
      BY <2>1, <2>2 DEF Applies, FlipsInv
  <1>2. SuspensionRowsAlternate'
    BY DEF FlipsInv, SuspensionRowsAlternate, Flips
  <1> QED
    BY <1>1, <1>2 DEF FlipsInv

\* A transaction that ends without writing takes only its own locks along.
LEMMA FlipsEnd ==
    ASSUME FlipsInv, TypeOK', NEW r \in Requests, EndTransaction(r), UNCHANGED <<suspended, audit, request>>
    PROVE  FlipsInv'
  <1>1. /\ pc' = [pc EXCEPT ![r] = "done"]
        /\ rowLock' = [u \in Users |-> IF rowLock[u] = r THEN None ELSE rowLock[u]]
    BY DEF EndTransaction, Goto, Unlocked
  <1>2. ASSUME NEW s \in Requests, pc'[s] = "commit"
        PROVE  pc[s] = "commit" /\ \A u \in Users : rowLock[u] = s => rowLock'[u] = s
    <2>1. s # r
      BY <1>1, <1>2 DEF FlipsInv, TypeOK
    <2> QED
      BY <1>1, <1>2, <2>1 DEF FlipsInv, TypeOK
  <1> QED
    BY <1>2, FlipsAlone

\* A commit adds one row about its target, whose row nobody else could have changed meanwhile.
LEMMA FlipsCommit ==
    ASSUME FlipsInv, TypeOK', NEW r \in Requests, Commit(r)
    PROVE  FlipsInv'
  <1> DEFINE x == Target(r)
             op == Op(r)
             n == Len(audit) + 1
  <1>1. /\ pc[r] = "commit" /\ EndTransaction(r) /\ UNCHANGED request
        /\ audit' = Append(audit, [target |-> x, op |-> op])
        /\ x \in Users /\ op \in AllOps
    BY DEF Commit, FlipsInv, TypeOK, Ask, Target, Op
  <1>2. /\ op \in {"promote", "demote"} => suspended' = suspended
        /\ op \in {"suspend", "unsuspend"} => suspended' = [suspended EXCEPT ![x] = (op = "suspend")]
    BY DEF Commit
  <1>3. StillApplies(op, x) /\ rowLock[x] = r
    BY <1>1 DEF FlipsInv, Applies
  <1>4. /\ pc' = [pc EXCEPT ![r] = "done"]
        /\ rowLock' = [u \in Users |-> IF rowLock[u] = r THEN None ELSE rowLock[u]]
    BY <1>1 DEF EndTransaction, Goto, Unlocked
  <1> HIDE DEF x, op
  <1>5. ASSUME NEW s \in Requests PROVE Applies(s)'
    <2> SUFFICES ASSUME pc'[s] = "commit"
                 PROVE  rowLock'[Target(s)] = s /\ StillApplies(Op(s), Target(s))'
      BY <1>1 DEF Applies, Target
    <2>1. s # r /\ pc[s] = "commit"
      BY <1>4 DEF FlipsInv, TypeOK
    <2>2. Target(s) \in Users /\ Op(s)' = Op(s) /\ Target(s)' = Target(s)
      BY <1>1 DEF FlipsInv, TypeOK, Ask, Target, Op
    <2>3. rowLock[Target(s)] = s /\ StillApplies(Op(s), Target(s))
      BY <2>1 DEF FlipsInv, Applies
    <2>4. Target(s) # x
      BY <1>3, <2>1, <2>3
    <2>5. suspended'[Target(s)] = suspended[Target(s)]
      BY <1>1, <1>2, <2>2, <2>4 DEF FlipsInv, TypeOK, AllOps
    <2> QED
      BY <1>4, <2>1, <2>2, <2>3, <2>5 DEF StillApplies
  <1>6. /\ DOMAIN audit' = 1 .. n /\ DOMAIN audit = 1 .. Len(audit) /\ Len(audit) \in Nat
        /\ audit'[n] = [target |-> x, op |-> op]
        /\ \A i \in 1 .. Len(audit) : audit'[i] = audit[i]
    BY <1>1 DEF FlipsInv, TypeOK
  <1>7. ASSUME NEW u \in Users, ~(u = x /\ op \in {"suspend", "unsuspend"})
        PROVE  /\ Flips(u)' = Flips(u) /\ suspended'[u] = suspended[u]
               /\ \A i \in Flips(u) : audit'[i] = audit[i]
    <2>1. n \notin Flips(u)'
      BY <1>6, <1>7 DEF Flips
    <2>2. \A i \in 1 .. n : i # n => i \in 1 .. Len(audit)
      BY <1>6
    <2>3. Flips(u)' = Flips(u)
      BY <1>6, <2>1, <2>2 DEF Flips
    <2>4. suspended'[u] = suspended[u]
      BY <1>1, <1>2, <1>7 DEF FlipsInv, TypeOK, AllOps
    <2> QED
      BY <1>6, <2>3, <2>4 DEF Flips
  <1>8. ASSUME NEW u \in Users, u = x, op \in {"suspend", "unsuspend"}
        PROVE  /\ Flips(u)' = Flips(u) \cup {n} /\ suspended'[u] = (op = "suspend")
               /\ suspended[u] = (op = "unsuspend")
               /\ \A i \in Flips(u) : audit'[i] = audit[i] /\ i \in Nat /\ i < n
               /\ audit'[n].op = op
    <2>1. n \in Flips(u)' /\ audit'[n].op = op
      BY <1>6, <1>8 DEF Flips
    <2>2. \A i \in 1 .. n : i # n => i \in 1 .. Len(audit)
      BY <1>6
    <2>3. Flips(u)' = Flips(u) \cup {n}
      BY <1>6, <2>1, <2>2 DEF Flips
    <2>4. suspended'[u] = (op = "suspend")
      BY <1>1, <1>2, <1>8 DEF FlipsInv, TypeOK
    <2>5. suspended[u] = (op = "unsuspend")
      BY <1>3, <1>8 DEF StillApplies, FlipsInv, TypeOK
    <2>6. \A i \in Flips(u) : audit'[i] = audit[i] /\ i \in Nat /\ i < n
      BY <1>6 DEF Flips
    <2> QED
      BY <2>1, <2>3, <2>4, <2>5, <2>6
  <1>9. SuspensionRowsAlternate'
    <2> SUFFICES ASSUME NEW u \in Users, NEW i \in Flips(u)'
                 PROVE  /\ \A j \in Flips(u)' : i < j /\ (\A k \in Flips(u)' : k <= i \/ j <= k) =>
                                                  audit'[i].op # audit'[j].op
                        /\ (\A k \in Flips(u)' : k <= i) => suspended'[u] = (audit'[i].op = "suspend")
      BY DEF SuspensionRowsAlternate
    <2>1. CASE ~(u = x /\ op \in {"suspend", "unsuspend"})
      BY <1>7, <2>1 DEF FlipsInv, SuspensionRowsAlternate
    <2>2. CASE u = x /\ op \in {"suspend", "unsuspend"}
      <3>1. /\ Flips(u)' = Flips(u) \cup {n}
            /\ \A k \in Flips(u) : k \in Nat /\ k < n
            /\ audit'[n].op = op /\ suspended'[u] = (op = "suspend")
        BY <1>8, <2>2
      <3>2. n \in Nat
        BY <1>6
      <3> HIDE DEF n
      <3>3. CASE i = n
        <4>1. \A j \in Flips(u)' : ~(i < j)
          BY <3>1, <3>2, <3>3
        <4>2. audit'[i].op = op
          BY <3>1, <3>3
        <4>3. suspended'[u] = (audit'[i].op = "suspend")
          BY <3>1, <4>2
        <4> QED
          BY <4>1, <4>3
      <3>4. CASE i \in Flips(u)
        <4>0. audit'[i] = audit[i] /\ i < n /\ i \in Nat
          BY <1>8, <2>2, <3>4
        <4>1. ASSUME NEW j \in Flips(u)', i < j, \A k \in Flips(u)' : k <= i \/ j <= k
              PROVE  audit'[i].op # audit'[j].op
          <5>1. CASE j = n
            <6>1. \A k \in Flips(u) : k <= i
              BY <3>1, <3>2, <4>0, <4>1, <5>1
            <6>2. suspended[u] = (audit[i].op = "suspend")
              BY <3>4, <6>1 DEF FlipsInv, SuspensionRowsAlternate
            <6>3. suspended[u] = (op = "unsuspend")
              BY <1>8, <2>2
            <6>4. audit[i].op # op
              BY <2>2, <6>2, <6>3
            <6> QED
              BY <3>1, <4>0, <5>1, <6>4
          <5>2. CASE j \in Flips(u)
            <6>1. audit[i].op # audit[j].op
              BY <3>1, <3>4, <4>1, <5>2 DEF FlipsInv, SuspensionRowsAlternate
            <6>2. audit'[j] = audit[j]
              BY <1>8, <2>2, <5>2
            <6> QED
              BY <4>0, <6>1, <6>2
          <5> QED
            BY <3>1, <5>1, <5>2
        <4>2. ~(\A k \in Flips(u)' : k <= i)
          BY <3>1, <3>2, <4>0
        <4> QED
          BY <4>1, <4>2
      <3> QED
        BY <3>1, <3>3, <3>4
    <2> QED
      BY <2>1, <2>2
  <1> QED
    BY <1>5, <1>9 DEF FlipsInv

LEMMA FlipsNext == ASSUME FlipsInv, [Next]_vars PROVE FlipsInv'
  <1>0. TypeOK /\ TypeOK'
    BY NextTypes DEF FlipsInv
  <1>1. ASSUME NEW r \in Requests, CountAdmins(r) PROVE FlipsInv'
    <2> DEFINE admins == listed[r] \cap ActiveAdmins
               locks == [u \in Users |-> IF u \in admins THEN r ELSE rowLock[u]]
    <2>1. /\ Decide(r, admins, locks) /\ pc[r] = "lock"
          /\ \A u \in listed[r] : rowLock[u] = None
          /\ UNCHANGED <<suspended, audit, request>>
      BY <1>1 DEF CountAdmins, committed
    <2>2. CASE EndTransaction(r)
      BY <1>0, <2>1, <2>2, FlipsEnd
    <2>3. CASE rowLock' = locks /\ Goto(r, "write")
      <3>1. pc' = [pc EXCEPT ![r] = "write"]
        BY <2>3 DEF Goto
      <3>2. ASSUME NEW s \in Requests, pc'[s] = "commit"
            PROVE  pc[s] = "commit" /\ \A u \in Users : rowLock[u] = s => rowLock'[u] = s
        <4>1. s # r /\ pc[s] = "commit"
          BY <1>0, <3>1, <3>2 DEF TypeOK
        <4>2. ASSUME NEW u \in Users, rowLock[u] = s PROVE rowLock'[u] = s
          BY <2>1, <2>3, <4>2, AccountsAssumption
        <4> QED
          BY <4>1, <4>2
      <3> QED
        BY <1>0, <2>1, <3>2, FlipsAlone
    <2> QED
      BY <2>1, <2>2, <2>3 DEF Decide
  <1>2. ASSUME NEW r \in Requests, WriteTarget(r) PROVE FlipsInv'
    <2>1. pc[r] = "write" /\ rowLock[Target(r)] \in {None, r} /\ UNCHANGED <<suspended, audit, request>>
      BY <1>2 DEF WriteTarget, committed
    <2>2. CASE EndTransaction(r)
      BY <1>0, <2>1, <2>2, FlipsEnd
    <2>3. CASE /\ StillApplies(Op(r), Target(r))
               /\ rowLock' = [rowLock EXCEPT ![Target(r)] = r] /\ Goto(r, "commit")
      <3>0. Target(r) \in Users
        BY <1>0 DEF TypeOK, Ask, Target
      <3>1. pc' = [pc EXCEPT ![r] = "commit"] /\ rowLock'[Target(r)] = r
        BY <1>0, <2>3, <3>0 DEF Goto, TypeOK
      <3>2. ASSUME NEW s \in Requests, pc'[s] = "commit", s # r
            PROVE  pc[s] = "commit" /\ \A u \in Users : rowLock[u] = s => rowLock'[u] = s
        <4>1. pc[s] = "commit"
          BY <1>0, <3>1, <3>2 DEF TypeOK
        <4>2. ASSUME NEW u \in Users, rowLock[u] = s PROVE rowLock'[u] = s
          BY <1>0, <2>1, <2>3, <3>2, <4>2, AccountsAssumption DEF TypeOK
        <4> QED
          BY <4>1, <4>2
      <3> QED
        BY <1>0, <2>1, <2>3, <3>1, <3>2, FlipsAlone
    <2> QED
      BY <1>2, <2>2, <2>3 DEF WriteTarget
  <1>3. ASSUME NEW r \in Requests, NEW l \in PCs \ {"commit"}, Goto(r, l),
               UNCHANGED <<suspended, audit, request, rowLock>>
        PROVE  FlipsInv'
    <2>1. pc' = [pc EXCEPT ![r] = l]
      BY <1>3 DEF Goto
    <2>2. \A s \in Requests : pc'[s] = "commit" => pc[s] = "commit"
      BY <1>0, <2>1 DEF TypeOK
    <2> QED
      BY <1>0, <1>3, <2>2, FlipsAlone
  <1>4. ASSUME NEW r \in Requests, Authenticate(r) \/ ReadTarget(r) \/ ListAdmins(r) PROVE FlipsInv'
    BY <1>3, <1>4 DEF Authenticate, ReadTarget, ListAdmins, committed, PCs
  <1>5. ASSUME NEW r \in Requests, Fail(r) PROVE FlipsInv'
    BY <1>0, <1>5, FlipsEnd DEF Fail, committed
  <1>6. ASSUME UNCHANGED <<suspended, audit, request, rowLock, pc>> PROVE FlipsInv'
    BY <1>0, <1>6, FlipsAlone
  <1>7. ASSUME NEW u \in Users, SignInHook(u) \/ SignInInsert(u) \/ RefuseSession(u)
        PROVE  FlipsInv'
    BY <1>6, <1>7 DEF SignInHook, SignInInsert, RefuseSession, committed
  <1>8. CASE UNCHANGED vars
    BY <1>6, <1>8 DEF vars, committed
  <1> QED
    BY <1>0, <1>1, <1>2, <1>4, <1>5, <1>7, <1>8, FlipsCommit DEF Next, Step

LEMMA FlipsInit == Init => FlipsInv
  <1> SUFFICES ASSUME Init PROVE FlipsInv
    OBVIOUS
  <1>1. audit = <<>> /\ \A r \in Requests : pc[r] = "idle"
    BY DEF Init
  <1>2. \A u \in Users : Flips(u) = {}
    BY <1>1 DEF Flips
  <1> QED
    BY <1>1, <1>2, InitTypes DEF FlipsInv, Applies, SuspensionRowsAlternate

\* Of the suspensions and reinstatements of an account that run at once, those that commit write
\* rows that alternate, and the last row says what the account is: each is decided on a row its
\* transaction has locked, whatever it read before.
THEOREM SuspensionsAlternate == Spec => []SuspensionRowsAlternate
  <1>1. FlipsInv /\ [Next]_vars => FlipsInv'
    BY FlipsNext
  <1>2. FlipsInv => SuspensionRowsAlternate
    BY DEF FlipsInv
  <1> QED
    BY <1>1, <1>2, FlipsInit, PTL DEF Spec
=============================================================================
