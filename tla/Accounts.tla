------------------------------ MODULE Accounts ------------------------------
(***************************************************************************)
(* Role changes, suspensions and sign-ins: AdminUsersService, the          *)
(* SessionGuard and the hook that refuses a suspended account's session.   *)
(*                                                                         *)
(* An administrator's request is authenticated, reads its target without   *)
(* a lock, may lock every active administrator to count them, then writes  *)
(* the target's row and commits.  users rows are locked FOR NO KEY UPDATE, *)
(* which an inserted session does not wait for.  A suspension also voids   *)
(* the member's trades (module Trades): here it is only time that passes   *)
(* between reading the target and counting the administrators.             *)
(***************************************************************************)
EXTENDS Integers, Sequences, FiniteSets

CONSTANTS
    Users, Requests,
    Ops,               \* what administrators do
    Admins,            \* who is an administrator at first
    SuspendedAtFirst,  \* who is suspended at first
    None

AllOps == {"promote", "demote", "suspend", "unsuspend"}

ASSUME AccountsAssumption ==
    /\ Ops \subseteq AllOps
    /\ Admins \subseteq Users
    /\ SuspendedAtFirst \subseteq Users
    /\ Admins \ SuspendedAtFirst # {}
    /\ None \notin Requests

VARIABLES
    role, suspended,   \* the committed users row
    sessions,          \* the members with a live session
    signingIn,         \* the members whose sign-in has passed the hook
    rowLock,           \* users row -> the request whose transaction has locked it
    request,           \* [op, by, target] of each request
    pc,
    saw,               \* the target as the transaction read it first
    listed,            \* the active administrators in the snapshot of its SELECT
    doomed,            \* the sessions its DELETE has found
    audit              \* user.* audit rows, oldest first

committed == <<role, suspended, audit>>
vars == <<committed, sessions, signingIn, rowLock, request, pc, saw, listed, doomed>>

Roles == {"MEMBER", "ADMIN"}
Seen == [role : Roles, suspended : BOOLEAN]
Ask == [op : AllOps, by : Users, target : Users]
PCs == {"idle", "target", "list", "lock", "write", "commit", "done"}

NoOne == [role |-> "MEMBER", suspended |-> FALSE]

Init ==
    /\ role = [u \in Users |-> IF u \in Admins THEN "ADMIN" ELSE "MEMBER"]
    /\ suspended = [u \in Users |-> u \in SuspendedAtFirst]
    /\ sessions = Users \ SuspendedAtFirst
    /\ signingIn = {}
    /\ rowLock = [u \in Users |-> None]
    /\ request \in [Requests -> [op : Ops, by : Users, target : Users]]
    /\ \A r \in Requests : request[r].by # request[r].target       \* assertNotSelf
    /\ pc = [r \in Requests |-> "idle"]
    /\ saw = [r \in Requests |-> NoOne]
    /\ listed = [r \in Requests |-> {}]
    /\ doomed = [r \in Requests |-> {}]
    /\ audit = <<>>

-----------------------------------------------------------------------------

Op(r) == request[r].op
Target(r) == request[r].target

Goto(r, label) == pc' = [pc EXCEPT ![r] = label]

ActiveAdmins == {u \in Users : role[u] = "ADMIN" /\ ~suspended[u]}

Unlocked(r) == [u \in Users |-> IF rowLock[u] = r THEN None ELSE rowLock[u]]

\* Mutant of EndTransaction: a transaction left open.
EndKeepingLocks(r) == Goto(r, "done") /\ UNCHANGED rowLock

\* COMMIT or ROLLBACK: the row locks go.
EndTransaction(r) == Goto(r, "done") /\ rowLock' = Unlocked(r)

NewRole(op) == IF op = "promote" THEN "ADMIN" ELSE "MEMBER"

\* "a role set to the role already held", "an already suspended user": nothing is written.
NothingToDo(op, seen) ==
    \/ op \in {"promote", "demote"} /\ seen.role = NewRole(op)
    \/ op = "suspend" /\ seen.suspended

\* Whether assertNotLastAdmin runs is decided on the target as it was read.
MustCount(op, seen) ==
    /\ op \in {"demote", "suspend"}
    /\ seen.role = "ADMIN" /\ ~seen.suspended

\* SessionGuard and RolesGuard: whoever asks is, now, an active administrator with a session.
Authenticate(r) ==
    /\ pc[r] = "idle"
    /\ request[r].by \in sessions
    /\ request[r].by \in ActiveAdmins
    /\ Goto(r, "target")
    /\ UNCHANGED <<committed, sessions, signingIn, rowLock, request, saw, listed, doomed>>

\* target(): an unlocked read, first thing in the transaction.
ReadTarget(r) ==
    LET seen == [role |-> role[Target(r)], suspended |-> suspended[Target(r)]]
    IN  /\ pc[r] = "target"
        /\ saw' = [saw EXCEPT ![r] = seen]
        /\ \/ NothingToDo(Op(r), seen) /\ Goto(r, "done")
           \/ ~NothingToDo(Op(r), seen) /\ MustCount(Op(r), seen) /\ Goto(r, "list")
           \/ ~NothingToDo(Op(r), seen) /\ ~MustCount(Op(r), seen) /\ Goto(r, "write")
        /\ UNCHANGED <<committed, sessions, signingIn, rowLock, request, listed, doomed>>

\* assertNotLastAdmin: SELECT ... ORDER BY id FOR NO KEY UPDATE begins with its snapshot ...
ListAdmins(r) ==
    /\ pc[r] = "list"
    /\ listed' = [listed EXCEPT ![r] = ActiveAdmins]
    /\ Goto(r, "lock")
    /\ UNCHANGED <<committed, sessions, signingIn, rowLock, request, saw, doomed>>

\* The rows of the snapshot that still satisfy the WHERE: the target alone is LAST_ADMIN.
Decide(r, admins, locks) ==
    \/ admins = {Target(r)} /\ EndTransaction(r)
    \/ admins # {Target(r)} /\ rowLock' = locks /\ Goto(r, "write")

\* Mutant of CountAdmins: a plain SELECT.
CountAdminsUnlocked(r) ==
    /\ pc[r] = "lock"
    /\ Decide(r, listed[r], rowLock)
    /\ listed' = [listed EXCEPT ![r] = {}]
    /\ UNCHANGED <<committed, sessions, signingIn, request, saw, doomed>>

\* ... waits for every row of it, looks at each again, and keeps those it returns.
CountAdmins(r) ==
    LET admins == listed[r] \cap ActiveAdmins
    IN  /\ pc[r] = "lock"
        /\ \A u \in listed[r] : rowLock[u] = None
        /\ Decide(r, admins, [u \in Users |-> IF u \in admins THEN r ELSE rowLock[u]])
        /\ listed' = [listed EXCEPT ![r] = {}]
        /\ UNCHANGED <<committed, sessions, signingIn, request, saw, doomed>>

\* Mutant of StillApplies: nothing is looked at again.
AlwaysApplies(op, u) == TRUE

\* The WHERE of the guarded updates; a role is written unconditionally.
StillApplies(op, u) ==
    /\ op = "suspend" => ~suspended[u]
    /\ op = "unsuspend" => suspended[u]

\* The UPDATE of the target's row, then - for a suspension or its end - DELETE FROM sessions,
\* which finds the sessions there are at that moment.
WriteTarget(r) ==
    /\ pc[r] = "write"
    /\ rowLock[Target(r)] \in {None, r}
    /\ \/ /\ ~StillApplies(Op(r), Target(r))
          /\ EndTransaction(r)
          /\ UNCHANGED doomed
       \/ /\ StillApplies(Op(r), Target(r))
          /\ rowLock' = [rowLock EXCEPT ![Target(r)] = r]
          /\ doomed' = [doomed EXCEPT ![r] =
                            IF Op(r) \in {"suspend", "unsuspend"} THEN sessions \cap {Target(r)} ELSE {}]
          /\ Goto(r, "commit")
    /\ UNCHANGED <<committed, sessions, signingIn, request, saw, listed>>

\* The audit row, and COMMIT.
Commit(r) ==
    /\ pc[r] = "commit"
    /\ \/ /\ Op(r) \in {"promote", "demote"}
          /\ role' = [role EXCEPT ![Target(r)] = NewRole(Op(r))]
          /\ UNCHANGED suspended
       \/ /\ Op(r) \in {"suspend", "unsuspend"}
          /\ suspended' = [suspended EXCEPT ![Target(r)] = (Op(r) = "suspend")]
          /\ UNCHANGED role
    /\ audit' = Append(audit, [target |-> Target(r), op |-> Op(r)])
    /\ sessions' = sessions \ doomed[r]
    /\ EndTransaction(r)
    /\ UNCHANGED <<signingIn, request, saw, listed, doomed>>

\* A request that is refused by a guard, times out or dies: nothing it wrote is seen.
Fail(r) ==
    /\ pc[r] \in {"idle", "target", "list", "lock", "write", "commit"}
    /\ EndTransaction(r)
    /\ UNCHANGED <<committed, sessions, signingIn, request, saw, listed, doomed>>

-----------------------------------------------------------------------------
(* Sessions.                                                               *)

\* databaseHooks.session.create.before: refuses a suspended account.
SignInHook(u) ==
    /\ ~suspended[u] /\ u \notin sessions \cup signingIn
    /\ signingIn' = signingIn \cup {u}
    /\ UNCHANGED <<committed, sessions, rowLock, request, pc, saw, listed, doomed>>

\* The session row is inserted: its foreign key takes KEY SHARE, so it waits for no transaction.
SignInInsert(u) ==
    /\ u \in signingIn
    /\ signingIn' = signingIn \ {u}
    /\ sessions' = sessions \cup {u}
    /\ UNCHANGED <<committed, rowLock, request, pc, saw, listed, doomed>>

\* SessionGuard: a session that survived its member's suspension is deleted when it is used.
RefuseSession(u) ==
    /\ u \in sessions /\ suspended[u]
    /\ sessions' = sessions \ {u}
    /\ UNCHANGED <<committed, signingIn, rowLock, request, pc, saw, listed, doomed>>

Step(r) == ReadTarget(r) \/ ListAdmins(r) \/ CountAdmins(r) \/ WriteTarget(r) \/ Commit(r)

Next ==
    \/ \E r \in Requests : Authenticate(r) \/ Step(r) \/ Fail(r)
    \/ \E u \in Users : SignInHook(u) \/ SignInInsert(u) \/ RefuseSession(u)

Spec == Init /\ [][Next]_vars

\* A transaction whose statement has been answered goes on, and PostgreSQL grants a row lock
\* that stays free long enough.
FairSpec == Spec /\ \A r \in Requests : SF_vars(Step(r))

-----------------------------------------------------------------------------
(* Properties.                                                             *)

\* Type invariant; a row is locked only by an open transaction that has locked rows.
TypeOK ==
    /\ role \in [Users -> Roles]
    /\ suspended \in [Users -> BOOLEAN]
    /\ sessions \subseteq Users
    /\ signingIn \subseteq Users
    /\ rowLock \in [Users -> Requests \cup {None}]
    /\ \A u \in Users : rowLock[u] # None => pc[rowLock[u]] \in {"write", "commit"}
    /\ request \in [Requests -> Ask]
    /\ pc \in [Requests -> PCs]
    /\ saw \in [Requests -> Seen]
    /\ listed \in [Requests -> SUBSET Users]
    /\ doomed \in [Requests -> SUBSET Users]
    /\ audit \in Seq([target : Users, op : AllOps])

\* "Never the last active admin": someone can always administer.  See NobodyHasJoined, and run
\* accounts_lastadmin.
AnActiveAdminRemains == ActiveAdmins # {}

\* Only demotions and suspensions have been committed: nobody was promoted or reinstated between a
\* request's unlocked read of its target and its commit.
NobodyHasJoined == \A i \in DOMAIN audit : audit[i].op \in {"demote", "suspend"}

\* Administrators who demote and suspend one another at once leave one who is active, through stale
\* reads, lost races and failed transactions.
DeparturesLeaveAnAdmin == NobodyHasJoined => AnActiveAdminRemains

\* Where the audit log has the suspensions of u and their ends.
Flips(u) == {i \in DOMAIN audit : audit[i].target = u /\ audit[i].op \in {"suspend", "unsuspend"}}

\* Suspensions in the audit log are real: for each account they alternate with their ends, and
\* the last one says what the account is - of two simultaneous ones, one writes.
SuspensionRowsAlternate ==
    \A u \in Users : \A i \in Flips(u) :
        /\ \A j \in Flips(u) : i < j /\ (\A k \in Flips(u) : k <= i \/ j <= k) =>
                                  audit[i].op # audit[j].op
        /\ (\A k \in Flips(u) : k <= i) => suspended[u] = (audit[i].op = "suspend")

\* Nobody waits forever for a row: the row locks are always taken in an order that lets one
\* transaction through, and in the end no transaction is open (nobody asks twice).
NoneWaits == \A r \in Requests : pc[r] \in {"idle", "done"}
EveryRequestEnds == <>[]NoneWaits
=============================================================================
