---------------------------- MODULE AdminUserList ----------------------------
(* /admin/users in one browser tab: the cached list, the dialog of an action,  *)
(* the optimistic change of its row with its rollback, and the refetches, while*)
(* other administrators act.  An action is a grant of coins or the setting of a*)
(* flag, which stands for the role and for the suspension.                     *)
EXTENDS Naturals, FiniteSets

CONSTANTS
    Accounts,     \* the rows
    MaxActions,   \* bound: confirmed dialogs
    MaxOthers     \* bound: changes by other administrators

VARIABLES
    server,    \* each account as it is
    grants,    \* grantIds the ledger has
    list,      \* the cached page
    refetch,   \* the list's fetch under way
    dialog,    \* the question asked
    actions,   \* mutations under way, by the number of their dialog
    dialogs, others,   \* how many so far
    meant,     \* ghost: grants the administrator wanted made
    failed,    \* ghost: accounts whose last grant was reported as failed
    excused    \* ghost: something happened that may leave the list behind

avars == <<server, grants, list, refetch, dialog, actions, dialogs, others, meant, failed, excused>>

Row == [coins : 0 .. MaxActions + MaxOthers, flag : BOOLEAN]
Page == [Accounts -> Row]
Numbers == 1 .. MaxActions
Kinds == {"grant", "flag"}

NoPage == [a \in Accounts |-> [coins |-> 0, flag |-> FALSE]]
NoFetch == [step |-> "none", page |-> NoPage]
NoDialog == [open |-> FALSE]

TypeOK ==
    /\ server \in Page /\ list \in Page /\ grants \subseteq Numbers
    /\ refetch \in [step : {"none", "sent", "read"}, page : Page]
    /\ dialogs \in 0 .. MaxActions /\ others \in 0 .. MaxOthers
    /\ DOMAIN actions \subseteq 1 .. dialogs
    /\ \A n \in DOMAIN actions : actions[n].step \in {"sent", "done", "refused", "refreshing"}
    /\ meant \in 0 .. MaxActions /\ failed \subseteq Accounts /\ excused \in BOOLEAN

Init ==
    /\ server = NoPage /\ grants = {} /\ list = NoPage /\ refetch = NoFetch
    /\ dialog = NoDialog /\ actions = <<>> /\ dialogs = 0 /\ others = 0
    /\ meant = 0 /\ failed = {} /\ excused = FALSE

-----------------------------------------------------------------------------
(* The dialog and the optimistic change.                                      *)

\* The dialog keeps the row as it is shown now; a grant's dialog makes its grantId, which is
\* its number.
Ask ==
    /\ ~dialog.open /\ dialogs < MaxActions /\ dialogs' = dialogs + 1
    /\ \E a \in Accounts, k \in Kinds :
          dialog' = [open |-> TRUE, number |-> dialogs', account |-> a, kind |-> k, row |-> list[a]]
    /\ UNCHANGED <<server, grants, list, refetch, actions, others, meant, failed, excused>>

Close ==
    /\ dialog.open /\ dialog' = NoDialog
    /\ UNCHANGED <<server, grants, list, refetch, actions, dialogs, others, meant, failed, excused>>

\* What the row will read once the server agrees.
Expected(d) == IF d.kind = "grant" THEN [coins |-> d.row.coins + 1] ELSE [flag |-> ~d.row.flag]

Patched(page, account, change) ==
    [page EXCEPT ![account] =
        [f \in DOMAIN @ |-> IF f \in DOMAIN change THEN change[f] ELSE @[f]]]

\* The dialog closes; the list's fetch is cancelled, its pages are kept and the row is changed.
ConfirmKeeping(before, change) ==
    /\ dialog.open /\ dialog' = NoDialog
    /\ refetch' = NoFetch
    /\ list' = Patched(list, dialog.account, change)
    /\ actions' = [n \in DOMAIN actions \cup {dialog.number} |->
                     IF n # dialog.number THEN actions[n]
                     ELSE [step |-> "sent", account |-> dialog.account, kind |-> dialog.kind,
                           change |-> change, answer |-> change, before |-> before]]
    /\ meant' = IF dialog.kind = "grant" /\ dialog.account \notin failed THEN meant + 1 ELSE meant
    /\ failed' = IF dialog.kind = "grant" THEN failed \ {dialog.account} ELSE failed
    /\ excused' = (excused \/ actions # <<>>)
    /\ UNCHANGED <<server, grants, dialogs, others>>

ConfirmLate == ConfirmKeeping(Patched(list, dialog.account, Expected(dialog)), Expected(dialog))
Confirm == ConfirmKeeping(list, Expected(dialog))

-----------------------------------------------------------------------------
(* The request: the API makes a grant once per grantId.                       *)

\* An action that reached its last step is forgotten.
Ended(n) == [m \in DOMAIN actions \ {n} |-> actions[m]]

ServerActs(n) ==
    LET a == actions[n]
        row == server[a.account]
        fields == IF a.kind = "grant" THEN [coins |-> row.coins + 1] ELSE a.change
    IN  /\ a.step = "sent"
        /\ server' = Patched(server, a.account, fields)
        /\ grants' = IF a.kind = "grant" THEN grants \cup {n} ELSE grants
        /\ actions' = [actions EXCEPT ![n].step = "done", ![n].answer = fields]
        /\ UNCHANGED <<list, refetch, dialog, dialogs, others, meant, failed, excused>>

ServerRefuses(n) ==
    /\ actions[n].step = "sent"
    /\ actions' = [actions EXCEPT ![n].step = "refused"]
    /\ UNCHANGED <<server, grants, list, refetch, dialog, dialogs, others, meant, failed, excused>>

\* A refusal, or an answer lost, puts every cached page back as it was.
FailWith(n, page) ==
    /\ actions[n].step # "refreshing"
    /\ list' = page /\ actions' = Ended(n)
    /\ failed' = IF actions[n].kind = "grant" THEN failed \cup {actions[n].account} ELSE failed
    /\ excused' = (excused \/ actions[n].step = "done")
    /\ UNCHANGED <<server, grants, refetch, dialog, dialogs, others, meant>>

FailKeepingTheRow(n) == FailWith(n, list)
Fail(n) == FailWith(n, actions[n].before)

\* A success: the list is invalidated first, which cancels its fetch and begins another.
Succeed(n) ==
    /\ actions[n].step = "done"
    /\ actions' = [actions EXCEPT ![n].step = "refreshing"] /\ refetch' = [NoFetch EXCEPT !.step = "sent"]
    /\ UNCHANGED <<server, grants, list, dialog, dialogs, others, meant, failed, excused>>

\* The answer replaces the row's fields once that fetch is over, or was cancelled by another.
PatchRow(n) ==
    /\ actions[n].step = "refreshing"
    /\ refetch.step = "none" \/ Cardinality(DOMAIN actions) > 1
    /\ list' = Patched(list, actions[n].account, actions[n].answer)
    /\ actions' = Ended(n)
    /\ UNCHANGED <<server, grants, refetch, dialog, dialogs, others, meant, failed, excused>>

-----------------------------------------------------------------------------
(* The list's fetch, and the others.                                          *)

\* The page is shown again, or the window gets the focus back, and the list is stale by age.
Focus ==
    /\ refetch.step = "none" /\ refetch' = [NoFetch EXCEPT !.step = "sent"]
    /\ UNCHANGED <<server, grants, list, dialog, actions, dialogs, others, meant, failed, excused>>

ServerReads ==
    /\ refetch.step = "sent" /\ refetch' = [step |-> "read", page |-> server]
    /\ UNCHANGED <<server, grants, list, dialog, actions, dialogs, others, meant, failed, excused>>

\* With nothing under way whatever was behind is caught up with, unless another has acted since.
Land ==
    /\ refetch.step = "read" /\ refetch' = NoFetch
    /\ list' = refetch.page
    /\ excused' = (excused /\ (actions # <<>> \/ refetch.page # server))
    /\ UNCHANGED <<server, grants, dialog, actions, dialogs, others, meant, failed>>

FetchFails ==
    /\ refetch.step # "none" /\ refetch' = NoFetch
    /\ excused' = TRUE
    /\ UNCHANGED <<server, grants, list, dialog, actions, dialogs, others, meant, failed>>

OtherActs ==
    /\ others < MaxOthers /\ others' = others + 1
    /\ \E a \in Accounts, k \in Kinds :
          server' = Patched(server, a, Expected([kind |-> k, row |-> server[a]]))
    /\ excused' = TRUE
    /\ UNCHANGED <<grants, list, refetch, dialog, actions, dialogs, meant, failed>>

Next ==
    \/ Ask \/ Close \/ Confirm \/ Focus \/ ServerReads \/ Land \/ FetchFails \/ OtherActs
    \/ \E n \in DOMAIN actions :
          ServerActs(n) \/ ServerRefuses(n) \/ Fail(n) \/ Succeed(n) \/ PatchRow(n)

Spec == Init /\ [][Next]_avars

-----------------------------------------------------------------------------

\* With nothing under way the list shows the accounts as they are, whatever was refused and
\* whichever fetch was under way meanwhile, unless actions of this tab crossed, an answer was
\* lost, a fetch failed or another administrator acted (lib/query/admin.ts, useAdminUserAction).
ListIsCurrent ==
    ~excused /\ actions = <<>> /\ refetch.step = "none" => list = server

\* "a confirm that is retried is the same grant" (user-action-dialog.tsx:19): a grant that was
\* reported as failed and is confirmed again is made once.
RetriedConfirmIsOneGrant == Cardinality(grants) <= meant
=============================================================================
