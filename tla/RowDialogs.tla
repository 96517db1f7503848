----------------------------- MODULE RowDialogs -----------------------------
(* A member's own list whose rows act: the trades inbox, where a dialog asks    *)
(* before an offer is accepted or declined, and the decks, where one asks       *)
(* before a deck is deleted, another names a new one, and a row is cloned.  The *)
(* list is a cached query, one for each tab, which a mutation that succeeded    *)
(* makes stale; its page is taken whole.                                        *)
EXTENDS Naturals, FiniteSets

CONSTANTS
    Rows,                \* the offers or the decks, those that do not exist yet among them
    Tabs, Shows,         \* the tabs of the list, and the statuses that each shows
    Answers, Becomes,    \* what a row's dialog may ask, and what the row is once that is done
    Makes,               \* of "create" and "clone": what makes a row, and goes on to its page
    MaxCalls, MaxOthers, \* bounds: mutations sent, changes by others
    Nothing

VARIABLES
    server,   \* the status of each row at the API
    tab,      \* the tab shown, or Nothing on another page
    lists,    \* each tab's cached answer
    fetch,    \* each tab's fetch under way
    dialog,   \* the question asked, and about which row
    calls,    \* mutations under way
    sent, others,
    told      \* ghost: rows whose answer was told, by the tab that was re-read for it

rvars == <<server, tab, lists, fetch, dialog, calls, sent, others, told>>

Statuses == {"unborn", "open", "closed"} \cup {Becomes[a] : a \in Answers}
Page == [Rows -> Statuses \cup {"absent"}]
NoRows == [r \in Rows |-> "absent"]
NoFetch == [step |-> "none", page |-> NoRows]
NoDialog == [row |-> Nothing, action |-> Nothing]
\* A list that was never fetched is one to fetch.
NotLoaded == [page |-> NoRows, invalid |-> TRUE, failed |-> FALSE]

Call == [id : 1 .. MaxCalls, row : Rows \cup {Nothing}, action : Answers \cup Makes,
         waits : BOOLEAN,               \* is the page that sent it still there?
         tab : Tabs \cup {Nothing},     \* the tab that is re-read for it
         step : {"sent", "done", "refreshing", "reread", "behind"}]

TypeOK ==
    /\ server \in [Rows -> Statuses] /\ tab \in Tabs \cup {Nothing}
    /\ lists \in [Tabs -> [page : Page, invalid : BOOLEAN, failed : BOOLEAN]]
    /\ fetch \in [Tabs -> [step : {"none", "sent", "read"}, page : Page]]
    /\ dialog \in [row : Rows \cup {Nothing}, action : Answers \cup Makes \cup {Nothing}]
    /\ calls \subseteq Call /\ sent \in 0 .. MaxCalls /\ others \in 0 .. MaxOthers
    /\ told \in [Tabs -> SUBSET Rows]

Init ==
    /\ server \in [Rows -> {"unborn", "open"}]
    /\ tab = Nothing /\ lists = [t \in Tabs |-> NotLoaded] /\ fetch = [t \in Tabs |-> NoFetch]
    /\ dialog = NoDialog /\ calls = {} /\ sent = 0 /\ others = 0 /\ told = [t \in Tabs |-> {}]

-----------------------------------------------------------------------------
(* The list.                                                                  *)

Begun(t) == [fetch EXCEPT ![t] = [NoFetch EXCEPT !.step = "sent"]]

\* The page is opened at a tab, or its tab is turned, by Back too.  A fetch that is under way
\* is joined; an answer that was made stale is fetched again, another one if it is old.
Turn ==
    /\ \E t \in Tabs \ {tab} :
          /\ tab' = t
          /\ IF fetch[t].step # "none" THEN fetch' = fetch
             ELSE fetch' = Begun(t) \/ (~lists[t].invalid /\ fetch' = fetch)
    /\ UNCHANGED <<server, lists, dialog, calls, sent, others, told>>

\* The window gets the focus back and the answer is old, or Try again.
Focus ==
    /\ tab # Nothing /\ fetch[tab].step = "none" /\ fetch' = Begun(tab)
    /\ UNCHANGED <<server, tab, lists, dialog, calls, sent, others, told>>

\* A link, Back, or the page of what was made: the callbacks of what is under way are dropped.
Leave ==
    /\ tab # Nothing /\ tab' = Nothing /\ dialog' = NoDialog
    /\ calls' = {[c EXCEPT !.waits = FALSE] : c \in calls}
    /\ UNCHANGED <<server, lists, fetch, sent, others, told>>

ServerReads(t) ==
    /\ fetch[t].step = "sent"
    /\ fetch' = [fetch EXCEPT ![t] = [step |-> "read", page |->
                    [r \in Rows |-> IF server[r] \in Shows[t] THEN server[r] ELSE "absent"]]]
    /\ UNCHANGED <<server, tab, lists, dialog, calls, sent, others, told>>

\* Whoever waits for the tab to be re-read goes on.
Refreshed(t, step) == {IF c.step = "refreshing" /\ c.tab = t THEN [c EXCEPT !.step = step] ELSE c :
                       c \in calls}

Land(t) ==
    /\ fetch[t].step = "read" /\ fetch' = [fetch EXCEPT ![t] = NoFetch]
    /\ lists' = [lists EXCEPT ![t] = [page |-> fetch[t].page, invalid |-> FALSE, failed |-> FALSE]]
    /\ calls' = Refreshed(t, "reread")
    /\ UNCHANGED <<server, tab, dialog, sent, others, told>>

\* The error is shown in the place of the rows.
FetchFails(t) ==
    /\ fetch[t].step # "none" /\ fetch' = [fetch EXCEPT ![t] = NoFetch]
    /\ lists' = [lists EXCEPT ![t].failed = TRUE]
    /\ calls' = Refreshed(t, "behind")
    /\ UNCHANGED <<server, tab, dialog, sent, others, told>>

Offered(r) == tab # Nothing /\ ~lists[tab].failed /\ lists[tab].page[r] = "open"

-----------------------------------------------------------------------------
(* The dialogs.                                                               *)

Ask(r, a) ==
    /\ dialog = NoDialog /\ Offered(r)
    /\ dialog' = [row |-> r, action |-> a]
    /\ UNCHANGED <<server, tab, lists, fetch, calls, sent, others, told>>

AskNew ==
    /\ dialog = NoDialog /\ tab # Nothing /\ "create" \in Makes
    /\ dialog' = [row |-> Nothing, action |-> "create"]
    /\ UNCHANGED <<server, tab, lists, fetch, calls, sent, others, told>>

\* isPending of the mutation that the dialog would send.
Confirming == \E c \in calls : c.waits /\ c.action = dialog.action

\* Mutant of Dismiss: Escape closes a dialog that waits.
DismissAnyTime ==
    /\ dialog # NoDialog /\ dialog' = NoDialog
    /\ UNCHANGED <<server, tab, lists, fetch, calls, sent, others, told>>
Dismiss == ~Confirming /\ DismissAnyTime

Send(r, a) ==
    /\ sent < MaxCalls /\ sent' = sent + 1
    /\ calls' = calls \cup {[id |-> sent', row |-> r, action |-> a, waits |-> TRUE,
                             tab |-> Nothing, step |-> "sent"]}
    /\ UNCHANGED <<server, tab, lists, fetch, dialog, others, told>>

\* A button that is busy does nothing.
Confirm == dialog # NoDialog /\ ~Confirming /\ Send(dialog.row, dialog.action)

Clone(r) ==
    /\ dialog = NoDialog /\ Offered(r) /\ "clone" \in Makes
    /\ \A c \in calls : ~(c.waits /\ c.action = "clone" /\ c.row = r)
    /\ Send(r, "clone")

-----------------------------------------------------------------------------
(* The mutation.                                                              *)

Becoming(c, step) == (calls \ {c}) \cup {[c EXCEPT !.step = step]}

ServerAnswers(c) ==
    /\ c.step = "sent" /\ c.action \in Answers /\ server[c.row] = "open"
    /\ server' = [server EXCEPT ![c.row] = Becomes[c.action]]
    /\ calls' = Becoming(c, "done")
    /\ UNCHANGED <<tab, lists, fetch, dialog, sent, others, told>>

ServerMakes(c) ==
    /\ c.step = "sent" /\ c.action \in Makes
    /\ c.action = "clone" => server[c.row] = "open"
    /\ \E r \in Rows : server[r] = "unborn" /\ server' = [server EXCEPT ![r] = "open"]
    /\ calls' = Becoming(c, "done")
    /\ UNCHANGED <<tab, lists, fetch, dialog, sent, others, told>>

\* Refused, or the request or its answer is lost: a toast, and the dialog stays.
Fails(c) ==
    /\ c.step \in {"sent", "done"} /\ calls' = calls \ {c}
    /\ UNCHANGED <<server, tab, lists, fetch, dialog, sent, others, told>>

\* The mutation makes every list stale, and waits for the one that is shown to be fetched anew;
\* that fetch takes the place of one under way, for which nobody waits any longer.
SucceedsWith(c, refetched) ==
    /\ c.step = "done"
    /\ lists' = [t \in Tabs |-> [lists[t] EXCEPT !.invalid = TRUE]]
    /\ fetch' = IF tab = Nothing THEN fetch ELSE refetched
    /\ calls' = {IF d = c THEN [c EXCEPT !.tab = tab,
                                         !.step = IF tab = Nothing THEN "behind" ELSE "refreshing"]
                 ELSE d : d \in Refreshed(tab, "behind")}
    /\ UNCHANGED <<server, tab, dialog, sent, others, told>>

\* Mutant of Succeeds: a fetch under way is joined.
SucceedsJoining(c) == SucceedsWith(c, IF fetch[tab].step = "none" THEN Begun(tab) ELSE fetch)
Succeeds(c) == SucceedsWith(c, Begun(tab))

\* onSuccess: the dialog closes with a toast, or the page of what was made is asked for (Leave).
Close(c) ==
    /\ c.step \in {"reread", "behind"} /\ calls' = calls \ {c}
    /\ dialog' = IF c.waits /\ c.action \in Answers THEN NoDialog ELSE dialog
    /\ told' = IF c.waits /\ c.action \in Answers /\ c.step = "reread"
               THEN [told EXCEPT ![c.tab] = @ \cup {c.row}] ELSE told
    /\ UNCHANGED <<server, tab, lists, fetch, sent, others>>

\* The other party, another tab, or the expiry; and an offer or a deck that comes from there.
OthersAct ==
    /\ others < MaxOthers /\ others' = others + 1
    /\ \E r \in Rows : \/ server[r] = "open" /\ server' = [server EXCEPT ![r] = "closed"]
                       \/ server[r] = "unborn" /\ server' = [server EXCEPT ![r] = "open"]
    /\ UNCHANGED <<tab, lists, fetch, dialog, calls, sent, told>>

Next ==
    \/ Turn \/ Focus \/ Leave \/ AskNew \/ Dismiss \/ Confirm \/ OthersAct
    \/ \E t \in Tabs : ServerReads(t) \/ Land(t) \/ FetchFails(t)
    \/ \E r \in Rows : Clone(r) \/ \E a \in Answers : Ask(r, a)
    \/ \E c \in calls : ServerAnswers(c) \/ ServerMakes(c) \/ Fails(c) \/ Succeeds(c) \/ Close(c)

Spec == Init /\ [][Next]_rvars

-----------------------------------------------------------------------------

\* The dialog that an answer closes is the one that asked for it, and one answer is awaited at a
\* time: a dialog stays while what it confirmed is under way (components/ui/dialog.tsx, confirming).
DialogsAwaitTheirAnswers ==
    \A c \in calls : c.waits /\ c.action # "clone" =>
        /\ dialog = [row |-> c.row, action |-> c.action]
        /\ \A d \in calls : d.waits /\ d.action # "clone" => d = c

\* A row whose answer was told with its list re-read is not offered there again, whichever fetches
\* were under way and wherever the member went meanwhile (lib/query/client.ts, onSuccess).
AnsweredRowsAreOver == \A t \in Tabs : \A r \in told[t] : lists[t].page[r] # "open"
=============================================================================
