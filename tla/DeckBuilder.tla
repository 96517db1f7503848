---------------------------- MODULE DeckBuilder ----------------------------
(* The deck builder of one browser tab: the draft store, the save, and the     *)
(* query whose refetches the draft follows while it is clean.  Another tab     *)
(* saves or deletes the same deck.  A deck is its content and its updatedAt.   *)
EXTENDS Integers, FiniteSets

CONSTANTS
    Contents,   \* what a deck may hold: its name, mode and cards together
    First,      \* what it holds when the page opens
    MaxAt       \* bound: how often the deck is written

VARIABLES
    server,  \* {}, or {[content, at]} as the API has it
    seen,    \* the query's data: the newest copy this tab was given
    fetch,   \* the refetch: its step, and the copy on its way back
    saved, draft,  \* the store: what the last save or reset left, and the draft
    basis,   \* the store: updatedAt of saved
    verdict, \* the store: {}, or {content} the server has judged
    touched, \* has the draft been replaced since the save was sent?
    save     \* the save: its step, what it sent, and what came back

bvars == <<server, seen, fetch, saved, draft, basis, verdict, touched, save>>

Copies == [content : Contents, at : 0 .. MaxAt]
NoFetch == [step |-> "none", copy |-> [content |-> First, at |-> 0]]
Asked == [NoFetch EXCEPT !.step = "asked"]
HasEnded == [NoFetch EXCEPT !.step = "ended"]
NoSave == [step |-> "idle", sent |-> First, result |-> [content |-> First, at |-> 0]]

TypeOK ==
    /\ server \subseteq Copies /\ Cardinality(server) <= 1
    /\ seen \in Copies /\ {saved, draft} \cup verdict \subseteq Contents
    /\ fetch \in [step : {"none", "asked", "answered", "ended"}, copy : Copies]
    /\ basis \in 0 .. MaxAt /\ touched \in BOOLEAN
    /\ save \in [step : {"idle", "sent", "answered", "refreshing", "gone"},
                 sent : Contents, result : Copies]

Init ==
    /\ server = {[content |-> First, at |-> 0]} /\ seen = [content |-> First, at |-> 0]
    /\ fetch = NoFetch /\ saved = First /\ draft = First /\ basis = 0
    /\ verdict = {} /\ touched = FALSE /\ save = NoSave

store == <<saved, draft, basis, verdict, touched>>
Dirty == saved # draft

\* The effect on [deck, dirty, basis] runs before the member's next event; what
\* waits for the network may go on before it.
ResetDue == ~Dirty /\ seen.at > basis
Quiet == ~ResetDue

-----------------------------------------------------------------------------
(* The API, and the other tab.                                             *)

Write(content) ==
    \E d \in server : d.at < MaxAt /\ server' = {[content |-> content, at |-> d.at + 1]}

OtherTabSaves ==
    /\ \E c \in Contents : Write(c)
    /\ UNCHANGED <<seen, fetch, store, save>>

OtherTabDeletes ==
    /\ server' = {} /\ server # {}
    /\ UNCHANGED <<seen, fetch, store, save>>

\* PATCH isPublic, which every save's updatedAt rule covers, and the refetch its
\* success asks for; the draft has no part in it.
Publish ==
    /\ Quiet /\ save.step # "gone"
    /\ \E d \in server : Write(d.content)
    /\ fetch' = Asked
    /\ UNCHANGED <<seen, store, save>>

-----------------------------------------------------------------------------
(* The query.                                                              *)

\* A refetch begins: the window is focused, or the copy has grown stale.
Focus ==
    /\ Quiet /\ fetch = NoFetch /\ fetch' = Asked
    /\ UNCHANGED <<server, seen, store, save>>

Answer ==
    /\ fetch.step = "asked"
    /\ \E copy \in server : fetch' = [step |-> "answered", copy |-> copy]
    /\ UNCHANGED <<server, seen, store, save>>

\* The new copy is the query's data; a failed refetch leaves the old one.
Lands ==
    /\ fetch.step = "answered"
    /\ seen' = fetch.copy /\ fetch' = HasEnded
    /\ UNCHANGED <<server, store, save>>

FetchFails ==
    /\ fetch.step \in {"asked", "answered"} /\ fetch' = HasEnded
    /\ UNCHANGED <<server, seen, store, save>>

\* Whoever waited for the refetch goes on.
Ended ==
    /\ fetch = HasEnded /\ save.step # "refreshing" /\ fetch' = NoFetch
    /\ UNCHANGED <<server, seen, store, save>>

\* A clean draft follows the newest server copy.
Reset ==
    /\ ResetDue
    /\ saved' = seen.content /\ draft' = seen.content /\ basis' = seen.at
    /\ verdict' = {} /\ touched' = TRUE
    /\ UNCHANGED <<server, seen, fetch, save>>

-----------------------------------------------------------------------------
(* The draft and its save.                                                 *)

\* Any edit replaces the draft and drops the server's verdict.
Edit(c) ==
    /\ Quiet /\ c # draft
    /\ draft' = c /\ verdict' = {} /\ touched' = TRUE
    /\ UNCHANGED <<server, seen, fetch, saved, basis, save>>

Submit ==
    /\ Quiet /\ Dirty /\ save.step = "idle"
    /\ save' = [save EXCEPT !.step = "sent", !.sent = draft]
    /\ touched' = FALSE
    /\ UNCHANGED <<server, seen, fetch, saved, draft, basis, verdict>>

\* The API saves, or answers 404 for a deck that is gone.
Saves ==
    /\ save.step = "sent"
    /\ \/ /\ Write(save.sent)
          /\ save' = [save EXCEPT !.step = "answered", !.result = CHOOSE d \in server' : TRUE]
       \/ /\ server = {} /\ save' = [save EXCEPT !.step = "gone"]
          /\ UNCHANGED server
    /\ UNCHANGED <<seen, fetch, store>>

\* The save, or its answer, is lost: the draft stays as it is.
SaveLost ==
    /\ save.step \in {"sent", "answered"} /\ save' = [save EXCEPT !.step = "idle"]
    /\ UNCHANGED <<server, seen, fetch, store>>

\* The mutation's success invalidates the deck - a refetch under way is cancelled
\* for a new one - and is awaited before the caller has its result.
Invalidate ==
    /\ save.step = "answered"
    /\ save' = [save EXCEPT !.step = "refreshing"]
    /\ fetch' = Asked
    /\ UNCHANGED <<server, seen, store>>

\* setQueryData and commit: the draft is replaced if it is still the one sent.
Commits(draftAfter, verdictAfter) ==
    /\ save.step = "refreshing" /\ fetch = HasEnded
    /\ seen' = save.result /\ saved' = save.result.content /\ basis' = save.result.at
    /\ draft' = draftAfter /\ verdict' = verdictAfter
    /\ save' = NoSave /\ fetch' = NoFetch /\ touched' = FALSE
    /\ UNCHANGED server

CommitAlways == Commits(save.result.content, {save.result.content})
CommitVerdict == Commits(IF touched THEN draft ELSE save.result.content, {save.result.content})
Commit == Commits(IF touched THEN draft ELSE save.result.content,
                  IF touched THEN {} ELSE {save.result.content})

Next ==
    \/ OtherTabSaves \/ OtherTabDeletes \/ Publish \/ Focus \/ Answer \/ Lands
    \/ FetchFails \/ Ended \/ Reset \/ Submit \/ Saves \/ SaveLost \/ Invalidate
    \/ Commit \/ \E c \in Contents : Edit(c)

Spec == Init /\ [][Next]_bvars

-----------------------------------------------------------------------------

\* A dirty draft is never replaced by a refetch, by Public, by another tab or by
\* the answer of a save it has outgrown: only the member changes it
\* (docs/Pages.md, "Deck builder").
DirtyDraftsAreKept ==
    [][Dirty /\ draft' # draft => \E c \in Contents : Edit(c)]_bvars

\* The server's verdict is shown only on the content it judged, whatever was edited
\* while the save, its refetch and its answer were on their way.
VerdictIsOfTheDraft == verdict \subseteq {draft}

\* Edits made while a save is in flight stay, and stay unsaved
\* (docs/Pages.md, "Deck builder").
EditsMadeMeanwhileStay ==
    [][save.step # "idle" /\ touched /\ draft' # draft => \E c \in Contents : Edit(c)]_bvars
=============================================================================
