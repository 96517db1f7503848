----------------------------- MODULE ClientCache -----------------------------
(* One query of the web client's cache against the member's own mutations: what*)
(* a mutation writes, what the query reads, what the mutation invalidates, and *)
(* the fetches in between.  Queries do not touch one another, so a behaviour   *)
(* has one, chosen at first.  What others change is left to the age of an      *)
(* answer, and is not modelled here.                                           *)
EXTENDS Naturals, FiniteSets, Sequences

CONSTANTS
    MaxMutations,   \* bound: mutations sent
    Crossed         \* roots of the queries for which they may be that many: of another, one is

-----------------------------------------------------------------------------
(* The queries: their key and the facts the API computes their answer from.   *)

Query(key, reads) == [key |-> key, reads |-> reads]

Me             == Query(<<"me">>, {"coins", "profile", "copies"})
Progress       == Query(<<"me", "progress">>, {"openings", "settled", "fullDecks"})
Sessions       == Query(<<"sessions">>, {"sessions"})
Wallet         == Query(<<"wallet", "list">>, {"coins"})
Inventory      == Query(<<"inventory", "list">>, {"copies", "locks"})
OwnedCounts    == Query(<<"inventory", "owned">>, {"copies", "locks"})
Summary        == Query(<<"inventory", "summary">>, {"copies"})
PackHistory    == Query(<<"packs", "history">>, {"openings"})
PackTemplates  == Query(<<"packs", "templates">>, {"templates"})
MyDecks        == Query(<<"decks", "mine">>, {"decks", "copies", "locks"})  \* with their verdicts
Deck           == Query(<<"decks", "detail">>, {"decks"})
TradeList      == Query(<<"trades", "list">>, {"trades"})
TradeCount     == Query(<<"trades", "count">>, {"trades"})
Trade          == Query(<<"trades", "detail">>, {"trades"})
Notifications  == Query(<<"notifications", "list">>, {"notices"})
UnreadCount    == Query(<<"notifications", "unread-count">>, {"notices"})
Profile        == Query(<<"profiles", "detail">>, {"profile", "copies", "publicDecks"})
AdminTemplates == Query(<<"admin", "pack-templates">>, {"templates"})
AdminTrades    == Query(<<"admin", "trades">>, {"anyTrade"})
AuditLog       == Query(<<"admin", "audit">>, {"audit"})

Queries ==
    {Me, Progress, Sessions, Wallet, Inventory, OwnedCounts, Summary, PackHistory, PackTemplates,
     MyDecks, Deck, TradeList, TradeCount, Trade, Notifications, UnreadCount, Profile,
     AdminTemplates, AdminTrades, AuditLog}

-----------------------------------------------------------------------------
(* The mutations: the facts of their caller they write, by what the API does. *)

OpenPack             == {"coins", "copies", "openings"}
MarkNotificationRead == {"notices"}
CreateDeck           == {"decks"}
UpdateDeck           == {"decks", "publicDecks"}
CloneDeck            == {"decks", "fullDecks"}
DeleteDeck           == {"decks", "fullDecks", "publicDecks"}
SaveDeck             == {"decks", "fullDecks"}
AcceptTrade          == {"trades", "settled", "copies", "locks", "coins"}
DeclineTrade         == {"trades"}
ProposeTrade         == {"trades", "locks"}
CounterTrade         == {"trades", "locks"}
CancelTrade          == {"trades", "locks"}
UpdateMe             == {"profile"}
ChangePassword       == {"sessions"}
SavePackTemplate     == {"templates", "audit"}
VoidTrade            == {"anyTrade", "audit"}  \* and, of a party, what a party's trade has

Writes ==
    [openPack |-> OpenPack, markNotificationRead |-> MarkNotificationRead,
     createDeck |-> CreateDeck, updateDeck |-> UpdateDeck, cloneDeck |-> CloneDeck,
     deleteDeck |-> DeleteDeck, saveDeck |-> SaveDeck, acceptTrade |-> AcceptTrade,
     declineTrade |-> DeclineTrade, proposeTrade |-> ProposeTrade, counterTrade |-> CounterTrade,
     cancelTrade |-> CancelTrade, updateMe |-> UpdateMe, changePassword |-> ChangePassword,
     savePackTemplate |-> SavePackTemplate, voidTrade |-> VoidTrade]

Mutations == DOMAIN Writes

Inbox == {<<"trades">>, <<"notifications">>}

\* INVALIDATES: the roots of the keys each mutation makes stale.
InvalidatesAllBut(dropped) ==
    [openPack |-> {<<"me">>, <<"wallet">>, <<"inventory">>, <<"packs">>},
     markNotificationRead |-> {<<"notifications">>},
     createDeck |-> {<<"decks">>}, updateDeck |-> {<<"decks">>}, cloneDeck |-> {<<"decks">>},
     deleteDeck |-> {<<"decks">>},
     saveDeck |-> {<<"decks">>, <<"inventory", "owned">>, <<"me", "progress">>},
     acceptTrade |-> (Inbox \cup {<<"inventory">>, <<"wallet">>, <<"me">>, <<"decks">>}) \ dropped,
     declineTrade |-> Inbox,
     proposeTrade |-> Inbox \cup {<<"inventory">>}, counterTrade |-> Inbox \cup {<<"inventory">>},
     cancelTrade |-> Inbox \cup {<<"inventory">>},
     updateMe |-> {<<"me">>, <<"profiles">>}, changePassword |-> {<<"sessions">>},
     savePackTemplate |-> {<<"admin", "pack-templates">>, <<"packs">>},
     voidTrade |-> {<<"admin">>, <<"trades">>, <<"inventory">>, <<"wallet">>, <<"me">>}]

InvalidatesWithoutDecks == InvalidatesAllBut({<<"decks">>})
Invalidates == InvalidatesAllBut({})

IsUnder(key, root) == Len(root) <= Len(key) /\ SubSeq(key, 1, Len(root)) = root

\* Written and read, but invalidated by nobody: these wait for the answer's age.  A verdict on a
\* deck counts available copies; the checklist's full deck may be a copy or be deleted; the public
\* profile counts public decks and values copies; the audit log has a row for every save.
LeftToAge ==
    ({"openPack", "proposeTrade", "counterTrade", "cancelTrade"} \X {MyDecks})
    \cup ({"cloneDeck", "deleteDeck"} \X {Progress})
    \cup ({"openPack", "acceptTrade", "updateDeck", "deleteDeck"} \X {Profile})
    \cup ({"savePackTemplate"} \X {AuditLog})

-----------------------------------------------------------------------------

VARIABLES
    query,      \* the one of this behaviour
    entry,      \* its cache entry: the mutations its answer is behind, and was it invalidated
    watched,    \* is a component showing it?
    fetching,   \* its fetch under way
    sent,       \* mutations under way, by name
    total,      \* mutations sent so far
    unsure      \* ghost: an answer was lost or overtaken since the entry was last known good

qvars == <<query, entry, watched, fetching, sent, total, unsure>>

NoFetching == [step |-> "none", behind |-> {}]

TypeOK ==
    /\ query \in Queries /\ watched \in BOOLEAN /\ unsure \in BOOLEAN /\ total \in 0 .. MaxMutations
    /\ entry \in [behind : SUBSET Mutations, invalid : BOOLEAN]
    /\ fetching \in [step : {"none", "sent", "read"}, behind : SUBSET Mutations]
    /\ DOMAIN sent \subseteq Mutations
    /\ \A m \in DOMAIN sent : sent[m].step \in {"sent", "done", "refreshing"}

Init ==
    /\ query \in Queries /\ entry = [behind |-> {}, invalid |-> FALSE] /\ watched = FALSE
    /\ fetching = NoFetching /\ sent = <<>> /\ total = 0 /\ unsure = FALSE

Changes(m) == Writes[m] \cap query.reads # {}
Reaches(m) == \E root \in Invalidates[m] : IsUnder(query.key, root)

-----------------------------------------------------------------------------
(* Fetches.                                                                   *)

BeginFetch == fetching' = [NoFetching EXCEPT !.step = "sent"]

\* A component mounts: an answer that was invalidated or is older than its stale time is fetched
\* again, unless a fetch is under way already.
Watch ==
    /\ ~watched /\ watched' = TRUE
    /\ IF fetching.step # "none" THEN UNCHANGED fetching
       ELSE BeginFetch \/ (~entry.invalid /\ UNCHANGED fetching)
    /\ UNCHANGED <<query, entry, sent, total, unsure>>

Unwatch ==
    /\ watched /\ watched' = FALSE
    /\ UNCHANGED <<query, entry, fetching, sent, total, unsure>>

\* The window gets the focus back, or a poll is due, and the answer is old enough.
Refetch ==
    /\ watched /\ fetching.step = "none" /\ BeginFetch
    /\ UNCHANGED <<query, entry, watched, sent, total, unsure>>

ServerAnswers ==
    /\ fetching.step = "sent" /\ fetching' = [step |-> "read", behind |-> {}]
    /\ UNCHANGED <<query, entry, watched, sent, total, unsure>>

FetchLands ==
    /\ fetching.step = "read" /\ fetching' = NoFetching
    /\ entry' = [behind |-> fetching.behind, invalid |-> FALSE]
    /\ unsure' = (unsure /\ (fetching.behind # {} \/ sent # <<>>))
    /\ UNCHANGED <<query, watched, sent, total>>

\* A GET is sent twice; the entry keeps its answer if both fail.
FetchFails ==
    /\ fetching.step # "none" /\ fetching' = NoFetching
    /\ entry' = [entry EXCEPT !.invalid = TRUE] /\ unsure' = TRUE
    /\ UNCHANGED <<query, watched, sent, total>>

-----------------------------------------------------------------------------
(* Mutations, sent once.                                                      *)

Forget(m) == [n \in DOMAIN sent \ {m} |-> sent[n]]

Send(m) ==
    /\ Changes(m) \/ Reaches(m)  \* no other touches the query
    /\ m \notin DOMAIN sent /\ total' = total + 1
    /\ total < (IF query.key[1] \in Crossed THEN MaxMutations ELSE 1)
    /\ sent' = [n \in DOMAIN sent \cup {m} |-> IF n = m THEN [step |-> "sent", behind |-> {}] ELSE sent[n]]
    /\ UNCHANGED <<query, entry, watched, fetching, unsure>>

Missing(m, answer) == [answer EXCEPT !.behind = @ \cup {m}]

\* The server commits; answers it gave before do not have it.
ServerCommits(m) ==
    /\ sent[m].step = "sent"
    /\ entry' = IF Changes(m) THEN Missing(m, entry) ELSE entry
    /\ fetching' = IF Changes(m) /\ fetching.step = "read" THEN Missing(m, fetching) ELSE fetching
    /\ sent' = [n \in DOMAIN sent |->
                  IF n = m THEN [sent[m] EXCEPT !.step = "done"]
                  ELSE IF Changes(m) /\ sent[n].step = "done" THEN Missing(m, sent[n]) ELSE sent[n]]
    /\ UNCHANGED <<query, watched, total, unsure>>

\* It is refused, or it or its answer is lost; mutations are not repeated.
MutationFails(m) ==
    /\ sent[m].step # "refreshing" /\ sent' = Forget(m)
    /\ unsure' = (unsure \/ sent[m].step = "done")
    /\ UNCHANGED <<query, entry, watched, fetching, total>>

\* Its success: what it invalidates is stale, and what is shown of it is fetched again, the
\* fetch under way cancelled.  A fetch that nobody waits for any more is left alone, and when
\* it lands its old answer counts as fresh.
SucceedJoining(m) ==
    /\ sent[m].step = "done" /\ sent' = [sent EXCEPT ![m].step = "refreshing"]
    /\ entry' = IF Reaches(m) THEN [entry EXCEPT !.invalid = TRUE] ELSE entry
    /\ IF Reaches(m) /\ watched /\ fetching.step = "none" THEN BeginFetch ELSE UNCHANGED fetching
    /\ UNCHANGED <<query, watched, total, unsure>>

Succeed(m) ==
    /\ sent[m].step = "done" /\ sent' = [sent EXCEPT ![m].step = "refreshing"]
    /\ entry' = IF Reaches(m) THEN [entry EXCEPT !.invalid = TRUE] ELSE entry
    /\ IF Reaches(m) /\ watched THEN BeginFetch ELSE UNCHANGED fetching
    /\ unsure' = (unsure \/ (Reaches(m) /\ ~watched /\ fetching.behind # {}))
    /\ UNCHANGED <<query, watched, total>>

\* Once that is over, or was cancelled by another's, the hook's own onSuccess runs: the profile
\* that updateMe answered with becomes the answer of `me`.
Settle(m) ==
    /\ sent[m].step = "refreshing" /\ sent' = Forget(m)
    /\ fetching.step = "none" \/ ~Reaches(m) \/ Cardinality(DOMAIN sent) > 1 \/ ~watched
    /\ IF m = "updateMe" /\ query = Me
       THEN /\ entry' = [behind |-> sent[m].behind, invalid |-> FALSE]
            /\ unsure' = (unsure \/ sent[m].behind # {})
       ELSE UNCHANGED <<entry, unsure>>
    /\ UNCHANGED <<query, watched, fetching, total>>

Next ==
    \/ Watch \/ Unwatch \/ Refetch \/ ServerAnswers \/ FetchLands \/ FetchFails
    \/ \E m \in Mutations : Send(m)
    \/ \E m \in DOMAIN sent : ServerCommits(m) \/ MutationFails(m) \/ Succeed(m) \/ Settle(m)

Spec == Init /\ [][Next]_qvars

-----------------------------------------------------------------------------

\* A member sees what he did himself: with nothing under way a query on screen lacks none of his
\* own mutations but those LeftToAge names, unless an answer was lost or overtaken
\* (lib/query/invalidation.ts: "What each mutation makes stale").
OwnWritesAreShown ==
    watched /\ fetching.step = "none" /\ sent = <<>> /\ ~unsure =>
        \A m \in entry.behind : <<m, query>> \in LeftToAge
=============================================================================
