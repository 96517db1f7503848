-------------------------------- MODULE MCWeb --------------------------------
(* The web client's pages in one instance for TLC.  Each module has the part  *)
(* of the API that its page talks to, and they share no state, so their       *)
(* product would only multiply their states: a behaviour is a behaviour of    *)
(* one of them, chosen at first, while the others stand still.                *)
EXTENDS Integers, Sequences, FiniteSets, TLC

VARIABLES
    component,   \* the one that runs
    server, seen, fetch, saved, draft, basis, verdict, touched, save,  \* DeckBuilder
    confirmed, url, screen, opens, opened, storage, marks, arrived,    \* PackReveal
    accounts, grants, list, refetch, dialog, actions, dialogs,
    others, meant, failed, excused,                                    \* AdminUserList
    query, entry, watched, fetching, mutations, total, unsure,         \* ClientCache
    rows, gone, walk,                                                  \* Paging
    entries, at, dirty, leaving, question, traversals, pushing, timer,
    moves, oddities,                                                   \* LeaveGuard
    stock, coins, original, trades, offer, blocked, balance, owned,
    reading, picker, checking, sending, notice, onward, steps,
    meanwhile, standing, since, doubtful,                              \* TradeComposer
    templates, shelf, listing, offShelf, chosen, editor, requests, clicks,
    colleagues,                                                        \* TemplateEditor
    queue, last, jobs, presses, faults, breaks, breaker, polling, shown,
    trigger, refused, asking, reset, told,                             \* SyncPage
    role, trade, spent, rereading, onPage, choice, answer, check,
    refusal, elsewhere, answers, losses, outcome, mine, crossed,
    missed,                                                            \* TradePage
    place, pages, page, filters, text, emitted, debounce, data, request,
    error, keys, fails, own, moved, overtaken, picked,                 \* SearchList
    landed, section, background, narrow, showing, effect, scene,
    quirks, scrolls,                                                   \* PackShowcase
    stays, inView, asleep, faded, loader, card3d, tugs,                \* HeroCard
    items, tab, lists, fetches, dialogue, acting, posted, outside,
    toldIn                                                             \* RowDialogs

CONSTANTS
    Components,      \* those that may run
    None, UnderWay, Bad

Builder == INSTANCE DeckBuilder WITH
    Contents <- {"a", "b", "c"}, First <- "a", MaxAt <- 2

Reveal == INSTANCE PackReveal WITH
    Contents <- {"p", "q"}, PackSize <- 2, MaxOpens <- 2, MaxCalls <- 2,
    calls <- opens, pack <- opened

UserList == INSTANCE AdminUserList WITH
    Accounts <- {"a", "b"}, MaxActions <- 2, MaxOthers <- 1, server <- accounts

\* Two mutations cross where one answer is written into the cache by hand, which is `me`.
Queries == INSTANCE ClientCache WITH
    MaxMutations <- 2, Crossed <- {"me"}, sent <- mutations

Lists == INSTANCE Paging WITH Ids <- 1 .. 3, Values <- 1 .. 2, PageSize <- 1

Guard == INSTANCE LeaveGuard WITH
    Before <- 1, MaxActs <- 5, Nothing <- None,
    dialog <- question, acts <- moves, marks <- oddities

-----------------------------------------------------------------------------
(* The composer on a new offer, on one that begins with a card asked of a     *)
(* member, on a counter of a card for a card, and on one already closed.      *)

NoCards == [c \in {1, 2} |-> 0]
One(card) == [NoCards EXCEPT ![card] = 1]

From(to, card, answered, asked, offered) ==
    [to |-> to, card |-> card, trade |-> answered, asked |-> asked, offered |-> offered]

Composer == INSTANCE TradeComposer WITH
    Cards <- {1, 2}, MaxLines <- 1, MaxCopies <- 2, MaxCoins <- 1,
    Starts <- {From("none", 0, "none", NoCards, NoCards),
               From("member", 1, "none", NoCards, NoCards),
               From("none", 0, "pending", One(1), One(2)),
               From("none", 0, "closed", NoCards, NoCards)},
    MaxActs <- 4, MaxOthers <- 1,
    sent <- trades, fetch <- reading, leaving <- onward, acts <- steps,
    others <- meanwhile, basis <- standing, unsure <- doubtful

Editor == INSTANCE TemplateEditor WITH
    Names <- {1, 2}, Sets <- {"a", "b"}, Rarities <- {"Common", "Rare"},
    Prints <- [a |-> {"Common", "Rare"}, b |-> {"Common"}],
    MaxSlots <- 2, MaxRows <- 2, MaxPack <- 1, MaxActs <- 3, MaxOthers <- 1,
    server <- templates, list <- shelf, fetch <- listing, failed <- offShelf,
    acts <- clicks, others <- colleagues

\* The buttons with one kind of run, and the dialog alone and beside a trigger.
Sync == INSTANCE SyncPage WITH
    Kinds <- {"CATALOG"}, Providers <- {}, MaxJobs <- 2, MaxPresses <- 2, MaxFaults <- 1,
    MaxBreaks <- 0, fetch <- polling
Resets == INSTANCE SyncPage WITH
    Kinds <- {"CATALOG"}, Providers <- {"tcgdex"}, MaxJobs <- 0, MaxPresses <- 0, MaxFaults <- 1,
    MaxBreaks <- 1, fetch <- polling
ResetsAndRuns == INSTANCE SyncPage WITH
    Kinds <- {"CATALOG"}, Providers <- {"tcgdex"}, MaxJobs <- 1, MaxPresses <- 1, MaxFaults <- 0,
    MaxBreaks <- 1, fetch <- polling

OneTrade == INSTANCE TradePage WITH
    MaxOthers <- 2, MaxAnswers <- 2, MaxFaults <- 1,
    fetch <- rereading, shown <- onPage, asking <- choice, others <- elsewhere, faults <- losses

\* A card whose name is part of another's, and one in each set.
SearchTexts == {"", "a", "a ", "ab"}
Parts ==
    {<<t, t>> : t \in SearchTexts} \union {<<"", t>> : t \in SearchTexts}
        \union {<<"a", "ab">>}
Card(name, set) == [name |-> name, set |-> set]

Search == INSTANCE SearchList WITH
    Texts <- SearchTexts, Trim <- [t \in SearchTexts |-> IF t = "a " THEN "a" ELSE t],
    Within <- Parts, Cards <- << Card("a", 1), Card("ab", 1), Card("a", 2) >>, Sets <- {1, 2},
    MaxActs <- 4, MaxFails <- 1,
    entries <- pages, at <- page, timer <- debounce, acts <- keys, meant <- picked

Showcase == INSTANCE PackShowcase WITH
    MaxActs <- 4, here <- landed, where <- section, hidden <- background, marks <- quirks,
    acts <- scrolls

Hero == INSTANCE HeroCard WITH
    MaxActs <- 5, here <- stays, hidden <- asleep, ready <- faded, effect <- loader,
    scene <- card3d, acts <- tugs

\* An offer that was received, in two of the inbox's tabs; the decks, one perhaps still to be made;
Inbox == INSTANCE RowDialogs WITH
    Rows <- {1}, Tabs <- {"all", "incoming"},
    Shows <- [all |-> {"open", "accepted", "declined", "closed"}, incoming |-> {"open"}],
    Answers <- {"accept", "decline"},
    Becomes <- [accept |-> "accepted", decline |-> "declined"], Makes <- {},
    MaxCalls <- 1, MaxOthers <- 0, Nothing <- None,
    server <- items, fetch <- fetches, dialog <- dialogue, calls <- acting, sent <- posted,
    others <- outside, told <- toldIn
DeckList == INSTANCE RowDialogs WITH
    Rows <- {1, 2}, Tabs <- {"all"}, Shows <- [all |-> {"open"}],
    Answers <- {"delete"}, Becomes <- [delete |-> "deleted"], Makes <- {"create", "clone"},
    MaxCalls <- 1, MaxOthers <- 0, Nothing <- None,
    server <- items, fetch <- fetches, dialog <- dialogue, calls <- acting, sent <- posted,
    others <- outside, told <- toldIn
\* and one deck, for two requests, which others may delete.
OneDeck == INSTANCE RowDialogs WITH
    Rows <- {1}, Tabs <- {"all"}, Shows <- [all |-> {"open"}],
    Answers <- {"delete"}, Becomes <- [delete |-> "deleted"], Makes <- {"create", "clone"},
    MaxCalls <- 2, MaxOthers <- 1, Nothing <- None,
    server <- items, fetch <- fetches, dialog <- dialogue, calls <- acting, sent <- posted,
    others <- outside, told <- toldIn

-----------------------------------------------------------------------------

builderVars  == <<server, seen, fetch, saved, draft, basis, verdict, touched, save>>
revealVars   == <<confirmed, url, screen, opens, opened, storage, marks, arrived>>
userListVars == <<accounts, grants, list, refetch, dialog, actions, dialogs,
                  others, meant, failed, excused>>
queryVars    == <<query, entry, watched, fetching, mutations, total, unsure>>
listVars     == <<rows, gone, walk>>
guardVars    == <<entries, at, dirty, leaving, question, traversals, pushing, timer,
                  moves, oddities>>
composerVars == <<stock, coins, original, trades, offer, blocked, balance, owned,
                  reading, picker, checking, sending, notice, onward, steps,
                  meanwhile, standing, since, doubtful>>
editorVars   == <<templates, shelf, listing, offShelf, chosen, editor, requests, clicks, colleagues>>
syncVars     == <<queue, last, jobs, presses, faults, breaks, breaker, polling, shown,
                  trigger, refused, asking, reset, told>>
tradeVars    == <<role, trade, spent, rereading, onPage, choice, answer, check, refusal, elsewhere,
                  answers, losses, outcome, mine, crossed, missed>>
searchVars   == <<place, pages, page, filters, text, emitted, debounce, data, request, error, keys,
                  fails, own, moved, overtaken, picked>>
showVars     == <<landed, section, background, narrow, showing, effect, scene, quirks, scrolls>>
heroVars     == <<stays, inView, asleep, faded, loader, card3d, tugs>>
rowVars      == <<items, tab, lists, fetches, dialogue, acting, posted, outside, toldIn>>

everything == <<component, builderVars, revealVars, userListVars, queryVars, listVars,
                guardVars, composerVars, editorVars, syncVars, tradeVars, searchVars,
                showVars, heroVars, rowVars>>

\* Only the component that runs has more than one initial state.
AllInit ==
    /\ component \in Components
    /\ Builder!Init /\ UserList!Init
    /\ Reveal!Init /\ (component # "reveal" => storage)
    /\ Queries!Init /\ (component # "queries" => query = Queries!Me)
    /\ Lists!Init
    /\ component # "lists" => rows = <<>> /\ walk.list = Lists!PackHistory
    /\ Guard!Init /\ (component # "guard" => at = 1)
    /\ Composer!Init /\ (component # "composer" => original = "closed")
    /\ Editor!Init /\ (component # "editor" => templates = {})
    /\ IF component \in {"resets", "resets and runs"} THEN Resets!Init ELSE Sync!Init
    /\ OneTrade!Init /\ (component # "trade" => role = "admin" /\ rereading = None)
    /\ Search!Init /\ (component # "search" => place = "url")
    /\ Showcase!Init /\ (component # "showcase" => section = 0)
    /\ Hero!Init /\ (component # "hero" => inView /\ asleep)
    /\ CASE component = "decks" -> DeckList!Init
         [] component = "deck" -> OneDeck!Init
         [] OTHER -> Inbox!Init /\ (component # "inbox" => items[1] = "open")

AllNext ==
    /\ component' = component
    /\ IF component = "builder" THEN Builder!Next ELSE UNCHANGED builderVars
    /\ IF component = "reveal" THEN Reveal!Next ELSE UNCHANGED revealVars
    /\ IF component = "userlist" THEN UserList!Next ELSE UNCHANGED userListVars
    /\ IF component = "queries" THEN Queries!Next ELSE UNCHANGED queryVars
    /\ IF component = "lists" THEN Lists!Next ELSE UNCHANGED listVars
    /\ IF component = "guard" THEN Guard!Next ELSE UNCHANGED guardVars
    /\ IF component = "composer" THEN Composer!Next ELSE UNCHANGED composerVars
    /\ IF component = "editor" THEN Editor!Next ELSE UNCHANGED editorVars
    /\ IF component = "sync" THEN Sync!Next
       ELSE IF component = "resets" THEN Resets!Next
       ELSE IF component = "resets and runs" THEN ResetsAndRuns!Next ELSE UNCHANGED syncVars
    /\ IF component = "trade" THEN OneTrade!Next ELSE UNCHANGED tradeVars
    /\ IF component = "search" THEN Search!Next ELSE UNCHANGED searchVars
    /\ IF component = "showcase" THEN Showcase!Next ELSE UNCHANGED showVars
    /\ IF component = "hero" THEN Hero!Next ELSE UNCHANGED heroVars
    /\ IF component = "inbox" THEN Inbox!Next
       ELSE IF component = "decks" THEN DeckList!Next
       ELSE IF component = "deck" THEN OneDeck!Next ELSE UNCHANGED rowVars

\* Each component under its own fairness.
AllFair ==
    /\ WF_guardVars(component = "guard" /\ Guard!Browser)
    /\ WF_syncVars(component = "sync" /\ Sync!Worker("CATALOG"))
    /\ WF_syncVars(component = "sync" /\ Sync!Status)
    /\ WF_syncVars(component = "sync" /\ Sync!Client)
    /\ WF_showVars(component = "showcase" /\ Showcase!AnimationFrame)
    /\ WF_showVars(component = "showcase" /\ Showcase!Loads)
    /\ WF_showVars(component = "showcase" /\ Showcase!Observe)
    /\ WF_showVars(component = "showcase" /\ Showcase!SceneObserves)
    /\ WF_heroVars(component = "hero" /\ Hero!frame)
    /\ WF_heroVars(component = "hero" /\ Hero!Loads)
    /\ WF_heroVars(component = "hero" /\ Hero!Observes)

AllSpec == AllInit /\ [][AllNext]_everything /\ AllFair

-----------------------------------------------------------------------------

\* Type invariant of whichever component runs.
TypesOK ==
    /\ component = "builder" => Builder!TypeOK
    /\ component = "reveal" => Reveal!TypeOK
    /\ component = "userlist" => UserList!TypeOK
    /\ component = "queries" => Queries!TypeOK
    /\ component = "lists" => Lists!TypeOK
    /\ component = "guard" => Guard!TypeOK
    /\ component = "composer" => Composer!TypeOK
    /\ component = "editor" => Editor!TypeOK
    /\ component = "sync" => Sync!TypeOK
    /\ component = "resets" => Resets!TypeOK
    /\ component = "resets and runs" => ResetsAndRuns!TypeOK
    /\ component = "trade" => OneTrade!TypeOK
    /\ component = "search" => Search!TypeOK
    /\ component = "showcase" => Showcase!TypeOK
    /\ component = "hero" => Hero!TypeOK
    /\ component = "inbox" => Inbox!TypeOK
    /\ component = "decks" => DeckList!TypeOK
    /\ component = "deck" => OneDeck!TypeOK



\* Unsaved edits are replaced by nobody but their owner and left only by one who was asked, and
\* a verdict is shown for the draft that was judged; once saved, one Back leaves the page; and a
\* template's form starts over for what its own template or the selection became, never for the
\* switch that is saved beside it; and what is typed into a search stays, with the filters beside it.
EditsAreKept ==
    /\ Builder!DirtyDraftsAreKept
    /\ [][Builder!VerdictIsOfTheDraft']_builderVars
    /\ Guard!EditsAreLeftOnlyWhenAsked
    /\ [][component = "guard" => Guard!OneBackLeavesACleanPage']_guardVars
    /\ Editor!DraftsAreGivenUpForAReason
    /\ [][component = "search" => Search!TypedStays' /\ Search!ChoicesAreKept']_searchVars

\* Whoever chose to leave a page gets away, and the Run buttons come back once nothing is queued or
\* running, and the landing page's scenes are drawn, or what stands in for them is shown, for who
\* stays to look.  One formula, as only one component runs.
PagesComeToRest ==
    <>[](/\ component = "guard" => Guard!HasLeft
         /\ component = "sync" => Sync!ButtonsAreBack
         /\ component = "showcase" => Showcase!Arrived
         /\ component = "hero" => Hero!Arrived)

\* "a confirm that is retried is the same grant" (user-action-dialog.tsx:19-20): a grant reported as
\* failed and confirmed again is made once.
RetriedConfirmIsOneGrant == component = "userlist" => UserList!RetriedConfirmIsOneGrant

\* "edits made meanwhile stay, and stay unsaved" (docs/Pages.md:338).
EditsMadeMeanwhileStay == Builder!EditsMadeMeanwhileStay
=============================================================================
