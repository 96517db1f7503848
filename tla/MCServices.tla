----------------------------- MODULE MCServices -----------------------------
(* The API's services in one instance for TLC.                                *)
(* They share no state beyond what each module has of the others', so         *)
(* their product would only multiply their states: a behaviour is a behaviour *)
(* of one of them, chosen at first, while the others stand still.             *)
EXTENDS Accounts, SeedRows, Functions, TLC

VARIABLES
    component,   \* the one that runs
    work, taken,                                                       \* LockOrder
    opening, currency, ledger, inventory, template, redisLock,
    claimed, userRow, handler, attempt, quote, answer,                 \* PackOpening
    truth, cached, load, missed, due, lost, overtaken,                 \* ReadCache
    rarity, packTemplate, edit, pull,                                  \* PackTemplates
    row, cards, deckLock, req, copies, ideal, versions,                \* Decks
    stock, banned, pool, types, todo, counts, at, short, tries,        \* RandomDeck
    count, open, openers, troubled,                                    \* Breaker
    price, history, clock, inUse, cooldown, refresh, queue, batch,
    job, call, run, stale,                                             \* PriceUpdates
    db, cut, changed, touches, script, starts, inTheWay, wallets, had  \* Seed

CONSTANTS
    Components,      \* those that may run
    x1, x2, x3,      \* transactions
    a1, a2,          \* Users
    r1, r2, r3,      \* Requests
    u1, u2, p1, p2, q1, q2, q3, t1, o1, g1, e1, j1, j2

-----------------------------------------------------------------------------
(* Two members, two cards, a trade each way, three transactions.              *)

TradeEachWay ==
    [t \in 1 .. 2 |-> [initiator |-> t, recipient |-> 3 - t,
                       offered |-> {t}, requested |-> {3 - t}, coins |-> TRUE]]

Of == INSTANCE LockOrder WITH
    Transactions <- {}, Work <- {}, Trades <- TradeEachWay, Admins <- {1, 2}

Everyday == <<Of!OpenPack(1, {1, 2}), Of!Grant(1), Of!Propose(1, {1, 2}), Of!ChangeRole(1),
              Of!Settle(1), Of!CallOff(1), Of!Counter(1, {1, 2}),
              Of!OpenPack(2, {1, 2}), Of!Grant(2), Of!Propose(2, {1, 2}), Of!ChangeRole(2),
              Of!Settle(2), Of!CallOff(2), Of!Counter(2, {1, 2})>>

Locks == INSTANCE LockOrder WITH
    Transactions <- {x1, x2, x3}, Work <- Range(Everyday), Trades <- TradeEachWay, Admins <- {1, 2}

-----------------------------------------------------------------------------
(* Two members send one openId; coins for one pack each.                      *)

Packs == INSTANCE PackOpening WITH
    Requests <- {q1, q2},
    Ask <- [r \in {q1, q2} |-> [userId |-> IF r = q1 THEN u1 ELSE u2,
                                templateId |-> t1, openId |-> o1]],
    Users <- {u1, u2}, Templates <- {t1}, OpenIds <- {o1}, Packs <- {"p", "q"}, Costs <- {1},
    Grants <- {g1}, GrantAmount <- [g \in {g1} |-> 2], MaxCurrency <- 2,
    pc <- handler

-----------------------------------------------------------------------------

Cache == INSTANCE ReadCache WITH
    Processes <- {p1, p2}, Served <- {"card"}, MaxWrites <- 1

\* Three cards of one set and one of another; weights with and without a rarity that cannot come.
Templates == INSTANCE PackTemplates WITH
    Cards <- 1 .. 4, SetOf <- <<"a", "a", "a", "b">>, Rarity <- <<1, 2, 3, 1>>,
    Slots <- {(1 :> 2) @@ (2 :> 1), (1 :> 3) @@ (2 :> 1) @@ (3 :> 1), (1 :> 1) @@ (2 :> 0)},
    Covers <- {4}, Editors <- {e1}, MaxDrifts <- 1, WordBits <- 4,
    template <- packTemplate

FirstDeck == [format |-> "y", cards |-> {1}]

DeckSaves == INSTANCE Decks WITH
    Requests <- {q1, q2, q3}, Reads <- {"clone"}, First <- FirstDeck,
    Patches <- {[format |-> {}, cards |-> {{2}}], [format |-> {"x"}, cards |-> {{1, 3}}],
                [format |-> {"y"}, cards |-> {}]},
    rowLock <- deckLock

Prices == INSTANCE PriceUpdates WITH
    Cards <- {1, 2}, InUse <- {1}, Moving <- {2}, Requests <- {q1}, Asked <- {1},
    BatchSize <- 1, MaxCards <- 1, MaxStalls <- 1, Attempts <- 2, MaxFetches <- 2,
    req <- refresh, due <- stale

Provider == INSTANCE Breaker WITH
    Jobs <- {j1, j2}, Threshold <- 2, opening <- openers

-----------------------------------------------------------------------------
(* Ten cards: a line of two stages and the second printing of its basic, an   *)
(* egg's line that has no egg, a Radiant, another type's basic, a Trainer of  *)
(* each kind, an ACE SPEC and two basic Energies.                             *)

Face(name, kind, type, from) ==
    [name |-> name, key |-> name, kind |-> kind, type |-> type, from |-> from,
     basic |-> kind = "energy" \/ (kind = "pokemon" /\ from = ""), only |-> {}]
Restricted(card, rule) == [card EXCEPT !.only = {rule}]

DeckCards ==
    <<Face("cub", "pokemon", "A", ""), Face("bear", "pokemon", "A", "cub"),
      Restricted(Face("owl", "pokemon", "A", ""), "Radiant"), Face("cub", "pokemon", "A", "egg"),
      Face("eel", "pokemon", "B", ""), Face("prof", "supporter", "-", ""),
      Restricted(Face("ball", "item", "-", ""), "ACE SPEC"), Face("gym", "stadium", "-", ""),
      Face("A", "energy", "A", ""), Face("B", "energy", "B", "")>>

JustEnough == <<1, 1, 1, 1, 1, 2, 1, 1, 3, 3>>
NoItems    == <<2, 2, 2, 2, 0, 2, 0, 0, 4, 4>>
NoTrainers == <<2, 2, 2, 2, 0, 1, 0, 0, 4, 4>>
OneTypeToPlay == <<2, 2, 0, 0, 0, 2, 1, 1, 2, 3>>

AllStocks == {JustEnough, NoItems, NoTrainers, OneTypeToPlay}

Random == INSTANCE RandomDeck WITH
    Card <- DeckCards, Stocks <- AllStocks, Requests <- {<<>>, <<"A">>, <<"A", "B">>},
    DeckSize <- 8, MaxCopies <- 2, PokemonLow <- 3, PokemonHigh <- 4, PokemonMin <- 2,
    MaxLines <- 2, MaxLineCopies <- 3, Attempts <- 2,
    Shapes <- <<{<<<<2>>, <<1>>>>, <<<<1>>>>}, {<<<<2, 1>>>>}, {<<<<1, 1, 1>>>>}>>,
    TrainerLow <- 2, TrainerHigh <- 2, TrainerMin <- 2, TrainerFill <- 3,
    SupporterLow <- 1, SupporterHigh <- 1, StadiumMax <- 1, Verdicts <- 2, Bannable <- {7}

-----------------------------------------------------------------------------
(* One member of their own, and one row of theirs for each way to refer to a  *)
(* row of the seed (an account goes as a session does, a day as a ledger row). *)

Its(table, refs) == [table |-> table, refs |-> refs]
TheirRows ==
    "m" :> Its("User", {}) @@ "session" :> Its("Session", {"m"})
    @@ "spend" :> Its("CurrencyTransaction", {"seed-ash"})
    @@ "note" :> Its("Notification", {"seed-ash"}) @@ "audit" :> Its("AuditLog", {"seed-admin"})
    @@ "stack" :> Its("InventoryItem", {"m", "base1-4"}) @@ "price" :> Its("PriceSnapshot", {"base1-4"})
    @@ "opening" :> Its("PackOpening", {"m", "seed-template-base"})
    @@ "pulled" :> Its("PackOpeningCard", {"opening", "base1-58"})
    @@ "deck" :> Its("Deck", {"m"}) @@ "decked" :> Its("DeckCard", {"deck", "base1-58"})
    @@ "trade" :> Its("Trade", {"m", "seed-ash"}) @@ "item" :> Its("TradeItem", {"trade", "base2-10"})
    @@ "counter" :> Its("Trade", {"seed-ash", "seed-misty", "seed-trade-pending"})
    @@ "pack" :> Its("PackTemplate", {"base1-4"}) @@ "base1-99" :> Its("Card", {"base1"})

TheirIds == DOMAIN TheirRows
AllRows == TheirRows @@ Seeded

DevSeed == INSTANCE Seed WITH
    Row <- AllRows, Theirs <- TheirIds, MaxTheirs <- 3, MaxChanges <- 1, MaxRuns <- 2,
    Touchable <- {"base1-4", "base1", "seed-ash", "seed-trade-pending"}

-----------------------------------------------------------------------------

lockVars     == <<work, taken>>
packVars     == <<opening, currency, ledger, inventory, template, redisLock,
                  claimed, userRow, handler, attempt, quote, answer>>
cacheVars    == <<truth, cached, load, missed, due, lost, overtaken>>
templateVars == <<rarity, packTemplate, edit, pull>>
deckVars     == <<row, cards, deckLock, req, copies, ideal, versions>>
randomVars   == <<stock, banned, pool, types, todo, counts, at, short, tries>>
breakerVars  == <<count, open, openers, troubled>>
priceVars    == <<price, history, clock, inUse, cooldown, refresh, queue, batch,
                  job, call, run, stale>>
seedVars     == <<db, cut, changed, touches, script, starts, inTheWay, wallets, had>>

everything == <<component, vars, lockVars, packVars, cacheVars, templateVars,
                deckVars, randomVars, breakerVars, priceVars, seedVars>>

\* Requests and transactions are interchangeable: one order of what they do stands for all.
InOrder(Number(_), s) == \A i \in 1 .. Len(s) - 1 : Number(s[i]) <= Number(s[i + 1])
OpNumber == "promote" :> 1 @@ "demote" :> 2 @@ "suspend" :> 3 @@ "unsuspend" :> 4
RequestNumber(r) == 2 * OpNumber[request[r].op] + (IF request[r].by = a1 THEN 0 ELSE 1)
WorkNumber(x) == CHOOSE i \in DOMAIN Everyday : Everyday[i] = work[x]

\* Only the component that runs has more than one initial state.
AllInit ==
    /\ component \in Components
    /\ Init
    /\ IF component = "accounts" THEN InOrder(RequestNumber, <<r1, r2, r3>>)
       ELSE \A r \in Requests : RequestNumber(r) = 2
    /\ IF component = "locks" THEN Locks!Init /\ InOrder(WorkNumber, <<x1, x2, x3>>)
       ELSE work = [x \in {x1, x2, x3} |-> Of!Grant(1)] /\ taken = [x \in {x1, x2, x3} |-> 0]
    /\ Packs!Init /\ (component # "packs" => template[t1].active)
    /\ Cache!Init /\ DeckSaves!Init /\ Provider!Init /\ Prices!Init /\ DevSeed!Init
    /\ Templates!Init
    /\ component # "templates" =>
          packTemplate = CHOOSE t \in Templates!Template : Templates!FitsPool(t) /\ t.cover = 0
    /\ Random!Init
    /\ component # "random" => stock = (CHOOSE s \in AllStocks : TRUE) /\ todo.asked = <<>>

AllNext ==
    /\ component' = component
    /\ IF component = "accounts" THEN Next ELSE UNCHANGED vars
    /\ IF component = "locks" THEN Locks!Next ELSE UNCHANGED lockVars
    /\ IF component = "packs" THEN Packs!Next ELSE UNCHANGED packVars
    /\ IF component = "cache" THEN Cache!Next ELSE UNCHANGED cacheVars
    /\ IF component = "templates" THEN Templates!Next ELSE UNCHANGED templateVars
    /\ IF component = "decks" THEN DeckSaves!Next ELSE UNCHANGED deckVars
    /\ IF component = "random" THEN Random!Next ELSE UNCHANGED randomVars
    /\ IF component = "breaker" THEN Provider!Next ELSE UNCHANGED breakerVars
    /\ IF component = "prices" THEN Prices!Next ELSE UNCHANGED priceVars
    /\ IF component = "seed" THEN DevSeed!Next ELSE UNCHANGED seedVars

\* Each component under its own fairness.
AllFair ==
    /\ \A r \in Requests : SF_vars(component = "accounts" /\ Step(r))
    /\ \A r \in {q1, q2} : WF_packVars(component = "packs" /\ Packs!Step(r))
    /\ \A p \in {p1, p2} : WF_cacheVars(component = "cache" /\ Cache!Resolve(p, "card"))
    /\ WF_cacheVars(component = "cache" /\ Cache!Expire("card"))
    /\ WF_breakerVars(component = "breaker" /\ Provider!CooldownEnds)
    /\ \A j \in {j1, j2} : WF_breakerVars(component = "breaker" /\ Provider!Opens(j))

AllSpec == AllInit /\ [][AllNext]_everything /\ AllFair

-----------------------------------------------------------------------------

\* Type invariant of whichever component runs.
TypesOK ==
    /\ component = "accounts" => TypeOK
    /\ component = "locks" => Locks!TypeOK
    /\ component = "packs" => Packs!TypeOK
    /\ component = "cache" => Cache!TypeOK
    /\ component = "templates" => Templates!TypeOK
    /\ component = "decks" => DeckSaves!TypeOK
    /\ component = "random" => Random!TypeOK
    /\ component = "breaker" => Provider!TypeOK
    /\ component = "prices" => Prices!TypeOK
    /\ component = "seed" => DevSeed!TypeOK

\* Any three of the everyday transactions of two members can always finish: nobody
\* waits in a ring (docs/DataModel.md, the lock order).
NoDeadlock == component = "locks" => Locks!NoDeadlock

\* A success shows the recorded pack, to the member who opened it, whoever else sends its
\* openId; and each member has the cards of the recorded openings and no others.
AnswersAreTheRecordedOpening ==
    component = "packs" => Packs!AnswersAreTheRecordedOpening /\ Packs!MintedWhatWasOpened

\* Everything comes to rest: in the end no administrator's transaction is open, every opening
\* whose process survived is answered, every cached answer is fresh once nobody writes, and a
\* source that has recovered is selected.  One formula, as only one component runs:
\* EveryRequestEnds, Packs!EveryRequestEnds, Cache!EventuallyFresh, Provider!RecoveredMeansClosed.
ServicesComeToRest ==
    <>[](/\ component = "accounts" => NoneWaits
         /\ component = "packs" => Packs!AllFinished
         /\ component = "cache" => Cache!AllFresh
         /\ component = "breaker" => Provider!ClosedOnceWell)

\* A cached answer is stale only while its deletion is due, was lost, or was overtaken by a load.
StalenessIsExplained == component = "cache" => Cache!StalenessIsExplained

\* Each rarity of a slot is drawn with the probability its weight states, whatever is saved; and one
\* that has no card any more is replaced by the nearest below it before any above.
PacksAreDrawnAsStated ==
    /\ component = "templates" => Templates!OddsAreExact
    /\ [][component = "templates" /\ packTemplate' # packTemplate => Templates!OddsAreExact']_templateVars
    /\ Templates!FallsBackDownFirst

\* What several statements write is whole: deck saves and deletions that cross leave what some order
\* of them would have left; and the development seed, run again over whatever an earlier run left,
\* ends with all of its rows, fails over others' rows only and takes nothing of a member's.
WritesAreWhole ==
    /\ component = "decks" => DeckSaves!SavesAreSerial
    /\ component = "seed" => /\ DevSeed!DoneMeansWhole
                             /\ DevSeed!LocksAreTheOffers
                             /\ DevSeed!FailsOverOthersOnly
                             /\ DevSeed!MembersKeepWhatIsTheirs

\* A random deck is legal, has no evolution without its line, and is refused for want of
\* Trainers only when the collection's are all in it.
RandomDecksKeepTheRules ==
    component = "random" => Random!DecksAreLegal /\ Random!LinesAreWhole /\ Random!TrainersAreUsedWhole

=============================================================================
