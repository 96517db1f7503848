------------------------------ MODULE SeedRows ------------------------------
(***************************************************************************)
(* The database's foreign keys, the rows of the development seed and the   *)
(* order in which the script removes and writes them.                      *)
(*                                                                         *)
(* A row is its id, with its table and the ids it refers to; its other     *)
(* columns are kept where the seed's own promises are about them.          *)
(***************************************************************************)
EXTENDS Integers, Sequences, FiniteSets, Functions, FiniteSetsExt, TLC

-----------------------------------------------------------------------------
(* What each model's columns refer to, and what deleting that does.        *)

User == <<>>
Session == [User |-> "Cascade"]
Account == [User |-> "Cascade"]
UserActivity == [User |-> "Cascade"]
CardSet == <<>>
Card == [CardSet |-> "Restrict"]
PriceSnapshot == [Card |-> "Cascade"]
\* Mutant of InventoryItem: deleting a card empties collections.
StacksFallWithCards == [User |-> "Cascade", Card |-> "Cascade"]
InventoryItem == [User |-> "Cascade", Card |-> "Restrict"]
PackTemplate == [Card |-> "SetNull"]
PackOpening == [User |-> "Cascade", PackTemplate |-> "Restrict"]
PackOpeningCard == [PackOpening |-> "Cascade", Card |-> "Restrict"]
CurrencyTransaction == [User |-> "Cascade"]
Deck == [User |-> "Cascade"]
DeckCard == [Deck |-> "Cascade", Card |-> "Restrict"]
Trade == [User |-> "Restrict", Trade |-> "SetNull"]
TradeItem == [Trade |-> "Cascade", Card |-> "Restrict"]
Notification == [User |-> "Cascade"]
AuditLog == [User |-> "Restrict"]

Schema ==
    [User |-> User, Session |-> Session, Account |-> Account, UserActivity |-> UserActivity,
     CardSet |-> CardSet, Card |-> Card, PriceSnapshot |-> PriceSnapshot,
     InventoryItem |-> InventoryItem, PackTemplate |-> PackTemplate, PackOpening |-> PackOpening,
     PackOpeningCard |-> PackOpeningCard, CurrencyTransaction |-> CurrencyTransaction,
     Deck |-> Deck, DeckCard |-> DeckCard, Trade |-> Trade, TradeItem |-> TradeItem,
     Notification |-> Notification, AuditLog |-> AuditLog]

-----------------------------------------------------------------------------
(* The seed's rows.                                                        *)

SETS == {"base1", "base2", "sv1"}

\* The set of each card.
CARDS ==
    [c \in {"base1-4", "base1-2", "base1-15", "base1-58", "base1-46", "base1-63"} |-> "base1"]
    @@ [c \in {"base2-10", "base2-33", "base2-24"} |-> "base2"]
    @@ [c \in {"sv1-245", "sv1-198", "sv1-76"} |-> "sv1"]

\* Each user's ledger rows.
USERS ==
    "seed-admin" :> ("seed-tx-admin-1" :> 10000)
    @@ "seed-ash" :> ("seed-tx-ash-1" :> 1000 @@ "seed-tx-ash-2" :> 500 @@ "seed-tx-ash-3" :> -300)
    @@ "seed-misty" :> ("seed-tx-misty-1" :> 1000 @@ "seed-tx-misty-2" :> -200)
    @@ "seed-brock" :> ("seed-tx-brock-1" :> 1000 @@ "seed-tx-brock-2" :> 200)
    @@ "seed-gary" :> <<>>

balanceOf(ledger) == FoldFunction(LAMBDA a, b : a + b, 0, ledger)

Item(card, side, quantity) == [card |-> card, side |-> side, quantity |-> quantity]

TRADES ==
    <<[id |-> "seed-trade-pending", by |-> "seed-ash", to |-> "seed-misty", status |-> "PENDING",
       counters |-> {}, items |-> "seed-ti-1" :> Item("base1-4", "OFFERED", 1)
                               @@ "seed-ti-2" :> Item("base1-2", "REQUESTED", 1)],
      [id |-> "seed-trade-accepted", by |-> "seed-misty", to |-> "seed-brock", status |-> "ACCEPTED",
       counters |-> {}, items |-> "seed-ti-3" :> Item("base2-10", "REQUESTED", 1)],
      [id |-> "seed-trade-declined", by |-> "seed-brock", to |-> "seed-ash", status |-> "DECLINED",
       counters |-> {}, items |-> "seed-ti-4" :> Item("base2-33", "OFFERED", 2)],
      [id |-> "seed-trade-countered", by |-> "seed-gary", to |-> "seed-ash", status |-> "COUNTERED",
       counters |-> {}, items |-> "seed-ti-5" :> Item("sv1-198", "REQUESTED", 1)],
      [id |-> "seed-trade-cancelled", by |-> "seed-ash", to |-> "seed-gary", status |-> "CANCELLED",
       counters |-> {"seed-trade-countered"},
       items |-> "seed-ti-6" :> Item("sv1-198", "OFFERED", 1)],
      [id |-> "seed-trade-voided", by |-> "seed-gary", to |-> "seed-brock", status |-> "VOIDED",
       counters |-> {}, items |-> "seed-ti-7" :> Item("base1-58", "OFFERED", 3)]>>

\* Mutant of Stack: the pending trade's offer is not locked.
UnlockedStack(user, card, quantity, locked) ==
    [user |-> user, card |-> card, quantity |-> quantity, locked |-> 0]
Stack(user, card, quantity, locked) ==
    [user |-> user, card |-> card, quantity |-> quantity, locked |-> locked]

Inventory ==
    "seed-inv-1" :> Stack("seed-ash", "base1-4", 2, 1)
    @@ "seed-inv-2" :> Stack("seed-ash", "base1-58", 5, 0)
    @@ "seed-inv-3" :> Stack("seed-ash", "base1-46", 3, 0)
    @@ "seed-inv-4" :> Stack("seed-misty", "base1-2", 1, 0)
    @@ "seed-inv-5" :> Stack("seed-misty", "base1-63", 4, 0)
    @@ "seed-inv-6" :> Stack("seed-brock", "base2-10", 1, 0)
    @@ "seed-inv-7" :> Stack("seed-gary", "sv1-198", 1, 0)

\* Of the table, with what each row refers to.
Rows(table, refs) == [r \in DOMAIN refs |-> [table |-> table, refs |-> refs[r]]]

TradeIds == {TRADES[i].id : i \in DOMAIN TRADES}
TradeOf(id) == CHOOSE t \in Range(TRADES) : t.id = id

Seeded ==
    Rows("CardSet", [s \in SETS |-> {}])
    @@ Rows("Card", [c \in DOMAIN CARDS |-> {CARDS[c]}])
    @@ Rows("User", [u \in DOMAIN USERS |-> {}])
    @@ Rows("CurrencyTransaction",
            [e \in UNION {DOMAIN USERS[u] : u \in DOMAIN USERS} |->
                {u \in DOMAIN USERS : e \in DOMAIN USERS[u]}])
    @@ Rows("PackTemplate", "seed-template-base" :> {})
    @@ Rows("InventoryItem", [i \in DOMAIN Inventory |-> {Inventory[i].user, Inventory[i].card}])
    @@ Rows("PackOpening", "seed-open-1" :> {"seed-ash", "seed-template-base"})
    @@ Rows("PackOpeningCard", "seed-poc-1" :> {"seed-open-1", "base1-58"}
                            @@ "seed-poc-2" :> {"seed-open-1", "base1-46"}
                            @@ "seed-poc-3" :> {"seed-open-1", "base2-24"}
                            @@ "seed-poc-4" :> {"seed-open-1", "base1-4"})
    @@ Rows("Deck", "seed-deck-1" :> {"seed-ash"})
    @@ Rows("DeckCard", "seed-dc-1" :> {"seed-deck-1", "base1-4"}
                     @@ "seed-dc-2" :> {"seed-deck-1", "base1-46"}
                     @@ "seed-dc-3" :> {"seed-deck-1", "base1-58"})
    @@ Rows("Trade", [t \in TradeIds |-> {TradeOf(t).by, TradeOf(t).to} \cup TradeOf(t).counters])
    @@ Rows("TradeItem",
            [i \in UNION {DOMAIN TRADES[n].items : n \in DOMAIN TRADES} |->
                LET of == CHOOSE t \in Range(TRADES) : i \in DOMAIN t.items
                IN  {of.id, of.items[i].card}])
    @@ Rows("Notification", "seed-notif-1" :> {"seed-misty"} @@ "seed-notif-2" :> {"seed-ash"})

SeededOf(tables) == {r \in DOMAIN Seeded : Seeded[r].table \in tables}

\* Mutant of Clear: the users before the trades that hold them.
UsersFirst ==
    <<"User", "TradeItem", "Trade", "DeckCard", "Deck", "PackOpeningCard", "PackOpening",
      "CurrencyTransaction", "InventoryItem", "Notification", "PackTemplate", "Card", "CardSet">>

\* clear(): deleteMany by the ids' prefix, the catalog's by the ids themselves.
Clear ==
    <<"TradeItem", "Trade", "DeckCard", "Deck", "PackOpeningCard", "PackOpening",
      "CurrencyTransaction", "InventoryItem", "Notification", "User", "PackTemplate",
      "Card", "CardSet">>

\* seed(): what each statement after clear() writes; a create takes the rows nested in it.
Writes ==
    <<SeededOf({"CardSet"}), SeededOf({"Card"}), SeededOf({"User"}),
      SeededOf({"CurrencyTransaction"}), SeededOf({"PackTemplate"}), SeededOf({"InventoryItem"}),
      SeededOf({"PackOpening", "PackOpeningCard"}), SeededOf({"Deck", "DeckCard"})>>
    \o [i \in DOMAIN TRADES |-> {TRADES[i].id} \cup DOMAIN TRADES[i].items]
    \o <<SeededOf({"Notification"})>>
=============================================================================
