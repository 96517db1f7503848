------------------------------ MODULE MCTrades ------------------------------
(* Instances of Trades for TLC. *)
EXTENDS Trades, TLC

CONSTANTS u1, u2, u3, c1, c2

Swap(give, take, pay, ask) ==
    [offered |-> [c \in Cards |-> IF c = give THEN 1 ELSE 0],
     requested |-> [c \in Cards |-> IF c = take THEN 1 ELSE 0],
     currencyFromInitiator |-> pay, currencyFromRecipient |-> ask]

\* A card for a card and a coin, either way.
MCTerms == {Swap(c1, c2, 0, 1), Swap(c2, c1, 1, 0)}

\* The same, or a coin for a card, which locks nothing.
PurchaseTerms == {Swap(c1, c2, 0, 1), Swap(None, c1, 1, 0)}

MCHoldings == [u \in Users |-> [c \in Cards |-> IF (u = u1) = (c = c1) THEN 1 ELSE 0]]

\* One coin, for the offer, the purchase and the pack to compete for.
MCCoins == [u \in Users |-> IF u = u2 THEN 1 ELSE 0]

Symmetric == Permutations(TradeIds)
=============================================================================
