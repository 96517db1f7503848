--------------------------- MODULE MCPackOpening ---------------------------
(* Instances of PackOpening for TLC. *)
EXTENDS PackOpening, TLC

CONSTANTS u1, u2, t1, o1, o2, r1, r2, r3, g1, g2

\* One member, two openings and a retry of the first, with coins for one.
FundsAsk ==
    [r \in {r1, r2, r3} |-> [userId |-> u1, templateId |-> t1,
                             openId |-> IF r = r3 THEN o2 ELSE o1]]

\* r1 and r2 ask for the same thing so they are interchangeable.
Twins == Permutations({r1, r2})

MCGrantAmounts == [g \in {g1, g2} |-> IF g = g1 THEN 1 ELSE -1]
=============================================================================
