--------------------------- MODULE PackTemplates ---------------------------
(***************************************************************************)
(* What a pack can contain: the admins' edits of a template, each checked  *)
(* against the catalog in its own transaction, the catalog that may lose a *)
(* rarity later, and the draw.  One template of one slot is modelled: the  *)
(* slots are checked, and drawn from, one by one.                          *)
(*                                                                         *)
(* A rarity is a number, in the order compare() gives their names.  Chance *)
(* is every value the generator's 32-bit numbers can take, here WordBits.  *)
(***************************************************************************)
EXTENDS Integers, FiniteSets, Functions

CONSTANTS
    Cards, SetOf,   \* the cards, and the set of each
    Rarity,         \* Rarity[c] at first; 0 is a card without one
    Slots,          \* the slots an admin may save: weights by rarity
    Covers,         \* the cards an admin may feature
    Editors,        \* PATCH requests
    MaxDrifts,      \* bound: cards whose rarity differs from the first one
    WordBits        \* width of one random number

Rarities == {Rarity[c] : c \in Cards} \ {0}
Sets == {SetOf[c] : c \in Cards}
NoCover == 0

VARIABLES
    rarity,   \* the cards' rarities now
    template, \* the row: its sets, the slot's weights, the featured card
    edit,     \* edit[e]: where PATCH e stands, its body and what it read
    pull      \* the last draw: what was rolled and what was given, 0 for none

tvars == <<rarity, template, edit, pull>>

Template == [sets : (SUBSET Sets) \ {{}}, slot : Slots, cover : Covers \cup {NoCover}]
Fields == {"sets", "slot", "cover"}

TypeOK ==
    /\ rarity \in [Cards -> Rarities \cup {0}]
    /\ template \in Template
    /\ \A e \in Editors : edit[e].step \in {"idle", "checking", "saved", "refused"}
    /\ pull \in [rolled : Rarities \cup {0}, used : Rarities \cup {0}]

\* assertPool: every rarity the slot names, whatever its weight, is in the sets.
PoolOf(sets) == {rarity[c] : c \in {d \in Cards : SetOf[d] \in sets}} \ {0}
FitsPool(t) == DOMAIN t.slot \subseteq PoolOf(t.sets)
\* assertCover: the featured card, if there is one, is in the sets.
FitsCover(t) == t.cover # NoCover => SetOf[t.cover] \in t.sets

Init ==
    /\ rarity = Rarity
    /\ template \in {t \in Template : FitsPool(t) /\ FitsCover(t)}
    /\ edit = [e \in Editors |-> [step |-> "idle"]]
    /\ pull = [rolled |-> 0, used |-> 0]

-----------------------------------------------------------------------------
(* PATCH /admin/pack-templates/:id.                                        *)

\* The editor sends the fields that differ from what it loaded.
Patches == {p \in ((SUBSET Fields) \ {{}}) \X Template :
              \A f \in Fields : (p[2][f] # template[f]) <=> f \in p[1]}

\* The transaction reads the row, and locks nothing.
Read(e) ==
    /\ edit[e].step = "idle"
    /\ \E p \in Patches :
          edit' = [edit EXCEPT ![e] = [step |-> "checking", fields |-> p[1], body |-> p[2],
                                       seen |-> template]]
    /\ UNCHANGED <<rarity, template, pull>>

Patched(t, e) == [f \in Fields |-> IF f \in edit[e].fields THEN edit[e].body[f] ELSE t[f]]

\* Only what a pack can contain is checked, against the row as it was read.
Refused(e) ==
    \/ edit[e].fields \cap {"sets", "slot"} # {} /\ ~FitsPool(Patched(edit[e].seen, e))
    \/ edit[e].fields \cap {"sets", "cover"} # {} /\ ~FitsCover(Patched(edit[e].seen, e))

\* The row is written, in the fields of the patch, or refused with 400.
Save(e) ==
    /\ edit[e].step = "checking"
    /\ template' = IF Refused(e) THEN template ELSE Patched(template, e)
    /\ edit' = [edit EXCEPT ![e] = [step |-> IF Refused(e) THEN "refused" ELSE "saved"]]
    /\ UNCHANGED <<rarity, pull>>

\* The catalog sync writes a card again, without its rarity or with another.
Drift ==
    /\ \E c \in Cards : \E r \in Rarities \cup {0} : rarity' = [rarity EXCEPT ![c] = r]
    /\ Cardinality({c \in Cards : rarity'[c] # Rarity[c]}) <= MaxDrifts
    /\ UNCHANGED <<template, edit, pull>>

-----------------------------------------------------------------------------
(* The draw.                                                               *)

\* ladderOf: rarities of positive weight, the most likely first.
Rungs(slot) == {r \in DOMAIN slot : slot[r] > 0}
Commoner(slot, a, b) == slot[a] > slot[b] \/ (slot[a] = slot[b] /\ a < b)

Total(slot) == SumFunctionOnSet(slot, Rungs(slot))

\* roll: the first rung whose cumulative weight exceeds n.
Roll(slot, n) ==
    CHOOSE r \in Rungs(slot) :
        LET below == SumFunctionOnSet(slot, {s \in Rungs(slot) : Commoner(slot, s, r)})
        IN below <= n /\ n < below + slot[r]

\* Mutant of Accepted: the remainder of the range is not thrown away.
AcceptedAll(max) == 0 .. 2^WordBits - 1
\* SeededRng.int: numbers at or above the largest multiple of max are drawn again.
Accepted(max) == 0 .. 2^WordBits - (2^WordBits % max) - 1

\* The order in which resolve looks for a bucket that is not empty.
Earlier(slot, rolled, a, b) ==
    LET up(r) == Commoner(slot, rolled, r) IN
    CASE ~up(a) /\ up(b) -> TRUE
      [] up(a) /\ ~up(b) -> FALSE
      [] up(a) /\ up(b) -> Commoner(slot, a, b)
      [] OTHER -> Commoner(slot, b, a)

Filled(slot) == Rungs(slot) \cap PoolOf(template.sets)

\* Mutant of Resolve: the commonest bucket that has cards.
ResolveToCommonest(slot, rolled) ==
    CHOOSE r \in Filled(slot) : \A s \in Filled(slot) \ {r} : Commoner(slot, r, s)
Resolve(slot, rolled) ==
    CHOOSE r \in Filled(slot) : \A s \in Filled(slot) \ {r} : Earlier(slot, rolled, r, s)

\* generatePack: one card of the slot, or EmptySlotError.
Draw ==
    /\ \E n \in {v % Total(template.slot) : v \in Accepted(Total(template.slot))} :
          LET rolled == Roll(template.slot, n) IN
          pull' = [rolled |-> rolled,
                   used |-> IF Filled(template.slot) = {} THEN 0
                            ELSE Resolve(template.slot, rolled)]
    /\ UNCHANGED <<rarity, template, edit>>

Next == \/ \E e \in Editors : Read(e) \/ Save(e)
        \/ Drift \/ Draw

Spec == Init /\ [][Next]_tvars

-----------------------------------------------------------------------------

\* The odds shown are the odds drawn, exactly: of the random numbers that are not
\* thrown away, each rarity has its weight's share (slotOdds, SeededRng.int).
OddsAreExact ==
    LET slot == template.slot IN
    \A r \in Rungs(slot) :
        Cardinality({v \in Accepted(Total(slot)) : Roll(slot, v % Total(slot)) = r}) * Total(slot)
            = slot[r] * Cardinality(Accepted(Total(slot)))

\* A template that has drifted from the catalog gives a commoner card than was
\* rolled, the nearest one, and a rarer one only where there is nothing commoner;
\* it refuses only when the slot has no card left (docs/API.md, the draw).
FallsBackDownFirst ==
    [][pull' # pull =>
        LET slot == template.slot
            rolled == pull'.rolled
            used == pull'.used
            pool == PoolOf(template.sets)
        IN IF used = 0 THEN Rungs(slot) \cap pool = {}
           ELSE /\ used \in Rungs(slot) \cap pool
                /\ used # rolled => rolled \notin pool
                /\ \A r \in Rungs(slot) \cap pool :
                      ~Commoner(slot, rolled, r) =>
                          ~Commoner(slot, rolled, used) /\ slot[r] >= slot[used]]_tvars
=============================================================================
