-------------------------------- MODULE Seed --------------------------------
(***************************************************************************)
(* The development seed (`pnpm db:seed`) and the foreign keys it runs      *)
(* against.  The script removes the rows it knows by id and writes them    *)
(* again, one statement after another with no transaction around them, so  *)
(* it may die between any two; meanwhile members may write rows that refer *)
(* to its rows, and a catalog sync may write the cards under their ids.    *)
(*                                                                         *)
(* What a row refers to does not change; its other columns are either as   *)
(* the seed states them or changed.                                        *)
(***************************************************************************)
EXTENDS SeedRows

CONSTANTS
    Row,         \* every row there can be, the seed's and theirs: [table, refs] by id
    Theirs,      \* those the seed does not write
    Touchable,   \* seeded rows that requests, an administrator or the sync may write
    MaxTheirs,   \* bound: rows of theirs
    MaxChanges,  \* bound: seeded rows that requests change
    MaxRuns      \* bound: runs of the script

-----------------------------------------------------------------------------

VARIABLES
    db,       \* the rows there are
    cut,      \* rows whose reference was set to null
    changed,  \* seeded rows that are not as the seed states them
    touches,  \* the requests that changed one
    script,   \* the script: idle, running, done, failed or dead, and its next statement
    starts,   \* runs so far
    inTheWay, \* the rows a failed statement fell over
    wallets,  \* what the report read of the users, before their ledgers
    had       \* (ghost) what members have written that is theirs

svars == <<db, cut, changed, touches, script, starts, inTheWay, wallets, had>>

TypeOK ==
    /\ db \subseteq DOMAIN Row
    /\ cut \subseteq DOMAIN Row
    /\ changed \subseteq DOMAIN Seeded
    /\ script.is \in {"idle", "running", "done", "failed", "dead"}
    /\ script.at \in 1 .. Len(Clear) + Len(Writes) + 2
    /\ inTheWay \subseteq DOMAIN Row

\* What is a member's own: all they wrote but what hangs on a seeded user, and the price history.
IsKept(r) ==
    /\ Row[r].table # "PriceSnapshot"
    /\ \/ Row[r].table \in {"Trade", "AuditLog"}
       \/ \A s \in Row[r].refs : Row[s].table # "User" \/ s \in Theirs

\* The members signed up before.
Members == {r \in Theirs : Row[r].refs = {}}

Init ==
    /\ db = Members /\ had = Members
    /\ cut = {} /\ changed = {} /\ inTheWay = {} /\ wallets = {}
    /\ touches = 0 /\ starts = 0
    /\ script = [is |-> "idle", at |-> 1]

\* The references of r that still hold.
RefsOf(r) == IF r \in cut THEN {s \in Row[r].refs : Schema[Row[r].table][Row[s].table] # "SetNull"}
             ELSE Row[r].refs
Hanging(gone, action) ==
    {r \in db : \E s \in RefsOf(r) \cap gone : Schema[Row[r].table][Row[s].table] = action}

\* What falls with the rows: no cascade is longer than two.
Fallen(rows) ==
    LET next == rows \cup Hanging(rows, "Cascade")
    IN  next \cup Hanging(next, "Cascade")

-----------------------------------------------------------------------------
(* The script.                                                             *)

Start ==
    /\ script.is # "running"
    /\ starts < MaxRuns
    /\ starts' = starts + 1
    /\ script' = [is |-> "running", at |-> 1]
    /\ inTheWay' = {} /\ wallets' = {}
    /\ UNCHANGED <<db, cut, changed, touches, had>>

GoOn == script' = [script EXCEPT !.at = @ + 1]

\* Mutant of Throw: what cannot be written is skipped.
CarryOn(rows) == GoOn /\ inTheWay' = rows /\ UNCHANGED <<db, cut, changed>>

\* The statement throws: the process ends, what went before it stays.
Throw(rows) ==
    /\ script' = [script EXCEPT !.is = "failed"]
    /\ inTheWay' = rows
    /\ UNCHANGED <<db, cut, changed>>

Delete ==
    /\ script.is = "running"
    /\ script.at <= Len(Clear)
    /\ LET rows == SeededOf({Clear[script.at]}) \cap db
           fallen == Fallen(rows)
           held == Hanging(fallen, "Restrict")
       IN  IF held # {} THEN Throw(held)
           ELSE /\ db' = db \ fallen
                /\ cut' = (cut \cup Hanging(fallen, "SetNull")) \ fallen
                /\ changed' = changed \ fallen
                /\ GoOn
                /\ UNCHANGED inTheWay
    /\ UNCHANGED <<touches, starts, wallets, had>>

Write ==
    /\ script.is = "running"
    /\ script.at - Len(Clear) \in DOMAIN Writes
    /\ LET rows == Writes[script.at - Len(Clear)]
           missing == (UNION {Seeded[r].refs : r \in rows}) \ (db \cup rows)
       IN  IF rows \cap db # {} \/ missing # {} THEN Throw((rows \cap db) \cup missing)
           ELSE /\ db' = db \cup rows
                /\ GoOn
                /\ UNCHANGED <<cut, changed, inTheWay>>
    /\ UNCHANGED <<touches, starts, wallets, had>>

\* The report: the users are read, then their ledgers, and a balance that differs throws.  A changed
\* user's balance moved with a ledger row of its own.
ReadUsers ==
    /\ script.is = "running"
    /\ script.at = Len(Clear) + Len(Writes) + 1
    /\ wallets' = SeededOf({"User"}) \cap db \cap changed
    /\ GoOn
    /\ UNCHANGED <<db, cut, changed, touches, starts, inTheWay, had>>

LedgerOf(u) == balanceOf(Restrict(USERS[u], DOMAIN USERS[u] \cap db))
Agrees(u) == balanceOf(USERS[u]) = LedgerOf(u)

ReadLedgers ==
    /\ script.is = "running"
    /\ script.at = Len(Clear) + Len(Writes) + 2
    /\ LET users == SeededOf({"User"}) \cap db
           wrong == {u \in users : ~Agrees(u) \/ (u \in changed /\ u \notin wallets)}
       IN  /\ script' = [script EXCEPT !.is = IF wrong = {} THEN "done" ELSE "failed"]
           /\ inTheWay' = wrong
    /\ UNCHANGED <<db, cut, changed, touches, starts, wallets, had>>

Die ==
    /\ script.is = "running"
    /\ script' = [script EXCEPT !.is = "dead"]
    /\ UNCHANGED <<db, cut, changed, touches, starts, inTheWay, wallets, had>>

-----------------------------------------------------------------------------
(* Everyone else.                                                          *)

\* A member's request writes a row, which may refer to the seed's.
Request(r) ==
    /\ r \notin db
    /\ Row[r].refs \subseteq db
    /\ Cardinality(db \cap Theirs) < MaxTheirs
    /\ db' = db \cup {r}
    /\ cut' = cut \ {r}
    /\ had' = IF IsKept(r) THEN had \cup {r} ELSE had
    /\ UNCHANGED <<changed, touches, script, starts, inTheWay, wallets>>

\* A request, or an administrator, changes a seeded row.
Change(r) ==
    /\ r \in db \ changed
    /\ touches < MaxChanges
    /\ changed' = changed \cup {r}
    /\ touches' = touches + 1
    /\ UNCHANGED <<db, cut, script, starts, inTheWay, wallets, had>>

\* The catalog sync upserts a set or a card under the provider's id.
Upsert(r) ==
    /\ Seeded[r].refs \subseteq db
    /\ touches < MaxChanges
    /\ db' = db \cup {r}
    /\ changed' = changed \cup {r}
    /\ touches' = touches + 1
    /\ UNCHANGED <<cut, script, starts, inTheWay, wallets, had>>

Next ==
    \/ Start \/ Delete \/ Write \/ ReadUsers \/ ReadLedgers \/ Die
    \/ \E r \in Theirs : Request(r)
    \/ \E r \in Touchable : Change(r) \/ (r \in SeededOf({"CardSet", "Card"}) /\ Upsert(r))

Spec == Init /\ [][Next]_svars

-----------------------------------------------------------------------------

\* A run that finished has written every row again, whatever earlier runs left half done and
\* whatever was changed before it started; its users' balances are their ledgers.
DoneMeansWhole ==
    script.is = "done" => /\ DOMAIN Seeded \subseteq db
                          /\ \A u \in DOMAIN USERS : Agrees(u) /\ LedgerOf(u) >= 0

\* The escrow invariant in the seed: once it is written, what its pending trades offer is locked in
\* the offering user's stacks, and nothing else is.
Offered(i) ==
    {t \in Range(TRADES) : t.status = "PENDING" /\ t.by = Inventory[i].user}
OfferedOf(i, t) ==
    {o \in DOMAIN t.items : t.items[o].side = "OFFERED" /\ t.items[o].card = Inventory[i].card}
LocksAreTheOffers ==
    script.is = "done" =>
        \A i \in DOMAIN Inventory \ changed :
            /\ Inventory[i].locked =
                 MapThenSumSet(LAMBDA t : MapThenSumSet(LAMBDA o : t.items[o].quantity, OfferedOf(i, t)),
                               Offered(i))
            /\ Inventory[i].locked <= Inventory[i].quantity

\* A run never fails over the seed's own rows as a run left them, finished or not: only over what
\* others wrote or changed.
FailsOverOthersOnly ==
    script.is = "failed" => inTheWay \cap (Theirs \cup changed) # {}

\* Nothing a member has, or did, goes with the seed's rows: neither their cards, openings, decks and
\* trades nor what an administrator did.
MembersKeepWhatIsTheirs == had \subseteq db
=============================================================================
