------------------------------- MODULE Decks -------------------------------
(* One saved deck: DecksService and DeckValidationService.  The deck is a row  *)
(* of decks and its entries in deck_cards, and every operation reads or writes *)
(* the two in separate statements of READ COMMITTED: a statement sees what is  *)
(* committed when it starts.  An entry stands for a card with its count; two   *)
(* entries of one card would collide on the primary key.                       *)
EXTENDS Integers, FiniteSets

CONSTANTS
    Requests,
    Patches,   \* what a save may send: [format: {} or {f}, cards: {} or {list}]
    Reads,     \* which of "clone", "get", "stats", "validate", "list" are asked
    First      \* the deck as it was created: [format, cards]

VARIABLES
    row,       \* {}, or {format} of the committed row
    cards,     \* the committed entries
    rowLock,   \* {}, or {r}: the transaction that has locked the row
    req,       \* each request: its step, and what it read or will write
    copies,    \* the clones, as they were inserted
    ideal,     \* ghost: {}, or {deck} after the committed requests one by one
    versions   \* ghost: every deck that was ever committed

dvars == <<row, cards, rowLock, req, copies, ideal, versions>>

Operations == {"update", "remove"} \cup Reads
NoPatch == [format |-> {}, cards |-> {}]

Idle == [op |-> "none", step |-> "idle", patch |-> NoPatch, saw |-> {},
         doomed |-> {}, added |-> {}, answer |-> {}]

DeckOf(f, list) == [format |-> f, cards |-> list]

TypeOK ==
    /\ row \subseteq {First.format} \cup UNION {p.format : p \in Patches}
    /\ Cardinality(row) <= 1
    /\ cards \subseteq First.cards \cup UNION UNION {p.cards : p \in Patches}
    /\ rowLock \subseteq Requests
    /\ \A r \in Requests : req[r].op \in Operations \cup {"none"} /\ req[r].patch \in Patches \cup {NoPatch}
    /\ ideal \subseteq versions

Init ==
    /\ row = {First.format} /\ cards = First.cards /\ rowLock = {}
    /\ req = [r \in Requests |-> Idle]
    /\ copies = {} /\ ideal = {First} /\ versions = {First}

Goes(r, step) == req' = [req EXCEPT ![r].step = step]

\* A request arrives; what it wants stays with it.
Ask(r) ==
    /\ req[r].step = "idle"
    /\ \E op \in Operations : \E patch \in IF op = "update" THEN Patches ELSE {NoPatch} :
          req' = [req EXCEPT ![r].op = op, ![r].step = "find", ![r].patch = patch]
    /\ UNCHANGED <<row, cards, rowLock, copies, ideal, versions>>

\* The row is read by id, without a lock; a deck that is gone is a 404.
ReadRow(r, next) ==
    /\ req' = [req EXCEPT ![r].saw = row, ![r].step = IF row = {} THEN "missing" ELSE next]
    /\ UNCHANGED <<row, cards, rowLock, copies, ideal, versions>>

\* Every operation on a deck finds it first.  validate and the list read it again
\* for the verdict; the list leaves out a deck that is gone by then.
Find(r) ==
    \/ /\ req[r].step = "find"
       /\ ReadRow(r, IF req[r].op \in {"update", "remove"} THEN "write"
                     ELSE IF req[r].op \in {"validate", "list"} THEN "again"
                     ELSE "entries")
    \/ req[r].step = "again" /\ ReadRow(r, "entries")

-----------------------------------------------------------------------------
(* A save.                                                                 *)

AfterLock(r) == IF req[r].patch.cards = {} THEN "result" ELSE "delete"

\* deck.update takes the row's lock, or waits for it.  Prisma answers P2025, a
\* 404, when the row is gone by then.
TakeRow(r) ==
    /\ rowLock = {}
    /\ IF row = {}
       THEN Goes(r, "missing") /\ UNCHANGED rowLock
       ELSE Goes(r, AfterLock(r)) /\ rowLock' = {r}

\* updatedAt is written by every save, so that every save has the row first.
\* Were it not, a save of the cards alone would lock no row.
LockIfItChanges(r) ==
    /\ req[r].step = "write" /\ req[r].op = "update"
    /\ IF req[r].patch.format = {} THEN Goes(r, AfterLock(r)) /\ UNCHANGED rowLock
                                    ELSE TakeRow(r)
    /\ UNCHANGED <<row, cards, copies, ideal, versions>>

Lock(r) ==
    /\ req[r].step = "write" /\ req[r].op = "update"
    /\ TakeRow(r)
    /\ UNCHANGED <<row, cards, copies, ideal, versions>>

\* deleteMany waits for entries another transaction is deleting, and then takes
\* those its own snapshot held.
DeleteEntries(r) ==
    /\ req[r].step = "delete"
    /\ \A other \in Requests \ {r} : req[other].doomed \cap cards = {}
    /\ req' = [req EXCEPT ![r].step = "insert", ![r].doomed = cards]
    /\ UNCHANGED <<row, cards, rowLock, copies, ideal, versions>>

\* createMany.
InsertEntries(r) ==
    /\ req[r].step = "insert"
    /\ req' = [req EXCEPT ![r].step = "result", ![r].added = UNION req[r].patch.cards]
    /\ UNCHANGED <<row, cards, rowLock, copies, ideal, versions>>

\* The deck as transaction r sees it, and the next one under a patch.
RowSeen(r) == IF req[r].patch.format = {} THEN row ELSE req[r].patch.format
EntriesSeen(r) == (cards \ req[r].doomed) \cup req[r].added
Patched(deck, patch) ==
    DeckOf(IF patch.format = {} THEN deck.format ELSE CHOOSE f \in patch.format : TRUE,
           IF patch.cards = {} THEN deck.cards ELSE UNION patch.cards)

\* saveResult: the deck is read back, with its verdict, inside the transaction.
SaveResult(r) ==
    /\ req[r].step = "result"
    /\ req' = [req EXCEPT ![r].step = "commit",
                          ![r].answer = {DeckOf(f, EntriesSeen(r)) : f \in RowSeen(r)}]
    /\ UNCHANGED <<row, cards, rowLock, copies, ideal, versions>>

Commit(r) ==
    /\ req[r].step = "commit"
    /\ row' = RowSeen(r) /\ cards' = EntriesSeen(r)
    /\ ideal' = {Patched(d, req[r].patch) : d \in ideal}
    /\ versions' = versions \cup ideal'
    /\ rowLock' = rowLock \ {r}
    /\ req' = [req EXCEPT ![r].step = "saved", ![r].doomed = {}, ![r].added = {}]
    /\ UNCHANGED copies

\* Any statement may fail, and the transaction is rolled back.
Abort(r) ==
    /\ req[r].step \in {"find", "write", "delete", "insert", "result", "commit",
                        "entries", "again"}
    /\ req' = [req EXCEPT ![r].step = "failed", ![r].doomed = {}, ![r].added = {}]
    /\ rowLock' = rowLock \ {r}
    /\ UNCHANGED <<row, cards, copies, ideal, versions>>

\* remove: one DELETE, which waits for the row, and cascades to the entries.
Remove(r) ==
    /\ req[r].step = "write" /\ req[r].op = "remove" /\ rowLock = {}
    /\ Goes(r, IF row = {} THEN "missing" ELSE "removed")
    /\ row' = {} /\ cards' = {} /\ ideal' = {}
    /\ UNCHANGED <<rowLock, copies, versions>>

-----------------------------------------------------------------------------
(* The reads.                                                              *)

\* The entries come in a second statement, and the answer is made of both; so is
\* the row and the list of a clone.
Entries(r) ==
    /\ req[r].step = "entries"
    /\ LET both == {DeckOf(f, cards) : f \in req[r].saw}
       IN /\ req' = [req EXCEPT ![r].step = "read", ![r].answer = both]
          /\ copies' = IF req[r].op = "clone" THEN copies \cup both ELSE copies
    /\ UNCHANGED <<row, cards, rowLock, ideal, versions>>

Next == \E r \in Requests :
    \/ Ask(r) \/ Find(r) \/ Lock(r) \/ DeleteEntries(r) \/ InsertEntries(r)
    \/ SaveResult(r) \/ Commit(r) \/ Abort(r) \/ Remove(r) \/ Entries(r)

Spec == Init /\ [][Next]_dvars

-----------------------------------------------------------------------------

\* Two saves of one deck do not interleave (docs/API.md, "Decks"): the deck is
\* what the committed saves make of it one after the other, whoever waited for
\* whom, a save that lost to a removal does not bring it back, a save answers with
\* a deck that was really committed, and a copy, whose row and entries may be of
\* two saves, has the whole list of one of them, or none of a deck that is gone.
SavesAreSerial ==
    /\ {DeckOf(f, cards) : f \in row} = ideal
    /\ row = {} => cards = {}
    /\ \A r \in Requests : req[r].step = "saved" => req[r].answer \subseteq versions
    /\ \A c \in copies : \E v \in versions :
          c.cards = v.cards \/ (c.cards = {} /\ row = {})
=============================================================================
