--------------------------- MODULE Services_proofs ---------------------------
(***************************************************************************)
(* Theorems about five services, each for any number of requests: saved    *)
(* decks (Decks), the read cache (ReadCache), the admin's sync controls    *)
(* (AdminSync), the price refreshes (PriceUpdates) and what a pack can     *)
(* contain (PackTemplates); and about the locks of every service's         *)
(* transactions (LockOrder).  They are independent of each other.          *)
(***************************************************************************)
EXTENDS LockOrder, FiniteSetTheorems, SequenceTheorems, SumTheorems, TLAPS

-----------------------------------------------------------------------------
(* Saved decks.                                                            *)

CONSTANTS Requests, Patches, Reads, First
VARIABLES row, cards, rowLock, req, copies, ideal, versions

Deck == INSTANCE Decks

Formats == {First.format} \cup UNION {p.format : p \in Patches}
Entries == First.cards \cup UNION UNION {p.cards : p \in Patches}
SavedDeck == [format : Formats, cards : SUBSET Entries]

\* A save sends one format or none, and one list or none.
Whole(patch) ==
    /\ patch.format = {} \/ \E f \in Formats : patch.format = {f}
    /\ patch.cards = {} \/ \E list \in SUBSET Entries : patch.cards = {list}

DecksAreSensible ==
    /\ First = [format |-> First.format, cards |-> First.cards]
    /\ \A p \in Patches : Whole(p)
    /\ Reads \subseteq {"clone", "get", "stats", "validate", "list"}

Saving == {"delete", "insert", "result", "commit"}
Steps == {"idle", "find", "write", "again", "entries", "missing", "failed", "removed", "read",
          "saved"} \cup Saving
Request == [op : Deck!Operations \cup {"none"}, step : Steps,
            patch : Patches \cup {Deck!NoPatch}, saw : SUBSET Formats,
            doomed : SUBSET Entries, added : SUBSET Entries, answer : SUBSET SavedDeck]

DeckShape ==
    /\ req \in [Requests -> Request]
    /\ row = {} \/ \E f \in Formats : row = {f}
    /\ cards \in SUBSET Entries
    /\ rowLock = {} \/ \E r \in Requests : rowLock = {r}

\* What a request that saves will commit, as it sees it.
Answered(r) == {Deck!DeckOf(f, Deck!EntriesSeen(r)) : f \in Deck!RowSeen(r)}

\* What a request has deleted are the deck's entries, what it has added is its
\* list, and its answer is what it will commit.
RequestOK(r) ==
    /\ req[r].step \notin {"insert", "result", "commit"} => req[r].doomed = {}
    /\ req[r].step \notin {"result", "commit"} => req[r].added = {}
    /\ req[r].step \in {"delete", "insert"} => req[r].patch.cards # {}
    /\ req[r].step = "insert" => req[r].doomed = cards
    /\ req[r].step \in {"result", "commit"} =>
          /\ req[r].doomed = IF req[r].patch.cards = {} THEN {} ELSE cards
          /\ req[r].added = UNION req[r].patch.cards
    /\ req[r].step = "commit" => req[r].answer = Answered(r)

\* One transaction at a time has the row, from its update to its commit.
DeckInv ==
    /\ \A r \in Requests : req[r].step \in Saving <=> rowLock = {r}
    /\ rowLock # {} => row # {}
    /\ \A r \in Requests : RequestOK(r)
    /\ ideal \subseteq versions /\ First \in versions
    /\ Deck!SavesAreSerial

LEMMA PatchIsWhole ==
    ASSUME DecksAreSensible, DeckShape, NEW r \in Requests
    PROVE  Whole(req[r].patch)
<1>1. req[r].patch \in Patches \cup {Deck!NoPatch}
  BY DEF DeckShape, Request
<1>2. Whole(Deck!NoPatch)
  BY DEF Whole, Deck!NoPatch
<1> QED
  BY <1>1, <1>2 DEF DecksAreSensible

LEMMA DeckAtFirst ==
    ASSUME DecksAreSensible, Deck!Init
    PROVE  DeckShape /\ DeckInv
<1>1. /\ row = {First.format} /\ cards = First.cards /\ rowLock = {}
      /\ req = [r \in Requests |-> Deck!Idle]
      /\ copies = {} /\ ideal = {First} /\ versions = {First}
  BY DEF Deck!Init
<1>2. Deck!Idle \in Request
  BY DEF Deck!Idle, Request, Steps
<1>3. \A r \in Requests : /\ req[r].step = "idle" /\ req[r].doomed = {} /\ req[r].added = {}
  BY <1>1 DEF Deck!Idle
<1>4. {Deck!DeckOf(f, cards) : f \in row} = ideal
  BY <1>1 DEF DecksAreSensible, Deck!DeckOf
<1> QED
  BY <1>1, <1>2, <1>3, <1>4 DEF DeckShape, DeckInv, RequestOK, Deck!SavesAreSerial, Formats, Entries, Saving

\* A step of one request that only changes what the request has.
LEMMA RequestMoves ==
    ASSUME DeckShape, NEW r \in Requests, NEW q \in Request, req' = [req EXCEPT ![r] = q],
           UNCHANGED <<row, cards, rowLock>>
    PROVE  /\ DeckShape' /\ req'[r] = q /\ \A s \in Requests \ {r} : req'[s] = req[s]
           /\ DeckInv => \A s \in Requests \ {r} : RequestOK(s)'
<1>1. DeckShape' /\ req'[r] = q /\ \A s \in Requests \ {r} : req'[s] = req[s]
  BY DEF DeckShape
<1>2. ASSUME NEW s \in Requests, req'[s] = req[s] PROVE Answered(s)' = Answered(s)
  <2>1. Deck!EntriesSeen(s)' = Deck!EntriesSeen(s)
    BY <1>2 DEF Deck!EntriesSeen
  <2>2. Deck!RowSeen(s)' = Deck!RowSeen(s)
    BY <1>2 DEF Deck!RowSeen
  <2> QED
    BY <2>1, <2>2 DEF Answered, Deck!DeckOf
<1>3. ASSUME NEW s \in Requests \ {r}, RequestOK(s) PROVE RequestOK(s)'
  BY <1>1, <1>2, <1>3 DEF RequestOK
<1> QED
  BY <1>1, <1>3 DEF DeckInv

\* A request outside the transaction moves on, and the deck stays as it is.
LEMMA QuietRequest ==
    ASSUME DecksAreSensible, DeckShape, DeckInv, NEW r \in Requests, NEW q \in Request,
           req' = [req EXCEPT ![r] = q], UNCHANGED <<row, cards, rowLock, ideal, versions>>,
           req[r].step \notin Saving, q.step \notin Saving \cup {"saved"},
           q.doomed = {}, q.added = {},
           \A c \in copies' \ copies : \E v \in versions :
               c.cards = v.cards \/ (c.cards = {} /\ row = {})
    PROVE  DeckShape' /\ DeckInv'
<1>1. /\ DeckShape' /\ req'[r] = q /\ \A s \in Requests \ {r} : req'[s] = req[s]
      /\ \A s \in Requests \ {r} : RequestOK(s)'
  BY RequestMoves
<1>2. \A s \in Requests : req'[s].step \in Saving <=> rowLock' = {s}
  BY <1>1 DEF DeckInv
<1>3. q.step \notin {"insert", "result", "commit", "delete", "saved"}
  BY DEF Saving
<1>4. Deck!SavesAreSerial'
  BY <1>1, <1>3 DEF DeckInv, Deck!SavesAreSerial
<1>5. RequestOK(r)'
  BY <1>1, <1>3 DEF RequestOK
<1> QED
  BY <1>1, <1>2, <1>4, <1>5 DEF DeckInv

\* A step of the transaction that writes nothing yet.
LEMMA QuietSaver ==
    ASSUME DecksAreSensible, DeckShape, DeckInv, NEW r \in Requests, NEW q \in Request,
           req' = [req EXCEPT ![r] = q], UNCHANGED <<row, cards, rowLock, copies, ideal, versions>>,
           req[r].step \in Saving, q.step \in Saving,
           q.step \notin {"insert", "result", "commit"} => q.doomed = {},
           q.step \notin {"result", "commit"} => q.added = {},
           q.step \in {"delete", "insert"} => q.patch.cards # {},
           q.step = "insert" => q.doomed = cards,
           q.step \in {"result", "commit"} =>
               /\ q.doomed = IF q.patch.cards = {} THEN {} ELSE cards
               /\ q.added = UNION q.patch.cards,
           q.step = "commit" =>
               q.answer = {Deck!DeckOf(f, (cards \ q.doomed) \cup q.added) :
                              f \in IF q.patch.format = {} THEN row ELSE q.patch.format}
    PROVE  DeckShape' /\ DeckInv'
<1>1. /\ DeckShape' /\ req'[r] = q /\ \A s \in Requests \ {r} : req'[s] = req[s]
      /\ \A s \in Requests \ {r} : RequestOK(s)'
  BY RequestMoves
<1>2. \A s \in Requests : req'[s].step \in Saving <=> rowLock' = {s}
  BY <1>1 DEF DeckInv
<1>3. q.step # "saved"
  BY DEF Saving
<1>4. Deck!SavesAreSerial'
  BY <1>1, <1>3 DEF DeckInv, Deck!SavesAreSerial
<1>5. Answered(r)' = {Deck!DeckOf(f, (cards \ q.doomed) \cup q.added) :
                         f \in IF q.patch.format = {} THEN row ELSE q.patch.format}
  BY <1>1 DEF Answered, Deck!EntriesSeen, Deck!RowSeen, Deck!DeckOf
<1>6. RequestOK(r)'
  BY <1>1, <1>5 DEF RequestOK
<1> QED
  BY <1>1, <1>2, <1>4, <1>6 DEF DeckInv

\* The transaction has ended: nobody has the row.
LEMMA NobodySaves ==
    ASSUME DeckShape, DeckInv, rowLock = {}
    PROVE  \A r \in Requests : req[r].step \notin Saving
BY DEF DeckInv

LEMMA DeckStays ==
    ASSUME DecksAreSensible, DeckShape, DeckInv, [Deck!Next]_(Deck!dvars)
    PROVE  DeckShape' /\ DeckInv'
<1>1. ASSUME NEW r \in Requests PROVE req[r] \in Request
  BY <1>1 DEF DeckShape
<1>2. CASE UNCHANGED Deck!dvars
  <2>1. UNCHANGED <<row, cards, rowLock, req, copies, ideal, versions>>
    BY <1>2 DEF Deck!dvars
  <2>2. DeckShape' /\ Deck!SavesAreSerial'
    BY <2>1 DEF DeckShape, DeckInv, Deck!SavesAreSerial, Deck!DeckOf
  <2>3. ASSUME NEW r \in Requests PROVE RequestOK(r)'
    <3>1. Deck!EntriesSeen(r)' = Deck!EntriesSeen(r) /\ Deck!RowSeen(r)' = Deck!RowSeen(r)
      BY <2>1 DEF Deck!EntriesSeen, Deck!RowSeen
    <3>2. Answered(r)' = Answered(r)
      BY <3>1 DEF Answered, Deck!DeckOf
    <3>3. RequestOK(r)
      BY <2>3 DEF DeckInv
    <3> QED
      BY <2>1, <3>2, <3>3 DEF RequestOK
  <2> QED
    BY <2>1, <2>2, <2>3 DEF DeckInv
<1>3. ASSUME NEW r \in Requests, Deck!Ask(r) PROVE DeckShape' /\ DeckInv'
  <2>1. req[r].step = "idle" /\ UNCHANGED <<row, cards, rowLock, copies, ideal, versions>>
    BY <1>3 DEF Deck!Ask
  <2>2. PICK op \in Deck!Operations :
            \E patch \in IF op = "update" THEN Patches ELSE {Deck!NoPatch} :
               req' = [req EXCEPT ![r].op = op, ![r].step = "find", ![r].patch = patch]
    BY <1>3 DEF Deck!Ask
  <2>3. PICK patch \in Patches \cup {Deck!NoPatch} :
            req' = [req EXCEPT ![r].op = op, ![r].step = "find", ![r].patch = patch]
    BY <2>2
  <2> DEFINE q == [req[r] EXCEPT !.op = op, !.step = "find", !.patch = patch]
  <2>4. req' = [req EXCEPT ![r] = q]
    BY <1>1, <1>3, <2>3 DEF DeckShape
  <2>5. q \in Request
    BY <1>1, <1>3 DEF Request, Steps
  <2>6. q.step = "find" /\ q.doomed = req[r].doomed /\ q.added = req[r].added
    BY <1>1, <1>3 DEF Request
  <2>7. q.doomed = {} /\ q.added = {}
    BY <1>3, <2>1, <2>6 DEF DeckInv, RequestOK
  <2> HIDE DEF q
  <2> QED
    BY <1>3, <2>1, <2>4, <2>5, <2>6, <2>7, QuietRequest DEF Saving
<1>4. ASSUME NEW r \in Requests, Deck!Find(r) PROVE DeckShape' /\ DeckInv'
  <2>1. PICK next \in {"write", "again", "entries"} : Deck!ReadRow(r, next)
    BY <1>4 DEF Deck!Find
  <2>2. req[r].step \in {"find", "again"}
    BY <1>4 DEF Deck!Find
  <2>3. UNCHANGED <<row, cards, rowLock, copies, ideal, versions>>
    BY <2>1 DEF Deck!ReadRow
  <2> DEFINE step == IF row = {} THEN "missing" ELSE next
             q == [req[r] EXCEPT !.saw = row, !.step = step]
  <2>4. req' = [req EXCEPT ![r] = q]
    BY <1>1, <1>4, <2>1 DEF Deck!ReadRow, DeckShape
  <2>5. step \in {"missing", "write", "again", "entries"} /\ row \in SUBSET Formats
    BY <2>1 DEF DeckShape
  <2> HIDE DEF step
  <2>6. q \in Request
    BY <1>1, <1>4, <2>5 DEF Request, Steps
  <2>7. q.step = step /\ q.doomed = req[r].doomed /\ q.added = req[r].added
    BY <1>1, <1>4 DEF Request
  <2>8. q.doomed = {} /\ q.added = {}
    BY <1>4, <2>2, <2>7 DEF DeckInv, RequestOK
  <2> HIDE DEF q
  <2> QED
    BY <1>4, <2>2, <2>3, <2>4, <2>5, <2>6, <2>7, <2>8, QuietRequest DEF Saving
<1>5. ASSUME NEW r \in Requests, Deck!Lock(r) PROVE DeckShape' /\ DeckInv'
  <2>1. /\ req[r].step = "write" /\ UNCHANGED <<row, cards, copies, ideal, versions>>
        /\ rowLock = {} /\ Deck!TakeRow(r)
    BY <1>5 DEF Deck!Lock, Deck!TakeRow
  <2>2. req[r].doomed = {} /\ req[r].added = {} /\ req[r].step \notin Saving
    BY <1>5, <2>1 DEF DeckInv, RequestOK, Saving
  <2> DEFINE step == IF row = {} THEN "missing" ELSE Deck!AfterLock(r)
             q == [req[r] EXCEPT !.step = step]
  <2>3. req' = [req EXCEPT ![r] = q]
    BY <1>1, <1>5, <2>1 DEF Deck!TakeRow, Deck!Goes, DeckShape
  <2>4. /\ row = {} => step = "missing"
        /\ row # {} => step = IF req[r].patch.cards = {} THEN "result" ELSE "delete"
    BY DEF Deck!AfterLock
  <2> HIDE DEF step
  <2>5. step \in {"missing", "result", "delete"}
    BY <2>4
  <2>6. q \in Request
    BY <1>1, <1>5, <2>5 DEF Request, Steps, Saving
  <2>7. /\ q.step = step /\ q.doomed = req[r].doomed /\ q.added = req[r].added
        /\ q.patch = req[r].patch
    BY <1>1, <1>5 DEF Request
  <2> HIDE DEF q
  <2>8. CASE row = {}
    <3>1. UNCHANGED rowLock
      BY <2>1, <2>8 DEF Deck!TakeRow
    <3> QED
      BY <1>5, <2>1, <2>2, <2>3, <2>4, <2>6, <2>7, <2>8, <3>1, QuietRequest DEF Saving
  <2>9. CASE row # {}
    <3>1. rowLock' = {r}
      BY <2>1, <2>9 DEF Deck!TakeRow
    <3>2. req'[r] = q /\ \A s \in Requests \ {r} : req'[s] = req[s]
      BY <1>5, <2>3 DEF DeckShape
    <3>3. DeckShape'
      BY <1>5, <2>1, <2>3, <2>6, <3>1 DEF DeckShape
    <3>4. \A s \in Requests : req'[s].step \in Saving <=> rowLock' = {s}
      BY <2>1, <2>4, <2>7, <2>9, <3>1, <3>2, NobodySaves DEF Saving
    <3>5. ASSUME NEW s \in Requests PROVE RequestOK(s)'
      <4>1. req'[s].step # "commit"
        BY <2>1, <2>4, <2>7, <2>9, <3>2, NobodySaves DEF Saving
      <4>2. CASE s = r
        BY <2>2, <2>4, <2>7, <2>9, <3>2, <4>1, <4>2 DEF RequestOK
      <4>3. CASE s # r
        BY <2>1, <3>2, <4>1, <4>3 DEF DeckInv, RequestOK
      <4> QED BY <4>2, <4>3
    <3>6. Deck!SavesAreSerial'
      BY <2>1, <2>4, <2>7, <2>9, <3>2 DEF DeckInv, Deck!SavesAreSerial, Deck!DeckOf
    <3> QED
      BY <2>1, <2>9, <3>3, <3>4, <3>5, <3>6 DEF DeckInv
  <2> QED BY <2>8, <2>9
<1>6. ASSUME NEW r \in Requests, Deck!DeleteEntries(r) PROVE DeckShape' /\ DeckInv'
  <2>1. /\ req[r].step = "delete" /\ UNCHANGED <<row, cards, rowLock, copies, ideal, versions>>
        /\ req' = [req EXCEPT ![r].step = "insert", ![r].doomed = cards]
    BY <1>6 DEF Deck!DeleteEntries
  <2>2. req[r].added = {} /\ req[r].step \in Saving /\ req[r].patch.cards # {}
    BY <1>6, <2>1 DEF DeckInv, RequestOK, Saving
  <2> DEFINE q == [req[r] EXCEPT !.step = "insert", !.doomed = cards]
  <2>3. req' = [req EXCEPT ![r] = q]
    BY <1>1, <1>6, <2>1 DEF DeckShape
  <2>4. q \in Request
    BY <1>1, <1>6 DEF Request, Steps, Saving, DeckShape
  <2>5. /\ q.step = "insert" /\ q.doomed = cards /\ q.added = req[r].added
        /\ q.patch = req[r].patch
    BY <1>1, <1>6 DEF Request
  <2> HIDE DEF q
  <2> QED
    BY <1>6, <2>1, <2>2, <2>3, <2>4, <2>5, QuietSaver DEF Saving
<1>7. ASSUME NEW r \in Requests, Deck!InsertEntries(r) PROVE DeckShape' /\ DeckInv'
  <2>1. /\ req[r].step = "insert" /\ UNCHANGED <<row, cards, rowLock, copies, ideal, versions>>
        /\ req' = [req EXCEPT ![r].step = "result", ![r].added = UNION req[r].patch.cards]
    BY <1>7 DEF Deck!InsertEntries
  <2>2. /\ req[r].doomed = cards /\ req[r].step \in Saving /\ req[r].patch.cards # {}
    BY <1>7, <2>1 DEF DeckInv, RequestOK, Saving
  <2>3. UNION req[r].patch.cards \in SUBSET Entries
    BY <1>7, PatchIsWhole DEF Whole
  <2> DEFINE added == UNION req[r].patch.cards
             q == [req[r] EXCEPT !.step = "result", !.added = added]
  <2>4. req' = [req EXCEPT ![r] = q]
    BY <1>1, <1>7, <2>1 DEF DeckShape
  <2> HIDE DEF added
  <2>5. q \in Request
    BY <1>1, <1>7, <2>3 DEF Request, Steps, Saving, added
  <2>6. /\ q.step = "result" /\ q.doomed = req[r].doomed /\ q.added = added
        /\ q.patch = req[r].patch
    BY <1>1, <1>7 DEF Request
  <2>7. q.added = UNION q.patch.cards
    BY <2>6 DEF added
  <2> HIDE DEF q
  <2> QED
    BY <1>7, <2>1, <2>2, <2>4, <2>5, <2>6, <2>7, QuietSaver DEF Saving
<1>8. ASSUME NEW r \in Requests, Deck!SaveResult(r) PROVE DeckShape' /\ DeckInv'
  <2>1. /\ req[r].step = "result" /\ UNCHANGED <<row, cards, rowLock, copies, ideal, versions>>
        /\ req' = [req EXCEPT ![r].step = "commit", ![r].answer = Answered(r)]
    BY <1>8 DEF Deck!SaveResult, Answered
  <2>2. /\ req[r].doomed = IF req[r].patch.cards = {} THEN {} ELSE cards
        /\ req[r].added = UNION req[r].patch.cards /\ req[r].step \in Saving
    BY <1>8, <2>1 DEF DeckInv, RequestOK, Saving
  <2>3. Answered(r) = {Deck!DeckOf(f, (cards \ req[r].doomed) \cup req[r].added) :
                          f \in IF req[r].patch.format = {} THEN row ELSE req[r].patch.format}
    BY DEF Answered, Deck!EntriesSeen, Deck!RowSeen
  <2>4. Answered(r) \in SUBSET SavedDeck
    <3>1. req[r].added \in SUBSET Entries /\ cards \in SUBSET Entries
      BY <1>1, <1>8 DEF Request, DeckShape
    <3>2. row \in SUBSET Formats /\ req[r].patch.format \in SUBSET Formats
      BY <1>8, PatchIsWhole DEF Whole, DeckShape
    <3> QED
      BY <2>3, <3>1, <3>2 DEF Deck!DeckOf, SavedDeck
  <2> DEFINE answer == Answered(r)
             q == [req[r] EXCEPT !.step = "commit", !.answer = answer]
  <2>5. req' = [req EXCEPT ![r] = q]
    BY <1>1, <1>8, <2>1 DEF DeckShape
  <2> HIDE DEF answer
  <2>6. q \in Request
    BY <1>1, <1>8, <2>4 DEF Request, Steps, Saving, answer
  <2>7. /\ q.step = "commit" /\ q.doomed = req[r].doomed /\ q.added = req[r].added
        /\ q.patch = req[r].patch /\ q.answer = answer
    BY <1>1, <1>8 DEF Request
  <2>8. q.answer = {Deck!DeckOf(f, (cards \ q.doomed) \cup q.added) :
                       f \in IF q.patch.format = {} THEN row ELSE q.patch.format}
    BY <2>3, <2>7 DEF answer
  <2>9. /\ q.doomed = IF q.patch.cards = {} THEN {} ELSE cards
        /\ q.added = UNION q.patch.cards
    BY <2>2, <2>7
  <2> HIDE DEF q
  <2> QED
    BY <1>8, <2>1, <2>2, <2>5, <2>6, <2>7, <2>8, <2>9, QuietSaver DEF Saving
<1>9. ASSUME NEW r \in Requests, Deck!Commit(r) PROVE DeckShape' /\ DeckInv'
  <2> DEFINE newRow == Deck!RowSeen(r)
             newCards == Deck!EntriesSeen(r)
             next == {Deck!Patched(d, req[r].patch) : d \in ideal}
             q == [req[r] EXCEPT !.step = "saved", !.doomed = {}, !.added = {}]
  <2>1. /\ req[r].step = "commit" /\ row' = newRow /\ cards' = newCards
        /\ ideal' = next /\ versions' = versions \cup ideal' /\ UNCHANGED copies
        /\ rowLock' = rowLock \ {r}
        /\ req' = [req EXCEPT ![r].step = "saved", ![r].doomed = {}, ![r].added = {}]
    BY <1>9 DEF Deck!Commit
  <2>2. rowLock = {r} /\ row # {} /\ RequestOK(r)
    BY <1>9, <2>1 DEF DeckInv, Saving
  <2>3. /\ req[r].doomed = IF req[r].patch.cards = {} THEN {} ELSE cards
        /\ req[r].added = UNION req[r].patch.cards /\ req[r].answer = Answered(r)
    BY <2>1, <2>2 DEF RequestOK
  <2>4. PICK f \in Formats : row = {f}
    BY <2>2 DEF DeckShape
  <2>5. ideal = {Deck!DeckOf(f, cards)}
    BY <2>4 DEF DeckInv, Deck!SavesAreSerial
  <2>6. newCards = IF req[r].patch.cards = {} THEN cards ELSE UNION req[r].patch.cards
    BY <2>3 DEF Deck!EntriesSeen
  <2>7. newCards \in SUBSET Entries
    BY <1>9, <2>6, PatchIsWhole DEF Whole, DeckShape
  <2>8. PICK g \in Formats : newRow = {g}
                         /\ g = IF req[r].patch.format = {} THEN f
                                ELSE CHOOSE h \in req[r].patch.format : TRUE
    <3>1. CASE req[r].patch.format = {}
      BY <2>4, <3>1 DEF Deck!RowSeen
    <3>2. CASE req[r].patch.format # {}
      <4>1. PICK g \in Formats : req[r].patch.format = {g}
        BY <1>9, <3>2, PatchIsWhole DEF Whole
      <4>2. g = CHOOSE h \in req[r].patch.format : TRUE
        BY <4>1
      <4> QED BY <3>2, <4>1, <4>2 DEF Deck!RowSeen
    <3> QED BY <3>1, <3>2
  <2>9. next = {Deck!DeckOf(g, newCards)}
    <3>1. Deck!Patched(Deck!DeckOf(f, cards), req[r].patch) = Deck!DeckOf(g, newCards)
      BY <2>6, <2>8 DEF Deck!Patched, Deck!DeckOf
    <3> QED BY <2>5, <3>1
  <2>10. req[r].answer = next
    BY <2>3, <2>8, <2>9 DEF Answered
  <2> HIDE DEF newRow, newCards, next
  <2>11. req' = [req EXCEPT ![r] = q]
    BY <1>1, <1>9, <2>1 DEF DeckShape
  <2>12. q \in Request
    BY <1>1, <1>9 DEF Request, Steps
  <2>13. q.step = "saved" /\ q.doomed = {} /\ q.added = {} /\ q.answer = req[r].answer
    BY <1>1, <1>9 DEF Request
  <2> HIDE DEF q
  <2>14. req'[r] = q /\ \A s \in Requests \ {r} : req'[s] = req[s]
    BY <1>9, <2>11 DEF DeckShape
  <2>15. rowLock' = {}
    BY <2>1, <2>2
  <2>16. DeckShape'
    BY <1>9, <2>1, <2>7, <2>8, <2>11, <2>12, <2>15 DEF DeckShape
  <2>17. \A s \in Requests \ {r} : req[s].step \notin Saving
    BY <2>2 DEF DeckInv
  <2>18. \A s \in Requests : req'[s].step \notin Saving
    BY <2>13, <2>14, <2>17 DEF Saving
  <2>19. ASSUME NEW s \in Requests PROVE RequestOK(s)'
    <3>1. req'[s].step \notin {"delete", "insert", "result", "commit"}
      BY <2>18, <2>19 DEF Saving
    <3>2. req'[s].doomed = {} /\ req'[s].added = {}
      <4>1. CASE s = r
        BY <2>13, <2>14, <4>1
      <4>2. CASE s # r
        BY <2>14, <2>17, <2>19, <4>2 DEF DeckInv, RequestOK, Saving
      <4> QED BY <4>1, <4>2
    <3> QED BY <3>1, <3>2 DEF RequestOK
  <2>20. Deck!SavesAreSerial'
    <3>1. {Deck!DeckOf(h, cards') : h \in row'} = ideal' /\ row' # {}
      BY <2>1, <2>8, <2>9
    <3>2. ASSUME NEW s \in Requests, req'[s].step = "saved" PROVE req'[s].answer \subseteq versions'
      <4>1. CASE s = r
        BY <2>1, <2>10, <2>13, <2>14, <4>1
      <4>2. CASE s # r
        BY <2>1, <2>14, <3>2, <4>2 DEF DeckInv, Deck!SavesAreSerial
      <4> QED BY <4>1, <4>2
    <3>3. ASSUME NEW c \in copies' PROVE \E v \in versions' : c.cards = v.cards
      BY <2>1, <2>2, <3>3 DEF DeckInv, Deck!SavesAreSerial
    <3> QED
      BY <3>1, <3>2, <3>3 DEF Deck!SavesAreSerial, Deck!DeckOf
  <2>21. (ideal \subseteq versions /\ First \in versions)'
    BY <2>1 DEF DeckInv
  <2> QED
    BY <2>15, <2>16, <2>18, <2>19, <2>20, <2>21 DEF DeckInv
<1>10. ASSUME NEW r \in Requests, Deck!Abort(r) PROVE DeckShape' /\ DeckInv'
  <2> DEFINE q == [req[r] EXCEPT !.step = "failed", !.doomed = {}, !.added = {}]
  <2>1. /\ rowLock' = rowLock \ {r} /\ UNCHANGED <<row, cards, copies, ideal, versions>>
        /\ req' = [req EXCEPT ![r].step = "failed", ![r].doomed = {}, ![r].added = {}]
    BY <1>10 DEF Deck!Abort
  <2>2. req' = [req EXCEPT ![r] = q]
    BY <1>1, <1>10, <2>1 DEF DeckShape
  <2>3. q \in Request
    BY <1>1, <1>10 DEF Request, Steps
  <2>4. q.step = "failed" /\ q.doomed = {} /\ q.added = {}
    BY <1>1, <1>10 DEF Request
  <2> HIDE DEF q
  <2>5. CASE req[r].step \notin Saving
    <3>1. UNCHANGED rowLock
      BY <1>10, <2>1, <2>5 DEF DeckInv, DeckShape
    <3> QED
      BY <1>10, <2>1, <2>2, <2>3, <2>4, <2>5, <3>1, QuietRequest DEF Saving
  <2>6. CASE req[r].step \in Saving
    <3>1. rowLock = {r} /\ rowLock' = {}
      BY <1>10, <2>1, <2>6 DEF DeckInv
    <3>2. req'[r] = q /\ \A s \in Requests \ {r} : req'[s] = req[s]
      BY <1>10, <2>2 DEF DeckShape
    <3>3. DeckShape'
      BY <1>10, <2>1, <2>2, <2>3, <3>1 DEF DeckShape
    <3>4. \A s \in Requests \ {r} : req[s].step \notin Saving
      BY <3>1 DEF DeckInv
    <3>5. \A s \in Requests : req'[s].step \notin Saving
      BY <2>4, <3>2, <3>4 DEF Saving
    <3>6. ASSUME NEW s \in Requests PROVE RequestOK(s)'
      <4>1. req'[s].step \notin {"delete", "insert", "result", "commit"}
        BY <3>5, <3>6 DEF Saving
      <4>2. req'[s].doomed = {} /\ req'[s].added = {}
        <5>1. CASE s = r
          BY <2>4, <3>2, <5>1
        <5>2. CASE s # r
          BY <3>2, <3>4, <3>6, <5>2 DEF DeckInv, RequestOK, Saving
        <5> QED BY <5>1, <5>2
      <4> QED BY <4>1, <4>2 DEF RequestOK
    <3>7. Deck!SavesAreSerial'
      <4>1. \A s \in Requests : req'[s].step = "saved" => req'[s].answer \subseteq versions'
        BY <2>1, <2>4, <3>2 DEF DeckInv, Deck!SavesAreSerial
      <4>2. \A c \in copies' : \E v \in versions' : c.cards = v.cards \/ (c.cards = {} /\ row' = {})
        BY <2>1 DEF DeckInv, Deck!SavesAreSerial
      <4>3. {Deck!DeckOf(f, cards') : f \in row'} = ideal' /\ (row' = {} => cards' = {})
        BY <2>1 DEF DeckInv, Deck!SavesAreSerial, Deck!DeckOf
      <4> QED
        BY <4>1, <4>2, <4>3 DEF Deck!SavesAreSerial, Deck!DeckOf
    <3> QED
      BY <2>1, <3>1, <3>3, <3>5, <3>6, <3>7 DEF DeckInv
  <2> QED BY <2>5, <2>6
<1>11. ASSUME NEW r \in Requests, Deck!Remove(r) PROVE DeckShape' /\ DeckInv'
  <2> DEFINE step == IF row = {} THEN "missing" ELSE "removed"
             q == [req[r] EXCEPT !.step = step]
  <2>1. /\ req[r].step = "write" /\ rowLock = {} /\ row' = {} /\ cards' = {} /\ ideal' = {}
        /\ UNCHANGED <<rowLock, copies, versions>> /\ req' = [req EXCEPT ![r].step = step]
    BY <1>11 DEF Deck!Remove, Deck!Goes
  <2>2. step \in {"missing", "removed"}
    OBVIOUS
  <2> HIDE DEF step
  <2>3. req' = [req EXCEPT ![r] = q]
    BY <1>1, <1>11, <2>1 DEF DeckShape
  <2>4. q \in Request
    BY <1>1, <1>11, <2>2 DEF Request, Steps
  <2>5. q.step = step /\ q.doomed = req[r].doomed /\ q.added = req[r].added
    BY <1>1, <1>11 DEF Request
  <2> HIDE DEF q
  <2>6. req'[r] = q /\ \A s \in Requests \ {r} : req'[s] = req[s]
    BY <1>11, <2>3 DEF DeckShape
  <2>7. DeckShape'
    BY <1>11, <2>1, <2>3, <2>4 DEF DeckShape
  <2>8. \A s \in Requests : req[s].step \notin Saving
    BY <2>1, NobodySaves
  <2>9. \A s \in Requests : req'[s].step \notin Saving
    BY <2>2, <2>5, <2>6, <2>8 DEF Saving
  <2>10. ASSUME NEW s \in Requests PROVE RequestOK(s)'
    <3>1. req'[s].step \notin {"delete", "insert", "result", "commit"}
      BY <2>9, <2>10 DEF Saving
    <3>2. req[s].doomed = {} /\ req[s].added = {}
      BY <2>8, <2>10 DEF DeckInv, RequestOK, Saving
    <3>3. req'[s].doomed = {} /\ req'[s].added = {}
      BY <2>5, <2>6, <3>2
    <3> QED BY <3>1, <3>3 DEF RequestOK
  <2>11. Deck!SavesAreSerial'
    <3>1. {Deck!DeckOf(h, cards') : h \in row'} = ideal'
      BY <2>1
    <3>2. \A s \in Requests : req'[s].step = "saved" => req'[s].answer \subseteq versions'
      BY <2>1, <2>2, <2>5, <2>6 DEF DeckInv, Deck!SavesAreSerial
    <3>3. \A c \in copies' : \E v \in versions' : c.cards = v.cards \/ (c.cards = {} /\ row' = {})
      BY <2>1 DEF DeckInv, Deck!SavesAreSerial
    <3> QED
      BY <2>1, <3>1, <3>2, <3>3 DEF Deck!SavesAreSerial, Deck!DeckOf
  <2> QED
    BY <2>1, <2>7, <2>9, <2>10, <2>11 DEF DeckInv
<1>12. ASSUME NEW r \in Requests, Deck!Entries(r) PROVE DeckShape' /\ DeckInv'
  <2> DEFINE both == {Deck!DeckOf(f, cards) : f \in req[r].saw}
             q == [req[r] EXCEPT !.step = "read", !.answer = both]
  <2>1. /\ req[r].step = "entries" /\ UNCHANGED <<row, cards, rowLock, ideal, versions>>
        /\ req' = [req EXCEPT ![r].step = "read", ![r].answer = both]
        /\ copies' = IF req[r].op = "clone" THEN copies \cup both ELSE copies
    BY <1>12 DEF Deck!Entries
  <2>2. both \in SUBSET SavedDeck
    <3>1. req[r].saw \in SUBSET Formats /\ cards \in SUBSET Entries
      BY <1>1, <1>12 DEF Request, DeckShape
    <3> QED
      BY <3>1 DEF Deck!DeckOf, SavedDeck
  <2>3. \A c \in both : c.cards = cards
    BY DEF Deck!DeckOf
  <2> HIDE DEF both
  <2>4. req' = [req EXCEPT ![r] = q]
    BY <1>1, <1>12, <2>1 DEF DeckShape
  <2>5. q \in Request
    BY <1>1, <1>12, <2>2 DEF Request, Steps
  <2>6. q.step = "read" /\ q.doomed = req[r].doomed /\ q.added = req[r].added
    BY <1>1, <1>12 DEF Request
  <2>7. q.doomed = {} /\ q.added = {}
    BY <1>12, <2>1, <2>6 DEF DeckInv, RequestOK
  <2>8. ASSUME NEW c \in copies' \ copies
        PROVE  \E v \in versions : c.cards = v.cards \/ (c.cards = {} /\ row = {})
    <3>1. c.cards = cards
      BY <2>1, <2>3, <2>8
    <3>2. CASE row = {}
      <4>1. cards = {} /\ First \in versions
        BY <3>2 DEF DeckInv, Deck!SavesAreSerial
      <4> QED BY <3>1, <3>2, <4>1
    <3>3. CASE row # {}
      <4>1. PICK f : f \in row
        BY <3>3
      <4>2. Deck!DeckOf(f, cards) \in versions
        BY <4>1 DEF DeckInv, Deck!SavesAreSerial
      <4>3. Deck!DeckOf(f, cards).cards = cards
        BY DEF Deck!DeckOf
      <4> QED BY <3>1, <4>2, <4>3
    <3> QED BY <3>2, <3>3
  <2> HIDE DEF q
  <2> QED
    BY <1>12, <2>1, <2>4, <2>5, <2>6, <2>7, <2>8, QuietRequest DEF Saving
<1> QED
  BY <1>2, <1>3, <1>4, <1>5, <1>6, <1>7, <1>8, <1>9, <1>10, <1>11, <1>12 DEF Deck!Next

\* Whatever saves, removals and reads of a deck there are at once: it is what
\* its committed saves make of it one after the other, no save brings a removed
\* deck back, and answers and copies are of decks that were really committed.
THEOREM DeckSavesAreSerial ==
    ASSUME DecksAreSensible
    PROVE  Deck!Spec => []Deck!SavesAreSerial
<1>1. Deck!Init => DeckShape /\ DeckInv
  BY DeckAtFirst
<1>2. DeckShape /\ DeckInv /\ [Deck!Next]_(Deck!dvars) => (DeckShape /\ DeckInv)'
  BY DeckStays
<1>3. DeckInv => Deck!SavesAreSerial
  BY DEF DeckInv
<1> QED
  BY <1>1, <1>2, <1>3, PTL DEF Deck!Spec

-----------------------------------------------------------------------------
(* The read cache.                                                         *)

CONSTANTS Processes, Served, MaxWrites
VARIABLES truth, cached, load, missed, due, lost, overtaken

Cache == INSTANCE ReadCache

KeysAreServed == Served \subseteq Cache!Keys

\* An answer: a version of each part it is made of.
Answer == UNION {[parts -> Nat] : parts \in SUBSET Cache!Parts}

CacheShape ==
    /\ truth \in [Cache!Parts -> Nat]
    /\ cached \in [Served -> SUBSET Answer]
    /\ load \in [Processes -> [Served -> SUBSET Answer]]

\* An answer v for k is stale in no part but one that is left to the TTL, or
\* whose deletion is still to come, was lost, or came too early.
Explained(k, v) ==
    \A part \in Cache!From(k) :
        v[part] # truth[part] /\ <<part, k>> \notin Cache!LeftToTheTTL =>
            <<part, k>> \in due \/ k \in lost \cup overtaken

\* So it is with what is stored, and with what a load will store.
CacheInv ==
    \A k \in Served :
        /\ \A v \in cached[k] : Explained(k, v)
        /\ \A p \in Processes : \A v \in load[p][k] : Explained(k, v)

\* Whatever an answer is made of and the TTL does not renew, the writer of it deletes.
LEMMA WritersClear ==
    ASSUME NEW k \in Cache!Keys
    PROVE  /\ Cache!From(k) \subseteq Cache!Parts
           /\ \A part \in Cache!From(k) :
                 <<part, k>> \notin Cache!LeftToTheTTL => k \in Cache!Clears(part)
<1> DEFINE a == CHOOSE b \in Cache!Answers : b.key = k
<1>1. a \in Cache!Answers /\ a.key = k /\ Cache!From(k) = a.from
  <2>1. \E b \in Cache!Answers : b.key = k
    BY DEF Cache!Keys
  <2> QED
    BY <2>1 DEF Cache!From
<1> HIDE DEF a
<1>2. CASE a = Cache!GetCard
  <2>1. k = "card" /\ Cache!From(k) = {"catalog", "price"}
    BY <1>1, <1>2 DEF Cache!GetCard
  <2> QED
    BY <2>1 DEF Cache!Parts, Cache!Clears, Cache!CatalogSyncClears, Cache!PriceBatchClears
<1>3. CASE a \in {Cache!ListSets, Cache!LoadSet, Cache!LoadFacets}
  <2>1. k \in {"sets", "set", "facets"} /\ Cache!From(k) = {"catalog"}
    BY <1>1, <1>3 DEF Cache!ListSets, Cache!LoadSet, Cache!LoadFacets
  <2> QED
    BY <2>1 DEF Cache!Parts, Cache!Clears, Cache!CatalogSyncClears
<1>4. CASE a = Cache!GetLatest
  <2>1. k = "cardPrice" /\ Cache!From(k) = {"price"}
    BY <1>1, <1>4 DEF Cache!GetLatest
  <2> QED
    BY <2>1 DEF Cache!Parts, Cache!Clears, Cache!PriceBatchClears
<1>5. CASE a = Cache!Summary
  <2>1. k = "summary" /\ Cache!From(k) = {"catalog", "price", "holding"}
    BY <1>1, <1>5 DEF Cache!Summary
  <2>2. <<"price", k>> \in Cache!LeftToTheTTL /\ <<"catalog", k>> \in Cache!LeftToTheTTL
    BY <2>1 DEF Cache!LeftToTheTTL
  <2>3. k \in Cache!Clears("holding")
    BY <2>1 DEF Cache!Clears, Cache!SettlementClears
  <2> QED
    BY <2>1, <2>2, <2>3 DEF Cache!Parts
<1>6. CASE a = Cache!Metrics
  <2>1. k = "metrics" /\ Cache!From(k) = {"price", "holding"}
    BY <1>1, <1>6 DEF Cache!Metrics
  <2> QED
    BY <2>1 DEF Cache!Parts, Cache!LeftToTheTTL
<1> QED
  BY <1>1, <1>2, <1>3, <1>4, <1>5, <1>6 DEF Cache!Answers

\* An answer stays explained as long as none of it changes, and no deletion that
\* is still to come, was lost or came too early is forgotten.
LEMMA StaysExplained ==
    ASSUME KeysAreServed, NEW k \in Served, NEW v, Explained(k, v), UNCHANGED truth,
           k \in lost \cup overtaken => k \in (lost \cup overtaken)',
           \A part \in Cache!Parts : <<part, k>> \in due =>
               <<part, k>> \in due' \/ k \in (lost \cup overtaken)'
    PROVE  Explained(k, v)'
<1>1. Cache!From(k) \subseteq Cache!Parts
  BY WritersClear DEF KeysAreServed
<1> QED
  BY <1>1 DEF Explained

LEMMA CacheAtFirst ==
    ASSUME Cache!Init
    PROVE  CacheShape /\ CacheInv
BY DEF Cache!Init, CacheShape, CacheInv, Cache!Parts

LEMMA CacheStays ==
    ASSUME KeysAreServed, CacheShape, CacheInv, [Cache!Next]_(Cache!cvars)
    PROVE  CacheShape' /\ CacheInv'
<1>1. ASSUME NEW k \in Served PROVE Cache!From(k) \in SUBSET Cache!Parts
  BY <1>1, WritersClear DEF KeysAreServed
<1>2. CASE UNCHANGED Cache!cvars
  <2>1. UNCHANGED <<truth, cached, load, due, lost, overtaken>>
    BY <1>2 DEF Cache!cvars
  <2> QED
    BY <2>1, StaysExplained DEF CacheShape, CacheInv
<1>3. ASSUME NEW p \in Processes, NEW k \in Served, Cache!Miss(p, k) PROVE CacheShape' /\ CacheInv'
  <2>1. /\ UNCHANGED <<truth, load, due, lost, overtaken>>
        /\ cached' \in {cached, [cached EXCEPT ![k] = {}]}
    BY <1>3 DEF Cache!Miss
  <2>2. CacheShape' /\ \A j \in Served : cached'[j] \subseteq cached[j]
    BY <1>3, <2>1 DEF CacheShape
  <2> QED
    BY <2>1, <2>2, StaysExplained DEF CacheInv
<1>4. ASSUME NEW p \in Processes, NEW k \in Served, Cache!LoadOrJoin(p, k)
      PROVE  CacheShape' /\ CacheInv'
  <2> DEFINE now == Cache!Now(k)
  <2>1. /\ UNCHANGED <<truth, cached, due, lost, overtaken>>
        /\ load' = IF load[p][k] # {} THEN load ELSE [load EXCEPT ![p][k] = {now}]
    BY <1>4 DEF Cache!LoadOrJoin
  <2>2. now \in Answer /\ \A part \in Cache!From(k) : now[part] = truth[part]
    <3>1. now \in [Cache!From(k) -> Nat]
      BY <1>1, <1>4 DEF Cache!Now, CacheShape
    <3> QED
      BY <1>1, <1>4, <3>1 DEF Answer, Cache!Now
  <2> HIDE DEF now
  <2>3. Explained(k, now)
    BY <2>2 DEF Explained
  <2>4. /\ CacheShape'
        /\ \A i \in Processes, j \in Served :
              load'[i][j] \subseteq load[i][j] \cup IF j = k THEN {now} ELSE {}
    BY <1>4, <2>1, <2>2 DEF CacheShape
  <2>5. \A j \in Served : \A v \in cached'[j] : Explained(j, v)'
    BY <2>1, StaysExplained DEF CacheInv
  <2>6. ASSUME NEW j \in Served, NEW i \in Processes, NEW v \in load'[i][j] PROVE Explained(j, v)'
    <3>1. Explained(j, v)
      BY <2>3, <2>4, <2>6 DEF CacheInv
    <3> QED
      BY <2>1, <2>6, <3>1, StaysExplained
  <2> QED
    BY <2>4, <2>5, <2>6 DEF CacheInv
<1>5. ASSUME NEW p \in Processes, NEW k \in Served, Cache!Resolve(p, k)
      PROVE  CacheShape' /\ CacheInv'
  <2>1. /\ UNCHANGED <<truth, due, lost, overtaken>>
        /\ cached' \in {cached, [cached EXCEPT ![k] = load[p][k]]}
        /\ load' = [load EXCEPT ![p][k] = {}]
    BY <1>5 DEF Cache!Resolve, Cache!Store, Cache!Reject
  <2>2. /\ CacheShape' /\ \A j \in Served : cached'[j] \in {cached[j], load[p][j]}
        /\ \A i \in Processes, j \in Served : load'[i][j] \subseteq load[i][j]
    BY <1>5, <2>1 DEF CacheShape
  <2>3. ASSUME NEW j \in Served, NEW v \in cached'[j] PROVE Explained(j, v)'
    <3>1. Explained(j, v)
      BY <1>5, <2>2, <2>3 DEF CacheInv
    <3> QED
      BY <2>1, <2>3, <3>1, StaysExplained
  <2>4. ASSUME NEW j \in Served, NEW i \in Processes, NEW v \in load'[i][j] PROVE Explained(j, v)'
    <3>1. Explained(j, v)
      BY <2>2, <2>4 DEF CacheInv
    <3> QED
      BY <2>1, <2>4, <3>1, StaysExplained
  <2> QED
    BY <2>2, <2>3, <2>4 DEF CacheInv
<1>6. ASSUME NEW part \in Cache!Parts, Cache!Commit(part) PROVE CacheShape' /\ CacheInv'
  <2>1. /\ UNCHANGED <<cached, load, lost, overtaken>>
        /\ truth' = [truth EXCEPT ![part] = truth[part] + 1]
        /\ due' = due \cup ({part} \X (Cache!Clears(part) \cap Served))
    BY <1>6 DEF Cache!Commit
  <2>2. CacheShape' /\ \A other \in Cache!Parts \ {part} : truth'[other] = truth[other]
    BY <1>6, <2>1 DEF CacheShape
  <2>3. ASSUME NEW k \in Served, NEW v, Explained(k, v) PROVE Explained(k, v)'
    <3> SUFFICES ASSUME NEW other \in Cache!From(k), v[other] # truth'[other],
                        <<other, k>> \notin Cache!LeftToTheTTL
                 PROVE  <<other, k>> \in due' \/ k \in (lost \cup overtaken)'
      BY DEF Explained
    <3>1. CASE other = part
      <4>1. k \in Cache!Clears(part)
        BY <2>3, <3>1, WritersClear DEF KeysAreServed
      <4> QED BY <2>1, <2>3, <3>1, <4>1
    <3>2. CASE other # part
      <4>1. truth'[other] = truth[other]
        BY <1>1, <2>2, <2>3, <3>2
      <4> QED BY <2>1, <2>3, <4>1 DEF Explained
    <3> QED BY <3>1, <3>2
  <2> QED
    BY <2>1, <2>2, <2>3 DEF CacheInv
<1>7. ASSUME NEW part \in Cache!Parts, NEW k \in Served, Cache!Delete(part, k)
      PROVE  CacheShape' /\ CacheInv'
  <2>1. /\ UNCHANGED <<truth, load, lost>> /\ due' = due \ {<<part, k>>}
        /\ cached' = [cached EXCEPT ![k] = {}]
        /\ overtaken' = IF \E p \in Processes : load[p][k] # {}
                        THEN overtaken \cup {k} ELSE overtaken
    BY <1>7 DEF Cache!Delete
  <2>2. CacheShape' /\ \A j \in Served : cached'[j] = IF j = k THEN {} ELSE cached[j]
    BY <1>7, <2>1 DEF CacheShape
  <2>3. ASSUME NEW j \in Served, NEW v, Explained(j, v), j # k \/ k \in overtaken'
        PROVE  Explained(j, v)'
    BY <2>1, <2>3, StaysExplained
  <2>4. \A j \in Served : \A v \in cached'[j] : Explained(j, v)'
    BY <2>2, <2>3 DEF CacheInv
  <2>5. ASSUME NEW j \in Served, NEW i \in Processes, NEW v \in load'[i][j] PROVE Explained(j, v)'
    BY <2>1, <2>3, <2>5 DEF CacheInv
  <2> QED
    BY <2>2, <2>4, <2>5 DEF CacheInv
<1>8. ASSUME NEW part \in Cache!Parts, NEW k \in Served, Cache!DeleteLost(part, k)
      PROVE  CacheShape' /\ CacheInv'
  <2>1. /\ UNCHANGED <<truth, cached, load, overtaken>> /\ due' = due \ {<<part, k>>}
        /\ lost' = lost \cup {k}
    BY <1>8 DEF Cache!DeleteLost
  <2>2. ASSUME NEW j \in Served, NEW v, Explained(j, v) PROVE Explained(j, v)'
    BY <2>1, <2>2, StaysExplained
  <2> QED
    BY <2>1, <2>2 DEF CacheShape, CacheInv
<1>9. ASSUME NEW k \in Served, Cache!Expire(k) PROVE CacheShape' /\ CacheInv'
  <2> DEFINE quiet == \A p \in Processes : load[p][k] = {}
  <2>1. /\ UNCHANGED <<truth, load, due>> /\ cached' = [cached EXCEPT ![k] = {}]
        /\ lost' = IF quiet THEN lost \ {k} ELSE lost
        /\ overtaken' = IF quiet THEN overtaken \ {k} ELSE overtaken
    BY <1>9 DEF Cache!Expire
  <2>2. CacheShape' /\ \A j \in Served : cached'[j] = IF j = k THEN {} ELSE cached[j]
    BY <1>9, <2>1 DEF CacheShape
  <2>3. ASSUME NEW j \in Served, NEW v, Explained(j, v), j # k \/ ~quiet
        PROVE  Explained(j, v)'
    <3>1. j \in lost \cup overtaken => j \in (lost \cup overtaken)'
      BY <2>1, <2>3
    <3> QED
      BY <2>1, <2>3, <3>1 DEF Explained
  <2>4. \A j \in Served : \A v \in cached'[j] : Explained(j, v)'
    BY <2>2, <2>3 DEF CacheInv
  <2>5. ASSUME NEW j \in Served, NEW i \in Processes, NEW v \in load'[i][j] PROVE Explained(j, v)'
    <3>1. j # k \/ ~quiet
      BY <2>1, <2>5
    <3> QED
      BY <2>1, <2>3, <2>5, <3>1 DEF CacheInv
  <2> QED
    BY <2>2, <2>4, <2>5 DEF CacheInv
<1>10. ASSUME NEW p \in Processes, Cache!Restart(p) PROVE CacheShape' /\ CacheInv'
  <2>1. /\ UNCHANGED <<truth, cached, due, lost, overtaken>>
        /\ load' = [load EXCEPT ![p] = [k \in Served |-> {}]]
    BY <1>10 DEF Cache!Restart
  <2>2. CacheShape' /\ \A i \in Processes, j \in Served : load'[i][j] \subseteq load[i][j]
    BY <1>10, <2>1 DEF CacheShape
  <2> QED
    BY <2>1, <2>2, StaysExplained DEF CacheInv
<1> QED
  BY <1>2, <1>3, <1>4, <1>5, <1>6, <1>7, <1>8, <1>9, <1>10 DEF Cache!Next

\* However many processes load, write, die and delete at once: a warm answer that
\* is stale in a part its writer clears waits for that deletion, lost it, or was
\* read before the commit and stored after the deletion.
THEOREM StalenessHasAReason ==
    ASSUME KeysAreServed
    PROVE  Cache!Spec => []Cache!StalenessIsExplained
<1>1. Cache!Init => CacheShape /\ CacheInv
  BY CacheAtFirst
<1>2. CacheShape /\ CacheInv /\ [Cache!Next]_(Cache!cvars) => (CacheShape /\ CacheInv)'
  BY CacheStays
<1>3. CacheInv => Cache!StalenessIsExplained
  BY DEF CacheInv, Explained, Cache!StalenessIsExplained
<1> QED
  BY <1>1, <1>2, <1>3, PTL DEF Cache!Spec

-----------------------------------------------------------------------------
(* The admin's sync controls.                                              *)

CONSTANTS Triggers, Resets, Free, Cron
VARIABLES holder, breaker, asked, sent, landed, audit

Admin == INSTANCE AdminSync WITH req <- asked

\* A request is a trigger or a reset, and no trigger has the id of a cron's job.
IdsAreDistinct == Triggers \cap (Resets \cup {Free, Cron}) = {}

Unsent == {"idle", "begin", "refused"}

\* What has happened in Redis is what the request, and the holder's id, say.
AdminInv ==
    /\ Admin!TypeOK
    /\ \A r \in sent : asked[r].step \notin Unsent \cup {"commit", "ok"} /\ r \notin landed
    /\ \A r \in landed : asked[r].step \notin Unsent
    /\ \A r \in Admin!Asked : asked[r].step \in {"commit", "ok"} => r \in landed
    /\ \A r \in Triggers : asked[r].reply = r <=> r \in landed
    /\ \A q \in Admin!Queues : holder[q] \in Triggers => holder[q] \in landed
    /\ \A r \in Resets : asked[r].step = "calling" => r \in sent \cup landed
    /\ Admin!AuditRowsAreTrue

LEMMA AdminAtFirst ==
    ASSUME IdsAreDistinct, Admin!Init
    PROVE  AdminInv
<1>1. Admin!TypeOK
  BY DEF Admin!Init, Admin!TypeOK, Admin!Steps
<1>2. \A r \in Admin!Asked : asked[r].step = "idle" /\ asked[r].reply = Free
  BY DEF Admin!Init
<1> QED
  BY <1>1, <1>2 DEF Admin!Init, AdminInv, IdsAreDistinct, Unsent, Admin!AuditRowsAreTrue, Admin!Asked

LEMMA AdminStays ==
    ASSUME IdsAreDistinct, AdminInv, [Admin!Next]_(Admin!avars)
    PROVE  AdminInv'
<1> DEFINE Asking == [step : Admin!Steps, queue : Admin!Queues,
                      reply : Triggers \cup {Free, Cron}]
<1>1. /\ asked \in [Admin!Asked -> Asking] /\ Admin!TypeOK
      /\ \A r \in Triggers \cup Resets : r \in Admin!Asked
  BY DEF AdminInv, Admin!TypeOK, Admin!Asked
<1>2. ASSUME NEW r \in Admin!Asked, NEW step \in Admin!Steps, Admin!Goes(r, step)
      PROVE  /\ asked' \in [Admin!Asked -> Asking]
             /\ asked'[r].step = step
             /\ \A s \in Admin!Asked \ {r} : asked'[s] = asked[s]
             /\ \A s \in Admin!Asked : asked'[s].reply = asked[s].reply
  BY <1>1, <1>2 DEF Admin!Goes
<1>3. CASE UNCHANGED Admin!avars
  BY <1>3 DEF Admin!avars, AdminInv, Admin!TypeOK, Admin!AuditRowsAreTrue
\* Only the step of one request changes.
<1>4. ASSUME NEW r \in Admin!Asked, NEW step \in Admin!Steps, Admin!Goes(r, step),
             UNCHANGED <<holder, breaker, sent, landed, audit>>, asked[r].step # "ok",
             step # "ok",
             r \in sent => step \notin Unsent \cup {"commit"},
             r \in landed => step \in Admin!Interrupted \cup {"calling", "commit"},
             step = "commit" => r \in landed,
             r \in Resets /\ step = "calling" => r \in sent \cup landed
      PROVE  AdminInv'
  <2>1. /\ asked' \in [Admin!Asked -> Asking] /\ asked'[r].step = step
        /\ \A s \in Admin!Asked \ {r} : asked'[s] = asked[s]
        /\ \A s \in Admin!Asked : asked'[s].reply = asked[s].reply
    BY <1>2, <1>4
  <2>2. Admin!TypeOK'
    BY <1>1, <1>4, <2>1 DEF Admin!TypeOK
  <2>3. \A s \in sent' : asked'[s].step \notin Unsent \cup {"commit", "ok"} /\ s \notin landed'
    BY <1>1, <1>4, <2>1 DEF AdminInv, Admin!TypeOK
  <2>4. \A s \in landed' : asked'[s].step \notin Unsent
    BY <1>1, <1>4, <2>1 DEF AdminInv, Admin!TypeOK, Unsent, Admin!Interrupted
  <2>5. \A s \in Admin!Asked : asked'[s].step \in {"commit", "ok"} => s \in landed'
    BY <1>4, <2>1 DEF AdminInv
  <2>6. \A s \in Triggers : asked'[s].reply = s <=> s \in landed'
    BY <1>1, <1>4, <2>1 DEF AdminInv
  <2>7. \A q \in Admin!Queues : holder'[q] \in Triggers => holder'[q] \in landed'
    BY <1>4 DEF AdminInv
  <2>8. \A s \in Resets : asked'[s].step = "calling" => s \in sent' \cup landed'
    BY <1>1, <1>4, <2>1 DEF AdminInv
  <2>9. Admin!AuditRowsAreTrue'
    <3>1. \A s \in Admin!Asked : asked'[s].step = "ok" <=> s \in audit'
      BY <1>4, <2>1 DEF AdminInv, Admin!AuditRowsAreTrue
    <3>2. \A s \in landed' \ audit' :
             asked'[s].step \in Admin!Interrupted \cup {"calling", "commit"}
      BY <1>1, <1>4, <2>1 DEF AdminInv, Admin!AuditRowsAreTrue, Admin!TypeOK
    <3> QED
      BY <1>4, <3>1, <3>2 DEF AdminInv, Admin!AuditRowsAreTrue, Admin!Interrupted
  <2> QED
    BY <2>2, <2>3, <2>4, <2>5, <2>6, <2>7, <2>8, <2>9 DEF AdminInv
<1>5. ASSUME NEW r \in Admin!Asked, Admin!ReadKeys(r) \/ Admin!ReadBreaker(r) PROVE AdminInv'
  <2>1. PICK step \in {"unavailable", "begin", "refused"} : Admin!Goes(r, step)
    BY <1>5 DEF Admin!ReadKeys, Admin!ReadBreaker
  <2>2. asked[r].step = "idle" /\ UNCHANGED <<holder, breaker, sent, landed, audit>>
    BY <1>5 DEF Admin!ReadKeys, Admin!ReadBreaker
  <2>3. r \notin sent /\ r \notin landed
    BY <2>2 DEF AdminInv, Unsent
  <2> QED
    BY <1>4, <1>5, <2>1, <2>2, <2>3 DEF Admin!Steps
<1>6. ASSUME NEW r \in Admin!Asked, Admin!Insert(r) PROVE AdminInv'
  <2>1. asked[r].step = "begin" /\ UNCHANGED <<holder, breaker, landed, audit>>
    BY <1>6 DEF Admin!Insert
  <2>2. r \notin sent /\ r \notin landed
    BY <2>1 DEF AdminInv, Unsent
  <2>3. CASE Admin!Goes(r, "failed") /\ UNCHANGED sent
    BY <1>4, <1>6, <2>1, <2>2, <2>3 DEF Admin!Steps
  <2>4. CASE Admin!Goes(r, "calling") /\ sent' = sent \cup {r}
    <3>1. /\ asked' \in [Admin!Asked -> Asking] /\ asked'[r].step = "calling"
          /\ \A s \in Admin!Asked \ {r} : asked'[s] = asked[s]
          /\ \A s \in Admin!Asked : asked'[s].reply = asked[s].reply
      BY <1>2, <1>6, <2>4 DEF Admin!Steps
    <3>2. Admin!TypeOK'
      BY <1>1, <1>6, <2>1, <2>4, <3>1 DEF Admin!TypeOK
    <3>3. \A s \in sent' : asked'[s].step \notin Unsent \cup {"commit", "ok"} /\ s \notin landed'
      BY <1>1, <2>1, <2>2, <2>4, <3>1 DEF AdminInv, Admin!TypeOK, Unsent
    <3>4. \A s \in landed' : asked'[s].step \notin Unsent
      BY <1>1, <2>1, <2>2, <3>1 DEF AdminInv, Admin!TypeOK
    <3>5. \A s \in Admin!Asked : asked'[s].step \in {"commit", "ok"} => s \in landed'
      BY <2>1, <3>1 DEF AdminInv
    <3>6. \A s \in Triggers : asked'[s].reply = s <=> s \in landed'
      BY <1>1, <2>1, <3>1 DEF AdminInv
    <3>7. \A s \in Resets : asked'[s].step = "calling" => s \in sent' \cup landed'
      BY <1>1, <2>1, <2>4, <3>1 DEF AdminInv
    <3>8. Admin!AuditRowsAreTrue'
      BY <1>1, <2>1, <2>2, <3>1 DEF AdminInv, Admin!AuditRowsAreTrue, Admin!TypeOK, Admin!Interrupted
    <3> QED
      BY <2>1, <3>2, <3>3, <3>4, <3>5, <3>6, <3>7, <3>8 DEF AdminInv
  <2> QED BY <1>6, <2>3, <2>4 DEF Admin!Insert
<1>7. ASSUME NEW r \in Triggers, Admin!AddLands(r) PROVE AdminInv'
  <2> DEFINE q == asked[r].queue
             won == holder[q] = Free
  <2>1. /\ r \in sent /\ sent' = sent \ {r} /\ UNCHANGED <<breaker, audit>>
        /\ holder' = IF won THEN [holder EXCEPT ![q] = r] ELSE holder
        /\ landed' = IF won THEN landed \cup {r} ELSE landed
        /\ asked' = [asked EXCEPT ![r].reply = holder'[q]]
    BY <1>7 DEF Admin!AddLands
  <2>2. /\ q \in Admin!Queues /\ r \notin landed /\ r \in Admin!Asked /\ r \notin audit
        /\ asked[r].step \notin Unsent \cup {"commit", "ok"}
    BY <1>1, <1>7, <2>1 DEF AdminInv, Admin!AuditRowsAreTrue
  <2>3. /\ holder' \in [Admin!Queues -> Triggers \cup {Free, Cron}]
        /\ holder'[q] = IF won THEN r ELSE holder[q]
        /\ \A other \in Admin!Queues \ {q} : holder'[other] = holder[other]
    BY <1>1, <1>7, <2>1, <2>2 DEF Admin!TypeOK
  <2>4. won <=> holder'[q] = r
    BY <1>7, <2>2, <2>3 DEF AdminInv, IdsAreDistinct
  <2> HIDE DEF won
  <2>5. /\ asked' \in [Admin!Asked -> Asking]
        /\ asked'[r].reply = holder'[q]
        /\ \A s \in Admin!Asked \ {r} : asked'[s] = asked[s]
        /\ \A s \in Admin!Asked : asked'[s].step = asked[s].step
    BY <1>1, <2>1, <2>2, <2>3
  <2>6. Admin!TypeOK'
    BY <1>1, <2>1, <2>2, <2>3, <2>5 DEF Admin!TypeOK
  <2>7. \A s \in sent' : asked'[s].step \notin Unsent \cup {"commit", "ok"} /\ s \notin landed'
    BY <1>1, <2>1, <2>5 DEF AdminInv, Admin!TypeOK
  <2>8. \A s \in landed' : asked'[s].step \notin Unsent
    BY <1>1, <2>1, <2>2, <2>5 DEF AdminInv, Admin!TypeOK
  <2>9. \A s \in Admin!Asked : asked'[s].step \in {"commit", "ok"} => s \in landed'
    BY <2>1, <2>5 DEF AdminInv
  <2>10. \A s \in Triggers : asked'[s].reply = s <=> s \in landed'
    BY <1>1, <2>1, <2>2, <2>4, <2>5 DEF AdminInv
  <2>11. \A k \in Admin!Queues : holder'[k] \in Triggers => holder'[k] \in landed'
    BY <2>1, <2>3, <2>4 DEF AdminInv
  <2>12. \A s \in Resets : asked'[s].step = "calling" => s \in sent' \cup landed'
    BY <1>1, <1>7, <2>1, <2>5 DEF AdminInv, IdsAreDistinct
  <2>13. Admin!AuditRowsAreTrue'
    <3>1. asked[r].step \in Admin!Interrupted \cup {"calling", "commit"}
      BY <1>1, <2>2 DEF Unsent, Admin!Interrupted, Admin!Steps
    <3> QED
      BY <1>1, <2>1, <2>2, <2>5, <3>1 DEF AdminInv, Admin!AuditRowsAreTrue, Admin!TypeOK
  <2> QED
    BY <2>6, <2>7, <2>8, <2>9, <2>10, <2>11, <2>12, <2>13 DEF AdminInv
<1>8. ASSUME NEW r \in Resets, Admin!DelLands(r) PROVE AdminInv'
  <2>1. /\ r \in sent /\ sent' = sent \ {r} /\ landed' = landed \cup {r} /\ breaker' = FALSE
        /\ UNCHANGED <<holder, asked, audit>>
    BY <1>8 DEF Admin!DelLands
  <2>2. /\ r \in Admin!Asked /\ r \notin Triggers
        /\ asked[r].step \notin Unsent \cup {"commit", "ok"}
    BY <1>1, <1>8, <2>1 DEF AdminInv, IdsAreDistinct
  <2>3. asked[r].step \in Admin!Interrupted \cup {"calling", "commit"}
    BY <1>1, <2>2 DEF Unsent, Admin!Interrupted, Admin!Steps
  <2>4. Admin!TypeOK'
    BY <1>1, <2>1, <2>2 DEF Admin!TypeOK
  <2>5. Admin!AuditRowsAreTrue'
    BY <2>1, <2>2, <2>3 DEF AdminInv, Admin!AuditRowsAreTrue
  <2>6. /\ \A s \in sent' : asked'[s].step \notin Unsent \cup {"commit", "ok"} /\ s \notin landed'
        /\ \A s \in landed' : asked'[s].step \notin Unsent
        /\ \A s \in Admin!Asked : asked'[s].step \in {"commit", "ok"} => s \in landed'
    BY <2>1, <2>2 DEF AdminInv
  <2>7. /\ \A s \in Triggers : asked'[s].reply = s <=> s \in landed'
        /\ \A k \in Admin!Queues : holder'[k] \in Triggers => holder'[k] \in landed'
        /\ \A s \in Resets : asked'[s].step = "calling" => s \in sent' \cup landed'
    BY <1>8, <2>1, <2>2 DEF AdminInv
  <2> QED
    BY <2>4, <2>5, <2>6, <2>7 DEF AdminInv
<1>9. ASSUME NEW r \in Admin!Asked, Admin!TimesOut(r) PROVE AdminInv'
  <2>1. /\ asked[r].step = "calling" /\ Admin!Goes(r, "unavailable")
        /\ UNCHANGED <<holder, breaker, sent, landed, audit>>
    BY <1>9 DEF Admin!TimesOut
  <2> QED
    BY <1>4, <1>9, <2>1 DEF Admin!Steps, Unsent, Admin!Interrupted
<1>10. ASSUME NEW r \in Admin!Asked, Admin!Returns(r) PROVE AdminInv'
  <2>1. /\ asked[r].step = "calling" /\ r \notin sent
        /\ Admin!Goes(r, IF r \in Resets \/ Admin!Accepts(r) THEN "commit" ELSE "refused")
        /\ UNCHANGED <<holder, breaker, sent, landed, audit>>
    BY <1>10 DEF Admin!Returns
  <2>2. r \in Resets \/ Admin!Accepts(r) <=> r \in landed
    <3>1. CASE r \in Resets
      BY <2>1, <3>1 DEF AdminInv
    <3>2. CASE r \in Triggers
      BY <3>2 DEF AdminInv, IdsAreDistinct, Admin!Accepts
    <3> QED BY <1>10, <3>1, <3>2 DEF Admin!Asked
  <2>3. CASE r \in landed
    BY <1>4, <1>10, <2>1, <2>2, <2>3 DEF Admin!Steps
  <2>4. CASE r \notin landed
    BY <1>4, <1>10, <2>1, <2>2, <2>4 DEF Admin!Steps
  <2> QED BY <2>3, <2>4
<1>11. ASSUME NEW r \in Admin!Asked, Admin!Commits(r) PROVE AdminInv'
  <2>1. asked[r].step = "commit" /\ UNCHANGED <<holder, breaker, sent, landed>>
    BY <1>11 DEF Admin!Commits
  <2>2. r \in landed /\ r \notin sent
    BY <1>11, <2>1 DEF AdminInv
  <2>3. CASE Admin!Goes(r, "failed") /\ UNCHANGED audit
    BY <1>4, <1>11, <2>1, <2>2, <2>3 DEF Admin!Steps, Admin!Interrupted
  <2>4. CASE Admin!Goes(r, "ok") /\ audit' = audit \cup {r}
    <3>1. /\ asked' \in [Admin!Asked -> Asking] /\ asked'[r].step = "ok"
          /\ \A s \in Admin!Asked \ {r} : asked'[s] = asked[s]
          /\ \A s \in Admin!Asked : asked'[s].reply = asked[s].reply
      BY <1>2, <1>11, <2>4 DEF Admin!Steps
    <3>2. Admin!TypeOK'
      BY <1>1, <1>11, <2>1, <2>4, <3>1 DEF Admin!TypeOK
    <3>3. \A s \in sent' : asked'[s].step \notin Unsent \cup {"commit", "ok"} /\ s \notin landed'
      BY <1>1, <2>1, <2>2, <3>1 DEF AdminInv, Admin!TypeOK
    <3>4. \A s \in landed' : asked'[s].step \notin Unsent
      BY <1>1, <2>1, <3>1 DEF AdminInv, Admin!TypeOK, Unsent
    <3>5. \A s \in Admin!Asked : asked'[s].step \in {"commit", "ok"} => s \in landed'
      BY <2>1, <2>2, <3>1 DEF AdminInv
    <3>6. \A s \in Triggers : asked'[s].reply = s <=> s \in landed'
      BY <1>1, <2>1, <3>1 DEF AdminInv
    <3>7. \A s \in Resets : asked'[s].step = "calling" => s \in sent' \cup landed'
      BY <1>1, <2>1, <3>1 DEF AdminInv
    <3>8. Admin!AuditRowsAreTrue'
      BY <1>1, <2>1, <2>2, <2>4, <3>1 DEF AdminInv, Admin!AuditRowsAreTrue, Admin!TypeOK
    <3> QED
      BY <2>1, <3>2, <3>3, <3>4, <3>5, <3>6, <3>7, <3>8 DEF AdminInv
  <2> QED BY <1>11, <2>3, <2>4 DEF Admin!Commits
<1>12. ASSUME Admin!Dies PROVE AdminInv'
  <2> DEFINE Open(r) == asked[r].step \in {"begin", "calling", "commit"}
  <2>1. /\ sent' \subseteq sent /\ UNCHANGED <<holder, breaker, landed, audit>>
        /\ asked' = [r \in Admin!Asked |-> IF Open(r) THEN [asked[r] EXCEPT !.step = "died"]
                                                      ELSE asked[r]]
    BY <1>12 DEF Admin!Dies
  <2>2. /\ asked' \in [Admin!Asked -> Asking]
        /\ \A r \in Admin!Asked :
              /\ asked'[r].step = IF Open(r) THEN "died" ELSE asked[r].step
              /\ asked'[r].reply = asked[r].reply
    BY <1>1, <2>1 DEF Admin!Steps
  <2>3. Admin!TypeOK'
    BY <1>1, <2>1, <2>2 DEF Admin!TypeOK
  <2>4. \A s \in sent' : asked'[s].step \notin Unsent \cup {"commit", "ok"} /\ s \notin landed'
    BY <1>1, <2>1, <2>2 DEF AdminInv, Admin!TypeOK, Unsent
  <2>5. \A s \in landed' : asked'[s].step \notin Unsent
    BY <1>1, <2>1, <2>2 DEF AdminInv, Admin!TypeOK, Unsent
  <2>6. \A s \in Admin!Asked : asked'[s].step \in {"commit", "ok"} => s \in landed'
    BY <2>1, <2>2 DEF AdminInv
  <2>7. \A s \in Triggers : asked'[s].reply = s <=> s \in landed'
    BY <1>1, <2>1, <2>2 DEF AdminInv
  <2>8. \A s \in Resets : asked'[s].step # "calling"
    BY <1>1, <2>2
  <2>9. Admin!AuditRowsAreTrue'
    BY <1>1, <2>1, <2>2 DEF AdminInv, Admin!AuditRowsAreTrue, Admin!TypeOK, Admin!Interrupted
  <2> QED
    BY <2>1, <2>3, <2>4, <2>5, <2>6, <2>7, <2>8, <2>9 DEF AdminInv
<1>13. ASSUME NEW q \in Admin!Queues, Admin!CronFires(q) \/ Admin!JobEnds(q) PROVE AdminInv'
  <2>1. /\ UNCHANGED <<breaker, asked, sent, landed, audit>>
        /\ \E job \in {Free, Cron} : holder' = [holder EXCEPT ![q] = job]
    BY <1>13 DEF Admin!CronFires, Admin!JobEnds
  <2>2. Admin!TypeOK' /\ \A k \in Admin!Queues : holder'[k] \in {holder[k], Free, Cron}
    BY <1>1, <1>13, <2>1 DEF Admin!TypeOK
  <2> QED
    BY <2>1, <2>2 DEF AdminInv, Admin!AuditRowsAreTrue, IdsAreDistinct
<1>14. ASSUME Admin!BreakerCounts PROVE AdminInv'
  BY <1>14 DEF Admin!BreakerCounts, AdminInv, Admin!TypeOK, Admin!AuditRowsAreTrue
<1> QED
  BY <1>1, <1>3, <1>5, <1>6, <1>7, <1>8, <1>9, <1>10, <1>11, <1>12, <1>13, <1>14 DEF Admin!Next

\* Whatever times out, dies, or lands in Redis late, and however the admins, the
\* crons and the jobs cross: an audit row names a job that was stored or a reset
\* that was done, a request was accepted exactly when it has its row, and what was
\* done without one was interrupted.
THEOREM AuditIsTrue ==
    ASSUME IdsAreDistinct
    PROVE  Admin!Spec => []Admin!AuditRowsAreTrue
<1>1. Admin!Init => AdminInv
  BY AdminAtFirst
<1>2. AdminInv /\ [Admin!Next]_(Admin!avars) => AdminInv'
  BY AdminStays
<1>3. AdminInv => Admin!AuditRowsAreTrue
  BY DEF AdminInv
<1> QED
  BY <1>1, <1>2, <1>3, PTL DEF Admin!Spec

-----------------------------------------------------------------------------
(* Prices outside the nightly sweep.                                       *)

CONSTANTS Cards, InUse, Moving, Asked, BatchSize, MaxCards, MaxStalls, Attempts, MaxFetches
VARIABLES price, history, clock, inUse, cooldown, refresh, queue, batch, job, call, run, stale

Prices == INSTANCE PriceUpdates WITH req <- refresh, due <- stale

PricesAreSensible ==
    /\ IsFiniteSet(Cards) /\ InUse \cup Moving \subseteq Cards
    /\ Attempts \in Nat /\ MaxCards \in Nat

Columns == [usd : Nat, eur : Nat, at : Nat]
PriceAnswer == [at : Nat \ {0}, asked : SUBSET Cards, points : SUBSET (Cards \X Prices!Markets)]
Call == [step : {"idle", "select", "batch", "record", "close", "broken"}, left : SUBSET Cards,
         unpriced : BOOLEAN, failed : BOOLEAN, stopped : BOOLEAN, truncated : BOOLEAN, stalls : Nat]
Run == [fallback : BOOLEAN, status : {"RUNNING", "SUCCEEDED", "PARTIAL", "FAILED"}]

PriceShape ==
    /\ price \in [Cards -> Columns] /\ clock \in Nat
    /\ inUse \subseteq Cards /\ stale \subseteq inUse
    /\ batch \in [Prices!Slots -> SUBSET PriceAnswer]
    /\ job \in [left : Int, open : BOOLEAN] /\ call \in Call
    /\ run = {} \/ \E entry \in Run : run = {entry}

Spotless == ~(call.stopped \/ call.truncated \/ call.unpriced \/ call.failed)

\* As long as nothing went wrong, a card the run is for is fresh or still to be
\* asked for; a call that is to stop asks no more; and a run that said SUCCEEDED was the job's last.
FreshInv ==
    /\ call.step \in {"batch", "record", "close"} /\ Spotless =>
          \A c \in stale : price[c].at # 0 \/ c \in call.left
    /\ call.step \in {"select", "batch"} => ~call.stopped
    /\ call.step = "close" /\ ~call.stopped => call.left = {}
    /\ \A entry \in run : entry.status = "SUCCEEDED" => ~job.open /\ call.step = "idle"
    /\ Prices!SucceededMeansFresh

PriceInv == PriceShape /\ Prices!ShownPricesAreOneAnswer /\ FreshInv

\* No card goes stale within the day, and the run is for no more cards than before.
Fresher ==
    /\ \A c \in Cards : price[c].at # 0 => price'[c].at # 0
    /\ stale' \subseteq stale

\* The instance's Cardinality is Cardinality.
LEMMA SameCardinality == \A S : Prices!Cardinality(S) = Cardinality(S)
BY DEF Prices!Cardinality, Cardinality

LEMMA PricesAtFirst ==
    ASSUME PricesAreSensible, Prices!Init
    PROVE  PriceInv
<1>1. PriceShape
  <2>1. Prices!NoCall \in Call
    BY DEF Prices!NoCall, Call
  <2> QED
    BY <2>1 DEF PricesAreSensible, Prices!Init, PriceShape, Columns
<1>2. Prices!ShownPricesAreOneAnswer
  BY DEF Prices!Init, Prices!ShownPricesAreOneAnswer
<1>3. FreshInv
  BY DEF Prices!Init, FreshInv, Prices!NoCall, Prices!SucceededMeansFresh
<1> QED BY <1>1, <1>2, <1>3 DEF PriceInv

\* Both columns of a card are of the answer that was written last, and so is the time.
LEMMA WrittenPrices ==
    ASSUME PriceShape, Prices!ShownPricesAreOneAnswer, NEW a \in PriceAnswer, Prices!Write(a)
    PROVE  /\ price' \in [Cards -> Columns]
           /\ Prices!ShownPricesAreOneAnswer'
           /\ \A c \in Cards : price[c].at # 0 \/ c \in Prices!Priced(a) => price'[c].at # 0
<1>1. /\ a.at \in Nat \ {0} /\ a.points \subseteq Cards \X Prices!Markets
      /\ price \in [Cards -> Columns] /\ history' = history \cup a.points
  BY DEF PriceAnswer, PriceShape, Prices!Write
<1>2. ASSUME NEW c \in Cards
      PROVE  /\ price'[c] \in Columns
             /\ price'[c].usd \in {0, price'[c].at} /\ price'[c].eur \in {0, price'[c].at}
             /\ price'[c].at # 0 => \E m \in Prices!Markets : <<c, m>> \in history'
             /\ price'[c].usd # 0 => <<c, "usd">> \in history'
             /\ price'[c].eur # 0 => <<c, "eur">> \in history'
             /\ price[c].at # 0 \/ c \in Prices!Priced(a) => price'[c].at # 0
  <2>1. CASE c \notin Prices!Priced(a)
    <3>1. price'[c] = price[c]
      BY <1>2, <2>1 DEF Prices!Write
    <3> QED
      BY <1>1, <1>2, <2>1, <3>1 DEF Prices!ShownPricesAreOneAnswer
  <2>2. CASE c \in Prices!Priced(a)
    <3>1. price'[c] = Prices!Latest(c, a, price[c])
      BY <1>2, <2>2 DEF Prices!Write
    <3>2. /\ price'[c].usd = (IF <<c, "usd">> \in a.points THEN a.at ELSE 0)
          /\ price'[c].eur = (IF <<c, "eur">> \in a.points THEN a.at ELSE 0)
          /\ price'[c].at = a.at /\ price'[c] \in Columns
      BY <1>1, <3>1 DEF Prices!Latest, Columns
    <3>3. \E m \in Prices!Markets : <<c, m>> \in history'
      <4>1. PICK point \in a.points : c = point[1]
        BY <2>2 DEF Prices!Priced
      <4>2. point = <<c, point[2]>> /\ point[2] \in Prices!Markets
        BY <1>1, <4>1
      <4> QED BY <1>1, <4>1, <4>2
    <3> QED
      BY <1>1, <3>2, <3>3
  <2> QED BY <2>1, <2>2
<1>3. price' \in [Cards -> Columns]
  <2>1. price' = [c \in Cards |-> price'[c]]
    BY DEF Prices!Write
  <2> QED BY <1>2, <2>1
<1>4. Prices!ShownPricesAreOneAnswer'
  BY <1>2 DEF Prices!ShownPricesAreOneAnswer, Prices!Markets
<1> QED BY <1>2, <1>3, <1>4

\* A step of others than the active refresh.
LEMMA RefreshMoves ==
    ASSUME PriceInv, UNCHANGED <<job, call, run>>, Fresher
    PROVE  FreshInv'
<1>1. stale \subseteq Cards
  BY DEF PriceInv, PriceShape
<1>2. Prices!SucceededMeansFresh'
  BY <1>1 DEF PriceInv, FreshInv, Fresher, Prices!SucceededMeansFresh
<1> QED
  BY <1>1, <1>2 DEF PriceInv, FreshInv, Fresher, Spotless

\* A step of a call that goes on: its run stays as it is.
LEMMA CallMoves ==
    ASSUME PriceInv, UNCHANGED <<job, run>>, Fresher, call.step # "idle",
           call'.step \in {"batch", "record", "close"} /\ Spotless' =>
               \A c \in stale : price'[c].at # 0 \/ c \in call'.left,
           call'.step \in {"select", "batch"} => ~call'.stopped,
           call'.step = "close" /\ ~call'.stopped => call'.left = {}
    PROVE  FreshInv'
<1>1. \A entry \in run : entry.status # "SUCCEEDED"
  BY DEF PriceInv, FreshInv
<1>2. Prices!SucceededMeansFresh'
  BY <1>1 DEF Prices!SucceededMeansFresh
<1> QED
  BY <1>1, <1>2 DEF FreshInv, Fresher

\* A step that ends a call, or a run without one, with anything but SUCCEEDED.
LEMMA RunEnds ==
    ASSUME PriceInv, call'.step = "idle", \A entry \in run' : entry.status # "SUCCEEDED"
    PROVE  FreshInv'
BY DEF FreshInv, Prices!SucceededMeansFresh

\* The rows of a run that is closed with a status.
LEMMA ClosedRun ==
    ASSUME PriceShape, NEW status \in {"RUNNING", "SUCCEEDED", "PARTIAL", "FAILED"},
           Prices!Close(status)
    PROVE  /\ run' = {} \/ \E entry \in Run : run' = {entry}
           /\ \A entry \in run' : entry.status = status /\ \E old \in run : entry.fallback = old.fallback
<1>1. CASE run = {}
  BY <1>1 DEF Prices!Close
<1>2. ASSUME NEW old \in Run, run = {old}
      PROVE  /\ \E entry \in Run : run' = {entry}
             /\ \A entry \in run' : entry.status = status /\ entry.fallback = old.fallback
  <2> DEFINE new == [old EXCEPT !.status = status]
  <2>1. new \in Run /\ new.status = status /\ new.fallback = old.fallback
    BY <1>2 DEF Run
  <2>2. run' = {new}
    BY <1>2 DEF Prices!Close
  <2> HIDE DEF new
  <2> QED BY <2>1, <2>2
<1> QED BY <1>1, <1>2 DEF PriceShape

\* What is asked of a provider: one answer, which nothing has been written of yet.
LEMMA Fetched ==
    ASSUME PriceShape, NEW s \in Prices!Slots, NEW ids \in SUBSET Cards,
           Prices!Fetch(s, ids)
    PROVE  clock' \in Nat /\ batch' \in [Prices!Slots -> SUBSET PriceAnswer]
<1>1. clock \in Nat /\ clock' = clock + 1
  BY DEF PriceShape, Prices!Fetch
<1>2. PICK points \in SUBSET (ids \X Prices!Markets) :
          batch' = [batch EXCEPT ![s] = {[at |-> clock + 1, asked |-> ids, points |-> points]}]
  BY DEF Prices!Fetch
<1>3. [at |-> clock + 1, asked |-> ids, points |-> points] \in PriceAnswer
  BY <1>1, <1>2 DEF PriceAnswer
<1> QED
  BY <1>1, <1>2, <1>3 DEF PriceShape

\* The members' refreshes, and what they leave of the active one.
LEMMA RefreshStays ==
    ASSUME PricesAreSensible, PriceInv,
           \/ Prices!Use \/ Prices!FetchOne \/ Prices!WriteOne \/ Prices!FailOne
           \/ \E r \in Requests : \/ \E c \in Asked : Prices!TakeCooldown(r, c)
                                  \/ Prices!Add(r) \/ Prices!DieAdding(r)
           \/ \E c \in Cards : Prices!CooldownEnds(c)
    PROVE  PriceInv'
<1>1. PriceShape /\ Prices!ShownPricesAreOneAnswer /\ price \in [Cards -> Columns]
  BY DEF PriceInv, PriceShape
<1>2. CASE Prices!Use
  <2>1. /\ UNCHANGED <<price, history, clock, batch, job, call, run>>
        /\ stale' = stale \cap inUse'
        /\ inUse' \subseteq inUse \cup Moving
    BY <1>2 DEF Prices!Use
  <2>2. PriceShape'
    BY <1>1, <2>1 DEF PriceShape, PricesAreSensible
  <2>3. Fresher
    BY <2>1 DEF Fresher
  <2> QED
    BY <1>1, <2>1, <2>2, <2>3, RefreshMoves DEF PriceInv, Prices!ShownPricesAreOneAnswer
<1>3. CASE Prices!FetchOne
  <2>1. UNCHANGED <<price, history, inUse, job, call, run, stale>>
    BY <1>3 DEF Prices!FetchOne, Prices!tableVars, Prices!activeVars
  <2>2. PICK c \in Cards : Prices!Fetch("refresh", {c})
    BY <1>3 DEF Prices!FetchOne
  <2>3. clock' \in Nat /\ batch' \in [Prices!Slots -> SUBSET PriceAnswer]
    BY <1>1, <2>2, Fetched DEF Prices!Slots
  <2>4. Fresher
    BY <2>1 DEF Fresher
  <2> QED
    BY <1>1, <2>1, <2>3, <2>4, RefreshMoves DEF PriceInv, PriceShape, Prices!ShownPricesAreOneAnswer
<1>4. CASE Prices!WriteOne
  <2>1. /\ UNCHANGED <<clock, inUse, job, call, run, stale>>
        /\ batch' = [batch EXCEPT !["refresh"] = {}]
    BY <1>4 DEF Prices!WriteOne, Prices!activeVars
  <2>2. PICK a \in batch["refresh"] : Prices!Write(a)
    BY <1>4 DEF Prices!WriteOne
  <2>3. a \in PriceAnswer
    BY <1>1 DEF PriceShape, Prices!Slots
  <2>4. /\ price' \in [Cards -> Columns] /\ Prices!ShownPricesAreOneAnswer'
        /\ \A c \in Cards : price[c].at # 0 => price'[c].at # 0
    BY <1>1, <2>2, <2>3, WrittenPrices
  <2>5. Fresher
    BY <2>1, <2>4 DEF Fresher
  <2> QED
    BY <1>1, <2>1, <2>4, <2>5, RefreshMoves DEF PriceInv, PriceShape
<1>5. CASE Prices!FailOne
  <2>1. /\ UNCHANGED <<price, history, inUse, clock, job, call, run, stale>>
        /\ batch' = [batch EXCEPT !["refresh"] = {}]
    BY <1>5 DEF Prices!FailOne, Prices!tableVars, Prices!activeVars
  <2>2. Fresher
    BY <2>1 DEF Fresher
  <2> QED
    BY <1>1, <2>1, <2>2, RefreshMoves DEF PriceInv, PriceShape, Prices!ShownPricesAreOneAnswer
<1>6. CASE \/ \E r \in Requests : \/ \E c \in Asked : Prices!TakeCooldown(r, c)
                                  \/ Prices!Add(r) \/ Prices!DieAdding(r)
           \/ \E c \in Cards : Prices!CooldownEnds(c)
  <2>1. UNCHANGED <<price, history, inUse, clock, batch, job, call, run, stale>>
    BY <1>6 DEF Prices!TakeCooldown, Prices!Add, Prices!DieAdding, Prices!CooldownEnds,
                Prices!tableVars, Prices!activeVars
  <2>2. Fresher
    BY <2>1 DEF Fresher
  <2> QED
    BY <1>1, <2>1, <2>2, RefreshMoves DEF PriceInv, PriceShape, Prices!ShownPricesAreOneAnswer
<1> QED BY <1>2, <1>3, <1>4, <1>5, <1>6

\* A call of the active refresh that writes no price.
LEMMA QuietCall ==
    ASSUME PriceInv, UNCHANGED <<price, history, clock, inUse, batch>>
    PROVE  /\ Prices!ShownPricesAreOneAnswer'
           /\ \A c \in Cards : price[c].at # 0 => price'[c].at # 0
           /\ /\ stale' \subseteq inUse /\ job' \in [left : Int, open : BOOLEAN] /\ call' \in Call
              /\ run' = {} \/ \E entry \in Run : run' = {entry}
              => PriceShape'
BY DEF PriceInv, PriceShape, Prices!ShownPricesAreOneAnswer

LEMMA ActiveStays ==
    ASSUME PricesAreSensible, PriceInv, Prices!Active
    PROVE  PriceInv'
<1>1. /\ PriceShape /\ Prices!ShownPricesAreOneAnswer /\ FreshInv /\ call \in Call
      /\ price \in [Cards -> Columns] /\ stale \subseteq inUse /\ inUse \subseteq Cards
      /\ job \in [left : Int, open : BOOLEAN] /\ (run = {} \/ \E entry \in Run : run = {entry})
  BY DEF PriceInv, PriceShape
<1>2. CASE Prices!Begin
  <2>1. /\ UNCHANGED <<price, history, inUse, clock, batch, job>> /\ job.open
        /\ call' = [Prices!NoCall EXCEPT !.step = "select"]
        /\ \/ UNCHANGED <<run, stale>>
           \/ /\ \E fallback \in BOOLEAN : run' = {[fallback |-> fallback, status |-> "RUNNING"]}
              /\ stale' = Prices!StaleCards
    BY <1>2 DEF Prices!Begin, Prices!tableVars
  <2>2. call' \in Call /\ call'.step = "select" /\ ~call'.stopped
    BY <2>1 DEF Prices!NoCall, Call
  <2>3. /\ run' = {} \/ \E entry \in Run : run' = {entry}
        /\ \A entry \in run' : entry.status # "SUCCEEDED"
        /\ stale' \subseteq inUse
    <3>1. CASE UNCHANGED <<run, stale>>
      BY <1>1, <2>1, <3>1 DEF FreshInv
    <3>2. CASE /\ \E fallback \in BOOLEAN : run' = {[fallback |-> fallback, status |-> "RUNNING"]}
               /\ stale' = Prices!StaleCards
      BY <3>2 DEF Run, Prices!StaleCards
    <3> QED BY <2>1, <3>1, <3>2
  <2>4. FreshInv'
    BY <2>2, <2>3 DEF FreshInv, Prices!SucceededMeansFresh
  <2> QED
    BY <1>1, <2>1, <2>2, <2>3, <2>4, QuietCall DEF PriceInv
<1>3. CASE Prices!Abandon
  <2>1. /\ UNCHANGED <<price, history, inUse, clock, batch, call, stale>>
        /\ Prices!Close("PARTIAL") /\ job' = [job EXCEPT !.open = FALSE] /\ call.step = "idle"
    BY <1>3 DEF Prices!Abandon, Prices!tableVars, Prices!Running
  <2>2. /\ run' = {} \/ \E entry \in Run : run' = {entry}
        /\ \A entry \in run' : entry.status = "PARTIAL"
    BY <1>1, <2>1, ClosedRun
  <2>3. job' \in [left : Int, open : BOOLEAN]
    BY <1>1, <2>1
  <2> QED
    BY <1>1, <2>1, <2>2, <2>3, QuietCall, RunEnds DEF PriceInv
\* The steps of a call that only change the call.
<1>4. ASSUME NEW next \in Call, call' = next, call.step # "idle",
             UNCHANGED <<price, history, inUse, clock, batch, job, run, stale>>,
             next.step \in {"batch", "record", "close"}
                 /\ ~(next.stopped \/ next.truncated \/ next.unpriced \/ next.failed) =>
                     \A c \in stale : price[c].at # 0 \/ c \in next.left,
             next.step \in {"select", "batch"} => ~next.stopped,
             next.step = "close" /\ ~next.stopped => next.left = {}
      PROVE  PriceInv'
  <2>1. Fresher
    BY <1>4 DEF Fresher
  <2>2. FreshInv'
    BY <1>4, <2>1, CallMoves DEF Spotless
  <2> QED
    BY <1>1, <1>4, <2>2, QuietCall DEF PriceInv
<1>5. CASE Prices!Select
  <2>1. PICK chosen \in SUBSET Prices!StaleCards :
            /\ IF Prices!Cardinality(Prices!StaleCards) <= MaxCards THEN chosen = Prices!StaleCards
               ELSE Prices!Cardinality(chosen) = MaxCards
            /\ call' = [call EXCEPT !.left = chosen,
                          !.truncated = Prices!Cardinality(Prices!StaleCards) > MaxCards,
                          !.step = IF chosen = {} THEN "close" ELSE "batch"]
    BY <1>5 DEF Prices!Select
  <2>2. call.step = "select" /\ UNCHANGED <<price, history, inUse, clock, batch, job, run, stale>>
    BY <1>5 DEF Prices!Select, Prices!tableVars
  <2> DEFINE truncated == Prices!Cardinality(Prices!StaleCards) > MaxCards
             step == IF chosen = {} THEN "close" ELSE "batch"
             next == [call EXCEPT !.left = chosen, !.truncated = truncated, !.step = step]
  <2>3. Prices!StaleCards \subseteq Cards /\ truncated \in BOOLEAN
    BY <1>1 DEF Prices!StaleCards
  <2>4. step \in {"close", "batch"} /\ (step = "close" => chosen = {}) /\ call' = next
    BY <2>1
  <2> HIDE DEF truncated, step
  <2>5. /\ next \in Call /\ next.step = step /\ next.left = chosen
        /\ next.truncated = truncated /\ next.stopped = call.stopped
    BY <1>1, <2>3, <2>4 DEF Call
  <2> HIDE DEF next
  <2>6. ~truncated => \A c \in stale : price[c].at # 0 \/ c \in chosen
    <3>1. CASE truncated
      BY <3>1
    <3>2. CASE ~truncated
      <4>1. Prices!Cardinality(Prices!StaleCards) \in Nat
        BY <2>3, FS_Subset, FS_CardinalityType, SameCardinality DEF PricesAreSensible
      <4>2. Prices!Cardinality(Prices!StaleCards) <= MaxCards
        BY <3>2, <4>1 DEF PricesAreSensible, truncated
      <4>3. chosen = Prices!StaleCards
        BY <2>1, <4>2
      <4> QED
        BY <1>1, <4>3 DEF Prices!StaleCards
    <3> QED BY <3>1, <3>2
  <2> QED
    BY <1>1, <1>4, <2>2, <2>4, <2>5, <2>6 DEF FreshInv
<1>6. CASE Prices!OutOfBudget
  <2>1. /\ call.step = "batch" /\ call' = [call EXCEPT !.stopped = TRUE, !.step = "close"]
        /\ UNCHANGED <<price, history, inUse, clock, batch, job, run, stale>>
    BY <1>6 DEF Prices!OutOfBudget, Prices!tableVars
  <2> DEFINE next == [call EXCEPT !.stopped = TRUE, !.step = "close"]
  <2>2. next \in Call /\ next.stopped /\ next.step = "close"
    BY <1>1 DEF Call
  <2> HIDE DEF next
  <2> QED
    BY <1>4, <2>1, <2>2 DEF next
<1>7. CASE Prices!FetchBatch
  <2>1. /\ UNCHANGED <<price, history, inUse, job, call, run, stale>>
        /\ \E ids \in Prices!Ids : Prices!Fetch("active", ids)
    BY <1>7 DEF Prices!FetchBatch, Prices!tableVars, Prices!activeVars
  <2>2. Prices!Ids \subseteq SUBSET Cards
    BY <1>1 DEF Prices!Ids, Call
  <2>3. clock' \in Nat /\ batch' \in [Prices!Slots -> SUBSET PriceAnswer]
    BY <1>1, <2>1, <2>2, Fetched DEF Prices!Slots
  <2>4. Fresher
    BY <2>1 DEF Fresher
  <2> QED
    BY <1>1, <2>1, <2>3, <2>4, RefreshMoves DEF PriceInv, PriceShape, Prices!ShownPricesAreOneAnswer
<1>8. CASE Prices!WriteBatch
  <2>1. PICK a \in batch["active"] :
            /\ Prices!Write(a)
            /\ call' = [call EXCEPT !.step = "record", !.left = call.left \ a.asked,
                          !.unpriced = call.unpriced \/ Prices!Unpriced(a), !.stalls = 0]
    BY <1>8 DEF Prices!WriteBatch
  <2>2. /\ call.step = "batch" /\ UNCHANGED <<clock, inUse, job, run, stale>>
        /\ batch' = [batch EXCEPT !["active"] = {}]
    BY <1>8 DEF Prices!WriteBatch
  <2>3. a \in PriceAnswer
    BY <1>1 DEF PriceShape, Prices!Slots
  <2>4. /\ price' \in [Cards -> Columns] /\ Prices!ShownPricesAreOneAnswer'
        /\ \A c \in Cards : price[c].at # 0 \/ c \in Prices!Priced(a) => price'[c].at # 0
    BY <1>1, <2>1, <2>3, WrittenPrices
  <2>5. /\ call' \in Call /\ call'.step = "record" /\ call'.left = call.left \ a.asked
        /\ call'.stopped = call.stopped /\ call'.truncated = call.truncated
        /\ call'.failed = call.failed
        /\ call'.unpriced <=> call.unpriced \/ Prices!Unpriced(a)
    BY <1>1, <2>1 DEF Call, Prices!Unpriced
  <2>6. Spotless' => \A c \in stale : price'[c].at # 0 \/ c \in call'.left
    <3>1. ASSUME Spotless', NEW c \in stale, c \notin call'.left PROVE price'[c].at # 0
      <4>1. Spotless /\ Prices!Priced(a) = a.asked
        BY <2>5, <3>1 DEF Spotless, Prices!Unpriced
      <4>2. price[c].at # 0 \/ c \in call.left
        BY <1>1, <2>2, <3>1, <4>1 DEF FreshInv
      <4> QED
        BY <1>1, <2>4, <2>5, <3>1, <4>1, <4>2
    <3> QED BY <3>1
  <2>7. Fresher
    BY <2>2, <2>4 DEF Fresher
  <2>8. FreshInv'
    BY <2>2, <2>5, <2>6, <2>7, CallMoves
  <2> QED
    BY <1>1, <2>2, <2>4, <2>5, <2>8 DEF PriceInv, PriceShape
<1>9. CASE Prices!Stalled
  <2>1. /\ call.step = "batch" /\ UNCHANGED <<price, history, inUse, clock, batch, job, run, stale>>
        /\ call' = [call EXCEPT !.stalls = call.stalls + 1,
                      !.stopped = call.stalls + 1 >= MaxStalls,
                      !.step = IF call.stalls + 1 >= MaxStalls THEN "close" ELSE "batch"]
    BY <1>9 DEF Prices!Stalled, Prices!tableVars
  <2> DEFINE stop == call.stalls + 1 >= MaxStalls
             step == IF stop THEN "close" ELSE "batch"
             stalls == call.stalls + 1
             next == [call EXCEPT !.stalls = stalls, !.stopped = stop, !.step = step]
  <2>2. /\ stop \in BOOLEAN /\ step \in {"close", "batch"} /\ (step = "close" <=> stop)
        /\ call' = next
    BY <2>1
  <2>4. stalls \in Nat
    BY <1>1 DEF Call
  <2> HIDE DEF stop, step, stalls
  <2>3. /\ next \in Call /\ next.step = step /\ next.stopped = stop /\ next.left = call.left
        /\ next.truncated = call.truncated /\ next.unpriced = call.unpriced
        /\ next.failed = call.failed
    BY <1>1, <2>2, <2>4 DEF Call
  <2> HIDE DEF next
  <2> QED
    BY <1>1, <1>4, <2>1, <2>2, <2>3 DEF FreshInv, Spotless
<1>10. CASE Prices!BatchFails
  <2>1. /\ call.step = "batch" /\ UNCHANGED <<price, history, inUse, clock, job, run, stale>>
        /\ batch' = [batch EXCEPT !["active"] = {}]
    BY <1>10 DEF Prices!BatchFails, Prices!tableVars
  <2>2. PICK ids \in (IF batch["active"] = {} THEN Prices!Ids
                      ELSE {a.asked : a \in batch["active"]}), down \in BOOLEAN :
            call' = [call EXCEPT !.step = "record", !.left = call.left \ ids, !.failed = TRUE,
                       !.stopped = down /\ batch["active"] = {}, !.stalls = 0]
    BY <1>10 DEF Prices!BatchFails
  <2>3. call' \in Call /\ call'.step = "record" /\ call'.failed
    BY <1>1, <2>2 DEF Call
  <2>4. Fresher
    BY <2>1 DEF Fresher
  <2>5. FreshInv'
    BY <2>1, <2>3, <2>4, CallMoves DEF Spotless
  <2> QED
    BY <1>1, <2>1, <2>3, <2>5 DEF PriceInv, PriceShape, Prices!ShownPricesAreOneAnswer
<1>11. CASE Prices!ContractBroken
  <2>1. /\ call.step = "batch" /\ call' = [call EXCEPT !.step = "broken"]
        /\ UNCHANGED <<price, history, inUse, clock, batch, job, run, stale>>
    BY <1>11 DEF Prices!ContractBroken, Prices!tableVars
  <2> DEFINE next == [call EXCEPT !.step = "broken"]
  <2>2. next \in Call /\ next.step = "broken"
    BY <1>1 DEF Call
  <2> HIDE DEF next
  <2> QED
    BY <1>4, <2>1, <2>2 DEF next
<1>12. CASE Prices!Record
  <2> DEFINE step == IF call.stopped \/ call.left = {} THEN "close" ELSE "batch"
             next == [call EXCEPT !.step = step]
  <2>1. /\ call.step = "record" /\ call' = next
        /\ UNCHANGED <<price, history, inUse, clock, batch, job, run, stale>>
    BY <1>12 DEF Prices!Record, Prices!tableVars
  <2>2. /\ step \in {"batch", "close"} /\ (step = "batch" => ~call.stopped)
        /\ (step = "close" /\ ~call.stopped => call.left = {})
    OBVIOUS
  <2> HIDE DEF step
  <2>3. /\ next \in Call /\ next.step = step /\ next.left = call.left
        /\ next.stopped = call.stopped /\ next.truncated = call.truncated
        /\ next.unpriced = call.unpriced /\ next.failed = call.failed
    BY <1>1, <2>2 DEF Call
  <2> HIDE DEF next
  <2>4. ~(next.stopped \/ next.truncated \/ next.unpriced \/ next.failed) =>
            \A c \in stale : price[c].at # 0 \/ c \in next.left
    BY <1>1, <2>1, <2>3 DEF FreshInv, Spotless
  <2> QED
    BY <1>4, <2>1, <2>2, <2>3, <2>4
<1>13. CASE Prices!CloseRun
  <2>1. /\ call.step = "close" /\ call' = Prices!NoCall /\ job' = [job EXCEPT !.open = FALSE]
        /\ UNCHANGED <<price, history, inUse, clock, batch, stale>>
    BY <1>13 DEF Prices!CloseRun, Prices!tableVars
  <2>2. PICK old \in run :
            Prices!Close(IF Prices!Complete(old) THEN "SUCCEEDED" ELSE "PARTIAL")
    BY <1>13 DEF Prices!CloseRun
  <2>3. call' \in Call /\ call'.step = "idle" /\ job' \in [left : Int, open : BOOLEAN] /\ ~job'.open
    BY <1>1, <2>1 DEF Prices!NoCall, Call
  <2> DEFINE status == IF Prices!Complete(old) THEN "SUCCEEDED" ELSE "PARTIAL"
  <2>4. status \in {"SUCCEEDED", "PARTIAL"} /\ (status = "SUCCEEDED" <=> Prices!Complete(old))
    OBVIOUS
  <2> HIDE DEF status
  <2>5. /\ run' = {} \/ \E entry \in Run : run' = {entry}
        /\ \A entry \in run' : entry.status = status /\ \E other \in run : entry.fallback = other.fallback
    BY <1>1, <2>2, <2>4, ClosedRun DEF status
  <2>6. run = {old}
    BY <1>1
  <2>7. Prices!SucceededMeansFresh'
    <3>1. ASSUME NEW entry \in run', entry.status = "SUCCEEDED"
          PROVE  ~entry.fallback /\ \A c \in stale' : price'[c].at # 0
      <4>1. Prices!Complete(old) /\ entry.fallback = old.fallback
        BY <2>4, <2>5, <2>6, <3>1
      <4>2. ~old.fallback /\ Spotless
        BY <4>1 DEF Prices!Complete, Spotless
      <4>3. call.left = {} /\ \A c \in stale : price[c].at # 0 \/ c \in call.left
        BY <1>1, <2>1, <4>2 DEF FreshInv, Spotless
      <4> QED
        BY <2>1, <4>1, <4>2, <4>3
    <3> QED BY <3>1 DEF Prices!SucceededMeansFresh
  <2>8. FreshInv'
    BY <2>3, <2>7 DEF FreshInv
  <2> QED
    BY <1>1, <2>1, <2>3, <2>5, <2>8, QuietCall DEF PriceInv
<1>14. CASE Prices!CloseBroken \/ Prices!AttemptFails
  <2>1. PICK status \in {"FAILED", "RUNNING"} : Prices!Throw(status)
    BY <1>14 DEF Prices!CloseBroken, Prices!AttemptFails
  <2>2. call.step # "idle"
    BY <1>14 DEF Prices!CloseBroken, Prices!AttemptFails, Prices!Running
  <2>3. /\ job' = [left |-> job.left - 1, open |-> job.left > 1] /\ call' = Prices!NoCall
        /\ batch' = [batch EXCEPT !["active"] = {}]
        /\ UNCHANGED <<price, history, inUse, clock, stale>>
    BY <2>1 DEF Prices!Throw, Prices!tableVars
  <2>4. call' \in Call /\ call'.step = "idle" /\ job' \in [left : Int, open : BOOLEAN]
    BY <1>1, <2>3 DEF Prices!NoCall, Call
  <2>5. \E last \in {status, "FAILED"} : Prices!Close(last) \/ run' = run
    BY <2>1 DEF Prices!Throw, Prices!Close
  <2>6. /\ run' = {} \/ \E entry \in Run : run' = {entry}
        /\ \A entry \in run' : entry.status # "SUCCEEDED"
    <3>1. CASE run' = run
      BY <1>1, <2>2, <3>1 DEF FreshInv
    <3>2. CASE \E last \in {status, "FAILED"} : Prices!Close(last)
      BY <1>1, <2>1, <3>2, ClosedRun
    <3> QED BY <2>5, <3>1, <3>2
  <2>7. FreshInv'
    BY <2>4, <2>6, RunEnds
  <2> QED
    BY <1>1, <2>3, <2>4, <2>6, <2>7 DEF PriceInv, PriceShape, Prices!ShownPricesAreOneAnswer
<1> QED
  BY <1>2, <1>3, <1>5, <1>6, <1>7, <1>8, <1>9, <1>10, <1>11, <1>12, <1>13, <1>14 DEF Prices!Active

LEMMA PricesStay ==
    ASSUME PricesAreSensible, PriceInv, [Prices!Next]_(Prices!pvars)
    PROVE  PriceInv'
<1>1. CASE UNCHANGED Prices!pvars
  <2>1. UNCHANGED <<price, history, clock, inUse, batch, job, call, run, stale>>
    BY <1>1 DEF Prices!pvars
  <2>2. Fresher
    BY <2>1 DEF Fresher
  <2> QED
    BY <2>1, <2>2, RefreshMoves DEF PriceInv, PriceShape, Prices!ShownPricesAreOneAnswer
<1>2. CASE Prices!Active
  BY <1>2, ActiveStays
<1>3. CASE Prices!Next /\ ~Prices!Active
  BY <1>3, RefreshStays DEF Prices!Next
<1> QED BY <1>1, <1>2, <1>3

\* Whichever jobs fetch and write a card at once, what it shows is one answer, with
\* today's history of it.
THEOREM ShownPricesAreTrue ==
    ASSUME PricesAreSensible
    PROVE  Prices!Spec => []Prices!ShownPricesAreOneAnswer
<1>1. Prices!Init => PriceInv
  BY PricesAtFirst
<1>2. PriceInv /\ [Prices!Next]_(Prices!pvars) => PriceInv'
  BY PricesStay
<1>3. PriceInv => Prices!ShownPricesAreOneAnswer
  BY DEF PriceInv
<1> QED
  BY <1>1, <1>2, <1>3, PTL DEF Prices!Spec

\* An active refresh that says SUCCEEDED left no card stale that it was for and that
\* is still in use, however its batches fail, its attempts end and members refresh.
THEOREM ActiveRefreshIsHonest ==
    ASSUME PricesAreSensible
    PROVE  Prices!Spec => []Prices!SucceededMeansFresh
<1>1. Prices!Init => PriceInv
  BY PricesAtFirst
<1>2. PriceInv /\ [Prices!Next]_(Prices!pvars) => PriceInv'
  BY PricesStay
<1>3. PriceInv => Prices!SucceededMeansFresh
  BY DEF PriceInv, FreshInv
<1> QED
  BY <1>1, <1>2, <1>3, PTL DEF Prices!Spec
-----------------------------------------------------------------------------
(* Numbers and orders.                                                     *)

LEMMA Quotient ==
    ASSUME NEW a \in Nat, NEW t \in Nat, t > 0
    PROVE  \E k \in Nat : \E m \in 0 .. t - 1 : a % t = m /\ a = k * t + m
<1>1. ASSUME NEW k, k = a \div t, NEW m, m = a % t PROVE a = t * k + m
  BY <1>1, SMTT(20)
<1>2. PICK k : k = a \div t
  OBVIOUS
<1>3. PICK m : m = a % t
  OBVIOUS
<1>4. k \in Nat
  BY <1>2
<1>5. m \in Nat /\ m < t
  BY <1>3
<1>6. m \in 0 .. t - 1 /\ a = k * t + m
  BY <1>1, <1>2, <1>3, <1>4, <1>5
<1> QED
  BY <1>3, <1>4, <1>6

LEMMA Remainder ==
    ASSUME NEW t \in Nat, NEW k \in Int, NEW m \in 0 .. t - 1
    PROVE  (k * t + m) % t = m
<1>1. PICK a \in Int : a = k * t + m
  OBVIOUS
<1>2. a % t = m
  BY <1>1, SMTT(20)
<1> QED
  BY <1>1, <1>2

LEMMA TimesGrows ==
    ASSUME NEW j \in Int, NEW k \in Int, NEW t \in Nat, j < k
    PROVE  j * t + t <= k * t
<1>1. (j + 1) * t <= k * t
  OBVIOUS
<1> QED
  BY <1>1

\* Of the numbers below k * t, those whose remainder is one of w are k * w.
LEMMA CountedByRemainder ==
    ASSUME NEW t \in Nat, t > 0, NEW k \in Nat, NEW b \in Nat, NEW w \in Nat, b + w <= t,
           NEW V, V = {v \in 0 .. k * t - 1 : b <= v % t /\ v % t < b + w}
    PROVE  Cardinality(V) = k * w
<1> DEFINE K == 0 .. k - 1
           W == b .. b + w - 1
           f == [p \in K \X W |-> p[1] * t + p[2]]
<1>1. ASSUME NEW q \in K, NEW m \in W
      PROVE  q * t + m \in V /\ (q * t + m) % t = m
  <2>1. q \in Nat /\ q < k /\ m \in Nat /\ b <= m /\ m < b + w
    BY <1>1
  <2>2. m \in 0 .. t - 1
    BY <2>1
  <2>3. (q * t + m) % t = m
    BY <2>1, <2>2, Remainder
  <2>4. q * t + t <= k * t
    BY <2>1, TimesGrows
  <2>5. q * t \in Nat /\ k * t \in Nat
    BY <2>1
  <2>6. q * t + m \in 0 .. k * t - 1
    BY <2>2, <2>4, <2>5
  <2> QED
    BY <2>1, <2>3, <2>6
<1>2. f \in [K \X W -> V]
  <2>1. ASSUME NEW p \in K \X W PROVE p[1] * t + p[2] \in V
    <3>1. p[1] \in K /\ p[2] \in W
      OBVIOUS
    <3> HIDE DEF K, W
    <3> QED
      BY <1>1, <3>1
  <2> HIDE DEF K, W
  <2> QED
    BY <2>1
<1>3. ASSUME NEW p \in K \X W, NEW s \in K \X W, f[p] = f[s] PROVE p = s
  <2>1. PICK q \in K, m \in W : p = <<q, m>>
    OBVIOUS
  <2>2. PICK r \in K, n \in W : s = <<r, n>>
    OBVIOUS
  <2>3. f[p] = q * t + m /\ f[s] = r * t + n
    BY <2>1, <2>2
  <2>4. m = n
    <3>1. (q * t + m) % t = m /\ (r * t + n) % t = n
      BY <1>1
    <3> QED
      BY <1>3, <2>3, <3>1
  <2>5. q \in Int /\ r \in Int /\ m \in Int
    OBVIOUS
  <2>6. q * t = r * t
    <3>1. q * t \in Int /\ r * t \in Int
      BY <2>5
    <3>2. q * t + m = r * t + m
      BY <1>3, <2>3, <2>4
    <3> HIDE DEF f
    <3> QED
      BY <2>5, <3>1, <3>2
  <2>7. q = r
    BY <2>5, <2>6, TimesGrows
  <2> QED
    BY <2>1, <2>2, <2>4, <2>7
<1>4. ASSUME NEW v \in V PROVE \E p \in K \X W : f[p] = v
  <2>1. v \in Nat /\ v < k * t /\ b <= v % t /\ v % t < b + w
    <3>1. k * t \in Nat
      OBVIOUS
    <3> QED
      BY <1>4, <3>1
  <2>2. PICK q \in Nat : \E m \in 0 .. t - 1 : v % t = m /\ v = q * t + m
    BY <2>1, Quotient
  <2>3. PICK m \in 0 .. t - 1 : v % t = m /\ v = q * t + m
    BY <2>2
  <2>4. q < k
    <3>1. k <= q => k * t <= q * t
      <4>1. k < q => k * t + t <= q * t
        BY TimesGrows
      <4>2. k * t \in Nat /\ q * t \in Nat
        OBVIOUS
      <4> QED
        BY <4>1, <4>2
    <3>2. k * t \in Nat /\ q * t \in Nat
      OBVIOUS
    <3> QED
      BY <2>1, <2>3, <3>1, <3>2
  <2>5. q \in K /\ m \in W
    BY <2>1, <2>3, <2>4
  <2>6. f[<<q, m>>] = v
    BY <2>3, <2>5
  <2> QED
    BY <2>5, <2>6
<1>5. f \in Bijection(K \X W, V)
  <2> HIDE DEF f, K, W
  <2>1. f \in Injection(K \X W, V)
    BY <1>2, <1>3 DEF Injection, IsInjective
  <2>2. f \in Surjection(K \X W, V)
    BY <1>2, <1>4 DEF Surjection
  <2> QED
    BY <2>1, <2>2 DEF Bijection
<1>6. IsFiniteSet(K) /\ IsFiniteSet(W) /\ Cardinality(K) = k /\ Cardinality(W) = w
  <2>1. /\ IsFiniteSet(K) /\ Cardinality(K) = IF 0 > k - 1 THEN 0 ELSE k - 1 - 0 + 1
        /\ IsFiniteSet(W) /\ Cardinality(W) = IF b > b + w - 1 THEN 0 ELSE b + w - 1 - b + 1
    BY FS_Interval
  <2> QED
    BY <2>1
<1> HIDE DEF f, K, W
<1>7. IsFiniteSet(K \X W) /\ Cardinality(K \X W) = k * w
  BY <1>6, FS_Product
<1>8. ExistsBijection(K \X W, V)
  BY <1>5 DEF ExistsBijection
<1> QED
  BY <1>7, <1>8, FS_Bijection

-----------------------------------------------------------------------------
(* What a pack can contain: the shares of a slot, and the draw.            *)

CONSTANTS SetOf, Rarity, Slots, Covers, Editors, MaxDrifts, WordBits
VARIABLES rarity, template, edit, pull

Draws == INSTANCE PackTemplates

\* A slot as the schema has it: natural weights of finitely many rarities, one of them positive.
Weights(slot) ==
    /\ IsFiniteSet(DOMAIN slot) /\ DOMAIN slot \subseteq Nat
    /\ slot \in [DOMAIN slot -> Nat]
    /\ Draws!Rungs(slot) # {}

\* The rarities that come before r in roll()'s walk, and where r's share of the numbers starts.
Ahead(slot, r) == {s \in Draws!Rungs(slot) : Draws!Commoner(slot, s, r)}
ShareStart(slot, r) == SumFunctionOnSet(slot, Ahead(slot, r))

LEMMA RungsAreWeighted ==
    ASSUME NEW slot, Weights(slot)
    PROVE  /\ IsFiniteSet(Draws!Rungs(slot)) /\ Draws!Rungs(slot) \subseteq Nat
           /\ \A r \in Draws!Rungs(slot) : slot[r] \in Nat /\ slot[r] > 0
<1>1. Draws!Rungs(slot) \subseteq DOMAIN slot
  BY DEF Draws!Rungs
<1>2. \A r \in Draws!Rungs(slot) : slot[r] \in Nat /\ slot[r] > 0
  BY DEF Weights, Draws!Rungs
<1> QED
  BY <1>1, <1>2, FS_Subset DEF Weights

LEMMA CommonerIsAnOrder ==
    ASSUME NEW slot, Weights(slot), NEW a \in Draws!Rungs(slot), NEW b \in Draws!Rungs(slot),
           NEW c \in Draws!Rungs(slot)
    PROVE  /\ ~Draws!Commoner(slot, a, a)
           /\ Draws!Commoner(slot, a, b) /\ Draws!Commoner(slot, b, c) => Draws!Commoner(slot, a, c)
           /\ a # b => Draws!Commoner(slot, a, b) \/ Draws!Commoner(slot, b, a)
           /\ ~(Draws!Commoner(slot, a, b) /\ Draws!Commoner(slot, b, a))
<1>1. /\ a \in Nat /\ b \in Nat /\ c \in Nat
      /\ slot[a] \in Nat /\ slot[b] \in Nat /\ slot[c] \in Nat
  BY RungsAreWeighted
<1> QED
  BY <1>1 DEF Draws!Commoner

LEMMA CommonestRung ==
    ASSUME NEW slot, Weights(slot), NEW T \in SUBSET Draws!Rungs(slot), T # {}
    PROVE  \E m \in T : \A r \in T : r = m \/ Draws!Commoner(slot, m, r)
<1> DEFINE R == {p \in T \X T : Draws!Commoner(slot, p[1], p[2])}
<1>1. \A a, b \in T : <<a, b>> \in R <=> Draws!Commoner(slot, a, b)
  OBVIOUS
<1>2. IsFiniteSet(T)
  BY RungsAreWeighted, FS_Subset
<1> HIDE DEF R
<1>3. /\ \A a, b \in T : a = b \/ <<a, b>> \in R \/ <<b, a>> \in R
      /\ \A a, b, c \in T : <<a, b>> \in R /\ <<b, c>> \in R => <<a, c>> \in R
  BY <1>1, CommonerIsAnOrder
<1>4. \E m \in T : \A r \in T : r = m \/ <<m, r>> \in R
  BY <1>2, <1>3, OrderHasLeast
<1> QED
  BY <1>1, <1>4

LEMMA RarestRung ==
    ASSUME NEW slot, Weights(slot), NEW T \in SUBSET Draws!Rungs(slot), T # {}
    PROVE  \E m \in T : \A r \in T : r = m \/ Draws!Commoner(slot, r, m)
<1> DEFINE R == {p \in T \X T : Draws!Commoner(slot, p[2], p[1])}
<1>1. \A a, b \in T : <<a, b>> \in R <=> Draws!Commoner(slot, b, a)
  OBVIOUS
<1>2. IsFiniteSet(T)
  BY RungsAreWeighted, FS_Subset
<1> HIDE DEF R
<1>3. /\ \A a, b \in T : a = b \/ <<a, b>> \in R \/ <<b, a>> \in R
      /\ \A a, b, c \in T : <<a, b>> \in R /\ <<b, c>> \in R => <<a, c>> \in R
  BY <1>1, CommonerIsAnOrder
<1>4. \E m \in T : \A r \in T : r = m \/ <<m, r>> \in R
  BY <1>2, <1>3, OrderHasLeast
<1> QED
  BY <1>1, <1>4

LEMMA TotalOfWeights ==
    ASSUME NEW slot, Weights(slot)
    PROVE  /\ Draws!Total(slot) = SumFunctionOnSet(slot, Draws!Rungs(slot))
           /\ Draws!Total(slot) \in Nat /\ Draws!Total(slot) > 0
<1>1. Draws!Total(slot) = SumFunctionOnSet(slot, Draws!Rungs(slot))
  BY DEF Draws!Total, Draws!SumFunctionOnSet, Draws!FoldFunctionOnSet, Draws!MapThenFoldSet,
         SumFunctionOnSet, FoldFunctionOnSet, MapThenFoldSet
<1>2. PICK r \in Draws!Rungs(slot) : TRUE
  BY DEF Weights
<1>3. SumFunctionOnSet(slot, Draws!Rungs(slot)) \in Nat
  BY RungsAreWeighted, SumNat
<1>4. slot[r] <= SumFunctionOnSet(slot, Draws!Rungs(slot)) /\ slot[r] \in Nat /\ slot[r] > 0
  BY RungsAreWeighted, SumPart
<1> QED
  BY <1>1, <1>3, <1>4

\* A share ends where what is ahead of it, with itself, adds up to.
LEMMA ShareEnds ==
    ASSUME NEW slot, Weights(slot), NEW r \in Draws!Rungs(slot)
    PROVE  /\ ShareStart(slot, r) \in Nat
           /\ IsFiniteSet(Ahead(slot, r))
           /\ SumFunctionOnSet(slot, Ahead(slot, r) \cup {r}) = ShareStart(slot, r) + slot[r]
<1>1. Ahead(slot, r) \subseteq Draws!Rungs(slot)
  BY DEF Ahead
<1>2. IsFiniteSet(Ahead(slot, r))
  BY <1>1, RungsAreWeighted, FS_Subset
<1>3. r \notin Ahead(slot, r)
  BY CommonerIsAnOrder DEF Ahead
<1>4. /\ \A s \in Ahead(slot, r) : slot[s] \in Nat
      /\ \A s \in Ahead(slot, r) \cup {r} : slot[s] \in Int
  BY <1>1, RungsAreWeighted
<1> QED
  BY <1>2, <1>3, <1>4, SumAdd, SumNat DEF ShareStart

\* The shares do not overlap,
LEMMA SharesAscend ==
    ASSUME NEW slot, Weights(slot), NEW p \in Draws!Rungs(slot), NEW r \in Draws!Rungs(slot),
           Draws!Commoner(slot, p, r)
    PROVE  ShareStart(slot, p) + slot[p] <= ShareStart(slot, r)
<1> DEFINE A == Ahead(slot, p) \cup {p}
           B == Ahead(slot, r) \ A
<1>1. A \subseteq Ahead(slot, r)
  BY CommonerIsAnOrder DEF Ahead
<1>2. A \cup B = Ahead(slot, r) /\ A \cap B = {}
  BY <1>1
<1>3. IsFiniteSet(Ahead(slot, r)) /\ Ahead(slot, r) \subseteq Draws!Rungs(slot)
  BY ShareEnds DEF Ahead
<1>4. A \subseteq Draws!Rungs(slot) /\ B \subseteq Draws!Rungs(slot)
  BY <1>1, <1>3
<1>5. SumFunctionOnSet(slot, A) = ShareStart(slot, p) + slot[p]
  BY ShareEnds
<1> HIDE DEF A, B
<1>6. IsFiniteSet(A) /\ IsFiniteSet(B)
  BY <1>2, <1>3, FS_Subset
<1>7. /\ \A x \in A \cup B : slot[x] \in Int
      /\ \A x \in A : slot[x] \in Nat
      /\ \A x \in B : slot[x] \in Nat
  BY <1>4, RungsAreWeighted
<1>8. SumFunctionOnSet(slot, A \cup B) = SumFunctionOnSet(slot, A) + SumFunctionOnSet(slot, B)
  BY <1>2, <1>6, <1>7, SumUnion
<1>9. SumFunctionOnSet(slot, A) \in Nat /\ SumFunctionOnSet(slot, B) \in Nat
  BY <1>6, <1>7, SumNat
<1>10. ShareStart(slot, r) = SumFunctionOnSet(slot, A \cup B)
  BY <1>2 DEF ShareStart
<1> QED
  BY <1>5, <1>8, <1>9, <1>10

\* and leave no number out: one lies in the share of the first that ends above it.
LEMMA SharesCover ==
    ASSUME NEW slot, Weights(slot), NEW n \in Nat, n < Draws!Total(slot)
    PROVE  \E r \in Draws!Rungs(slot) : ShareStart(slot, r) <= n /\ n < ShareStart(slot, r) + slot[r]
<1> DEFINE Above == {r \in Draws!Rungs(slot) : n < ShareStart(slot, r) + slot[r]}
<1>1. Above # {}
  <2>1. PICK m \in Draws!Rungs(slot) :
               \A r \in Draws!Rungs(slot) : r = m \/ Draws!Commoner(slot, r, m)
    <3>1. Draws!Rungs(slot) # {} /\ Draws!Rungs(slot) \in SUBSET Draws!Rungs(slot)
      BY DEF Weights
    <3> QED
      BY <3>1, RarestRung
  <2>2. Ahead(slot, m) \cup {m} = Draws!Rungs(slot)
    BY <2>1 DEF Ahead
  <2>3. ShareStart(slot, m) + slot[m] = Draws!Total(slot)
    BY <2>2, ShareEnds, TotalOfWeights
  <2> QED
    BY <2>3
<1>2. PICK m \in Above : \A r \in Above : r = m \/ Draws!Commoner(slot, m, r)
  BY <1>1, CommonestRung
<1>3. m \in Draws!Rungs(slot) /\ n < ShareStart(slot, m) + slot[m]
  OBVIOUS
<1>4. ShareStart(slot, m) <= n
  <2>1. CASE Ahead(slot, m) = {}
    BY <2>1, SumEmpty DEF ShareStart
  <2>2. CASE Ahead(slot, m) # {}
    <3>1. Ahead(slot, m) \in SUBSET Draws!Rungs(slot)
      BY DEF Ahead
    <3>2. PICK p \in Ahead(slot, m) : \A r \in Ahead(slot, m) : r = p \/ Draws!Commoner(slot, r, p)
      BY <2>2, <3>1, RarestRung
    <3>3. p \in Draws!Rungs(slot) /\ Draws!Commoner(slot, p, m)
      BY <3>2 DEF Ahead
    <3>4. p \notin Above
      BY <1>2, <1>3, <3>3, CommonerIsAnOrder
    <3>5. Ahead(slot, m) = Ahead(slot, p) \cup {p}
      BY <1>3, <3>2, <3>3, CommonerIsAnOrder DEF Ahead
    <3>6. ShareStart(slot, m) = ShareStart(slot, p) + slot[p]
      BY <3>3, <3>5, ShareEnds DEF ShareStart
    <3>7. ShareStart(slot, p) \in Nat /\ slot[p] \in Nat
      BY <3>3, ShareEnds, RungsAreWeighted
    <3> QED
      BY <3>3, <3>4, <3>6, <3>7
  <2> QED BY <2>1, <2>2
<1> QED
  BY <1>3, <1>4

\* roll() gives the one rarity whose share has the number.
LEMMA RollIsTheShare ==
    ASSUME NEW slot, Weights(slot), NEW n \in Nat, n < Draws!Total(slot)
    PROVE  /\ Draws!Roll(slot, n) \in Draws!Rungs(slot)
           /\ \A r \in Draws!Rungs(slot) :
                 Draws!Roll(slot, n) = r
                   <=> ShareStart(slot, r) <= n /\ n < ShareStart(slot, r) + slot[r]
<1> DEFINE In(r) == ShareStart(slot, r) <= n /\ n < ShareStart(slot, r) + slot[r]
<1>1. Draws!Roll(slot, n) = CHOOSE r \in Draws!Rungs(slot) : In(r)
  BY DEF Draws!Roll, Draws!SumFunctionOnSet, Draws!FoldFunctionOnSet, Draws!MapThenFoldSet,
         SumFunctionOnSet, FoldFunctionOnSet, MapThenFoldSet, ShareStart, Ahead
<1>2. \E r \in Draws!Rungs(slot) : In(r)
  BY SharesCover
<1>3. ASSUME NEW r \in Draws!Rungs(slot), NEW s \in Draws!Rungs(slot), In(r), In(s) PROVE r = s
  <2>1. /\ ShareStart(slot, r) \in Nat /\ ShareStart(slot, s) \in Nat
        /\ slot[r] \in Nat /\ slot[s] \in Nat
    BY ShareEnds, RungsAreWeighted
  <2>2. ~Draws!Commoner(slot, r, s) /\ ~Draws!Commoner(slot, s, r)
    BY <1>3, <2>1, SharesAscend
  <2> QED
    BY <2>2, CommonerIsAnOrder
<1>4. Draws!Roll(slot, n) \in Draws!Rungs(slot) /\ In(Draws!Roll(slot, n))
  <2> HIDE DEF In
  <2> QED
    BY <1>1, <1>2
<1>5. \A r \in Draws!Rungs(slot) : Draws!Roll(slot, n) = r <=> In(r)
  BY <1>3, <1>4
<1> QED
  BY <1>4, <1>5

\* Of the numbers that are not drawn again, each rarity has its weight's share.
LEMMA SharesAreExact ==
    ASSUME NEW slot, Weights(slot), 2^WordBits \in Nat, NEW r \in Draws!Rungs(slot)
    PROVE  Draws!Cardinality({v \in Draws!Accepted(Draws!Total(slot)) :
                                Draws!Roll(slot, v % Draws!Total(slot)) = r}) * Draws!Total(slot)
             = slot[r] * Draws!Cardinality(Draws!Accepted(Draws!Total(slot)))
<1> DEFINE start == ShareStart(slot, r)
           t == Draws!Total(slot)
           numbers == Draws!Accepted(t)
           given == {v \in numbers : Draws!Roll(slot, v % t) = r}
<1>1. t \in Nat /\ t > 0 /\ start \in Nat /\ slot[r] \in Nat
  BY TotalOfWeights, ShareEnds, RungsAreWeighted
<1>2. start + slot[r] <= t
  <2>1. Ahead(slot, r) \cup {r} \subseteq Draws!Rungs(slot)
    BY DEF Ahead
  <2> DEFINE A == Ahead(slot, r) \cup {r}
             B == Draws!Rungs(slot) \ A
  <2>2. A \cup B = Draws!Rungs(slot) /\ A \cap B = {} /\ IsFiniteSet(A) /\ IsFiniteSet(B)
    BY <2>1, RungsAreWeighted, FS_Subset
  <2>3. SumFunctionOnSet(slot, A) = start + slot[r]
    BY ShareEnds
  <2> HIDE DEF A, B, start, t
  <2>4. /\ \A x \in A \cup B : slot[x] \in Int
        /\ \A x \in B : slot[x] \in Nat
    BY <2>2, RungsAreWeighted
  <2>5. SumFunctionOnSet(slot, A \cup B) = SumFunctionOnSet(slot, A) + SumFunctionOnSet(slot, B)
    BY <2>2, <2>4, SumUnion
  <2>6. SumFunctionOnSet(slot, B) \in Nat
    BY <2>2, <2>4, SumNat
  <2>7. t = SumFunctionOnSet(slot, A \cup B)
    BY <2>2, TotalOfWeights DEF t
  <2> QED
    BY <1>1, <2>3, <2>5, <2>6, <2>7
<1>3. PICK k \in Nat : \E m \in 0 .. t - 1 : 2^WordBits % t = m /\ 2^WordBits = k * t + m
  BY <1>1, Quotient
<1>4. numbers = 0 .. k * t - 1
  <2>1. PICK m \in 0 .. t - 1 : 2^WordBits % t = m /\ 2^WordBits = k * t + m
    BY <1>3
  <2>2. k * t \in Nat
    BY <1>1
  <2> HIDE DEF t
  <2>3. 2^WordBits - (2^WordBits % t) - 1 = k * t - 1
    BY <1>1, <2>1, <2>2
  <2> QED
    BY <2>3 DEF Draws!Accepted
<1>5. given = {v \in 0 .. k * t - 1 : start <= v % t /\ v % t < start + slot[r]}
  <2>1. ASSUME NEW v \in 0 .. k * t - 1
        PROVE  Draws!Roll(slot, v % t) = r <=> start <= v % t /\ v % t < start + slot[r]
    <3>1. k * t \in Nat
      BY <1>1
    <3>2. v \in Nat
      BY <3>1
    <3>3. v % t \in Nat /\ v % t < t
      BY <1>1, <3>2
    <3> QED
      BY <3>3, RollIsTheShare
  <2> HIDE DEF start, t
  <2> QED
    BY <1>4, <2>1
<1> HIDE DEF start, t, numbers, given
<1>6. Cardinality(given) = k * slot[r]
  <2>1. PICK w \in Nat : w = slot[r]
    BY <1>1
  <2>2. start + w <= t /\ given = {v \in 0 .. k * t - 1 : start <= v % t /\ v % t < start + w}
    BY <1>2, <1>5, <2>1
  <2>3. Cardinality(given) = k * w
    BY <1>1, <2>2, CountedByRemainder
  <2> QED
    BY <2>1, <2>3
<1>7. Cardinality(numbers) = k * t
  <2>1. k * t \in Nat
    BY <1>1
  <2>2. PICK last \in Int : last = k * t - 1
    BY <2>1
  <2>3. Cardinality(0 .. last) = IF 0 > last THEN 0 ELSE last - 0 + 1
    BY FS_Interval
  <2> QED
    BY <1>4, <2>1, <2>2, <2>3
<1>8. (k * slot[r]) * t = slot[r] * (k * t)
  BY <1>1
<1>9. \A S : Draws!Cardinality(S) = Cardinality(S)
  BY DEF Draws!Cardinality, Cardinality
<1>10. Draws!Cardinality(given) * t = slot[r] * Draws!Cardinality(numbers)
  BY <1>6, <1>7, <1>8, <1>9
<1> QED
  BY <1>10 DEF given, numbers, t

\* resolve() finds the first filled bucket of its walk.
LEMMA ResolveIsFirst ==
    ASSUME NEW slot, Weights(slot), NEW rolled \in Draws!Rungs(slot), Draws!Filled(slot) # {}
    PROVE  /\ Draws!Resolve(slot, rolled) \in Draws!Filled(slot)
           /\ \A s \in Draws!Filled(slot) :
                 s # Draws!Resolve(slot, rolled) =>
                    Draws!Earlier(slot, rolled, Draws!Resolve(slot, rolled), s)
<1> DEFINE F == Draws!Filled(slot)
           R == {p \in F \X F : Draws!Earlier(slot, rolled, p[1], p[2])}
<1>1. F \in SUBSET Draws!Rungs(slot) /\ IsFiniteSet(F)
  BY RungsAreWeighted, FS_Subset DEF Draws!Filled
<1>2. \A a, b \in F : <<a, b>> \in R <=> Draws!Earlier(slot, rolled, a, b)
  OBVIOUS
<1>3. ASSUME NEW a \in F, NEW b \in F
      PROVE  a = b \/ Draws!Earlier(slot, rolled, a, b) \/ Draws!Earlier(slot, rolled, b, a)
  BY <1>1, CommonerIsAnOrder DEF Draws!Earlier
<1>4. ASSUME NEW a \in F, NEW b \in F, NEW c \in F,
             Draws!Earlier(slot, rolled, a, b), Draws!Earlier(slot, rolled, b, c)
      PROVE  Draws!Earlier(slot, rolled, a, c)
  <2>1. a \in Draws!Rungs(slot) /\ b \in Draws!Rungs(slot) /\ c \in Draws!Rungs(slot)
    BY <1>1
  <2>2. /\ Draws!Commoner(slot, a, b) /\ Draws!Commoner(slot, b, c) => Draws!Commoner(slot, a, c)
        /\ Draws!Commoner(slot, c, b) /\ Draws!Commoner(slot, b, a) => Draws!Commoner(slot, c, a)
    BY <2>1, CommonerIsAnOrder
  <2> QED
    BY <1>4, <2>2 DEF Draws!Earlier
<1> HIDE DEF F, R
<1>5. PICK m \in F : \A s \in F : s = m \/ <<m, s>> \in R
  <2>1. /\ \A a, b \in F : a = b \/ <<a, b>> \in R \/ <<b, a>> \in R
        /\ \A a, b, c \in F : <<a, b>> \in R /\ <<b, c>> \in R => <<a, c>> \in R
    BY <1>2, <1>3, <1>4
  <2>2. F # {}
    BY DEF F
  <2> QED
    BY <1>1, <2>1, <2>2, OrderHasLeast
<1>6. \A s \in F \ {m} : Draws!Earlier(slot, rolled, m, s)
  BY <1>2, <1>5
<1>7. /\ Draws!Resolve(slot, rolled) \in F
      /\ \A s \in F \ {Draws!Resolve(slot, rolled)} :
            Draws!Earlier(slot, rolled, Draws!Resolve(slot, rolled), s)
  BY <1>6 DEF Draws!Resolve, F
<1> QED
  BY <1>7 DEF F

\* The catalog is finite, a rarity's name has a place in the order of names, a slot
\* has natural weights and one that is positive (packages/shared, PackSlotSchema);
\* of the power that counts the random numbers the prover must be told its type.
TemplatesAreSensible ==
    /\ IsFiniteSet(Cards) /\ Rarity \in [Cards -> Nat]
    /\ \A slot \in Slots : slot \in [DOMAIN slot -> Nat] /\ Draws!Rungs(slot) # {}
    /\ 2^WordBits \in Nat

\* The row is well formed, and names rarities the catalog once had; so is each change under way.
DrawInv ==
    /\ rarity \in [Cards -> Draws!Rarities \cup {0}]
    /\ template \in Draws!Template
    /\ DOMAIN template.slot \subseteq Draws!Rarities
    /\ DOMAIN edit = Editors
    /\ \A e \in Editors :
          /\ edit[e].step \in {"idle", "checking", "saved", "refused"}
          /\ edit[e].step = "checking" => edit[e].body \in Draws!Template /\ edit[e].seen \in Draws!Template
    /\ pull \in [rolled : Draws!Rarities \cup {0}, used : Draws!Rarities \cup {0}]

LEMMA SlotsAreWeighted ==
    ASSUME TemplatesAreSensible, NEW slot \in Slots, DOMAIN slot \subseteq Draws!Rarities
    PROVE  Weights(slot)
<1> DEFINE T == {Rarity[c] : c \in Cards}
<1>1. Rarity \in Surjection(Cards, T)
  BY DEF TemplatesAreSensible, Surjection
<1>2. IsFiniteSet(T)
  BY <1>1, FS_Surjection DEF TemplatesAreSensible
<1>3. DOMAIN slot \subseteq T /\ T \subseteq Nat
  BY DEF TemplatesAreSensible, Draws!Rarities
<1> HIDE DEF T
<1>4. IsFiniteSet(DOMAIN slot)
  BY <1>2, <1>3, FS_Subset
<1> QED
  BY <1>3, <1>4 DEF TemplatesAreSensible, Weights

LEMMA PoolIsOfRarities ==
    ASSUME rarity \in [Cards -> Draws!Rarities \cup {0}], NEW sets
    PROVE  Draws!PoolOf(sets) \subseteq Draws!Rarities /\ 0 \notin Draws!PoolOf(sets)
BY DEF Draws!PoolOf

\* What a draw gives, from the row and the catalog as they are.
LEMMA DrawGives ==
    ASSUME TemplatesAreSensible, DrawInv, Draws!Draw
    PROVE  \E rolled \in Draws!Rungs(template.slot) :
              pull' = [rolled |-> rolled,
                       used |-> IF Draws!Filled(template.slot) = {} THEN 0
                                ELSE Draws!Resolve(template.slot, rolled)]
<1> DEFINE slot == template.slot
           t == Draws!Total(slot)
<1>1. slot \in Slots /\ Weights(slot)
  BY SlotsAreWeighted DEF DrawInv, Draws!Template
<1>2. PICK n \in {v % t : v \in Draws!Accepted(t)} :
         pull' = [rolled |-> Draws!Roll(slot, n),
                  used |-> IF Draws!Filled(slot) = {} THEN 0
                           ELSE Draws!Resolve(slot, Draws!Roll(slot, n))]
  BY DEF Draws!Draw
<1>3. t \in Nat /\ t > 0
  BY <1>1, TotalOfWeights
<1> HIDE DEF t, slot
<1>4. n \in Nat /\ n < t
  <2>1. PICK v \in Draws!Accepted(t) : n = v % t
    BY <1>2
  <2>2. PICK all \in Nat : all = 2^WordBits
    BY DEF TemplatesAreSensible
  <2>3. all % t \in Nat
    BY <1>3, <2>2
  <2>4. v \in 0 .. all - (all % t) - 1
    BY <2>1, <2>2 DEF Draws!Accepted
  <2>5. v \in Nat
    BY <2>2, <2>3, <2>4
  <2>6. v % t \in Nat /\ v % t < t
    BY <1>3, <2>5
  <2> QED
    BY <2>1, <2>6
<1>5. Draws!Roll(slot, n) \in Draws!Rungs(slot)
  BY <1>1, <1>4, RollIsTheShare DEF t
<1> QED
  BY <1>2, <1>5 DEF slot

LEMMA DrawsAtFirst ==
    ASSUME TemplatesAreSensible, Draws!Init
    PROVE  DrawInv
<1>1. rarity \in [Cards -> Draws!Rarities \cup {0}]
  BY DEF TemplatesAreSensible, Draws!Init, Draws!Rarities
<1>2. template \in Draws!Template /\ DOMAIN template.slot \subseteq Draws!Rarities
  <2>1. template \in Draws!Template /\ DOMAIN template.slot \subseteq Draws!PoolOf(template.sets)
    BY DEF Draws!Init, Draws!FitsPool
  <2> QED
    BY <1>1, <2>1, PoolIsOfRarities
<1>3. DOMAIN edit = Editors /\ \A e \in Editors : edit[e].step = "idle"
  BY DEF Draws!Init
<1>4. pull \in [rolled : Draws!Rarities \cup {0}, used : Draws!Rarities \cup {0}]
  BY DEF Draws!Init
<1> QED
  BY <1>1, <1>2, <1>3, <1>4 DEF DrawInv

LEMMA DrawsStay ==
    ASSUME TemplatesAreSensible, DrawInv, [Draws!Next]_(Draws!tvars)
    PROVE  DrawInv'
<1>1. CASE UNCHANGED Draws!tvars
  BY <1>1 DEF DrawInv, Draws!tvars, Draws!Template, Draws!Rarities, Draws!Sets, Draws!NoCover
<1>2. ASSUME NEW e \in Editors, Draws!Read(e) PROVE DrawInv'
  <2>1. UNCHANGED <<rarity, template, pull>>
    BY <1>2 DEF Draws!Read
  <2>2. PICK p \in Draws!Patches :
           edit' = [edit EXCEPT ![e] = [step |-> "checking", fields |-> p[1], body |-> p[2],
                                        seen |-> template]]
    BY <1>2 DEF Draws!Read
  <2>3. p[2] \in Draws!Template /\ template \in Draws!Template
    BY DEF Draws!Patches, DrawInv
  <2>4. DOMAIN edit' = Editors
    BY <2>2 DEF DrawInv
  <2>5. ASSUME NEW f \in Editors
        PROVE  /\ edit'[f].step \in {"idle", "checking", "saved", "refused"}
               /\ edit'[f].step = "checking" =>
                    edit'[f].body \in Draws!Template /\ edit'[f].seen \in Draws!Template
    <3>1. CASE f = e
      BY <2>2, <2>3, <3>1 DEF DrawInv
    <3>2. CASE f # e
      BY <2>2, <3>2 DEF DrawInv
    <3> QED BY <3>1, <3>2
  <2>6. /\ rarity' \in [Cards -> Draws!Rarities \cup {0}]
        /\ template' \in Draws!Template
        /\ DOMAIN template'.slot \subseteq Draws!Rarities
        /\ pull' \in [rolled : Draws!Rarities \cup {0}, used : Draws!Rarities \cup {0}]
    BY <2>1 DEF DrawInv
  <2> QED
    BY <2>4, <2>5, <2>6 DEF DrawInv, Draws!Template, Draws!Rarities, Draws!Sets, Draws!NoCover
<1>3. ASSUME NEW e \in Editors, Draws!Save(e) PROVE DrawInv'
  <2>1. /\ edit[e].step = "checking" /\ UNCHANGED <<rarity, pull>>
        /\ edit' = [edit EXCEPT ![e] = [step |-> IF Draws!Refused(e) THEN "refused" ELSE "saved"]]
        /\ template' = IF Draws!Refused(e) THEN template ELSE Draws!Patched(template, e)
    BY <1>3 DEF Draws!Save
  <2>2. edit[e].body \in Draws!Template /\ edit[e].seen \in Draws!Template /\ template \in Draws!Template
    BY <2>1 DEF DrawInv
  <2>3. template' \in Draws!Template /\ DOMAIN template'.slot \subseteq Draws!Rarities
    <3>1. CASE Draws!Refused(e)
      BY <2>1, <3>1 DEF DrawInv
    <3>2. CASE ~Draws!Refused(e)
      <4>1. template' = Draws!Patched(template, e)
        BY <2>1, <3>2
      <4>2. Draws!Patched(template, e) \in Draws!Template
        BY <2>2 DEF Draws!Patched, Draws!Template, Draws!Fields
      <4>3. CASE "slot" \in edit[e].fields
        <5>1. Draws!FitsPool(Draws!Patched(edit[e].seen, e))
          BY <3>2, <4>3 DEF Draws!Refused
        <5>2. Draws!Patched(edit[e].seen, e).slot = Draws!Patched(template, e).slot
          BY <4>3 DEF Draws!Patched, Draws!Fields
        <5>3. DOMAIN Draws!Patched(template, e).slot
                \subseteq Draws!PoolOf(Draws!Patched(edit[e].seen, e).sets)
          BY <5>1, <5>2 DEF Draws!FitsPool
        <5> QED
          BY <4>1, <4>2, <5>3, PoolIsOfRarities DEF DrawInv
      <4>4. CASE "slot" \notin edit[e].fields
        <5>1. Draws!Patched(template, e).slot = template.slot
          BY <4>4 DEF Draws!Patched, Draws!Fields
        <5> QED
          BY <4>1, <4>2, <5>1 DEF DrawInv
      <4> QED BY <4>3, <4>4
    <3> QED BY <3>1, <3>2
  <2>4. DOMAIN edit' = Editors
    BY <2>1 DEF DrawInv
  <2>5. ASSUME NEW f \in Editors
        PROVE  /\ edit'[f].step \in {"idle", "checking", "saved", "refused"}
               /\ edit'[f].step = "checking" =>
                    edit'[f].body \in Draws!Template /\ edit'[f].seen \in Draws!Template
    <3>1. CASE f = e
      <4>1. edit'[f].step \in {"saved", "refused"}
        BY <2>1, <3>1 DEF DrawInv
      <4> QED BY <4>1
    <3>2. CASE f # e
      BY <2>1, <3>2 DEF DrawInv
    <3> QED BY <3>1, <3>2
  <2>6. /\ rarity' \in [Cards -> Draws!Rarities \cup {0}]
        /\ pull' \in [rolled : Draws!Rarities \cup {0}, used : Draws!Rarities \cup {0}]
    BY <2>1 DEF DrawInv
  <2> QED
    BY <2>3, <2>4, <2>5, <2>6 DEF DrawInv, Draws!Template, Draws!Rarities, Draws!Sets, Draws!NoCover
<1>4. CASE Draws!Drift
  <2>1. PICK c \in Cards, r \in Draws!Rarities \cup {0} : rarity' = [rarity EXCEPT ![c] = r]
    BY <1>4 DEF Draws!Drift
  <2>2. rarity' \in [Cards -> Draws!Rarities \cup {0}] /\ UNCHANGED <<template, edit, pull>>
    BY <1>4, <2>1 DEF Draws!Drift, DrawInv
  <2> QED
    BY <2>2 DEF DrawInv, Draws!Template, Draws!Rarities, Draws!Sets, Draws!NoCover
<1>5. CASE Draws!Draw
  <2>1. UNCHANGED <<rarity, template, edit>>
    BY <1>5 DEF Draws!Draw
  <2>2. PICK rolled \in Draws!Rungs(template.slot) :
           pull' = [rolled |-> rolled,
                    used |-> IF Draws!Filled(template.slot) = {} THEN 0
                             ELSE Draws!Resolve(template.slot, rolled)]
    BY <1>5, DrawGives
  <2>3. Weights(template.slot)
    BY SlotsAreWeighted DEF DrawInv, Draws!Template
  <2>4. Draws!Rungs(template.slot) \subseteq Draws!Rarities
    BY DEF DrawInv, Draws!Rungs
  <2>5. Draws!Filled(template.slot) # {} => Draws!Resolve(template.slot, rolled) \in Draws!Rarities
    BY <2>3, <2>4, ResolveIsFirst DEF Draws!Filled
  <2>6. pull' \in [rolled : Draws!Rarities \cup {0}, used : Draws!Rarities \cup {0}]
    BY <2>2, <2>4, <2>5
  <2> QED
    BY <2>1, <2>6 DEF DrawInv, Draws!Template, Draws!Rarities, Draws!Sets, Draws!NoCover
<1> QED
  BY <1>1, <1>2, <1>3, <1>4, <1>5 DEF Draws!Next

\* The odds a member is shown are exactly those of the draw: of the 2^32 values of a
\* random number that are not thrown away, each rarity of a slot has its weight's
\* share, whatever the catalog, the weights and the number of bits are, and however
\* administrators' changes cross (slotOdds, SeededRng.int, roll).
THEOREM OddsAreThoseShown ==
    ASSUME TemplatesAreSensible
    PROVE  Draws!Spec => [](Draws!TypeOK /\ Draws!OddsAreExact)
<1>1. Draws!Init => DrawInv
  BY DrawsAtFirst
<1>2. DrawInv /\ [Draws!Next]_(Draws!tvars) => DrawInv'
  BY DrawsStay
<1>3. DrawInv => Draws!TypeOK /\ Draws!OddsAreExact
  <2> SUFFICES ASSUME DrawInv PROVE Draws!TypeOK /\ Draws!OddsAreExact
    OBVIOUS
  <2>1. Draws!TypeOK
    BY DEF DrawInv, Draws!TypeOK
  <2>2. Weights(template.slot)
    BY SlotsAreWeighted DEF DrawInv, Draws!Template
  <2>3. 2^WordBits \in Nat
    BY DEF TemplatesAreSensible
  <2> QED
    BY <2>1, <2>2, <2>3, SharesAreExact DEF Draws!OddsAreExact
<1> QED
  BY <1>1, <1>2, <1>3, PTL DEF Draws!Spec

\* When the catalog has drifted from under a template, a draw gives the nearest
\* commoner rarity that the sets still have, a rarer one only if there is nothing
\* commoner, and fails only if there is nothing at all (resolve, generatePack).
THEOREM FallbackIsDownFirst ==
    ASSUME TemplatesAreSensible
    PROVE  Draws!Spec => Draws!FallsBackDownFirst
<1> DEFINE Nearest ==
             LET slot == template.slot
                 rolled == pull'.rolled
                 used == pull'.used
                 pool == Draws!PoolOf(template.sets)
             IN IF used = 0 THEN Draws!Rungs(slot) \cap pool = {}
                ELSE /\ used \in Draws!Rungs(slot) \cap pool
                     /\ used # rolled => rolled \notin pool
                     /\ \A r \in Draws!Rungs(slot) \cap pool :
                           ~Draws!Commoner(slot, rolled, r) =>
                               ~Draws!Commoner(slot, rolled, used) /\ slot[r] >= slot[used]
<1>1. Draws!Init => DrawInv
  BY DrawsAtFirst
<1>2. DrawInv /\ [Draws!Next]_(Draws!tvars) => DrawInv'
  BY DrawsStay
<1>3. DrawInv /\ [Draws!Next]_(Draws!tvars) => [pull' # pull => Nearest]_(Draws!tvars)
  <2> SUFFICES ASSUME DrawInv, Draws!Next, pull' # pull PROVE Nearest
    BY DEF Draws!tvars
  <2>1. Draws!Draw
    BY DEF Draws!Next, Draws!Read, Draws!Save, Draws!Drift
  <2> DEFINE slot == template.slot
             pool == Draws!PoolOf(template.sets)
  <2>2. PICK rolled \in Draws!Rungs(slot) :
           pull' = [rolled |-> rolled,
                    used |-> IF Draws!Filled(slot) = {} THEN 0 ELSE Draws!Resolve(slot, rolled)]
    BY <2>1, DrawGives
  <2>3. Weights(slot)
    BY SlotsAreWeighted DEF DrawInv, Draws!Template
  <2>4. Draws!Filled(slot) = Draws!Rungs(slot) \cap pool /\ 0 \notin pool
    BY PoolIsOfRarities DEF DrawInv, Draws!Filled
  <2> HIDE DEF slot, pool
  <2>5. CASE Draws!Filled(slot) = {}
    <3>1. pull'.used = 0 /\ Draws!Rungs(slot) \cap pool = {}
      BY <2>2, <2>4, <2>5
    <3> QED
      BY <3>1 DEF slot, pool
  <2>6. CASE Draws!Filled(slot) # {}
    <3> DEFINE used == Draws!Resolve(slot, rolled)
    <3>1. pull'.rolled = rolled /\ pull'.used = used
      BY <2>2, <2>6
    <3>2. /\ used \in Draws!Rungs(slot) \cap pool
          /\ \A s \in Draws!Rungs(slot) \cap pool : s # used => Draws!Earlier(slot, rolled, used, s)
      BY <2>3, <2>4, <2>6, ResolveIsFirst
    <3> HIDE DEF used
    <3>3. used # 0
      BY <2>4, <3>2
    <3>4. used # rolled => rolled \notin pool
      <4>1. rolled \in pool /\ used # rolled => Draws!Earlier(slot, rolled, used, rolled)
        BY <2>2, <3>2
      <4>2. used # rolled => ~Draws!Earlier(slot, rolled, used, rolled)
        BY <2>2, <2>3, <3>2, CommonerIsAnOrder DEF Draws!Earlier
      <4> QED BY <4>1, <4>2
    <3>5. ASSUME NEW r \in Draws!Rungs(slot) \cap pool, ~Draws!Commoner(slot, rolled, r)
          PROVE  ~Draws!Commoner(slot, rolled, used) /\ slot[r] >= slot[used]
      <4>1. slot[r] \in Nat /\ slot[used] \in Nat /\ r \in Nat /\ used \in Nat
        BY <2>3, <3>2, RungsAreWeighted
      <4>2. CASE r = used
        BY <3>5, <4>1, <4>2
      <4>3. CASE r # used
        <5>1. Draws!Earlier(slot, rolled, used, r)
          BY <3>2, <4>3
        <5>2. ~Draws!Commoner(slot, rolled, used) /\ Draws!Commoner(slot, r, used)
          BY <3>5, <5>1 DEF Draws!Earlier
        <5> QED
          BY <4>1, <5>2 DEF Draws!Commoner
      <4> QED BY <4>2, <4>3
    <3> QED
      BY <3>1, <3>2, <3>3, <3>4, <3>5 DEF slot, pool
  <2> QED BY <2>5, <2>6
<1>4. Draws!FallsBackDownFirst <=> [][pull' # pull => Nearest]_(Draws!tvars)
  BY PTL DEF Draws!FallsBackDownFirst
<1> HIDE DEF Nearest
<1> QED
  BY <1>1, <1>2, <1>3, <1>4, PTL DEF Draws!Spec
-----------------------------------------------------------------------------
(* The lock order: for any members, cards, trades and number of            *)
(* transactions, every operation but a suspension takes its rows in lock   *)
(* order, and transactions that do never wait for each other in a ring.    *)

Rows == Nat \X Nat \X Nat

\* A sequence of rows, each before all that follow.
Ascending(s) ==
    /\ s \in Seq(Rows)
    /\ \A i, j \in 1 .. Len(s) : i < j => Before(s[i], s[j])

-----------------------------------------------------------------------------
(* Lock order is an order.                                                 *)

LEMMA BeforeIsAnOrder ==
    ASSUME NEW a \in Rows, NEW b \in Rows, NEW c \in Rows
    PROVE  /\ ~Before(a, a)
           /\ Before(a, b) /\ Before(b, c) => Before(a, c)
           /\ a # b => Before(a, b) \/ Before(b, a)
           /\ ~(Before(a, b) /\ Before(b, a))
<1>1. PICK a1 \in Nat, a2 \in Nat, a3 \in Nat : a = <<a1, a2, a3>>
  BY DEF Rows
<1>2. PICK b1 \in Nat, b2 \in Nat, b3 \in Nat : b = <<b1, b2, b3>>
  BY DEF Rows
<1>3. PICK c1 \in Nat, c2 \in Nat, c3 \in Nat : c = <<c1, c2, c3>>
  BY DEF Rows
<1>4. /\ a[1] = a1 /\ a[2] = a2 /\ a[3] = a3
      /\ b[1] = b1 /\ b[2] = b2 /\ b[3] = b3
      /\ c[1] = c1 /\ c[2] = c2 /\ c[3] = c3
  BY <1>1, <1>2, <1>3
<1>5. ~Before(a, a)
  BY <1>4 DEF Before
<1>6. Before(a, b) /\ Before(b, c) => Before(a, c)
  BY <1>4 DEF Before
<1>7. a # b => Before(a, b) \/ Before(b, a)
  BY <1>1, <1>2, <1>4 DEF Before
<1>8. ~(Before(a, b) /\ Before(b, a))
  BY <1>4 DEF Before
<1> QED
  BY <1>5, <1>6, <1>7, <1>8

\* A set of rows that is finite and not empty has a last one.
LEMMA LastRow ==
    ASSUME NEW S \in SUBSET Rows, IsFiniteSet(S), S # {}
    PROVE  \E m \in S : \A r \in S : r = m \/ Before(r, m)
<1> DEFINE R == {p \in S \X S : Before(p[2], p[1])}
<1>1. \A a, b \in S : <<a, b>> \in R <=> Before(b, a)
  OBVIOUS
<1> HIDE DEF R
<1>2. /\ \A a, b \in S : a = b \/ <<a, b>> \in R \/ <<b, a>> \in R
      /\ \A a, b, c \in S : <<a, b>> \in R /\ <<b, c>> \in R => <<a, c>> \in R
  BY <1>1, BeforeIsAnOrder
<1>3. \E m \in S : \A r \in S : r = m \/ <<m, r>> \in R
  BY <1>2, OrderHasLeast
<1> QED
  BY <1>1, <1>3

-----------------------------------------------------------------------------
(* Sorted rows.                                                            *)

LEMMA PlaceIsBounded ==
    ASSUME NEW S \in SUBSET Rows, IsFiniteSet(S), NEW r \in S
    PROVE  Place(r, S) \in 1 .. Cardinality(S)
<1> DEFINE before == {other \in S : Before(other, r)}
<1>1. r \notin before
  BY BeforeIsAnOrder
<1>2. IsFiniteSet(before) /\ Cardinality(before) <= Cardinality(S)
      /\ (Cardinality(S) = Cardinality(before) => S = before)
  BY FS_Subset
<1>3. Cardinality(before) \in Nat /\ Cardinality(S) \in Nat
  BY <1>2, FS_CardinalityType
<1> QED
  BY <1>1, <1>2, <1>3 DEF Place

LEMMA PlacesFollowTheOrder ==
    ASSUME NEW S \in SUBSET Rows, IsFiniteSet(S), NEW a \in S, NEW b \in S, Before(a, b)
    PROVE  Place(a, S) < Place(b, S)
<1> DEFINE A == {other \in S : Before(other, a)}
           B == {other \in S : Before(other, b)}
<1>1. A \subseteq B /\ a \in B /\ a \notin A
  BY BeforeIsAnOrder
<1>2. IsFiniteSet(B)
  BY FS_Subset
<1>3. IsFiniteSet(A) /\ Cardinality(A) <= Cardinality(B) /\ Cardinality(A) # Cardinality(B)
  BY <1>1, <1>2, FS_Subset
<1>4. Cardinality(A) \in Nat /\ Cardinality(B) \in Nat
  BY <1>2, <1>3, FS_CardinalityType
<1> QED
  BY <1>3, <1>4 DEF Place

\* Every place is some row's: the places are as many as the rows.
LEMMA PlacesAreTaken ==
    ASSUME NEW S \in SUBSET Rows, IsFiniteSet(S), NEW i \in 1 .. Cardinality(S)
    PROVE  \E r \in S : Place(r, S) = i
<1> DEFINE n == Cardinality(S)
           place == [r \in S |-> Place(r, S)]
<1>1. n \in Nat
  BY FS_CardinalityType
<1>2. IsFiniteSet(1 .. n) /\ Cardinality(1 .. n) = n
  BY <1>1, FS_Interval
<1>3. place \in [S -> 1 .. n]
  BY PlaceIsBounded
<1>4. ASSUME NEW a \in S, NEW b \in S, a # b PROVE place[a] # place[b]
  <2>1. Before(a, b) \/ Before(b, a)
    BY <1>4, BeforeIsAnOrder
  <2>2. Place(a, S) \in Int /\ Place(b, S) \in Int
    BY PlaceIsBounded
  <2> QED
    BY <2>1, <2>2, PlacesFollowTheOrder
<1>5. place \in Injection(S, 1 .. n)
  BY <1>3, <1>4 DEF Injection, IsInjective
<1>6. place \in Surjection(S, 1 .. n)
  BY <1>2, <1>5, FS_Injection
<1>7. PICK r \in S : place[r] = i
  BY <1>6 DEF Surjection
<1> QED
  BY <1>7

\* Sorted rows ascend, and are the rows of the set.
LEMMA SortedAscends ==
    ASSUME NEW S \in SUBSET Rows, IsFiniteSet(S)
    PROVE  /\ Ascending(Sorted(S))
           /\ Len(Sorted(S)) = Cardinality(S)
           /\ \A i \in 1 .. Len(Sorted(S)) : Sorted(S)[i] \in S
<1> DEFINE n == Cardinality(S)
           s == Sorted(S)
<1>1. n \in Nat
  BY FS_CardinalityType
<1>2. ASSUME NEW i \in 1 .. n PROVE s[i] \in S /\ Place(s[i], S) = i
  <2>1. \E r \in S : Place(r, S) = i
    BY <1>2, PlacesAreTaken
  <2> QED
    BY <1>2, <2>1 DEF Sorted
<1>3. s \in [1 .. n -> S]
  BY <1>2 DEF Sorted
<1>4. s \in Seq(Rows) /\ Len(s) = n
  BY <1>1, <1>3
<1>5. ASSUME NEW i \in 1 .. n, NEW j \in 1 .. n, i < j PROVE Before(s[i], s[j])
  <2>1. s[i] \in S /\ s[j] \in S /\ Place(s[i], S) = i /\ Place(s[j], S) = j
    BY <1>2, <1>5
  <2>2. s[i] # s[j]
    BY <1>5, <2>1
  <2>3. ~Before(s[j], s[i])
    BY <1>1, <1>5, <2>1, PlacesFollowTheOrder
  <2> QED
    BY <2>1, <2>2, <2>3, BeforeIsAnOrder
<1> QED
  BY <1>2, <1>4, <1>5 DEF Ascending

-----------------------------------------------------------------------------
(* The operations.                                                         *)

\* Rows in lock order, of the tables from one to another.
OfTables(s, from, to) ==
    /\ Ascending(s)
    /\ \A i \in 1 .. Len(s) : s[i][1] \in from .. to

LEMMA EmptyOfTables ==
    ASSUME NEW from \in Nat, NEW to \in Nat
    PROVE  OfTables(<<>>, from, to)
BY DEF OfTables, Ascending

LEMMA JoinOfTables ==
    ASSUME NEW s, NEW t, NEW a \in Nat, NEW b \in Nat, NEW c \in Nat, NEW d \in Nat,
           OfTables(s, a, b), OfTables(t, c, d), a <= c, b < c, b <= d
    PROVE  OfTables(s \o t, a, d)
<1>1. s \in Seq(Rows) /\ t \in Seq(Rows) /\ Len(s) \in Nat /\ Len(t) \in Nat
  BY DEF OfTables, Ascending
<1>2. s \o t \in Seq(Rows) /\ Len(s \o t) = Len(s) + Len(t)
  BY <1>1
<1>3. \A i \in 1 .. Len(s \o t) :
          (s \o t)[i] = IF i <= Len(s) THEN s[i] ELSE t[i - Len(s)]
  BY <1>1
<1>4. ASSUME NEW i \in 1 .. Len(s \o t), i <= Len(s)
      PROVE  (s \o t)[i] = s[i] /\ i \in 1 .. Len(s)
  BY <1>1, <1>3, <1>4
<1>5. ASSUME NEW i \in 1 .. Len(s \o t), ~(i <= Len(s))
      PROVE  (s \o t)[i] = t[i - Len(s)] /\ i - Len(s) \in 1 .. Len(t)
  BY <1>1, <1>2, <1>3, <1>5
<1>6. ASSUME NEW i \in 1 .. Len(s \o t) PROVE (s \o t)[i][1] \in a .. d
  <2>1. CASE i <= Len(s)
    BY <1>4, <1>6, <2>1 DEF OfTables
  <2>2. CASE ~(i <= Len(s))
    <3>1. t[i - Len(s)][1] \in c .. d
      BY <1>5, <1>6, <2>2 DEF OfTables
    <3> QED
      BY <1>5, <1>6, <2>2, <3>1
  <2> QED BY <2>1, <2>2
<1>7. ASSUME NEW i \in 1 .. Len(s \o t), NEW j \in 1 .. Len(s \o t), i < j
      PROVE  Before((s \o t)[i], (s \o t)[j])
  <2>1. CASE j <= Len(s)
    <3>1. i <= Len(s)
      BY <1>1, <1>2, <1>7, <2>1
    <3> QED
      BY <1>4, <1>7, <2>1, <3>1 DEF OfTables, Ascending
  <2>2. CASE i <= Len(s) /\ ~(j <= Len(s))
    <3>1. s[i][1] \in a .. b /\ t[j - Len(s)][1] \in c .. d
      BY <1>4, <1>5, <1>7, <2>2 DEF OfTables
    <3>2. s[i][1] < t[j - Len(s)][1]
      BY <3>1
    <3> QED
      BY <1>4, <1>5, <1>7, <2>2, <3>2 DEF Before
  <2>3. CASE ~(i <= Len(s))
    <3>1. ~(j <= Len(s)) /\ i - Len(s) < j - Len(s)
      BY <1>1, <1>2, <1>7, <2>3
    <3> QED
      BY <1>5, <1>7, <2>3, <3>1 DEF OfTables, Ascending
  <2> QED BY <2>1, <2>2, <2>3
<1> QED
  BY <1>2, <1>6, <1>7 DEF OfTables, Ascending

LEMMA OneRow ==
    ASSUME NEW r \in Rows, NEW n \in Nat, r[1] = n
    PROVE  OfTables(<<r>>, n, n)
BY DEF OfTables, Ascending

LEMMA SortedOfOneTable ==
    ASSUME NEW S \in SUBSET Rows, IsFiniteSet(S), NEW n \in Nat, \A r \in S : r[1] = n
    PROVE  OfTables(Sorted(S), n, n)
BY SortedAscends DEF OfTables

\* Sets of cards, and of members.
Numbers == {S \in SUBSET Nat : IsFiniteSet(S)}

LEMMA ItemsAreRows ==
    ASSUME NEW u \in Nat, NEW chosen \in Numbers
    PROVE  /\ Items(u, chosen) \in SUBSET Rows
           /\ IsFiniteSet(Items(u, chosen))
           /\ \A r \in Items(u, chosen) : r[1] = 3
<1> DEFINE f == [c \in chosen |-> ItemRow(u, c)]
<1>1. f \in Surjection(chosen, Items(u, chosen))
  BY DEF Surjection, Items
<1>2. IsFiniteSet(Items(u, chosen))
  BY <1>1, FS_Surjection DEF Numbers
<1> QED
  BY <1>2 DEF Items, ItemRow, Rows, Numbers

LEMMA UsersAreRows ==
    ASSUME NEW users \in Numbers
    PROVE  /\ {UserRow(u) : u \in users} \in SUBSET Rows
           /\ IsFiniteSet({UserRow(u) : u \in users})
           /\ \A r \in {UserRow(u) : u \in users} : r[1] = 2
<1> DEFINE f == [u \in users |-> UserRow(u)]
           S == {UserRow(u) : u \in users}
<1>1. f \in Surjection(users, S)
  BY DEF Surjection
<1>2. IsFiniteSet(S)
  BY <1>1, FS_Surjection DEF Numbers
<1> QED
  BY <1>2 DEF UserRow, Rows, Numbers

\* Ids are ordered, and a trade moves finitely many cards.
Realm ==
    /\ \A t \in DOMAIN Trades :
          /\ t \in Nat /\ Trades[t].initiator \in Nat /\ Trades[t].recipient \in Nat
          /\ Trades[t].offered \in Numbers /\ Trades[t].requested \in Numbers
    /\ Admins \in Numbers

\* All that members and administrators do, but for suspending one.
Everyday ==
    {OpenPack(u, chosen) : u \in Nat, chosen \in Numbers}
      \cup {Grant(u) : u \in Nat}
      \cup {Propose(u, chosen) : u \in Nat, chosen \in Numbers}
      \cup {Settle(t) : t \in DOMAIN Trades}
      \cup {CallOff(t) : t \in DOMAIN Trades}
      \cup {Counter(t, chosen) : t \in DOMAIN Trades, chosen \in Numbers}
      \cup {ChangeRole(u) : u \in Nat}

LEMMA TradeRowFirst ==
    ASSUME Realm, NEW t \in DOMAIN Trades
    PROVE  OfTables(<<TradeRow(t)>>, 1, 1)
BY OneRow DEF Realm, TradeRow, Rows

LEMMA UserRowFirst ==
    ASSUME NEW u \in Nat
    PROVE  OfTables(<<UserRow(u)>>, 2, 2)
BY OneRow DEF UserRow, Rows

LEMMA BothSidesItems ==
    ASSUME NEW u \in Nat, NEW v \in Nat, NEW mine \in Numbers, NEW theirs \in Numbers
    PROVE  OfTables(Sorted(Items(u, mine) \cup Items(v, theirs)), 3, 3)
<1>1. /\ Items(u, mine) \in SUBSET Rows /\ IsFiniteSet(Items(u, mine))
      /\ Items(v, theirs) \in SUBSET Rows /\ IsFiniteSet(Items(v, theirs))
      /\ \A r \in Items(u, mine) \cup Items(v, theirs) : r[1] = 3
  BY ItemsAreRows
<1>2. IsFiniteSet(Items(u, mine) \cup Items(v, theirs))
  BY <1>1, FS_Union
<1> QED
  BY <1>1, <1>2, SortedOfOneTable

LEMMA EverydayAscends ==
    ASSUME Realm, NEW w \in Everyday
    PROVE  Ascending(w)
<1>1. ASSUME NEW u \in Nat, NEW chosen \in Numbers PROVE OfTables(Sorted(Items(u, chosen)), 3, 3)
  BY <1>1, ItemsAreRows, SortedOfOneTable
<1>2. ASSUME NEW u \in Nat, NEW chosen \in Numbers, w = OpenPack(u, chosen) PROVE Ascending(w)
  <2>1. OfTables(w, 2, 3)
    BY <1>1, <1>2, UserRowFirst, JoinOfTables DEF OpenPack
  <2> QED BY <2>1 DEF OfTables
<1>3. ASSUME NEW u \in Nat, w = Grant(u) PROVE Ascending(w)
  BY <1>3, UserRowFirst DEF Grant, OfTables
<1>4. ASSUME NEW u \in Nat, NEW chosen \in Numbers, w = Propose(u, chosen) PROVE Ascending(w)
  BY <1>1, <1>4 DEF Propose, OfTables
<1>5. ASSUME NEW t \in DOMAIN Trades, w = Settle(t) PROVE Ascending(w)
  <2> DEFINE i == Trades[t].initiator
             r == Trades[t].recipient
             users == {UserRow(u) : u \in {i, r}}
             coins == IF Trades[t].coins THEN Sorted(users) ELSE <<>>
             items == UNION {Items(u, Moved(t)) : u \in {i, r}}
  <2>1. i \in Nat /\ r \in Nat /\ Moved(t) \in Numbers
    BY <1>5, FS_Union DEF Realm, Moved, Numbers
  <2>2. {i, r} \in Numbers
    <3>1. {i, r} = {i} \cup {r}
      OBVIOUS
    <3>2. IsFiniteSet({i} \cup {r})
      BY FS_Singleton, FS_Union
    <3> QED BY <2>1, <3>1, <3>2 DEF Numbers
  <2>3. OfTables(coins, 2, 2)
    <3>1. OfTables(Sorted(users), 2, 2)
      BY <2>2, UsersAreRows, SortedOfOneTable
    <3> QED BY <3>1, EmptyOfTables
  <2>4. items = Items(i, Moved(t)) \cup Items(r, Moved(t))
    OBVIOUS
  <2>5. OfTables(Sorted(items), 3, 3)
    BY <2>1, <2>4, BothSidesItems
  <2>6. w = (<<TradeRow(t)>> \o coins) \o Sorted(items)
    BY <1>5 DEF Settle
  <2> HIDE DEF coins, items
  <2>7. OfTables(<<TradeRow(t)>> \o coins, 1, 2)
    BY <1>5, <2>3, TradeRowFirst, JoinOfTables
  <2>8. OfTables(w, 1, 3)
    BY <2>5, <2>6, <2>7, JoinOfTables
  <2> QED BY <2>8 DEF OfTables
<1>6. ASSUME NEW t \in DOMAIN Trades, w = CallOff(t) PROVE Ascending(w)
  <2>1. OfTables(Sorted(Items(Trades[t].initiator, Trades[t].offered)), 3, 3)
    BY <1>1, <1>6 DEF Realm
  <2>2. OfTables(w, 1, 3)
    BY <1>6, <2>1, TradeRowFirst, JoinOfTables DEF CallOff
  <2> QED BY <2>2 DEF OfTables
<1>7. ASSUME NEW t \in DOMAIN Trades, NEW chosen \in Numbers, w = Counter(t, chosen)
      PROVE  Ascending(w)
  <2>1. OfTables(Sorted(Items(Trades[t].initiator, Trades[t].offered)
                          \cup Items(Trades[t].recipient, chosen)), 3, 3)
    BY <1>7, BothSidesItems DEF Realm
  <2>2. OfTables(w, 1, 3)
    BY <1>7, <2>1, TradeRowFirst, JoinOfTables DEF Counter
  <2> QED BY <2>2 DEF OfTables
<1>8. ASSUME NEW u \in Nat, w = ChangeRole(u) PROVE Ascending(w)
  <2> DEFINE users == IF u \in Admins THEN Admins ELSE {u}
  <2>1. users \in Numbers
    BY <1>8, FS_Singleton DEF Realm, Numbers
  <2>2. w = Sorted({UserRow(a) : a \in users})
    BY <1>8 DEF ChangeRole
  <2> HIDE DEF users
  <2>3. OfTables(w, 2, 2)
    BY <2>1, <2>2, UsersAreRows, SortedOfOneTable
  <2> QED BY <2>3 DEF OfTables
<1> QED
  BY <1>2, <1>3, <1>4, <1>5, <1>6, <1>7, <1>8 DEF Everyday

-----------------------------------------------------------------------------
(* Who waits for whom.                                                     *)

\* What a transaction may do is in lock order.
InOrder == \A w \in Work : Ascending(w)

Counted ==
    /\ work \in [Transactions -> Work]
    /\ taken \in [Transactions -> Int]
    /\ \A x \in Transactions : taken[x] \in -1 .. Len(work[x])

LEMMA CountedAlways ==
    ASSUME InOrder
    PROVE  Spec => []Counted
<1>1. ASSUME Init PROVE Counted
  <2>1. \A x \in Transactions : Len(work[x]) \in Nat
    BY <1>1 DEF Init, InOrder, Ascending
  <2> QED BY <1>1, <2>1 DEF Init, Counted
<1>2. ASSUME Counted, [Next]_vars PROVE Counted'
  <2>1. \A x \in Transactions : Len(work[x]) \in Nat
    BY <1>2 DEF Counted, InOrder, Ascending
  <2>2. ASSUME NEW x \in Transactions, TakeRow(x) PROVE Counted'
    <3>1. taken[x] # -1 /\ taken[x] # Len(work[x])
      BY <2>2 DEF TakeRow, Wants, Ended
    <3>2. taken[x] + 1 \in -1 .. Len(work[x])
      BY <1>2, <2>1, <3>1 DEF Counted
    <3> QED
      BY <1>2, <2>2, <3>2 DEF Counted, TakeRow
  <2>3. ASSUME NEW x \in Transactions, End(x) PROVE Counted'
    BY <1>2, <2>1, <2>3 DEF Counted, End
  <2>4. CASE UNCHANGED vars
    BY <1>2, <2>4 DEF Counted, vars
  <2> QED BY <1>2, <2>2, <2>3, <2>4 DEF Next
<1> QED
  BY <1>1, <1>2, PTL DEF Spec

\* Whoever waits for a transaction that itself waits, waits for an earlier row.
LEMMA WaitingAscends ==
    ASSUME InOrder, Counted, NEW x \in Transactions, NEW y \in Transactions, WaitsFor(x, y),
           Wants(y) # {}
    PROVE  \E a \in Rows, b \in Rows : Wants(x) = {a} /\ Wants(y) = {b} /\ Before(a, b)
<1>1. PICK a : a \in Wants(x) /\ a \in Held(y)
  BY DEF WaitsFor
<1>2. ~Ended(y)
  BY DEF Wants
<1>3. PICK i \in 1 .. taken[y] : a = work[y][i]
  BY <1>1, <1>2 DEF Held
<1> DEFINE b == work[y][taken[y] + 1]
<1>4. Wants(y) = {b} /\ taken[y] # -1 /\ taken[y] # Len(work[y])
  BY DEF Wants, Ended
<1>5. Ascending(work[y]) /\ Len(work[y]) \in Nat
  BY DEF Counted, InOrder, Ascending
<1>6. taken[y] \in 0 .. Len(work[y]) - 1
  BY <1>4, <1>5 DEF Counted
<1>7. i \in 1 .. Len(work[y]) /\ taken[y] + 1 \in 1 .. Len(work[y]) /\ i < taken[y] + 1
  BY <1>3, <1>5, <1>6
<1>8. Before(a, b) /\ a \in Rows /\ b \in Rows
  BY <1>3, <1>5, <1>7 DEF Ascending
<1>9. Wants(x) = {a}
  BY <1>1 DEF Wants
<1> QED
  BY <1>4, <1>8, <1>9

\* For any number of transactions, each of whatever length: if each takes its
\* rows in lock order, no ring of them waits for itself.
THEOREM OrderPreventsDeadlock ==
    ASSUME IsFiniteSet(Transactions), InOrder
    PROVE  Spec => []NoDeadlock
<1>1. ASSUME Counted PROVE NoDeadlock
  <2> SUFFICES ASSUME NEW ring \in (SUBSET Transactions) \ {{}},
                      \A x \in ring : \E y \in ring : WaitsFor(x, y)
               PROVE  FALSE
    BY DEF NoDeadlock
  <2>1. \A x \in ring : Wants(x) # {}
    BY DEF WaitsFor
  <2> DEFINE wanted == [x \in ring |-> CHOOSE r \in Wants(x) : TRUE]
             rows == {wanted[x] : x \in ring}
  <2>2. ASSUME NEW x \in ring
        PROVE  \E y \in ring : Before(wanted[x], wanted[y]) /\ wanted[x] \in Rows
    <3>1. PICK y \in ring : WaitsFor(x, y)
      BY <2>2
    <3>2. PICK a \in Rows, b \in Rows : Wants(x) = {a} /\ Wants(y) = {b} /\ Before(a, b)
      BY <1>1, <2>1, <3>1, WaitingAscends
    <3>3. wanted[x] = a /\ wanted[y] = b
      BY <3>2
    <3> QED
      BY <3>2, <3>3
  <2>3. rows \subseteq Rows /\ rows # {}
    <3>1. \A x \in ring : wanted[x] \in Rows
      BY <2>2
    <3> HIDE DEF wanted
    <3>2. ring # {}
      OBVIOUS
    <3> QED BY <3>1, <3>2
  <2>4. IsFiniteSet(rows)
    <3>1. IsFiniteSet(ring)
      BY FS_Subset
    <3>2. wanted \in Surjection(ring, rows)
      BY DEF Surjection
    <3> QED BY <3>1, <3>2, FS_Surjection
  <2> HIDE DEF wanted
  <2>5. PICK m \in rows : \A r \in rows : r = m \/ Before(r, m)
    BY <2>3, <2>4, LastRow
  <2>6. PICK x \in ring : m = wanted[x]
    BY <2>5
  <2>7. PICK y \in ring : Before(m, wanted[y])
    BY <2>2, <2>6
  <2>8. wanted[y] \in rows /\ wanted[y] \in Rows /\ m \in Rows
    BY <2>3, <2>5, <2>7
  <2> QED
    BY <2>5, <2>7, <2>8, BeforeIsAnOrder
<1> QED
  BY <1>1, CountedAlways, PTL

\* However many members open packs, propose, accept, counter, call off, are
\* granted coins or have their role changed at once, and however many trades
\* and cards there are: PostgreSQL never finds a deadlock among them.
THEOREM EverydayWorkNeverDeadlocks ==
    ASSUME IsFiniteSet(Transactions), Realm, Work \subseteq Everyday
    PROVE  Spec => []NoDeadlock
<1>1. InOrder
  BY EverydayAscends DEF InOrder
<1> QED
  BY <1>1, OrderPreventsDeadlock
=============================================================================
