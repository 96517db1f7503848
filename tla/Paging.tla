------------------------------- MODULE Paging -------------------------------
(***************************************************************************)
(* The paged lists: a reader walks one of them page by page while rows     *)
(* are inserted, leave and, where a price or a name is the key, move.  A   *)
(* keyset walk carries the last row's sort value and id, an offset walk    *)
(* only the number of the page.  Rows are their ids, with their sort       *)
(* values: a time, a name or a price, for which Null is "not priced".      *)
(***************************************************************************)
EXTENDS Integers, FiniteSets

CONSTANTS
    Ids,        \* rows that may exist; an id is never used again
    Values,     \* sort values, numbers above 0
    PageSize

Null == 0

\* A list: how it is paged, by which keys, and whether rows leave its scope.
List(style, keys, dirs, leaves) ==
    [style |-> style, keys |-> keys, dirs |-> dirs, leaves |-> leaves]
PackHistory      == List("keyset", {"createdAt"}, {"desc"}, FALSE)
WalletPage       == List("keyset", {"createdAt"}, {"desc"}, FALSE)
AuditList        == List("keyset", {"createdAt"}, {"desc"}, FALSE)
TradeInbox       == List("keyset", {"createdAt"}, {"desc"}, TRUE)
AdminTrades      == List("keyset", {"createdAt"}, {"desc"}, TRUE)
NotificationList == List("keyset", {"createdAt"}, {"desc"}, TRUE)
InventoryList    == List("keyset", {"acquiredAt", "name", "price"}, {"asc", "desc"}, TRUE)
SearchCards      == List("offset", {"name", "price"}, {"asc", "desc"}, FALSE)
AdminUserList    == List("offset", {"createdAt"}, {"desc"}, TRUE)

Lists == {PackHistory, WalletPage, AuditList, TradeInbox, AdminTrades, NotificationList,
          InventoryList, SearchCards, AdminUserList}

VARIABLES
    rows,   \* the rows in scope, and their sort values
    gone,   \* ids that have left
    walk    \* the reader: the list, the sort, where it stands, and what it saw

gvars == <<rows, gone, walk>>

Sorted(list) == [key : list.keys, dir : list.dirs]
KeyValues(key) == IF key = "price" THEN Values \cup {Null} ELSE Values

TypeOK ==
    /\ DOMAIN rows \subseteq Ids /\ gone \subseteq Ids /\ gone \cap DOMAIN rows = {}
    /\ \A r \in DOMAIN rows : rows[r] \in KeyValues(walk.sort.key)
    /\ walk.list \in Lists /\ walk.sort \in Sorted(walk.list)
    /\ walk.step \in {"first", "next", "done"}
    /\ walk.page \in 1 .. Cardinality(Ids) + 1
    /\ walk.shown \in [Ids -> 0 .. 2]   \* 2: more than once
    /\ walk.stayed \subseteq Ids

Init ==
    /\ \E list \in Lists : \E sort \in Sorted(list) :
          /\ \E R \in SUBSET Ids : rows \in [R -> KeyValues(sort.key)]
          /\ walk = [list |-> list, sort |-> sort, step |-> "first", page |-> 1,
                     cursor |-> [v |-> Null, id |-> 0], quiet |-> TRUE,
                     shown |-> [r \in Ids |-> 0], stayed |-> DOMAIN rows]
    /\ gone = {}

-----------------------------------------------------------------------------
(* One statement: where it begins, its order, its LIMIT.                   *)

Beyond(a, b) == IF walk.sort.dir = "asc" THEN b > a ELSE b < a

\* ORDER BY key, id in one direction, with prices that are null last in both.
Precedes(a, b) ==
    IF rows[a] = rows[b] THEN Beyond(a, b)
    ELSE rows[a] # Null /\ (rows[b] = Null \/ Beyond(rows[a], rows[b]))

FirstOf(S, n) == {r \in S : Cardinality({s \in S : Precedes(s, r)}) < n}

\* Mutant of NullsToCome: the prices that are null are forgotten once there is a cursor.
NullsForgotten == {}
NullsToCome == IF walk.sort.key = "price" THEN {r \in DOMAIN rows : rows[r] = Null} ELSE {}

\* The keyset predicate.  A cursor at null has only nulls left.
AfterCursor ==
    LET c == walk.cursor
        SameKey == {r \in DOMAIN rows : rows[r] = c.v /\ Beyond(c.id, r)}
    IN IF walk.step = "first" THEN DOMAIN rows
       ELSE IF c.v = Null THEN SameKey
       ELSE {r \in DOMAIN rows : rows[r] # Null /\ Beyond(c.v, rows[r])}
                \cup SameKey \cup NullsToCome

Skipped == FirstOf(DOMAIN rows, (walk.page - 1) * PageSize)

Show(page, cursor, more) ==
    walk' = [walk EXCEPT !.shown = [r \in Ids |-> IF r \in page /\ @[r] < 2 THEN @[r] + 1
                                                   ELSE @[r]],
                         !.page = IF walk.list.style = "offset" THEN @ + 1 ELSE 1,
                         !.cursor = cursor,
                         !.step = IF more THEN "next" ELSE "done"]

\* One more row than a page is read; if it is there, the cursor is the last one shown.
KeysetPage ==
    /\ walk.list.style = "keyset" /\ walk.step # "done"
    /\ LET found == FirstOf(AfterCursor, PageSize + 1)
           page == FirstOf(found, PageSize)
           more == found # page
           last == CHOOSE r \in page : \A s \in page \ {r} : Precedes(s, r)
       IN Show(page, IF more THEN [v |-> rows[last], id |-> last] ELSE walk.cursor, more)
    /\ UNCHANGED <<rows, gone>>

\* skip and take; the count that says how many pages there are is another statement,
\* so that it may be of a moment later: the walk then only ends later or earlier.
OffsetPage ==
    /\ walk.list.style = "offset" /\ walk.step # "done"
    /\ Show(FirstOf(DOMAIN rows \ Skipped, PageSize), walk.cursor,
            walk.page * PageSize < Cardinality(DOMAIN rows))
    /\ UNCHANGED <<rows, gone>>

-----------------------------------------------------------------------------
(* What happens meanwhile.                                                 *)

Unsettle(S) == walk' = [walk EXCEPT !.quiet = @ /\ walk.step = "first",
                                    !.stayed = IF walk.step = "first"
                                               THEN DOMAIN rows' ELSE @ \ S]

\* A row appears, at any place: its time is taken before its transaction commits,
\* and a trade that closes enters a tab with the time it was proposed.
Insert ==
    /\ walk.step # "done"
    /\ \E r \in Ids \ (DOMAIN rows \cup gone), v \in KeyValues(walk.sort.key) :
          rows' = [s \in DOMAIN rows \cup {r} |-> IF s = r THEN v ELSE rows[s]]
    /\ Unsettle({})
    /\ UNCHANGED gone

\* A trade leaves its tab, a notification is read (NotificationReads.markRead), the
\* last copy of a card is traded away.
LeaveScope ==
    /\ walk.list.leaves /\ walk.step # "done"
    /\ \E r \in DOMAIN rows :
          /\ rows' = [s \in DOMAIN rows \ {r} |-> rows[s]]
          /\ gone' = gone \cup {r}
          /\ Unsettle({r})

\* A price is refreshed, or a card renamed: the row moves.
MoveRow ==
    /\ walk.sort.key \in {"price", "name"} /\ walk.step # "done"
    /\ \E r \in DOMAIN rows, v \in KeyValues(walk.sort.key) \ {Null} :
          /\ v # rows[r]
          /\ rows' = [rows EXCEPT ![r] = v]
          /\ Unsettle({r})
    /\ UNCHANGED gone

Next == KeysetPage \/ OffsetPage \/ Insert \/ LeaveScope \/ MoveRow

Spec == Init /\ [][Next]_gvars

-----------------------------------------------------------------------------

\* Whatever is inserted, leaves or moves meanwhile, a row that stayed where it was
\* from the first page to the last is shown exactly once, ties and unpriced cards
\* included; pages by number promise that only while nothing changes
\* (docs/API.md:26 and :326, afterCursor).
RowsThatStayAreShownOnce ==
    walk.list.style = "keyset" \/ walk.quiet =>
        \A r \in walk.stayed : /\ walk.shown[r] <= 1
                               /\ walk.step = "done" => walk.shown[r] = 1
=============================================================================
