----------------------------- MODULE SearchList -----------------------------
(* A list of cards behind a search field and filters: the catalog and the     *)
(* collection, whose filters are in the URL, and the deck builder's pool,     *)
(* where they are the component's.  What is typed is searched for a moment    *)
(* later; the earlier results stay on screen until the later ones arrive,     *)
(* narrowed to what is typed where that is possible and dimmed where not.     *)
EXTENDS Integers, Sequences, FiniteSets

CONSTANTS
    Texts,    \* what the field may hold, "" among them
    Trim,     \* each text without the blanks around it
    Within,   \* the pairs of texts of which the first is a part of the second
    Cards,    \* the catalog's cards, sorted: name and set
    Sets,     \* the values of the one other filter
    MaxActs, MaxFails,   \* bounds: what the member does, requests that fail
    None

VARIABLES
    place,       \* "url" or "pool": where the filters are
    entries, at, \* the browser's history of this page
    filters,     \* as React rendered them last
    text, emitted, timer,   \* SearchInput
    data,        \* the query's last data: the filters that it answers, and its pages
    request,     \* under way
    error,       \* "none", of the "list", or of "more"
    acts, fails,
    own,         \* the text that the member gave the field
    moved,       \* the location was moved otherwise than by the field
    overtaken,   \* the field took a text over with a search still to be sent
    meant        \* the last value given to each filter

searchVars == <<place, entries, at, filters, text, emitted, timer, data, request, error, acts, fails,
                own, moved, overtaken, meant>>
fieldVars == <<text, emitted, timer>>
queryVars == <<data, request, error>>

Filters == [q : Texts, set : Sets \union {None}]
NoFilters == [q |-> "", set |-> None]
location == entries[at]

Matches(card, f) == <<f.q, card.name>> \in Within /\ f.set \in {None, card.set}
\* PageSize is one card.
Answer(f) == SelectSeq(Cards, LAMBDA card : Matches(card, f))

Asks(f) == [of |-> f, more |-> FALSE]

Init ==
    /\ place \in {"url", "pool"}
    /\ entries = << NoFilters >> /\ at = 1 /\ filters = NoFilters
    /\ text = "" /\ emitted = "" /\ timer = None
    /\ data = None /\ request = Asks(NoFilters) /\ error = "none"
    /\ acts = 0 /\ fails = 0
    /\ own = "" /\ moved = FALSE /\ overtaken = FALSE /\ meant = NoFilters

Act == acts < MaxActs /\ acts' = acts + 1

-----------------------------------------------------------------------------
(* What is shown.                                                             *)

Placeholder == request # None /\ ~request.more
Total == Len(Answer(data.of))
Loaded == SubSeq(Answer(data.of), 1, data.pages)
HasNext == data.pages < Total

Typed == Trim[text]
Narrows == <<data.of.q, Typed>> \in Within
Widens  == <<Typed, data.of.q>> \in Within

\* narrowToTyped
Items == IF Narrows THEN SelectSeq(Loaded, LAMBDA card : <<Typed, card.name>> \in Within) ELSE Loaded

StaleByName == ~(Narrows \/ Widens)
Stale == ~(Narrows \/ Widens) \/ data.of.set # filters.set

CurrentIfNotStale == ~Stale /\ ~Placeholder
Current == ~Stale /\ ~Placeholder /\ Typed = data.of.q

Says ==
    CASE error = "list" -> "error"
      [] error # "list" /\ data = None -> "loading"
      [] error # "list" /\ data # None /\ Total = 0 -> IF Current THEN "nothing" ELSE "searching"
      [] OTHER -> "cards"

-----------------------------------------------------------------------------
(* The field and the filters.                                                 *)

BaseOfTheRender == filters
\* useUrlState's set is built from window.location at call time, the pool's setFilters from the
\* current state.
Base == location

Replaces(f) == entries' = [entries EXCEPT ![at] = f] /\ UNCHANGED at
Pushes(f) ==
    IF place = "url"
    THEN entries' = Append(SubSeq(entries, 1, at), f) /\ at' = at + 1
    ELSE Replaces(f)

SentAsTyped(t) == t
Sent(t) == Trim[t]

Sends(t) ==
    /\ emitted' = Sent(t) /\ timer' = None
    /\ Replaces([Base EXCEPT !.q = Sent(t)])
    /\ meant' = [meant EXCEPT !.q = Trim[t]]

\* Each key puts the search off.
Type(t) ==
    /\ t # text /\ Act
    /\ text' = t /\ timer' = t
    /\ own' = t /\ overtaken' = FALSE
    /\ UNCHANGED <<place, entries, at, filters, emitted, queryVars, fails, moved, meant>>

TimerFires ==
    /\ timer # None /\ Sends(timer)
    /\ UNCHANGED <<place, filters, text, queryVars, acts, fails, own, moved, overtaken>>

\* Escape, or the cross.
ClearText ==
    /\ text # "" /\ Act
    /\ text' = "" /\ Sends("")
    /\ own' = "" /\ overtaken' = FALSE
    /\ UNCHANGED <<place, filters, queryVars, fails, moved>>

\* A menu, a chip, or Clear all, which leaves the search alone.
PickFilter(s) ==
    /\ s # filters.set /\ Act
    /\ Pushes([Base EXCEPT !.set = s])
    /\ meant' = [meant EXCEPT !.set = s]
    /\ UNCHANGED <<place, filters, fieldVars, queryVars, fails, own, moved, overtaken>>

\* Offered where nothing matches.
ClearFilters ==
    /\ Says = "nothing" /\ filters # NoFilters /\ Act
    /\ Pushes(NoFilters)
    /\ moved' = TRUE /\ meant' = NoFilters
    /\ UNCHANGED <<place, filters, fieldVars, queryVars, fails, own, overtaken>>

Traverse(to) ==
    /\ place = "url" /\ to \in DOMAIN entries /\ Act
    /\ at' = to
    /\ moved' = TRUE /\ meant' = entries[to]
    /\ UNCHANGED <<place, entries, filters, fieldVars, queryVars, fails, own, overtaken>>

AdoptsWhatDiffers(q) == q # text
\* "not the echo of our own last search"
Adopts(q) == q # emitted

\* A key that nobody shows is dropped at once (gcTime 0), with its request.
Renders ==
    LET next == [location EXCEPT !.q = Trim[location.q]] IN
    /\ filters # next \/ moved
    /\ filters' = next /\ moved' = FALSE
    /\ IF Adopts(next.q)
       THEN text' = next.q /\ emitted' = next.q
       ELSE UNCHANGED <<text, emitted>>
    /\ own' = IF moved /\ next.q # emitted THEN next.q ELSE own
    /\ overtaken' = (overtaken \/ (next.q # emitted /\ timer # None))
    /\ IF next = filters
       THEN UNCHANGED queryVars
       ELSE request' = Asks(next) /\ error' = "none" /\ UNCHANGED data
    /\ UNCHANGED <<place, entries, at, timer, acts, fails, meant>>

-----------------------------------------------------------------------------
(* The query.                                                                 *)

Keeps == UNCHANGED <<place, entries, at, filters, fieldVars, acts, own, moved, overtaken, meant>>

Arrives ==
    /\ request # None
    /\ data' = [of |-> request.of, pages |-> IF request.more THEN data.pages + 1 ELSE 1]
    /\ request' = None /\ error' = "none"
    /\ UNCHANGED fails /\ Keeps

RequestFails ==
    /\ request # None /\ fails < MaxFails /\ fails' = fails + 1
    /\ request' = None /\ error' = IF request.more THEN "more" ELSE "list"
    /\ UNCHANGED data /\ Keeps

Retry ==
    /\ error = "list"
    /\ request' = Asks(filters) /\ error' = "none"
    /\ UNCHANGED <<data, fails>> /\ Keeps

\* The grid asks by itself near its end, unless asking failed; then there is a button.
LoadMore ==
    /\ Says = "cards" /\ request = None /\ HasNext
    /\ (Current /\ error = "none") \/ error = "more"
    /\ request' = [of |-> data.of, more |-> TRUE]
    /\ UNCHANGED <<data, error, fails>> /\ Keeps

-----------------------------------------------------------------------------

Next ==
    \/ \E t \in Texts : Type(t)
    \/ TimerFires \/ ClearText
    \/ \E s \in Sets \union {None} : PickFilter(s)
    \/ ClearFilters \/ Traverse(at - 1) \/ Traverse(at + 1)
    \/ Renders \/ Arrives \/ RequestFails \/ Retry \/ LoadMore

Spec == Init /\ [][Next]_searchVars

-----------------------------------------------------------------------------

\* Type invariant.
TypeOK ==
    /\ entries \in Seq(Filters) /\ at \in DOMAIN entries
    /\ filters \in Filters /\ text \in Texts /\ emitted \in Texts /\ timer \in Texts \union {None}
    /\ data # None => data.of \in Filters /\ data.pages \in 1 .. Len(Cards)
    /\ request # None => request.of \in Filters
    /\ error \in {"none", "list", "more"} /\ (error = "list" => request = None)
    /\ place = "pool" => Len(entries) = 1

\* "always a subset of what the server returns for `typed`, never something else"
\* (lib/name-match.ts:16-19), and of the other filter: cards that are not dimmed answer the field.
ShownAnswersTheField ==
    Says = "cards" /\ ~Stale =>
        \A i \in DOMAIN Items :
            Matches(Items[i], [q |-> Typed, set |-> filters.set])

\* "only then may the page say 'nothing matches'" (lib/name-match.ts:34-38).
NothingIsSaidOfTheField ==
    Says = "nothing" => Answer([q |-> Typed, set |-> filters.set]) = <<>>

\* When nothing is under way the list is that of the field and of the URL, or says that it failed,
\* unless the field took the page's earlier search over with one still to be sent
\* (search-input.tsx:50-60).
ListIsOfTheField ==
    request = None /\ timer = None /\ filters = location /\ ~moved /\ ~overtaken =>
        /\ Typed = filters.q
        /\ error = "list" \/ Current

\* What was typed is not replaced but by the member's own Back or Clear filters: neither by the
\* echo of a search nor by its trimmed form (search-input.tsx:48-60,66-71).
TypedStays == text = own

\* A search and a filter do not undo one another, in whatever order they are sent and rendered
\* (url-state.ts:44-47).
ChoicesAreKept == location = meant
=============================================================================
