--------------------------- MODULE TradeComposer ---------------------------
(* The trade composer of the web client (apps/web/components/trades/          *)
(* composer/): an offer is built from reads that may be minutes old, counted  *)
(* again when Review is pressed, shown in words and sent without an           *)
(* idempotency key.  The offer stays open to edits while it is counted, other *)
(* trades lock and release copies meanwhile, and an answer may be lost.       *)
EXTENDS Naturals, FiniteSets

CONSTANTS
    Cards,
    MaxLines,    \* MAX_TRADE_LINES
    MaxCopies,   \* MAX_TRADE_LINE_QUANTITY
    MaxCoins,    \* MAX_TRADE_CURRENCY
    Starts,      \* what ?to=, ?card= and ?counter= may name: [to, card, trade]
    MaxActs,     \* bound: things the member does
    MaxOthers,   \* bound: times the copies or coins change under the composer
    None, UnderWay

VARIABLES
    stock,      \* the caller's available copies, at the server
    coins,      \* the caller's balance, at the server
    original,   \* the offer a counter answers, at the server
    sent,       \* the trades created
    offer,      \* ComposerState
    blocked,    \* the counter that was asked for cannot be made
    balance,    \* the cached `me`
    owned,      \* GET /inventory/owned as cached for each list of ids
    fetch,      \* its requests under way: UnderWay, or what the server read
    picker,     \* the side a card is picked for, and the copies it was opened with
    checking,   \* the offer that review() was pressed on
    sending,    \* the body of the request under way and how far it is
    notice,     \* why the offer was refused
    leaving,    \* the offer was sent and the router is on its way to the trade
    acts, others,
    basis,      \* what the offer stands on, unedited: "reviewed", "refused" for copies, or "none"
    since,      \* `others` when that was reviewed, or decided by the server
    unsure      \* requests whose answer was lost, or repeated while leaving

serverVars == <<stock, coins, original, sent>>
composerVars == <<serverVars, offer, blocked, balance, owned, fetch, picker, checking,
                  sending, notice, leaving, acts, others, basis, since, unsure>>

Counts == [Cards -> 0 .. MaxCopies]
Empty == [c \in Cards |-> 0]
Lines(side) == {c \in Cards : side[c] > 0}
Keys == (SUBSET Cards) \ {{}}

Terms(o) == [give |-> o.give, get |-> o.get, coinsGive |-> o.coinsGive, coinsGet |-> o.coinsGet]
NoTerms == [give |-> Empty, get |-> Empty, coinsGive |-> 0, coinsGet |-> 0]

\* initialState: the counter turns the offer around; else the counterparty and the card, if any.
NewOffer(mode, party, give, get) ==
    [mode |-> mode, party |-> party, step |-> "compose",
     give |-> give, get |-> get, coinsGive |-> 0, coinsGet |-> 0]

InitialState(start) ==
    IF start.trade # "none"
    THEN NewOffer("counter", "member", start.asked, start.offered)
    ELSE NewOffer("new", IF start.to = "member" THEN "member" ELSE "none",
                  Empty, [c \in Cards |-> IF c = start.card THEN 1 ELSE 0])

Blocked(start) == start.trade \notin {"none", "pending"}

Init ==
    /\ stock = [c \in Cards |-> MaxCopies] /\ coins = MaxCoins
    /\ \E start \in Starts :
          /\ offer = InitialState(start) /\ blocked = Blocked(start)
          /\ original = start.trade
    /\ sent = {} /\ balance = coins
    /\ owned = [k \in Keys |-> None] /\ fetch = [k \in Keys |-> IF k = Lines(offer.give) THEN UnderWay ELSE None]
    /\ picker = [side |-> "none", stock |-> Empty]
    /\ checking = None /\ sending = None /\ notice = "none" /\ leaving = FALSE
    /\ acts = 0 /\ others = 0 /\ basis = "none" /\ since = 0 /\ unsure = 0

Act == acts < MaxActs /\ acts' = acts + 1

-----------------------------------------------------------------------------
(* What may be reviewed.                                                      *)

Key(o) == Lines(o.give)

\* available(): known once the list of ids has been answered.
Available(o) ==
    [c \in Cards |-> IF Key(o) = {} \/ owned[Key(o)] = None THEN None ELSE owned[Key(o)][c]]

NothingOffered(o) == Terms(o) = NoTerms

ExceedsNone(n, have) == have # None /\ have = 0 /\ n > have

\* A line over the copies that are known to be available.
Exceeds(n, have) == have # None /\ n > have

\* composeProblems, for given counts and balance.
Problems(o, have, mine) ==
    (IF o.party = "none" THEN {"party"} ELSE {})
    \union (IF NothingOffered(o) THEN {"empty"} ELSE {})
    \union (IF Cardinality(Lines(o.give)) > MaxLines \/ Cardinality(Lines(o.get)) > MaxLines
            THEN {"lines"} ELSE {})
    \union (IF Lines(o.give) \intersect Lines(o.get) # {} THEN {"both"} ELSE {})
    \union (IF \E c \in Lines(o.give) : Exceeds(o.give[c], have[c]) THEN {"copies"} ELSE {})
    \union (IF o.coinsGive > mine THEN {"coins"} ELSE {})

Shown(o) == Problems(o, Available(o), balance)

MayPickPastTheCap(side, c) ==
    LET mine   == offer[side]
        theirs == offer[IF side = "give" THEN "get" ELSE "give"]
    IN  /\ theirs[c] = 0
        /\ mine[c] > 0 \/ Cardinality(Lines(mine)) < MaxLines
        /\ side = "give" => mine[c] < picker.stock[c]

\* pickRefusal: the copies are those of the list the picker shows.
MayPick(side, c) ==
    LET mine   == offer[side]
        theirs == offer[IF side = "give" THEN "get" ELSE "give"]
    IN  /\ theirs[c] = 0
        /\ mine[c] > 0 \/ Cardinality(Lines(mine)) < MaxLines
        /\ side = "give" => mine[c] < picker.stock[c]
        /\ mine[c] < MaxCopies

-----------------------------------------------------------------------------
(* Reads.  A list of ids not yet answered is fetched when it is first shown.  *)

AskFor(o) ==
    IF Key(o) \notin {{}, Key(offer)} /\ owned[Key(o)] = None /\ fetch[Key(o)] = None
    THEN [fetch EXCEPT ![Key(o)] = UnderWay] ELSE fetch

AskNothing(o) == fetch

\* invalidateQueries: what is on screen is fetched again, whatever was under way.
AskAgain(o) == IF Key(o) = {} THEN fetch ELSE [fetch EXCEPT ![Key(o)] = UnderWay]

ServerReads(k) ==
    /\ fetch[k] = UnderWay
    /\ fetch' = [fetch EXCEPT ![k] = stock]
    /\ UNCHANGED <<serverVars, offer, blocked, balance, owned, picker, checking, sending,
                   notice, leaving, acts, others, basis, since, unsure>>

Edited(o) ==
    /\ offer' = o /\ fetch' = AskFor(o)
    /\ basis' = "none" /\ since' = since

\* The answer lands; a review that waited for it goes on with the offer it was pressed on.
CountsArrive(k) ==
    /\ fetch[k] \notin {None, UnderWay}
    /\ owned' = [owned EXCEPT ![k] = fetch[k]] /\ fetch' = [fetch EXCEPT ![k] = None]
    /\ IF checking # None /\ Key(checking.offer) = k
       THEN /\ checking' = None
            /\ offer' = IF Problems(checking.offer, fetch[k], checking.balance) = {}
                        THEN [offer EXCEPT !.step = "review"] ELSE offer
       ELSE UNCHANGED <<checking, offer>>
    /\ UNCHANGED <<serverVars, blocked, balance, picker, sending, notice, leaving,
                   acts, others, basis, since, unsure>>

\* Offline, or an error: the review says so and stays.
CountsFail(k) ==
    /\ Act /\ fetch[k] # None
    /\ fetch' = [fetch EXCEPT ![k] = None]
    /\ checking' = IF checking # None /\ Key(checking.offer) = k THEN None ELSE checking
    /\ basis' = "none"
    /\ UNCHANGED <<serverVars, offer, blocked, balance, owned, picker, sending, notice, leaving,
                   others, since, unsure>>

\* `me` is read again, by a refusal for coins, another page or the tab's focus.
BalanceArrives ==
    /\ balance # coins
    /\ balance' = coins
    /\ UNCHANGED <<serverVars, offer, blocked, owned, fetch, picker, checking, sending, notice,
                   leaving, acts, others, basis, since, unsure>>

\* The tab regains focus: the copies are counted again.
Focus ==
    /\ Act /\ ~blocked /\ Key(offer) # {}
    /\ fetch' = AskAgain(offer)
    /\ UNCHANGED <<serverVars, offer, blocked, balance, owned, picker, checking, sending, notice,
                   leaving, others, basis, since, unsure>>

-----------------------------------------------------------------------------
(* The member.  The compose view gives way to the review; the picker's dialog *)
(* stays over either.                                                         *)

Composing == ~blocked /\ offer.step = "compose" /\ picker.side = "none"

\* The reducer's actions from the compose view: the steppers, remove, coins and the counterparty.
SetCount(side, c, n) ==
    /\ Act /\ Composing /\ offer[side][c] > 0
    /\ \/ n = 0
       \/ n = offer[side][c] - 1
       \/ /\ n = offer[side][c] + 1 /\ n <= MaxCopies
          /\ side = "give" => ~Exceeds(n, Available(offer)[c])
    /\ Edited([offer EXCEPT ![side][c] = n])
    /\ UNCHANGED <<serverVars, blocked, balance, owned, picker, checking, sending, notice,
                   leaving, others, unsure>>

SetCoins(side, n) ==
    /\ Act /\ Composing /\ offer[side] # n
    /\ side = "coinsGive" => n <= balance
    /\ Edited([offer EXCEPT ![side] = n])
    /\ UNCHANGED <<serverVars, blocked, balance, owned, picker, checking, sending, notice,
                   leaving, others, unsure>>

ChooseParty ==
    /\ Act /\ Composing /\ offer.mode = "new"
    /\ Edited([offer EXCEPT !.party = IF offer.party = "none" THEN "member" ELSE "none"])
    /\ UNCHANGED <<serverVars, blocked, balance, owned, picker, checking, sending, notice,
                   leaving, others, unsure>>

OpenPicker(side) ==
    /\ Act /\ Composing
    /\ picker' = [side |-> side, stock |-> stock]
    /\ UNCHANGED <<serverVars, offer, blocked, balance, owned, fetch, checking, sending, notice,
                   leaving, others, basis, since, unsure>>

Pick(c) ==
    /\ Act /\ picker.side # "none" /\ MayPick(picker.side, c)
    /\ Edited([offer EXCEPT ![picker.side][c] = @ + 1])
    /\ UNCHANGED <<serverVars, blocked, balance, owned, picker, checking, sending, notice,
                   leaving, others, unsure>>

ClosePicker ==
    /\ picker.side # "none"
    /\ picker' = [side |-> "none", stock |-> Empty]
    /\ UNCHANGED <<serverVars, offer, blocked, balance, owned, fetch, checking, sending, notice,
                   leaving, acts, others, basis, since, unsure>>

\* Review offer: the copies are counted again first, unless none are given; a count under way is
\* joined, even one that the server has read already.
Review ==
    /\ Act /\ Composing /\ checking = None /\ Shown(offer) = {}
    /\ basis' = IF balance = coins /\ (Key(offer) # {} => fetch[Key(offer)] \in {None, UnderWay})
                THEN "reviewed" ELSE "none"
    /\ since' = others
    /\ IF Key(offer) = {}
       THEN offer' = [offer EXCEPT !.step = "review"] /\ UNCHANGED <<checking, fetch>>
       ELSE /\ checking' = [offer |-> offer, balance |-> balance]
            /\ fetch' = IF fetch[Key(offer)] = None THEN AskAgain(offer) ELSE fetch
            /\ UNCHANGED offer
    /\ UNCHANGED <<serverVars, blocked, balance, owned, picker, sending, notice, leaving,
                   others, unsure>>

BackToEdit ==
    /\ Act /\ offer.step = "review" /\ picker.side = "none" /\ sending = None
    /\ offer' = [offer EXCEPT !.step = "compose"]
    /\ UNCHANGED <<serverVars, blocked, balance, owned, fetch, picker, checking, sending, notice,
                   leaving, others, basis, since, unsure>>

MaySendTwice == offer.step = "review" /\ picker.side = "none"

MaySend == offer.step = "review" /\ picker.side = "none" /\ sending = None

\* Send offer.  The button is free again between the success and the next page.
Send ==
    /\ Act /\ MaySend
    /\ sending' = [body |-> offer, phase |-> "asked"]
    /\ unsure' = IF leaving THEN unsure + 1 ELSE unsure
    /\ UNCHANGED <<serverVars, offer, blocked, balance, owned, fetch, picker, checking, notice,
                   leaving, others, basis, since>>

-----------------------------------------------------------------------------
(* The server's part, as TradesService.propose and counter decide it, and the *)
(* answer.                                                                    *)

Decision(body) ==
    IF NothingOffered(body) THEN "other"
    ELSE IF body.mode = "counter" /\ original # "pending" THEN "answered"
    ELSE IF body.coinsGive > coins THEN "coins"
    ELSE IF \E c \in Cards : body.give[c] > stock[c] THEN "copies"
    ELSE "ok"

ServerDecides ==
    /\ sending # None /\ sending.phase = "asked"
    /\ LET d == Decision(sending.body)
       IN  /\ sending' = [sending EXCEPT !.phase = d]
           /\ IF d = "ok"
              THEN /\ sent' = sent \union {[number |-> Cardinality(sent), body |-> sending.body]}
                   /\ stock' = [c \in Cards |-> stock[c] - sending.body.give[c]]
                   /\ original' = IF sending.body.mode = "counter" THEN "closed" ELSE original
              ELSE UNCHANGED <<sent, stock, original>>
           /\ since' = IF d = "copies" THEN others ELSE since
    /\ UNCHANGED <<coins, offer, blocked, balance, owned, fetch, picker, checking, notice,
                   leaving, acts, others, basis, unsure>>

Answered == sending # None /\ sending.phase # "asked"

\* The trade exists: off to its page, with the inventory's queries invalidated.
Succeeds ==
    /\ Answered /\ sending.phase = "ok"
    /\ sending' = None /\ leaving' = TRUE /\ fetch' = AskAgain(offer)
    /\ UNCHANGED <<serverVars, offer, blocked, balance, owned, picker, checking, notice,
                   acts, others, basis, since, unsure>>

\* A refusal returns to editing; one for copies counts them again.
Refused ==
    /\ Answered /\ sending.phase # "ok"
    /\ sending' = None /\ offer' = [offer EXCEPT !.step = "compose"]
    /\ notice' = IF sending.phase = "other" THEN notice ELSE sending.phase
    /\ fetch' = IF sending.phase = "copies" THEN AskAgain(offer) ELSE fetch
    /\ basis' = IF sending.phase = "copies" THEN "refused" ELSE "none"
    /\ UNCHANGED <<serverVars, blocked, balance, owned, picker, checking, leaving,
                   acts, others, since, unsure>>

\* The answer is lost, or the request: back to editing with a toast, as after a refusal.
AnswerLost ==
    /\ Act /\ sending # None
    /\ sending' = None /\ offer' = [offer EXCEPT !.step = "compose"]
    /\ unsure' = IF sending.phase = "ok" THEN unsure + 1 ELSE unsure
    /\ UNCHANGED <<serverVars, blocked, balance, owned, fetch, picker, checking, notice, leaving,
                   others, basis, since>>

\* Other trades and openings of the caller, and whoever answers the original offer.
OthersAct ==
    /\ others < MaxOthers /\ others' = others + 1
    /\ \/ \E c \in Cards, n \in 0 .. MaxCopies : stock[c] # n /\ stock' = [stock EXCEPT ![c] = n]
                                                 /\ UNCHANGED <<coins, original>>
       \/ \E n \in 0 .. MaxCoins : coins # n /\ coins' = n /\ UNCHANGED <<stock, original>>
       \/ original = "pending" /\ original' = "closed" /\ UNCHANGED <<stock, coins>>
    /\ UNCHANGED <<sent, offer, blocked, balance, owned, fetch, picker, checking, sending, notice,
                   leaving, acts, basis, since, unsure>>

Next ==
    \/ \E k \in Keys : ServerReads(k) \/ CountsArrive(k) \/ CountsFail(k)
    \/ BalanceArrives \/ Focus
    \/ \E c \in Cards :
          \/ Pick(c)
          \/ \E side \in {"give", "get"}, n \in 0 .. MaxCopies : SetCount(side, c, n)
    \/ \E side \in {"coinsGive", "coinsGet"}, n \in 0 .. MaxCoins : SetCoins(side, n)
    \/ ChooseParty \/ \E side \in {"give", "get"} : OpenPicker(side)
    \/ ClosePicker \/ Review \/ BackToEdit \/ Send
    \/ ServerDecides \/ Succeeds \/ Refused \/ AnswerLost
    \/ OthersAct

Spec == Init /\ [][Next]_composerVars

-----------------------------------------------------------------------------

OfferType ==
    [mode : {"new", "counter"}, party : {"none", "member"}, step : {"compose", "review"},
     give : Counts, get : Counts, coinsGive : 0 .. MaxCoins, coinsGet : 0 .. MaxCoins]

TypeOK ==
    /\ stock \in Counts /\ coins \in 0 .. MaxCoins /\ balance \in 0 .. MaxCoins
    /\ original \in {"none", "pending", "closed", "missing"}
    /\ offer \in OfferType /\ blocked \in BOOLEAN /\ leaving \in BOOLEAN /\ basis \in {"none", "reviewed", "refused"}
    /\ \A s \in sent : s.number \in Nat /\ s.body \in OfferType
    /\ \A k \in Keys : owned[k] \in Counts \union {None} /\ fetch[k] \in Counts \union {None, UnderWay}
    /\ picker.side \in {"none", "give", "get"} /\ picker.stock \in Counts
    /\ checking # None => checking.offer \in OfferType
    /\ sending # None => sending.phase \in {"asked", "ok", "other", "answered", "coins", "copies"}
    /\ notice \in {"none", "answered", "coins", "copies"}

\* The copies are counted again when Review is pressed, so that a lock made elsewhere shows before
\* the review (docs/Pages.md, Trade composer): an offer in review that nobody has edited since is
\* one the server takes, unless others acted meanwhile, or the balance or the original offer,
\* which are not read again, had changed.
ReviewedOffersAreTaken ==
    (offer.step = "review" /\ basis = "reviewed" /\ since = others /\ sending = None /\ ~leaving
        /\ (offer.mode = "counter" => original = "pending"))
    => Decision(offer) = "ok"

\* A refusal for copies marks the line it is about once they are counted again.
RefusedLinesAreMarked ==
    (offer.step = "compose" /\ basis = "refused" /\ since = others
        /\ checking = None /\ \A k \in Keys : fetch[k] = None)
    => "copies" \in Shown(offer)

\* One trade is created, and one more for each answer that was lost or Send pressed while leaving;
\* a counter is created once whatever happens.
OneTradePerSend ==
    /\ Cardinality(sent) <= 1 + unsure
    /\ offer.mode = "counter" => Cardinality(sent) <= 1
=============================================================================
