----------------------------- MODULE PackReveal -----------------------------
(* /packs/open in one browser tab, from the confirm dialog to the summary.  An *)
(* openId is made per confirmation and lives in the URL; the tap on the sealed *)
(* pack is the request.  The server's side of it is OpenOnce: the first request*)
(* of an openId that succeeds opens a pack, each later one replays it.         *)
EXTENDS Naturals, FiniteSets

CONSTANTS
    Contents,   \* what a pack may turn out to hold
    PackSize,   \* cards in a pack
    MaxOpens,   \* bound: confirmations
    MaxCalls    \* bound: requests under way

VARIABLES
    confirmed,  \* openIds made so far: 1 .. confirmed
    url,        \* the openId of the page, 0 on any other page
    screen,     \* the page's store and state
    calls,      \* requests under way, and who waits for them
    pack,       \* the server: what each openId was opened as
    storage,    \* does the browser let the page use sessionStorage?
    marks,      \* sessionStorage: openIds whose answer has arrived
    arrived     \* ghost: the same, whether or not they were marked

kvars == <<confirmed, url, screen, calls, pack, storage, marks, arrived>>

Ids == 1 .. MaxOpens
NoPack == "none"

\* SEALED, and the page's state before anything happened.
Sealed == [stage |-> "sealed", total |-> 0, index |-> 0]
Fresh == [machine |-> Sealed, result |-> NoPack, error |-> "none", replaying |-> FALSE,
          flipped |-> FALSE,
          late |-> FALSE]  \* ghost: did this visit begin after the answer had arrived?

Call == [id : Ids, waits : {"page", "left", "nobody"}, replay : BOOLEAN,
         step : {"sent", "answered", "arrived"}, answer : Contents \cup {NoPack}]
Sent(id, replay) == [id |-> id, waits |-> "page", replay |-> replay,
                     step |-> "sent", answer |-> NoPack]

TypeOK ==
    /\ confirmed \in 0 .. MaxOpens /\ url \in 0 .. confirmed
    /\ screen.machine \in [stage : {"sealed", "opening", "reveal", "summary"},
                           total : 0 .. PackSize, index : 0 .. PackSize - 1]
    /\ screen.result \in Contents \cup {NoPack}
    /\ screen.error \in {"none", "retry", "final"} /\ storage \in BOOLEAN
    /\ calls \subseteq Call /\ pack \in [Ids -> Contents \cup {NoPack}]
    /\ marks \subseteq arrived /\ arrived \subseteq {id \in Ids : pack[id] # NoPack}

Init ==
    /\ confirmed = 0 /\ url = 0 /\ screen = Fresh /\ calls = {}
    /\ pack = [id \in Ids |-> NoPack] /\ storage \in BOOLEAN /\ marks = {} /\ arrived = {}

-----------------------------------------------------------------------------
(* The reveal machine: an event the stage does not accept changes nothing.    *)

On(stage, s, next) == IF s.stage = stage THEN next ELSE s
Opens(s) == On("sealed", s, [Sealed EXCEPT !.stage = "opening"])
Opened(s) == On("opening", s, [Sealed EXCEPT !.stage = "reveal", !.total = PackSize])
Failed(s) == On("opening", s, Sealed)
Skipped(s) == On("reveal", s, [s EXCEPT !.stage = "summary"])
NextCard(s) == On("reveal", s, IF s.index + 1 < s.total THEN [s EXCEPT !.index = @ + 1]
                                                        ELSE [s EXCEPT !.stage = "summary"])

\* What the page renders: a replay hides the stages it goes through.
View == IF screen.replaying THEN "spinner" ELSE screen.machine.stage

-----------------------------------------------------------------------------
(* The member.                                                                *)

\* Whoever waited for an answer on the page no longer does.
Abandoned == {[c EXCEPT !.waits = IF @ = "page" THEN "left" ELSE @] : c \in calls}

\* The machine, the error and the spinner once a request is on its way.
Started(s, replay) == [s EXCEPT !.error = "none", !.replaying = replay, !.machine = Opens(@)]

\* The dialog's confirmation, on the packs page or on the summary, makes the openId and
\* goes to its page, whose store is one per openId.
ConfirmOnto(screenAfter) ==
    /\ url = 0 \/ View = "summary"
    /\ confirmed < MaxOpens
    /\ confirmed' = confirmed + 1 /\ url' = confirmed'
    /\ screen' = screenAfter /\ calls' = Abandoned
    /\ UNCHANGED <<pack, storage, marks, arrived>>

ConfirmKeepingStore == ConfirmOnto(IF url = 0 THEN Fresh ELSE screen)
Confirm == ConfirmOnto(Fresh)

CanTap == url # 0 /\ View = "sealed" /\ screen.error # "final"

TapFor(id) ==
    /\ screen' = Started(screen, id \in marks)
    /\ Cardinality(calls) < MaxCalls /\ calls' = calls \cup {Sent(id, id \in marks)}
    /\ UNCHANGED <<url, pack, storage, marks, arrived>>

\* A retry after a failure is another tap; it sends the same openId.
TapAnew ==
    /\ CanTap
    /\ IF screen.error = "retry" /\ confirmed < MaxOpens
       THEN TapFor(confirmed + 1) /\ UNCHANGED confirmed
       ELSE TapFor(url) /\ UNCHANGED confirmed
Tap == CanTap /\ TapFor(url) /\ UNCHANGED confirmed

\* A card is turned over, then left behind for the next one.
Activate ==
    /\ url # 0 /\ View = "reveal"
    /\ screen' = IF ~screen.flipped THEN [screen EXCEPT !.flipped = TRUE]
                 ELSE [screen EXCEPT !.flipped = FALSE, !.machine = NextCard(@)]
    /\ UNCHANGED <<confirmed, url, calls, pack, storage, marks, arrived>>

Skip ==
    /\ url # 0 /\ View = "reveal"
    /\ screen' = [screen EXCEPT !.machine = Skipped(@)]
    /\ UNCHANGED <<confirmed, url, calls, pack, storage, marks, arrived>>

\* Back, to the packs page; the request goes on.
Back ==
    /\ url # 0 /\ url' = 0 /\ screen' = Fresh /\ calls' = Abandoned
    /\ UNCHANGED <<confirmed, pack, storage, marks, arrived>>

\* The page of an openId is shown anew, and its effect replays an opened pack.
Mount(id, others) ==
    LET first == [Fresh EXCEPT !.late = id \in arrived]
    IN  /\ screen' = IF id \in marks THEN Started(first, TRUE) ELSE first
        /\ calls' = others \cup IF id \in marks THEN {Sent(id, TRUE)} ELSE {}
        /\ Cardinality(calls') <= MaxCalls

\* Forward, or the URL opened again: any openId made so far.
Return ==
    /\ url = 0
    /\ \E id \in 1 .. confirmed : url' = id /\ Mount(id, calls)
    /\ UNCHANGED <<confirmed, pack, storage, marks, arrived>>

\* A reload forgets all but the URL and the marks; the server may still get the requests.
Reload ==
    /\ url # 0
    /\ Mount(url, {[c EXCEPT !.waits = "nobody"] : c \in {d \in calls : d.step = "sent"}})
    /\ UNCHANGED <<confirmed, url, pack, storage, marks, arrived>>

-----------------------------------------------------------------------------
(* The request.                                                               *)

Awaited(c) == IF c.waits = "nobody" THEN {} ELSE {c}

\* The first that succeeds opens a pack, each later one replays it.
ServerOpens(c) ==
    /\ c.step = "sent"
    /\ \E p \in IF pack[c.id] = NoPack THEN Contents ELSE {pack[c.id]} :
          /\ pack' = [pack EXCEPT ![c.id] = p]
          /\ calls' = (calls \ {c}) \cup Awaited([c EXCEPT !.step = "answered", !.answer = p])
    /\ UNCHANGED <<confirmed, url, screen, storage, marks, arrived>>

\* The answer arrives and is marked at once; the page shows it when the animation has run
\* its least time, which a reload may come before.
Arrives(c, marksAfter) ==
    /\ c.step = "answered"
    /\ calls' = (calls \ {c}) \cup {[c EXCEPT !.step = "arrived"]}
    /\ arrived' = arrived \cup {c.id} /\ marks' = marksAfter
    /\ UNCHANGED <<confirmed, url, screen, pack, storage>>

ArriveUnmarked(c) == Arrives(c, marks)
Arrive(c) == Arrives(c, IF storage THEN marks \cup {c.id} ELSE marks)

Show(c) ==
    /\ c.step = "arrived"
    /\ calls' = calls \ {c}
    /\ screen' = IF c.waits # "page" THEN screen
                 ELSE LET m == Opened(screen.machine)
                      IN  [screen EXCEPT !.result = c.answer, !.replaying = FALSE,
                                         !.machine = IF c.replay THEN Skipped(m) ELSE m]
    /\ UNCHANGED <<confirmed, url, pack, storage, marks, arrived>>

\* The request or its answer is lost, or it is refused: 402, 404 and 409 end the attempts.
Fails(c) ==
    /\ c.step # "arrived"
    /\ calls' = calls \ {c}
    /\ \E e \in {"retry", "final"} :
          screen' = IF c.waits # "page" THEN screen
                    ELSE [screen EXCEPT !.error = e, !.replaying = FALSE, !.machine = Failed(@)]
    /\ UNCHANGED <<confirmed, url, pack, storage, marks, arrived>>

Next ==
    \/ Confirm \/ Tap \/ Activate \/ Skip \/ Back \/ Return \/ Reload
    \/ \E c \in calls : ServerOpens(c) \/ Arrive(c) \/ Show(c) \/ Fails(c)

Spec == Init /\ [][Next]_kvars

-----------------------------------------------------------------------------

\* A member is charged for no pack that was not confirmed in the dialog, however often the tap
\* is repeated: a retry buys nothing (lib/query/packs.ts, useOpenPack).
OnePackPerConfirmation == \A id \in Ids : pack[id] # NoPack => id <= confirmed

\* What is revealed is the pack of the openId in the URL, and the request that brought it
\* was marked if storage can be used.
RevealedIsOpened ==
    url # 0 /\ View \in {"reveal", "summary"} =>
        screen.result = pack[url] /\ pack[url] # NoPack /\ (storage => url \in marks)

\* A visit that begins after the answer arrived replays it and does not offer the tap again,
\* unless storage is refused or the replay failed.
ReturnsReplay == storage /\ url # 0 /\ screen.late /\ View = "sealed" => screen.error # "none"
=============================================================================
