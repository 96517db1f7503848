----------------------------- MODULE Web_proofs -----------------------------
(***************************************************************************)
(* Theorems about the web client's pages, for any contents and number of   *)
(* requests: the pack reveal (PackReveal), the dialogs over a member's     *)
(* rows (RowDialogs), the deck builder (DeckBuilder), the lists read a     *)
(* page at a time (Paging), one trade's page (TradePage), the lists behind *)
(* a search field (SearchList), the administrators' list of accounts       *)
(* (AdminUserList) and the trade composer (TradeComposer).  They are       *)
(* independent of each other.                                              *)
(***************************************************************************)
EXTENDS Integers, Sequences, FiniteSetTheorems, SumTheorems, TLAPS

-----------------------------------------------------------------------------
(* The pack reveal.                                                        *)

CONSTANTS Packs, PackSize, MaxOpens, MaxRequests
VARIABLES confirmed, url, screen, opens, opened, storage, marks, arrived

Reveal == INSTANCE PackReveal WITH
    Contents <- Packs, MaxCalls <- MaxRequests, calls <- opens, pack <- opened

PacksAreSensible ==
    /\ PackSize \in Nat \ {0} /\ MaxOpens \in Nat
    /\ Reveal!NoPack \notin Packs

Machine == [stage : {"sealed", "opening", "reveal", "summary"},
            total : 0 .. PackSize, index : 0 .. PackSize - 1]
Screen == [machine : Machine, result : Packs \cup {Reveal!NoPack},
           error : {"none", "retry", "final"}, replaying : BOOLEAN, flipped : BOOLEAN,
           late : BOOLEAN]

RevealShape == Reveal!TypeOK /\ screen \in Screen

\* Whoever a request is for, its openId was confirmed; an answer is the pack of
\* its openId, and one that has arrived is marked where that can be done; and
\* the page waits for its own openId alone.
RequestIsTrue(c) ==
    /\ c.id <= confirmed
    /\ c.waits = "page" => c.id = url
    /\ c.step # "sent" => c.answer = opened[c.id] /\ opened[c.id] # Reveal!NoPack
    /\ c.step = "arrived" => c.id \in arrived

\* What is on the table is the pack of the URL, behind the spinner too.
TableIsTrue ==
    screen.machine.stage \in {"reveal", "summary"} =>
        url # 0 /\ screen.result = opened[url] /\ opened[url] # Reveal!NoPack /\ url \in arrived

\* A visit that began late is on its way to a replay, or was told of a failure.
LateVisitReplays ==
    storage /\ screen.late /\ screen.machine.stage = "sealed" => screen.error # "none"

RevealInv ==
    /\ \A c \in opens : RequestIsTrue(c)
    /\ TableIsTrue
    /\ storage => marks = arrived
    /\ LateVisitReplays
    /\ Reveal!OnePackPerConfirmation

LEMMA RevealAtFirst ==
    ASSUME PacksAreSensible, Reveal!Init
    PROVE  RevealShape /\ RevealInv
  BY DEF PacksAreSensible, Reveal!Init, Reveal!TypeOK, RevealShape, RevealInv, Screen, Machine,
         Reveal!Fresh, Reveal!Sealed, Reveal!Ids, Reveal!OnePackPerConfirmation, TableIsTrue,
         LateVisitReplays

-----------------------------------------------------------------------------
(* The machine accepts an event in one stage and keeps its bounds.         *)

LEMMA MachineMoves ==
    ASSUME PacksAreSensible, NEW s \in Machine
    PROVE  /\ Reveal!Opens(s) \in Machine /\ Reveal!Opened(s) \in Machine
           /\ Reveal!Failed(s) \in Machine /\ Reveal!Skipped(s) \in Machine
           /\ Reveal!NextCard(s) \in Machine
           /\ Reveal!Opens(s).stage = IF s.stage = "sealed" THEN "opening" ELSE s.stage
           /\ Reveal!Opened(s).stage = IF s.stage = "opening" THEN "reveal" ELSE s.stage
           /\ Reveal!Failed(s).stage = IF s.stage = "opening" THEN "sealed" ELSE s.stage
           /\ Reveal!Skipped(s).stage = IF s.stage = "reveal" THEN "summary" ELSE s.stage
           /\ Reveal!NextCard(s).stage \in IF s.stage = "reveal" THEN {"reveal", "summary"}
                                           ELSE {s.stage}
<1>1. s = [stage |-> s.stage, total |-> s.total, index |-> s.index]
      /\ s.stage \in {"sealed", "opening", "reveal", "summary"}
      /\ s.total \in 0 .. PackSize /\ s.index \in 0 .. PackSize - 1
  BY DEF Machine
<1>2. Reveal!Sealed \in Machine /\ Reveal!Sealed.stage = "sealed"
  BY DEF PacksAreSensible, Machine, Reveal!Sealed
<1>3. /\ Reveal!Opens(s) \in Machine
      /\ Reveal!Opens(s).stage = IF s.stage = "sealed" THEN "opening" ELSE s.stage
  BY <1>1, <1>2 DEF Reveal!Opens, Reveal!On, Reveal!Sealed, Machine
<1>4. /\ Reveal!Opened(s) \in Machine
      /\ Reveal!Opened(s).stage = IF s.stage = "opening" THEN "reveal" ELSE s.stage
  <2>1. PackSize \in 0 .. PackSize
    BY DEF PacksAreSensible
  <2>2. /\ [Reveal!Sealed EXCEPT !.stage = "reveal", !.total = PackSize] \in Machine
        /\ [Reveal!Sealed EXCEPT !.stage = "reveal", !.total = PackSize].stage = "reveal"
    BY <1>2, <2>1 DEF Machine
  <2> QED
    BY <1>1, <2>2 DEF Reveal!Opened, Reveal!On
<1>5. /\ Reveal!Failed(s) \in Machine
      /\ Reveal!Failed(s).stage = IF s.stage = "opening" THEN "sealed" ELSE s.stage
  BY <1>1, <1>2 DEF Reveal!Failed, Reveal!On
<1>6. /\ Reveal!Skipped(s) \in Machine
      /\ Reveal!Skipped(s).stage = IF s.stage = "reveal" THEN "summary" ELSE s.stage
  BY <1>1 DEF Reveal!Skipped, Reveal!On, Machine
<1>7. /\ Reveal!NextCard(s) \in Machine
      /\ Reveal!NextCard(s).stage \in IF s.stage = "reveal" THEN {"reveal", "summary"} ELSE {s.stage}
  <2>1. CASE s.stage # "reveal"
    BY <2>1 DEF Reveal!NextCard, Reveal!On
  <2>2. CASE s.stage = "reveal" /\ s.index + 1 < s.total
    <3>1. Reveal!NextCard(s) = [s EXCEPT !.index = s.index + 1]
      BY <2>2 DEF Reveal!NextCard, Reveal!On
    <3>2. s.index + 1 \in 0 .. PackSize - 1
      BY <1>1, <2>2 DEF PacksAreSensible
    <3> QED
      BY <1>1, <2>2, <3>1, <3>2 DEF Machine
  <2>3. CASE s.stage = "reveal" /\ ~(s.index + 1 < s.total)
    BY <1>1, <2>3 DEF Reveal!NextCard, Reveal!On, Machine
  <2> QED
    BY <2>1, <2>2, <2>3
<1> QED
  BY <1>3, <1>4, <1>5, <1>6, <1>7

\* A page that starts a request is sealed no longer.
LEMMA StartedScreen ==
    ASSUME PacksAreSensible, NEW s \in Screen, NEW replay \in BOOLEAN
    PROVE  LET t == Reveal!Started(s, replay) IN
           /\ t \in Screen /\ t.machine = Reveal!Opens(s.machine) /\ t.result = s.result
           /\ t.late = s.late /\ t.error = "none" /\ t.replaying = replay
<1>1. s.machine \in Machine /\ Reveal!Opens(s.machine) \in Machine
  BY MachineMoves DEF Screen
<1>2. Reveal!Started(s, replay) =
         [s EXCEPT !.error = "none", !.replaying = replay, !.machine = Reveal!Opens(s.machine)]
  BY DEF Reveal!Started
<1> QED
  BY <1>1, <1>2 DEF Screen

LEMMA FreshScreen ==
    ASSUME PacksAreSensible
    PROVE  /\ Reveal!Fresh \in Screen /\ Reveal!Fresh.machine.stage = "sealed"
           /\ Reveal!Fresh.late = FALSE /\ Reveal!Fresh.error = "none"
  BY DEF PacksAreSensible, Reveal!Fresh, Reveal!Sealed, Screen, Machine

\* Requests that nobody on the page waits for any longer.
LEMMA AbandonedRequests ==
    ASSUME opens \subseteq Reveal!Call
    PROVE  /\ Reveal!Abandoned \subseteq Reveal!Call
           /\ \A c \in Reveal!Abandoned :
                 /\ c.waits # "page"
                 /\ \E d \in opens : c.id = d.id /\ c.step = d.step /\ c.answer = d.answer
  BY DEF Reveal!Abandoned, Reveal!Call

-----------------------------------------------------------------------------
(* The member's steps.                                                     *)

LEMMA ConfirmKeepsReveal ==
    ASSUME PacksAreSensible, RevealShape, RevealInv, Reveal!Confirm
    PROVE  RevealShape' /\ RevealInv'
<1>1. /\ confirmed < MaxOpens /\ confirmed' = confirmed + 1 /\ url' = confirmed'
      /\ screen' = Reveal!Fresh /\ opens' = Reveal!Abandoned
      /\ UNCHANGED <<opened, storage, marks, arrived>>
  BY DEF Reveal!Confirm, Reveal!ConfirmOnto
<1>2. opens' \subseteq Reveal!Call
      /\ \A c \in opens' : /\ c.waits # "page"
                           /\ \E d \in opens : c.id = d.id /\ c.step = d.step /\ c.answer = d.answer
  BY <1>1, AbandonedRequests DEF RevealShape, Reveal!TypeOK
<1>3. confirmed \in Nat /\ confirmed' \in 0 .. MaxOpens /\ \A c \in Reveal!Call : c.id \in Nat
  BY <1>1 DEF RevealShape, Reveal!TypeOK, PacksAreSensible, Reveal!Call, Reveal!Ids
<1>4. \A c \in opens' : RequestIsTrue(c)'
  BY <1>1, <1>2, <1>3 DEF RevealInv, RequestIsTrue, RevealShape, Reveal!TypeOK
<1>5. Reveal!OnePackPerConfirmation'
  BY <1>1, <1>3 DEF RevealInv, Reveal!OnePackPerConfirmation, Reveal!Ids
<1>6. RevealShape'
  BY <1>1, <1>2, <1>3, FreshScreen DEF RevealShape, Reveal!TypeOK, Screen, Machine
<1> QED
  BY <1>1, <1>4, <1>5, <1>6, FreshScreen DEF RevealInv, TableIsTrue, LateVisitReplays

\* A request for the openId of the page.
LEMMA SentRequest ==
    ASSUME PacksAreSensible, RevealShape, NEW id \in 1 .. confirmed, NEW replay \in BOOLEAN
    PROVE  /\ Reveal!Sent(id, replay) \in Reveal!Call
           /\ Reveal!Sent(id, replay).id = id /\ Reveal!Sent(id, replay).step = "sent"
<1>1. id \in Reveal!Ids /\ id <= confirmed
  BY DEF RevealShape, Reveal!TypeOK, Reveal!Ids, PacksAreSensible
<1> QED
  BY <1>1 DEF Reveal!Sent, Reveal!Call

LEMMA TapKeepsReveal ==
    ASSUME PacksAreSensible, RevealShape, RevealInv, Reveal!Tap
    PROVE  RevealShape' /\ RevealInv'
<1> DEFINE replay == url \in marks
<1>1. /\ url # 0 /\ screen.machine.stage = "sealed"
      /\ screen' = Reveal!Started(screen, replay)
      /\ opens' = opens \cup {Reveal!Sent(url, replay)}
      /\ UNCHANGED <<confirmed, url, opened, storage, marks, arrived>>
  BY DEF Reveal!Tap, Reveal!TapFor, Reveal!CanTap, Reveal!View
<1>2. replay \in BOOLEAN /\ url \in 1 .. confirmed
  BY <1>1 DEF RevealShape, Reveal!TypeOK
<1> HIDE DEF replay
<1>3. /\ screen' \in Screen /\ screen'.machine = Reveal!Opens(screen.machine)
  BY <1>1, <1>2, StartedScreen DEF RevealShape
<1>4. screen'.machine \in Machine /\ screen'.machine.stage = "opening"
  <2>1. screen.machine \in Machine
    BY DEF RevealShape, Screen
  <2> QED
    BY <1>1, <1>3, <2>1, MachineMoves
<1>5. /\ Reveal!Sent(url, replay) \in Reveal!Call
      /\ Reveal!Sent(url, replay).id = url /\ Reveal!Sent(url, replay).step = "sent"
  BY <1>2, SentRequest
<1>6. ASSUME NEW c \in opens', c = Reveal!Sent(url, replay) PROVE RequestIsTrue(c)'
  BY <1>1, <1>2, <1>5, <1>6 DEF RequestIsTrue
<1>7. ASSUME NEW c \in opens PROVE RequestIsTrue(c)'
  BY <1>1 DEF RevealInv, RequestIsTrue
<1>8. RevealShape'
  BY <1>1, <1>3, <1>4, <1>5 DEF RevealShape, Reveal!TypeOK, Screen, Machine
<1> QED
  BY <1>1, <1>4, <1>6, <1>7, <1>8
     DEF RevealInv, TableIsTrue, LateVisitReplays, Reveal!OnePackPerConfirmation

\* Cards are turned, or skipped: the table stays the table.
LEMMA TableMoves ==
    ASSUME PacksAreSensible, RevealShape, RevealInv, url # 0, screen.machine.stage = "reveal",
           NEW m \in Machine, m.stage \in {"reveal", "summary"}, NEW up \in BOOLEAN,
           screen' = [screen EXCEPT !.flipped = up, !.machine = m],
           UNCHANGED <<confirmed, url, opens, opened, storage, marks, arrived>>
    PROVE  RevealShape' /\ RevealInv'
<1>1. /\ screen' \in Screen /\ screen'.machine = m /\ screen'.result = screen.result
  BY DEF RevealShape, Screen
<1>2. RevealShape'
  BY <1>1 DEF RevealShape, Reveal!TypeOK, Screen, Machine
<1>3. \A c \in opens' : RequestIsTrue(c)'
  BY DEF RevealInv, RequestIsTrue
<1> QED
  BY <1>1, <1>2, <1>3 DEF RevealInv, TableIsTrue, LateVisitReplays, Reveal!OnePackPerConfirmation

LEMMA CardsKeepReveal ==
    ASSUME PacksAreSensible, RevealShape, RevealInv, Reveal!Activate \/ Reveal!Skip
    PROVE  RevealShape' /\ RevealInv'
<1>1. screen.machine.stage = "reveal" /\ url # 0
      /\ UNCHANGED <<confirmed, url, opens, opened, storage, marks, arrived>>
  BY DEF Reveal!Activate, Reveal!Skip, Reveal!View
<1>2. /\ screen.machine \in Machine /\ screen.flipped \in BOOLEAN
      /\ \A m : [screen EXCEPT !.machine = m]
                   = [screen EXCEPT !.flipped = screen.flipped, !.machine = m]
      /\ [screen EXCEPT !.flipped = TRUE]
            = [screen EXCEPT !.flipped = TRUE, !.machine = screen.machine]
  BY DEF RevealShape, Screen
<1>3. /\ Reveal!Skipped(screen.machine) \in Machine
      /\ Reveal!Skipped(screen.machine).stage = "summary"
      /\ Reveal!NextCard(screen.machine) \in Machine
      /\ Reveal!NextCard(screen.machine).stage \in {"reveal", "summary"}
  BY <1>1, <1>2, MachineMoves
<1>4. \/ screen' = [screen EXCEPT !.flipped = TRUE]
      \/ screen' = [screen EXCEPT !.flipped = FALSE, !.machine = Reveal!NextCard(screen.machine)]
      \/ screen' = [screen EXCEPT !.machine = Reveal!Skipped(screen.machine)]
  BY DEF Reveal!Activate, Reveal!Skip
<1> QED
  BY <1>1, <1>2, <1>3, <1>4, TableMoves

LEMMA BackKeepsReveal ==
    ASSUME PacksAreSensible, RevealShape, RevealInv, Reveal!Back
    PROVE  RevealShape' /\ RevealInv'
<1>1. /\ url' = 0 /\ screen' = Reveal!Fresh /\ opens' = Reveal!Abandoned
      /\ UNCHANGED <<confirmed, opened, storage, marks, arrived>>
  BY DEF Reveal!Back
<1>2. opens' \subseteq Reveal!Call
      /\ \A c \in opens' : /\ c.waits # "page"
                           /\ \E d \in opens : c.id = d.id /\ c.step = d.step /\ c.answer = d.answer
  BY <1>1, AbandonedRequests DEF RevealShape, Reveal!TypeOK
<1>3. \A c \in opens' : RequestIsTrue(c)'
  BY <1>1, <1>2 DEF RevealInv, RequestIsTrue
<1>4. RevealShape'
  BY <1>1, <1>2, FreshScreen DEF RevealShape, Reveal!TypeOK, Screen, Machine
<1> QED
  BY <1>1, <1>3, <1>4, FreshScreen
     DEF RevealInv, TableIsTrue, LateVisitReplays, Reveal!OnePackPerConfirmation

\* The page of an openId is shown anew, and replays what has been marked.
LEMMA MountKeepsReveal ==
    ASSUME PacksAreSensible, RevealShape, RevealInv,
           NEW id \in 1 .. confirmed, NEW others \in SUBSET Reveal!Call,
           url' = id, Reveal!Mount(id, others),
           UNCHANGED <<confirmed, opened, storage, marks, arrived>>,
           \A c \in others : RequestIsTrue(c)'
    PROVE  RevealShape' /\ RevealInv'
<1> DEFINE late == id \in arrived
           first == [Reveal!Fresh EXCEPT !.late = late]
<1>0. late \in BOOLEAN
  OBVIOUS
<1> HIDE DEF late
<1>1. /\ first \in Screen /\ first.machine.stage = "sealed" /\ first.error = "none"
      /\ first.late = late /\ first.machine \in Machine
  BY <1>0, FreshScreen DEF Screen
<1>2. /\ screen' = IF id \in marks THEN Reveal!Started(first, TRUE) ELSE first
      /\ opens' = others \cup IF id \in marks THEN {Reveal!Sent(id, TRUE)} ELSE {}
  BY DEF Reveal!Mount, late
<1> HIDE DEF first
<1>3. /\ Reveal!Sent(id, TRUE) \in Reveal!Call
      /\ Reveal!Sent(id, TRUE).id = id /\ Reveal!Sent(id, TRUE).step = "sent"
  BY SentRequest
<1>4. ASSUME NEW c, c = Reveal!Sent(id, TRUE) PROVE RequestIsTrue(c)'
  <2>1. c.id = id /\ c.step = "sent"
    BY <1>3, <1>4
  <2>2. id = url' /\ id <= confirmed'
    OBVIOUS
  <2> QED
    BY <2>1, <2>2 DEF RequestIsTrue
<1>5. \A c \in opens' : RequestIsTrue(c)'
  BY <1>2, <1>4
<1>6. CASE id \in marks
  <2>1. /\ screen' \in Screen /\ screen'.machine = Reveal!Opens(first.machine)
    BY <1>1, <1>2, <1>6, StartedScreen
  <2>2. /\ Reveal!Opens(first.machine) \in Machine
        /\ Reveal!Opens(first.machine).stage = "opening"
    BY <1>1, MachineMoves
  <2>3. screen'.machine \in Machine /\ screen'.machine.stage = "opening"
    BY <2>1, <2>2
  <2>4. opens' \subseteq Reveal!Call /\ url' \in 0 .. confirmed'
    <3>1. opens' = others \cup {Reveal!Sent(id, TRUE)}
      BY <1>2, <1>6
    <3>2. url' \in 0 .. confirmed'
      OBVIOUS
    <3> QED
      BY <1>3, <3>1, <3>2
  <2>5. RevealShape'
    BY <2>1, <2>4 DEF RevealShape, Reveal!TypeOK, Screen, Machine
  <2> QED
    BY <1>5, <2>3, <2>5 DEF RevealInv, TableIsTrue, LateVisitReplays, Reveal!OnePackPerConfirmation
<1>7. CASE id \notin marks
  <2>1. storage => ~first.late
    BY <1>1, <1>7 DEF RevealInv, late
  <2>2. RevealShape'
    BY <1>1, <1>2, <1>7 DEF RevealShape, Reveal!TypeOK, Screen, Machine
  <2> QED
    BY <1>1, <1>2, <1>5, <1>7, <2>1, <2>2
       DEF RevealInv, TableIsTrue, LateVisitReplays, Reveal!OnePackPerConfirmation
<1> QED
  BY <1>6, <1>7

LEMMA ReturnKeepsReveal ==
    ASSUME PacksAreSensible, RevealShape, RevealInv, Reveal!Return
    PROVE  RevealShape' /\ RevealInv'
<1>1. /\ url = 0 /\ UNCHANGED <<confirmed, opened, storage, marks, arrived>>
  BY DEF Reveal!Return
<1>2. PICK id \in 1 .. confirmed : url' = id /\ Reveal!Mount(id, opens)
  BY DEF Reveal!Return
<1>3. opens \in SUBSET Reveal!Call
  BY DEF RevealShape, Reveal!TypeOK
<1>4. ASSUME NEW c \in opens PROVE RequestIsTrue(c)'
  <2>1. c.waits # "page"
    BY <1>1, <1>3 DEF RevealInv, RequestIsTrue, Reveal!Call, Reveal!Ids
  <2> QED
    BY <1>1, <2>1 DEF RevealInv, RequestIsTrue
<1> QED
  BY <1>1, <1>2, <1>3, <1>4, MountKeepsReveal

LEMMA ReloadKeepsReveal ==
    ASSUME PacksAreSensible, RevealShape, RevealInv, Reveal!Reload
    PROVE  RevealShape' /\ RevealInv'
<1> DEFINE others == {[c EXCEPT !.waits = "nobody"] : c \in {d \in opens : d.step = "sent"}}
<1>1. /\ url # 0 /\ Reveal!Mount(url, others)
      /\ UNCHANGED <<confirmed, url, opened, storage, marks, arrived>>
  BY DEF Reveal!Reload
<1>2. url \in 1 .. confirmed /\ opens \subseteq Reveal!Call
  BY <1>1 DEF RevealShape, Reveal!TypeOK
<1>3. /\ others \in SUBSET Reveal!Call
      /\ \A c \in others : /\ c.waits = "nobody" /\ c.step = "sent"
                           /\ \E d \in opens : c.id = d.id
  BY <1>2 DEF Reveal!Call
<1> HIDE DEF others
<1>4. \A c \in others : RequestIsTrue(c)'
  BY <1>1, <1>3 DEF RevealInv, RequestIsTrue
<1> QED
  BY <1>1, <1>2, <1>3, <1>4, MountKeepsReveal

-----------------------------------------------------------------------------
(* The request's steps.                                                    *)

\* Of the requests, one has changed or ended.
LEMMA ServerOpensKeepsReveal ==
    ASSUME PacksAreSensible, RevealShape, RevealInv, NEW c \in opens, Reveal!ServerOpens(c)
    PROVE  RevealShape' /\ RevealInv'
<1>1. c.step = "sent" /\ UNCHANGED <<confirmed, url, screen, storage, marks, arrived>>
  BY DEF Reveal!ServerOpens
<1>2. PICK p \in (IF opened[c.id] = Reveal!NoPack THEN Packs ELSE {opened[c.id]}) :
         /\ opened' = [opened EXCEPT ![c.id] = p]
         /\ opens' = (opens \ {c})
                        \cup Reveal!Awaited([c EXCEPT !.step = "answered", !.answer = p])
  BY DEF Reveal!ServerOpens
<1> DEFINE e == [c EXCEPT !.step = "answered", !.answer = p]
<1>3. /\ c \in Reveal!Call /\ c.id \in Reveal!Ids
      /\ opened \in [Reveal!Ids -> Packs \cup {Reveal!NoPack}] /\ opens \subseteq Reveal!Call
  BY DEF RevealShape, Reveal!TypeOK, Reveal!Call
<1>4. p \in Packs
  BY <1>2, <1>3
<1>5. /\ e \in Reveal!Call /\ e.id = c.id /\ e.waits = c.waits /\ e.step = "answered" /\ e.answer = p
  BY <1>3, <1>4 DEF Reveal!Call
<1>6. opens' \subseteq (opens \ {c}) \cup {e}
  BY <1>2 DEF Reveal!Awaited
<1> HIDE DEF e
<1>7. /\ opened' \in [Reveal!Ids -> Packs \cup {Reveal!NoPack}] /\ opened'[c.id] = p
      /\ \A id \in Reveal!Ids : opened[id] # Reveal!NoPack => opened'[id] = opened[id]
      /\ \A id \in Reveal!Ids \ {c.id} : opened'[id] = opened[id]
      /\ p # Reveal!NoPack
  BY <1>2, <1>3, <1>4 DEF PacksAreSensible
<1>8. RequestIsTrue(c) /\ \A d \in opens : RequestIsTrue(d) /\ d.id \in Reveal!Ids
  BY <1>3 DEF RevealInv, Reveal!Call
<1>9. RequestIsTrue(e)'
  BY <1>1, <1>5, <1>7, <1>8 DEF RequestIsTrue
<1>10. ASSUME NEW d \in opens PROVE RequestIsTrue(d)'
  BY <1>1, <1>7, <1>8 DEF RequestIsTrue
<1>11. Reveal!OnePackPerConfirmation'
  BY <1>1, <1>7, <1>8 DEF RevealInv, Reveal!OnePackPerConfirmation, RequestIsTrue
<1>12. RevealShape'
  BY <1>1, <1>3, <1>5, <1>6, <1>7 DEF RevealShape, Reveal!TypeOK, Screen, Machine
<1>13. TableIsTrue'
  <2>1. url # 0 => url \in Reveal!Ids
    BY DEF RevealShape, Reveal!TypeOK, Reveal!Ids, PacksAreSensible
  <2> QED
    BY <1>1, <1>7, <2>1 DEF RevealInv, TableIsTrue
<1>14. \A d \in opens' : RequestIsTrue(d)'
  <2>1. ASSUME NEW d, d = e PROVE RequestIsTrue(d)'
    BY <1>1, <1>5, <1>7, <1>8, <2>1 DEF RequestIsTrue
  <2> QED
    BY <1>6, <1>10, <2>1
<1> QED
  BY <1>1, <1>11, <1>12, <1>13, <1>14 DEF RevealInv, LateVisitReplays

LEMMA ArriveKeepsReveal ==
    ASSUME PacksAreSensible, RevealShape, RevealInv, NEW c \in opens, Reveal!Arrive(c)
    PROVE  RevealShape' /\ RevealInv'
<1> DEFINE e == [c EXCEPT !.step = "arrived"]
<1>1. /\ c.step = "answered" /\ opens' = (opens \ {c}) \cup {e}
      /\ arrived' = arrived \cup {c.id} /\ marks' = IF storage THEN marks \cup {c.id} ELSE marks
      /\ UNCHANGED <<confirmed, url, screen, opened, storage>>
  BY DEF Reveal!Arrive, Reveal!Arrives
<1>2. /\ c \in Reveal!Call /\ c.id \in Reveal!Ids /\ opens \subseteq Reveal!Call
  BY DEF RevealShape, Reveal!TypeOK, Reveal!Call
<1>3. /\ e \in Reveal!Call /\ e.id = c.id /\ e.waits = c.waits /\ e.step = "arrived"
      /\ e.answer = c.answer
  BY <1>2 DEF Reveal!Call
<1> HIDE DEF e
<1>4. RequestIsTrue(c) /\ opened[c.id] # Reveal!NoPack
  BY <1>1 DEF RevealInv, RequestIsTrue
<1>5. ASSUME NEW d \in opens' PROVE RequestIsTrue(d)'
  <2>1. CASE d = e
    BY <1>1, <1>3, <1>4, <2>1 DEF RequestIsTrue
  <2>2. CASE d \in opens
    BY <1>1, <2>2 DEF RevealInv, RequestIsTrue
  <2> QED
    BY <1>1, <2>1, <2>2
<1>6. RevealShape'
  BY <1>1, <1>2, <1>3, <1>4 DEF RevealShape, Reveal!TypeOK, Screen, Machine
<1> QED
  BY <1>1, <1>5, <1>6
     DEF RevealInv, TableIsTrue, LateVisitReplays, Reveal!OnePackPerConfirmation

\* The page gets what it waited for, or the others' answers pass it by.
LEMMA ScreenIsTold ==
    ASSUME PacksAreSensible, RevealShape, RevealInv, NEW c \in opens,
           opens' = opens \ {c}, screen' \in Screen, TableIsTrue', LateVisitReplays',
           UNCHANGED <<confirmed, url, opened, storage, marks, arrived>>
    PROVE  RevealShape' /\ RevealInv'
<1>1. RevealShape'
  BY DEF RevealShape, Reveal!TypeOK, Screen, Machine
<1>2. \A d \in opens' : RequestIsTrue(d)'
  BY DEF RevealInv, RequestIsTrue
<1> QED
  BY <1>1, <1>2 DEF RevealInv, Reveal!OnePackPerConfirmation

LEMMA ShowKeepsReveal ==
    ASSUME PacksAreSensible, RevealShape, RevealInv, NEW c \in opens, Reveal!Show(c)
    PROVE  RevealShape' /\ RevealInv'
<1>1. /\ c.step = "arrived" /\ opens' = opens \ {c}
      /\ UNCHANGED <<confirmed, url, opened, storage, marks, arrived>>
  BY DEF Reveal!Show
<1>2. CASE c.waits # "page"
  <2>1. screen' = screen
    BY <1>2 DEF Reveal!Show
  <2> QED
    BY <1>1, <2>1, ScreenIsTold DEF RevealShape, RevealInv, TableIsTrue, LateVisitReplays
<1>3. CASE c.waits = "page"
  <2> DEFINE m == Reveal!Opened(screen.machine)
             n == IF c.replay THEN Reveal!Skipped(m) ELSE m
  <2>1. screen' = [screen EXCEPT !.result = c.answer, !.replaying = FALSE, !.machine = n]
    BY <1>3 DEF Reveal!Show
  <2>2. screen.machine \in Machine /\ screen \in Screen
    BY DEF RevealShape, Screen
  <2>3. m \in Machine
    BY <2>2, MachineMoves
  <2>4. n \in Machine /\ (n.stage = "sealed" <=> screen.machine.stage = "sealed")
    BY <2>2, <2>3, MachineMoves
  <2> HIDE DEF m, n
  <2>5. /\ c.id = url /\ c.answer = opened[url] /\ opened[url] # Reveal!NoPack /\ url \in arrived
        /\ url # 0 /\ c.answer \in Packs \cup {Reveal!NoPack}
    BY <1>1, <1>3 DEF RevealInv, RequestIsTrue, RevealShape, Reveal!TypeOK, Reveal!Call, Reveal!Ids
  <2>6. /\ screen' \in Screen /\ screen'.machine = n /\ screen'.result = opened[url]
        /\ screen'.late = screen.late /\ screen'.error = screen.error
    BY <2>1, <2>2, <2>4, <2>5 DEF Screen
  <2>7. TableIsTrue' /\ LateVisitReplays'
    BY <1>1, <2>4, <2>5, <2>6 DEF RevealInv, TableIsTrue, LateVisitReplays
  <2> QED
    BY <1>1, <2>6, <2>7, ScreenIsTold
<1> QED
  BY <1>2, <1>3

LEMMA FailsKeepsReveal ==
    ASSUME PacksAreSensible, RevealShape, RevealInv, NEW c \in opens, Reveal!Fails(c)
    PROVE  RevealShape' /\ RevealInv'
<1>1. opens' = opens \ {c} /\ UNCHANGED <<confirmed, url, opened, storage, marks, arrived>>
  BY DEF Reveal!Fails
<1>2. CASE screen' = screen
  BY <1>1, <1>2, ScreenIsTold DEF RevealShape, RevealInv, TableIsTrue, LateVisitReplays
<1>3. ASSUME NEW e \in {"retry", "final"},
             screen' = [screen EXCEPT !.error = e, !.replaying = FALSE,
                                      !.machine = Reveal!Failed(screen.machine)]
      PROVE  RevealShape' /\ RevealInv'
  <2>1. screen.machine \in Machine /\ screen \in Screen
    BY DEF RevealShape, Screen
  <2>2. /\ Reveal!Failed(screen.machine) \in Machine
        /\ Reveal!Failed(screen.machine).stage \in {"reveal", "summary"} =>
              screen.machine.stage \in {"reveal", "summary"}
    BY <2>1, MachineMoves
  <2>3. /\ screen' \in Screen /\ screen'.machine = Reveal!Failed(screen.machine)
        /\ screen'.result = screen.result /\ screen'.error = e /\ e # "none"
    BY <1>3, <2>1, <2>2 DEF Screen
  <2>4. TableIsTrue' /\ LateVisitReplays'
    BY <1>1, <2>2, <2>3 DEF RevealInv, TableIsTrue, LateVisitReplays
  <2> QED
    BY <1>1, <2>3, <2>4, ScreenIsTold
<1> QED
  BY <1>2, <1>3 DEF Reveal!Fails

LEMMA RevealStays ==
    ASSUME PacksAreSensible, RevealShape, RevealInv, [Reveal!Next]_(Reveal!kvars)
    PROVE  RevealShape' /\ RevealInv'
<1>1. CASE UNCHANGED Reveal!kvars
  BY <1>1 DEF Reveal!kvars, RevealShape, Reveal!TypeOK, Screen, Machine, RevealInv, RequestIsTrue,
              TableIsTrue, LateVisitReplays, Reveal!OnePackPerConfirmation
<1>2. CASE Reveal!Next
  BY <1>2, ConfirmKeepsReveal, TapKeepsReveal, CardsKeepReveal, BackKeepsReveal, ReturnKeepsReveal,
     ReloadKeepsReveal, ServerOpensKeepsReveal, ArriveKeepsReveal, ShowKeepsReveal, FailsKeepsReveal
     DEF Reveal!Next
<1> QED
  BY <1>1, <1>2

\* However often the pack is tapped, left, reloaded and returned to, with requests and answers in
\* any order: one confirmation opens one pack, what is revealed is the pack of the URL, and a
\* visit that begins after the answer arrived replays it.
THEOREM RevealsAreHonest ==
    ASSUME PacksAreSensible
    PROVE  Reveal!Spec => [](/\ Reveal!TypeOK
                             /\ Reveal!OnePackPerConfirmation
                             /\ Reveal!RevealedIsOpened
                             /\ Reveal!ReturnsReplay)
<1>1. Reveal!Init => RevealShape /\ RevealInv
  BY RevealAtFirst
<1>2. RevealShape /\ RevealInv /\ [Reveal!Next]_(Reveal!kvars) => (RevealShape /\ RevealInv)'
  BY RevealStays
<1>3. RevealShape /\ RevealInv => /\ Reveal!TypeOK /\ Reveal!OnePackPerConfirmation
                                  /\ Reveal!RevealedIsOpened /\ Reveal!ReturnsReplay
  BY DEF RevealShape, RevealInv, TableIsTrue, LateVisitReplays, Reveal!RevealedIsOpened,
         Reveal!ReturnsReplay, Reveal!View
<1> QED
  BY <1>1, <1>2, <1>3, PTL DEF Reveal!Spec

-----------------------------------------------------------------------------
(* The dialogs over a member's rows.                                       *)

CONSTANTS Rows, Tabs, Shows, Answers, Becomes, Makes, MaxCalls, MaxOthers, Nothing
VARIABLES items, tab, lists, fetches, dialogue, acting, posted, outside, toldIn

Dialogs == INSTANCE RowDialogs WITH
    server <- items, fetch <- fetches, dialog <- dialogue, calls <- acting, sent <- posted,
    others <- outside, told <- toldIn

\* What answers a row ends it, and what makes one is not an answer.
RowsAreSensible ==
    /\ MaxCalls \in Nat /\ MaxOthers \in Nat
    /\ Makes \subseteq {"create", "clone"} /\ Answers \cap {"create", "clone"} = {}
    /\ \A a \in Answers : Becomes[a] \notin {"unborn", "open"}
    /\ Nothing \notin Rows \cup Tabs \cup Answers \cup Makes

Over(r) == items[r] \notin {"unborn", "open"}
\* The fetch under way, if there is one, will not bring the row back as open.
Coming(t, r) == Over(r) /\ (fetches[t].step = "read" => fetches[t].page[r] # "open")
IsOver(t, r) == Coming(t, r) /\ lists[t].page[r] # "open"

\* An answer that the server gave stays given, in the list that is re-read for it too.
AnswerIsGiven(c) ==
    c.action \in Answers =>
        /\ c.row \in Rows
        /\ c.step # "sent" => Over(c.row)
        /\ c.step = "refreshing" => c.tab \in Tabs /\ Coming(c.tab, c.row)
        /\ c.step = "reread" => c.tab \in Tabs /\ IsOver(c.tab, c.row)

QuestionIsWhole ==
    /\ dialogue.action = Nothing => dialogue = Dialogs!NoDialog
    /\ dialogue.action \in Answers => dialogue.row \in Rows

RowInv ==
    /\ QuestionIsWhole
    /\ \A c \in acting : AnswerIsGiven(c)
    /\ \A t \in Tabs : \A r \in toldIn[t] : IsOver(t, r)
    /\ Dialogs!DialogsAwaitTheirAnswers

LEMMA DialogsAtFirst ==
    ASSUME RowsAreSensible, Dialogs!Init
    PROVE  Dialogs!TypeOK /\ RowInv
<1>1. Dialogs!NoRows \in Dialogs!Page
  BY DEF Dialogs!NoRows, Dialogs!Page
<1>2. Dialogs!TypeOK
  BY <1>1 DEF RowsAreSensible, Dialogs!Init, Dialogs!TypeOK, Dialogs!Statuses, Dialogs!NotLoaded,
              Dialogs!NoFetch, Dialogs!NoDialog
<1>3. dialogue = Dialogs!NoDialog /\ acting = {} /\ toldIn = [t \in Tabs |-> {}]
  BY DEF Dialogs!Init
<1>4. QuestionIsWhole
  BY <1>3 DEF RowsAreSensible, QuestionIsWhole, Dialogs!NoDialog
<1> QED
  BY <1>2, <1>3, <1>4 DEF RowInv, Dialogs!DialogsAwaitTheirAnswers

-----------------------------------------------------------------------------
(* The list's steps, of whatever becomes of its rows.                      *)

\* What a step may do to the rows, the fetches and the pages that are shown.
RowsMove == \A r \in Rows : items'[r] = items[r] \/ ~Over(r)
FetchesMove ==
    \A t \in Tabs : \/ fetches'[t] = fetches[t]
                    \/ fetches'[t].step # "read"
                    \/ items' = items /\ \A r \in Rows : fetches'[t].page[r] \in {items[r], "absent"}
ListsMove ==
    \A t \in Tabs : \/ lists'[t].page = lists[t].page
                    \/ fetches[t].step = "read" /\ lists'[t].page = fetches[t].page

LEMMA OverStays ==
    ASSUME RowsMove, FetchesMove, ListsMove, NEW t \in Tabs, NEW r \in Rows
    PROVE  /\ Over(r) => Over(r)'
           /\ Coming(t, r) => Coming(t, r)'
           /\ IsOver(t, r) => IsOver(t, r)'
<1>1. Over(r) => Over(r)'
  BY DEF RowsMove, Over
<1>2. Coming(t, r) => Coming(t, r)'
  BY <1>1 DEF FetchesMove, Coming, Over
<1>3. IsOver(t, r) => IsOver(t, r)'
  BY <1>2 DEF ListsMove, Coming, IsOver
<1> QED
  BY <1>1, <1>2, <1>3

\* A fetch that begins.
LEMMA BegunFetch ==
    ASSUME RowsAreSensible, Dialogs!TypeOK, NEW t \in Tabs
    PROVE  /\ Dialogs!Begun(t) \in [Tabs -> [step : {"none", "sent", "read"}, page : Dialogs!Page]]
           /\ Dialogs!Begun(t)[t].step = "sent"
           /\ \A u \in Tabs \ {t} : Dialogs!Begun(t)[u] = fetches[u]
<1>1. Dialogs!NoRows \in Dialogs!Page
  BY DEF Dialogs!NoRows, Dialogs!Page
<1>2. [Dialogs!NoFetch EXCEPT !.step = "sent"] = [step |-> "sent", page |-> Dialogs!NoRows]
  BY DEF Dialogs!NoFetch
<1> QED
  BY <1>1, <1>2 DEF Dialogs!Begun, Dialogs!TypeOK

\* The dialog, the requests and what was told stay, and so do the invariants.
LEMMA OnlyTheListMoves ==
    ASSUME Dialogs!TypeOK, RowInv, RowsMove, FetchesMove, ListsMove,
           UNCHANGED <<dialogue, acting, toldIn>>
    PROVE  RowInv'
<1>1. \A t \in Tabs : toldIn[t] \subseteq Rows
  BY DEF Dialogs!TypeOK
<1>2. \A t \in Tabs : \A r \in toldIn'[t] : IsOver(t, r)'
  BY <1>1, OverStays DEF RowInv
<1>3. ASSUME NEW c \in acting PROVE AnswerIsGiven(c)'
  <2>1. c.action \in Answers => c.row \in Rows
    BY DEF RowInv, AnswerIsGiven
  <2>2. c.action \in Answers /\ c.step # "sent" => Over(c.row)'
    BY <2>1 DEF RowInv, AnswerIsGiven, RowsMove, Over
  <2> QED
    BY <2>1, <2>2, OverStays DEF RowInv, AnswerIsGiven
<1> QED
  BY <1>2, <1>3 DEF RowInv, QuestionIsWhole, Dialogs!DialogsAwaitTheirAnswers

LEMMA TurningKeepsDialogs ==
    ASSUME RowsAreSensible, Dialogs!TypeOK, RowInv, Dialogs!Turn \/ Dialogs!Focus
    PROVE  Dialogs!TypeOK' /\ RowInv'
<1>1. UNCHANGED <<items, lists, dialogue, acting, posted, outside, toldIn>>
  BY DEF Dialogs!Turn, Dialogs!Focus
<1>2. PICK t \in Tabs : fetches' = Dialogs!Begun(t) \/ fetches' = fetches
  BY DEF Dialogs!Turn, Dialogs!Focus, Dialogs!TypeOK
<1>3. tab' \in Tabs \cup {Nothing}
  BY DEF Dialogs!Turn, Dialogs!Focus, Dialogs!TypeOK
<1>4. Dialogs!TypeOK'
  BY <1>1, <1>2, <1>3, BegunFetch DEF Dialogs!TypeOK
<1>5. RowsMove /\ ListsMove
  BY <1>1 DEF RowsMove, ListsMove
<1>6. FetchesMove
  BY <1>2, BegunFetch DEF FetchesMove
<1> QED
  BY <1>1, <1>4, <1>5, <1>6, OnlyTheListMoves

LEMMA ServerReadsKeepsDialogs ==
    ASSUME RowsAreSensible, Dialogs!TypeOK, RowInv, NEW t \in Tabs, Dialogs!ServerReads(t)
    PROVE  Dialogs!TypeOK' /\ RowInv'
<1> DEFINE page == [r \in Rows |-> IF items[r] \in Shows[t] THEN items[r] ELSE "absent"]
<1>1. /\ fetches' = [fetches EXCEPT ![t] = [step |-> "read", page |-> page]]
      /\ UNCHANGED <<items, tab, lists, dialogue, acting, posted, outside, toldIn>>
  BY DEF Dialogs!ServerReads
<1>2. page \in Dialogs!Page /\ \A r \in Rows : page[r] \in {items[r], "absent"}
  BY DEF Dialogs!TypeOK, Dialogs!Page
<1> HIDE DEF page
<1>3. Dialogs!TypeOK'
  BY <1>1, <1>2 DEF Dialogs!TypeOK
<1>4. RowsMove /\ ListsMove
  BY <1>1 DEF RowsMove, ListsMove
<1>5. FetchesMove
  BY <1>1, <1>2 DEF FetchesMove, Dialogs!TypeOK
<1> QED
  BY <1>1, <1>3, <1>4, <1>5, OnlyTheListMoves

LEMMA OthersKeepDialogs ==
    ASSUME RowsAreSensible, Dialogs!TypeOK, RowInv, Dialogs!OthersAct
    PROVE  Dialogs!TypeOK' /\ RowInv'
<1>1. /\ outside < MaxOthers /\ outside' = outside + 1
      /\ UNCHANGED <<tab, lists, fetches, dialogue, acting, posted, toldIn>>
  BY DEF Dialogs!OthersAct
<1>2. PICK r \in Rows : \/ items[r] = "open" /\ items' = [items EXCEPT ![r] = "closed"]
                        \/ items[r] = "unborn" /\ items' = [items EXCEPT ![r] = "open"]
  BY DEF Dialogs!OthersAct
<1>3. outside' \in 0 .. MaxOthers
  BY <1>1 DEF Dialogs!TypeOK, RowsAreSensible
<1>4. items' \in [Rows -> Dialogs!Statuses]
  BY <1>2 DEF Dialogs!TypeOK, Dialogs!Statuses
<1>5. RowsMove
  BY <1>2 DEF RowsMove, Over, Dialogs!TypeOK
<1>6. FetchesMove /\ ListsMove
  BY <1>1 DEF FetchesMove, ListsMove
<1>7. Dialogs!TypeOK'
  BY <1>1, <1>3, <1>4 DEF Dialogs!TypeOK
<1> QED
  BY <1>1, <1>5, <1>6, <1>7, OnlyTheListMoves

-----------------------------------------------------------------------------
(* The dialogs' steps.                                                     *)

LEMMA GivenStays ==
    ASSUME RowInv, RowsMove, FetchesMove, ListsMove, NEW c \in acting
    PROVE  AnswerIsGiven(c)'
<1>1. AnswerIsGiven(c)
  BY DEF RowInv
<1>2. c.action \in Answers => c.row \in Rows
  BY <1>1 DEF AnswerIsGiven
<1>3. c.action \in Answers /\ c.step # "sent" => Over(c.row)'
  BY <1>1, <1>2 DEF AnswerIsGiven, RowsMove, Over
<1> QED
  BY <1>1, <1>2, <1>3, OverStays DEF AnswerIsGiven

LEMMA ToldStays ==
    ASSUME Dialogs!TypeOK, RowInv, RowsMove, FetchesMove, ListsMove, toldIn' = toldIn
    PROVE  \A t \in Tabs : \A r \in toldIn'[t] : IsOver(t, r)'
<1>1. \A t \in Tabs : toldIn[t] \subseteq Rows
  BY DEF Dialogs!TypeOK
<1> QED
  BY <1>1, OverStays DEF RowInv

\* What is shown and what the server has are as before.
StillList == UNCHANGED <<items, tab, lists, fetches>>

LEMMA StillListMoves ==
    ASSUME UNCHANGED <<items, lists, fetches>>
    PROVE  RowsMove /\ FetchesMove /\ ListsMove
  BY DEF RowsMove, FetchesMove, ListsMove

\* Requests that changed their step alone are awaited by whom they were.
LEMMA SameQuestions ==
    ASSUME Dialogs!DialogsAwaitTheirAnswers, dialogue' = dialogue, NEW F,
           acting' \subseteq {F[c] : c \in acting},
           \A c \in acting : /\ F[c].waits => c.waits
                             /\ F[c].row = c.row /\ F[c].action = c.action
    PROVE  Dialogs!DialogsAwaitTheirAnswers'
  BY DEF Dialogs!DialogsAwaitTheirAnswers

LEMMA LeaveKeepsDialogs ==
    ASSUME RowsAreSensible, Dialogs!TypeOK, RowInv, Dialogs!Leave
    PROVE  Dialogs!TypeOK' /\ RowInv'
<1>1. /\ tab' = Nothing /\ dialogue' = Dialogs!NoDialog
      /\ acting' = {[c EXCEPT !.waits = FALSE] : c \in acting}
      /\ UNCHANGED <<items, lists, fetches, posted, outside, toldIn>>
  BY DEF Dialogs!Leave
<1>2. acting' \subseteq Dialogs!Call
      /\ \A d \in acting' : /\ ~d.waits
                            /\ \E c \in acting : /\ d.row = c.row /\ d.action = c.action
                                                 /\ d.step = c.step /\ d.tab = c.tab
  <2>1. ASSUME NEW c \in acting
        PROVE  LET d == [c EXCEPT !.waits = FALSE] IN
               /\ d \in Dialogs!Call /\ ~d.waits
               /\ d.row = c.row /\ d.action = c.action /\ d.step = c.step /\ d.tab = c.tab
    <3>1. c \in Dialogs!Call
      BY DEF Dialogs!TypeOK
    <3> QED
      BY <3>1 DEF Dialogs!Call
  <2> QED
    BY <1>1, <2>1
<1>3. RowsMove /\ FetchesMove /\ ListsMove
  BY <1>1, StillListMoves
<1>4. ASSUME NEW d \in acting' PROVE AnswerIsGiven(d)'
  <2>1. PICK c \in acting : d.row = c.row /\ d.action = c.action /\ d.step = c.step /\ d.tab = c.tab
    BY <1>2
  <2> QED
    BY <1>3, <2>1, GivenStays DEF AnswerIsGiven
<1>5. QuestionIsWhole'
  BY <1>1 DEF RowsAreSensible, QuestionIsWhole, Dialogs!NoDialog
<1>6. Dialogs!TypeOK'
  BY <1>1, <1>2 DEF Dialogs!TypeOK, Dialogs!NoDialog
<1> QED
  BY <1>1, <1>2, <1>3, <1>4, <1>5, <1>6, ToldStays DEF RowInv, Dialogs!DialogsAwaitTheirAnswers

\* No dialog is open, or what it asked is not on its way: no answer is awaited.
LEMMA NothingAwaited ==
    ASSUME RowsAreSensible, Dialogs!TypeOK, RowInv,
           dialogue = Dialogs!NoDialog \/ ~Dialogs!Confirming,
           NEW c \in acting
    PROVE  ~(c.waits /\ c.action # "clone")
<1>1. c.action \in Answers \cup Makes
  BY DEF Dialogs!TypeOK, Dialogs!Call
<1>2. SUFFICES ASSUME c.waits, c.action # "clone" PROVE FALSE
  OBVIOUS
<1>3. dialogue = [row |-> c.row, action |-> c.action]
  BY <1>2 DEF RowInv, Dialogs!DialogsAwaitTheirAnswers
<1>4. dialogue.action = c.action
  BY <1>3
<1>5. dialogue # Dialogs!NoDialog
  BY <1>1, <1>4 DEF RowsAreSensible, Dialogs!NoDialog
<1> QED
  BY <1>2, <1>4, <1>5 DEF Dialogs!Confirming

\* A dialog opens where there is none, or closes when it waits for nothing.
LEMMA AskingKeepsDialogs ==
    ASSUME RowsAreSensible, Dialogs!TypeOK, RowInv,
           \/ Dialogs!AskNew
           \/ \E r \in Rows : \E a \in Answers : Dialogs!Ask(r, a)
           \/ Dialogs!Dismiss
    PROVE  Dialogs!TypeOK' /\ RowInv'
<1>1. UNCHANGED <<items, tab, lists, fetches, acting, posted, outside, toldIn>>
  BY DEF Dialogs!AskNew, Dialogs!Ask, Dialogs!Dismiss, Dialogs!DismissAnyTime
<1>2. \/ dialogue' = [row |-> Nothing, action |-> "create"] /\ "create" \in Makes
      \/ \E r \in Rows : \E a \in Answers : dialogue' = [row |-> r, action |-> a]
      \/ dialogue' = Dialogs!NoDialog
  BY DEF Dialogs!AskNew, Dialogs!Ask, Dialogs!Dismiss, Dialogs!DismissAnyTime
<1>3. dialogue = Dialogs!NoDialog \/ ~Dialogs!Confirming
  BY DEF Dialogs!AskNew, Dialogs!Ask, Dialogs!Dismiss
<1>4. Dialogs!TypeOK' /\ QuestionIsWhole'
  <2>1. CASE dialogue' = [row |-> Nothing, action |-> "create"] /\ "create" \in Makes
    BY <1>1, <2>1 DEF RowsAreSensible, Dialogs!TypeOK, QuestionIsWhole
  <2>2. ASSUME NEW r \in Rows, NEW a \in Answers, dialogue' = [row |-> r, action |-> a]
        PROVE  Dialogs!TypeOK' /\ QuestionIsWhole'
    BY <1>1, <2>2 DEF RowsAreSensible, Dialogs!TypeOK, QuestionIsWhole
  <2>3. CASE dialogue' = Dialogs!NoDialog
    BY <1>1, <2>3 DEF RowsAreSensible, Dialogs!TypeOK, QuestionIsWhole, Dialogs!NoDialog
  <2> QED
    BY <1>2, <2>1, <2>2, <2>3
<1>5. RowsMove /\ FetchesMove /\ ListsMove
  BY <1>1, StillListMoves
<1>6. \A c \in acting' : AnswerIsGiven(c)' /\ ~(c.waits /\ c.action # "clone")
  BY <1>1, <1>3, <1>5, GivenStays, NothingAwaited
<1> QED
  BY <1>1, <1>4, <1>5, <1>6, ToldStays DEF RowInv, Dialogs!DialogsAwaitTheirAnswers

LEMMA SendingKeepsDialogs ==
    ASSUME RowsAreSensible, Dialogs!TypeOK, RowInv,
           Dialogs!Confirm \/ \E r \in Rows : Dialogs!Clone(r)
    PROVE  Dialogs!TypeOK' /\ RowInv'
<1>1. PICK r \in Rows \cup {Nothing}, a \in Answers \cup Makes :
         /\ Dialogs!Send(r, a)
         /\ a \in Answers => r \in Rows
         /\ a = "clone" \/ (dialogue = [row |-> r, action |-> a] /\ ~Dialogs!Confirming)
  <2>1. CASE Dialogs!Confirm
    <3>1. dialogue = [row |-> dialogue.row, action |-> dialogue.action]
          /\ dialogue.row \in Rows \cup {Nothing}
          /\ dialogue.action \in Answers \cup Makes \cup {Nothing}
      BY DEF Dialogs!TypeOK
    <3>2. dialogue.action \in Answers \cup Makes
      BY <2>1, <3>1 DEF Dialogs!Confirm, RowInv, QuestionIsWhole
    <3> QED
      BY <2>1, <3>1, <3>2 DEF Dialogs!Confirm, RowInv, QuestionIsWhole
  <2>2. ASSUME NEW r \in Rows, Dialogs!Clone(r)
        PROVE  Dialogs!Send(r, "clone") /\ "clone" \in Makes
    BY <2>2 DEF Dialogs!Clone
  <2> QED
    BY <2>1, <2>2
<1> DEFINE e == [id |-> posted', row |-> r, action |-> a, waits |-> TRUE,
                 tab |-> Nothing, step |-> "sent"]
<1>2. /\ posted < MaxCalls /\ posted' = posted + 1 /\ acting' = acting \cup {e}
      /\ UNCHANGED <<items, tab, lists, fetches, dialogue, outside, toldIn>>
  BY <1>1 DEF Dialogs!Send
<1>3. posted' \in 1 .. MaxCalls /\ posted' \in 0 .. MaxCalls
  BY <1>2 DEF Dialogs!TypeOK, RowsAreSensible
<1>4. /\ e \in Dialogs!Call /\ e.row = r /\ e.action = a /\ e.step = "sent"
  BY <1>3 DEF Dialogs!Call
<1> HIDE DEF e
<1>5. Dialogs!TypeOK'
  BY <1>2, <1>3, <1>4 DEF Dialogs!TypeOK
<1>6. RowsMove /\ FetchesMove /\ ListsMove
  BY <1>2, StillListMoves
<1>7. ASSUME NEW c \in acting' PROVE AnswerIsGiven(c)'
  <2>1. CASE c = e
    BY <1>1, <1>4, <2>1 DEF AnswerIsGiven
  <2> QED
    BY <1>2, <1>6, <2>1, GivenStays
<1>8. Dialogs!DialogsAwaitTheirAnswers'
  <2>1. CASE a = "clone"
    BY <1>2, <1>4, <2>1 DEF RowInv, Dialogs!DialogsAwaitTheirAnswers
  <2>2. CASE a # "clone"
    <3>1. \A c \in acting : ~(c.waits /\ c.action # "clone")
      BY <1>1, <2>2, NothingAwaited
    <3> QED
      BY <1>1, <1>2, <1>4, <2>2, <3>1 DEF Dialogs!DialogsAwaitTheirAnswers
  <2> QED
    BY <2>1, <2>2
<1> QED
  BY <1>2, <1>5, <1>6, <1>7, <1>8, ToldStays DEF RowInv, QuestionIsWhole

-----------------------------------------------------------------------------
(* The mutation's steps, and the end of a fetch.                           *)

\* A request with another step.
LEMMA RequestGoesOn ==
    ASSUME Dialogs!TypeOK, NEW c \in acting,
           NEW step \in {"sent", "done", "refreshing", "reread", "behind"}
    PROVE  LET e == [c EXCEPT !.step = step]
           IN /\ e \in Dialogs!Call /\ e.step = step /\ e.tab = c.tab
              /\ e.row = c.row /\ e.action = c.action /\ e.waits = c.waits
<1>1. c \in Dialogs!Call
  BY DEF Dialogs!TypeOK
<1> QED
  BY <1>1 DEF Dialogs!Call

\* The server has done what one request asked.
LEMMA OneGoesOn ==
    ASSUME Dialogs!TypeOK, RowInv, NEW c \in acting,
           acting' = Dialogs!Becoming(c, "done"), AnswerIsGiven([c EXCEPT !.step = "done"])',
           items' \in [Rows -> Dialogs!Statuses], RowsMove,
           UNCHANGED <<tab, lists, fetches, dialogue, posted, outside, toldIn>>
    PROVE  Dialogs!TypeOK' /\ RowInv'
<1> DEFINE e == [c EXCEPT !.step = "done"]
           F == [d \in acting |-> IF d = c THEN e ELSE d]
<1>1. acting' = (acting \ {c}) \cup {e}
  BY DEF Dialogs!Becoming
<1>2. /\ e \in Dialogs!Call /\ e.row = c.row /\ e.action = c.action /\ e.waits = c.waits
  BY RequestGoesOn
<1>3. AnswerIsGiven(e)'
  OBVIOUS
<1>4. FetchesMove /\ ListsMove
  BY DEF FetchesMove, ListsMove
<1>5. ASSUME NEW d \in acting' PROVE AnswerIsGiven(d)'
  <2>1. CASE d = e
    BY <1>3, <2>1 DEF AnswerIsGiven
  <2> HIDE DEF e
  <2> QED
    BY <1>1, <1>4, <2>1, GivenStays
<1> HIDE DEF e
<1>6. Dialogs!TypeOK'
  BY <1>1, <1>2 DEF Dialogs!TypeOK
<1>7. Dialogs!DialogsAwaitTheirAnswers'
  <2>1. acting' \subseteq {F[d] : d \in acting}
    BY <1>1
  <2>2. \A d \in acting : /\ F[d].waits => d.waits
                          /\ F[d].row = d.row /\ F[d].action = d.action
    BY <1>2
  <2> HIDE DEF F
  <2> QED
    BY <2>1, <2>2, SameQuestions DEF RowInv
<1> QED
  BY <1>4, <1>5, <1>6, <1>7, ToldStays DEF RowInv, QuestionIsWhole

LEMMA ServerKeepsDialogs ==
    ASSUME RowsAreSensible, Dialogs!TypeOK, RowInv, NEW c \in acting,
           Dialogs!ServerAnswers(c) \/ Dialogs!ServerMakes(c)
    PROVE  Dialogs!TypeOK' /\ RowInv'
<1> DEFINE e == [c EXCEPT !.step = "done"]
<1>1. /\ c.step = "sent" /\ acting' = Dialogs!Becoming(c, "done")
      /\ UNCHANGED <<tab, lists, fetches, dialogue, posted, outside, toldIn>>
  BY DEF Dialogs!ServerAnswers, Dialogs!ServerMakes
<1>2. e.step = "done" /\ e.row = c.row /\ e.action = c.action
  BY RequestGoesOn
<1>3. items \in [Rows -> Dialogs!Statuses]
  BY DEF Dialogs!TypeOK
<1>4. CASE Dialogs!ServerAnswers(c)
  <2>1. /\ c.action \in Answers /\ items[c.row] = "open"
        /\ items' = [items EXCEPT ![c.row] = Becomes[c.action]]
    BY <1>4 DEF Dialogs!ServerAnswers
  <2>2. c.row \in Rows
    BY <2>1 DEF RowInv, AnswerIsGiven
  <2>3. items' \in [Rows -> Dialogs!Statuses] /\ RowsMove
    BY <1>3, <2>1, <2>2 DEF Dialogs!Statuses, RowsMove, Over
  <2>4. Over(c.row)'
    BY <1>3, <2>1, <2>2 DEF RowsAreSensible, Over
  <2>5. AnswerIsGiven(e)'
    BY <1>2, <2>2, <2>4 DEF AnswerIsGiven
  <2> QED
    BY <1>1, <2>3, <2>5, OneGoesOn
<1>5. CASE Dialogs!ServerMakes(c)
  <2>1. PICK r \in Rows : items[r] = "unborn" /\ items' = [items EXCEPT ![r] = "open"]
    BY <1>5 DEF Dialogs!ServerMakes
  <2>2. items' \in [Rows -> Dialogs!Statuses] /\ RowsMove
    BY <1>3, <2>1 DEF Dialogs!Statuses, RowsMove, Over
  <2>3. c.action \notin Answers
    BY <1>5 DEF Dialogs!ServerMakes, RowsAreSensible
  <2>4. AnswerIsGiven(e)'
    BY <1>2, <2>3 DEF AnswerIsGiven
  <2> QED
    BY <1>1, <2>2, <2>4, OneGoesOn
<1> QED
  BY <1>4, <1>5

LEMMA FailsKeepsDialogs ==
    ASSUME RowsAreSensible, Dialogs!TypeOK, RowInv, NEW c \in acting, Dialogs!Fails(c)
    PROVE  Dialogs!TypeOK' /\ RowInv'
<1>1. /\ acting' = acting \ {c}
      /\ UNCHANGED <<items, tab, lists, fetches, dialogue, posted, outside, toldIn>>
  BY DEF Dialogs!Fails
<1>2. RowsMove /\ FetchesMove /\ ListsMove
  BY <1>1, StillListMoves
<1>3. \A d \in acting' : AnswerIsGiven(d)'
  BY <1>1, <1>2, GivenStays
<1> QED
  BY <1>1, <1>2, <1>3, ToldStays
     DEF RowInv, QuestionIsWhole, Dialogs!TypeOK, Dialogs!DialogsAwaitTheirAnswers

LEMMA CloseKeepsDialogs ==
    ASSUME RowsAreSensible, Dialogs!TypeOK, RowInv, NEW c \in acting, Dialogs!Close(c)
    PROVE  Dialogs!TypeOK' /\ RowInv'
<1>1. /\ c.step \in {"reread", "behind"} /\ acting' = acting \ {c}
      /\ UNCHANGED <<items, tab, lists, fetches, posted, outside>>
  BY DEF Dialogs!Close
<1>2. RowsMove /\ FetchesMove /\ ListsMove
  BY <1>1, StillListMoves
<1>3. \A d \in acting' : AnswerIsGiven(d)'
  BY <1>1, <1>2, GivenStays
<1>4. CASE ~(c.waits /\ c.action \in Answers)
  <2>1. dialogue' = dialogue /\ toldIn' = toldIn
    BY <1>4 DEF Dialogs!Close
  <2> QED
    BY <1>1, <1>2, <1>3, <2>1, ToldStays
       DEF RowInv, QuestionIsWhole, Dialogs!TypeOK, Dialogs!DialogsAwaitTheirAnswers
<1>5. CASE c.waits /\ c.action \in Answers
  <2>1. dialogue' = Dialogs!NoDialog
        /\ toldIn' = IF c.step = "reread" THEN [toldIn EXCEPT ![c.tab] = @ \cup {c.row}] ELSE toldIn
    BY <1>5 DEF Dialogs!Close
  <2>2. c.action # "clone"
    BY <1>5 DEF RowsAreSensible
  <2>3. \A d \in acting' : ~(d.waits /\ d.action # "clone")
    BY <1>1, <1>5, <2>2 DEF RowInv, Dialogs!DialogsAwaitTheirAnswers
  <2>4. QuestionIsWhole'
    BY <2>1 DEF RowsAreSensible, QuestionIsWhole, Dialogs!NoDialog
  <2>5. toldIn \in [Tabs -> SUBSET Rows]
    BY DEF Dialogs!TypeOK
  <2>6. \A t \in Tabs : \A r \in toldIn[t] : IsOver(t, r)'
    BY <1>2, <2>5, OverStays DEF RowInv
  <2>7. /\ toldIn' \in [Tabs -> SUBSET Rows]
        /\ \A t \in Tabs : \A r \in toldIn'[t] : IsOver(t, r)'
    <3>1. CASE c.step = "reread"
      <4>1. c.tab \in Tabs /\ c.row \in Rows /\ IsOver(c.tab, c.row)
        BY <1>5, <3>1 DEF RowInv, AnswerIsGiven
      <4>2. IsOver(c.tab, c.row)'
        BY <1>2, <4>1, OverStays
      <4>3. toldIn' = [toldIn EXCEPT ![c.tab] = @ \cup {c.row}]
        BY <2>1, <3>1
      <4>4. toldIn' \in [Tabs -> SUBSET Rows]
        BY <2>5, <4>1, <4>3
      <4>5. ASSUME NEW t \in Tabs, NEW r \in toldIn'[t] PROVE r \in toldIn[t] \/ (t = c.tab /\ r = c.row)
        BY <2>5, <4>3, <4>5
      <4> QED
        BY <2>6, <4>2, <4>4, <4>5
    <3> QED
      BY <2>1, <2>5, <2>6, <3>1
  <2>8. Dialogs!TypeOK'
    BY <1>1, <2>1, <2>7 DEF Dialogs!TypeOK, Dialogs!NoDialog
  <2> QED
    BY <1>3, <2>3, <2>4, <2>7, <2>8 DEF RowInv, Dialogs!DialogsAwaitTheirAnswers
<1> QED
  BY <1>4, <1>5

\* Whoever waited for the tab goes on, and the others as before.
LEMMA RefreshedRequests ==
    ASSUME Dialogs!TypeOK, NEW t, NEW step \in {"reread", "behind"}, NEW d \in Dialogs!Refreshed(t, step)
    PROVE  /\ d \in Dialogs!Call
           /\ \E c \in acting :
                 /\ d.row = c.row /\ d.action = c.action /\ d.waits = c.waits /\ d.tab = c.tab
                 /\ IF c.step = "refreshing" /\ c.tab = t THEN d.step = step ELSE d = c
<1>1. PICK c \in acting :
         d = IF c.step = "refreshing" /\ c.tab = t THEN [c EXCEPT !.step = step] ELSE c
  BY DEF Dialogs!Refreshed
<1>2. c \in Dialogs!Call
  BY DEF Dialogs!TypeOK
<1>3. CASE c.step = "refreshing" /\ c.tab = t
  BY <1>1, <1>3, RequestGoesOn
<1>4. CASE ~(c.step = "refreshing" /\ c.tab = t)
  BY <1>1, <1>2, <1>4
<1> QED
  BY <1>3, <1>4

LEMMA RefreshedQuestions ==
    ASSUME Dialogs!TypeOK, Dialogs!DialogsAwaitTheirAnswers, dialogue' = dialogue,
           NEW t, NEW step \in {"reread", "behind"}, acting' = Dialogs!Refreshed(t, step)
    PROVE  Dialogs!DialogsAwaitTheirAnswers'
<1> DEFINE F == [c \in acting |-> IF c.step = "refreshing" /\ c.tab = t
                                  THEN [c EXCEPT !.step = step] ELSE c]
<1>1. acting' \subseteq {F[c] : c \in acting}
  BY DEF Dialogs!Refreshed
<1>2. ASSUME NEW c \in acting
      PROVE  (F[c].waits => c.waits) /\ F[c].row = c.row /\ F[c].action = c.action
  BY RequestGoesOn
<1> HIDE DEF F
<1> QED
  BY <1>1, <1>2, SameQuestions

LEMMA FetchEndsKeepsDialogs ==
    ASSUME RowsAreSensible, Dialogs!TypeOK, RowInv, NEW t \in Tabs,
           Dialogs!Land(t) \/ Dialogs!FetchFails(t)
    PROVE  Dialogs!TypeOK' /\ RowInv'
<1>1. /\ fetches' = [fetches EXCEPT ![t] = Dialogs!NoFetch]
      /\ UNCHANGED <<items, tab, dialogue, posted, outside, toldIn>>
  BY DEF Dialogs!Land, Dialogs!FetchFails
<1>2. PICK step \in {"reread", "behind"} :
         /\ acting' = Dialogs!Refreshed(t, step)
         /\ \/ /\ step = "reread" /\ fetches[t].step = "read"
               /\ lists' = [lists EXCEPT ![t] = [page |-> fetches[t].page, invalid |-> FALSE,
                                                 failed |-> FALSE]]
            \/ step = "behind" /\ lists' = [lists EXCEPT ![t].failed = TRUE]
  BY DEF Dialogs!Land, Dialogs!FetchFails
<1>3. /\ Dialogs!NoFetch \in [step : {"none", "sent", "read"}, page : Dialogs!Page]
      /\ Dialogs!NoFetch.step = "none"
  BY DEF Dialogs!NoFetch, Dialogs!NoRows, Dialogs!Page
<1>4. /\ fetches \in [Tabs -> [step : {"none", "sent", "read"}, page : Dialogs!Page]]
      /\ lists \in [Tabs -> [page : Dialogs!Page, invalid : BOOLEAN, failed : BOOLEAN]]
  BY DEF Dialogs!TypeOK
<1>5. /\ lists' \in [Tabs -> [page : Dialogs!Page, invalid : BOOLEAN, failed : BOOLEAN]]
      /\ \A u \in Tabs \ {t} : lists'[u] = lists[u]
      /\ lists'[t].page = IF step = "reread" THEN fetches[t].page ELSE lists[t].page
  <2> DEFINE list == IF step = "reread"
                     THEN [page |-> fetches[t].page, invalid |-> FALSE, failed |-> FALSE]
                     ELSE [lists[t] EXCEPT !.failed = TRUE]
  <2>1. lists' = [lists EXCEPT ![t] = list]
    BY <1>2
  <2>2. /\ list \in [page : Dialogs!Page, invalid : BOOLEAN, failed : BOOLEAN]
        /\ list.page = IF step = "reread" THEN fetches[t].page ELSE lists[t].page
    BY <1>4
  <2> HIDE DEF list
  <2> QED
    BY <1>4, <2>1, <2>2
<1>6. RowsMove /\ ListsMove /\ FetchesMove
  BY <1>1, <1>2, <1>3, <1>4, <1>5 DEF RowsMove, ListsMove, FetchesMove
<1>7. Dialogs!TypeOK'
  <2>1. fetches' \in [Tabs -> [step : {"none", "sent", "read"}, page : Dialogs!Page]]
    BY <1>1, <1>3, <1>4
  <2>2. acting' \subseteq Dialogs!Call
    BY <1>2, RefreshedRequests
  <2> QED
    BY <1>1, <1>5, <2>1, <2>2 DEF Dialogs!TypeOK
<1>8. ASSUME NEW d \in acting' PROVE AnswerIsGiven(d)'
  <2>1. d \in Dialogs!Refreshed(t, step)
    BY <1>2
  <2>2. PICK c \in acting :
           /\ d.row = c.row /\ d.action = c.action /\ d.waits = c.waits /\ d.tab = c.tab
           /\ IF c.step = "refreshing" /\ c.tab = t THEN d.step = step ELSE d = c
    BY <2>1, RefreshedRequests
  <2>3. AnswerIsGiven(c) /\ AnswerIsGiven(c)'
    BY <1>6, GivenStays DEF RowInv
  <2>4. CASE c.step = "refreshing" /\ c.tab = t /\ c.action \in Answers
    <3>1. Coming(t, c.row)' /\ Coming(t, c.row) /\ c.row \in Rows
      BY <2>3, <2>4 DEF AnswerIsGiven
    <3>2. step = "reread" => lists'[t].page[c.row] # "open"
      BY <1>2, <1>5, <3>1 DEF Coming
    <3> QED
      BY <2>2, <2>4, <3>1, <3>2 DEF AnswerIsGiven, IsOver, Coming
  <2>5. CASE c.action \notin Answers
    BY <2>2, <2>5 DEF AnswerIsGiven
  <2>6. CASE ~(c.step = "refreshing" /\ c.tab = t)
    BY <2>2, <2>3, <2>6
  <2> QED
    BY <2>4, <2>5, <2>6
<1>9. Dialogs!DialogsAwaitTheirAnswers'
  BY <1>1, <1>2, RefreshedQuestions DEF RowInv
<1> QED
  BY <1>1, <1>6, <1>7, <1>8, <1>9, ToldStays DEF RowInv, QuestionIsWhole

LEMMA SucceedsKeepsDialogs ==
    ASSUME RowsAreSensible, Dialogs!TypeOK, RowInv, NEW c \in acting, Dialogs!Succeeds(c)
    PROVE  Dialogs!TypeOK' /\ RowInv'
<1> DEFINE step == IF tab = Nothing THEN "behind" ELSE "refreshing"
           e == [c EXCEPT !.tab = tab, !.step = step]
           F == [d \in acting |-> IF d = c THEN e
                                  ELSE IF d.step = "refreshing" /\ d.tab = tab
                                       THEN [d EXCEPT !.step = "behind"] ELSE d]
<1>1. /\ c.step = "done" /\ lists' = [t \in Tabs |-> [lists[t] EXCEPT !.invalid = TRUE]]
      /\ fetches' = IF tab = Nothing THEN fetches ELSE Dialogs!Begun(tab)
      /\ acting' = {IF d = c THEN e ELSE d : d \in Dialogs!Refreshed(tab, "behind")}
      /\ UNCHANGED <<items, tab, dialogue, posted, outside, toldIn>>
  BY DEF Dialogs!Succeeds, Dialogs!SucceedsWith
<1>2. tab \in Tabs \cup {Nothing} /\ step \in {"refreshing", "behind"} /\ acting \subseteq Dialogs!Call
  BY DEF Dialogs!TypeOK
<1>3. /\ e \in Dialogs!Call /\ e.step = step /\ e.tab = tab
      /\ e.row = c.row /\ e.action = c.action /\ e.waits = c.waits
  <2> HIDE DEF step
  <2>1. c \in Dialogs!Call
    BY <1>2
  <2> QED
    BY <1>2, <2>1 DEF Dialogs!Call
<1>4. /\ lists' \in [Tabs -> [page : Dialogs!Page, invalid : BOOLEAN, failed : BOOLEAN]]
      /\ \A t \in Tabs : lists'[t].page = lists[t].page
  BY <1>1 DEF Dialogs!TypeOK
<1>5. fetches' \in [Tabs -> [step : {"none", "sent", "read"}, page : Dialogs!Page]]
      /\ FetchesMove /\ (tab # Nothing => fetches'[tab].step = "sent")
  <2>1. CASE tab = Nothing
    BY <1>1, <2>1 DEF Dialogs!TypeOK, FetchesMove
  <2>2. CASE tab # Nothing
    <3>1. tab \in Tabs /\ fetches' = Dialogs!Begun(tab)
      BY <1>1, <1>2, <2>2
    <3> QED
      BY <3>1, BegunFetch DEF FetchesMove
  <2> QED
    BY <2>1, <2>2
<1>6. RowsMove /\ ListsMove
  BY <1>1, <1>4 DEF RowsMove, ListsMove
<1> HIDE DEF step, e
<1>7. ASSUME NEW d \in acting'
      PROVE  /\ d \in Dialogs!Call
             /\ \/ d = e
                \/ \E b \in acting :
                      /\ d.row = b.row /\ d.action = b.action /\ d.waits = b.waits
                      /\ \/ d = b
                         \/ d.step = "behind" /\ b.step = "refreshing"
  <2>1. PICK f \in Dialogs!Refreshed(tab, "behind") : d = IF f = c THEN e ELSE f
    BY <1>1
  <2> QED
    BY <1>3, <2>1, RefreshedRequests
<1>8. Dialogs!TypeOK'
  BY <1>1, <1>4, <1>5, <1>7 DEF Dialogs!TypeOK
<1>9. AnswerIsGiven(c) /\ c.step # "sent"
  BY <1>1 DEF RowInv
<1>10. ASSUME NEW d \in acting' PROVE AnswerIsGiven(d)'
  <2>1. CASE d = e
    <3>1. c.action \in Answers => c.row \in Rows /\ Over(c.row)'
      BY <1>1, <1>9 DEF AnswerIsGiven, Over
    <3>2. c.action \in Answers /\ tab # Nothing => tab' \in Tabs /\ Coming(tab, c.row)'
      BY <1>1, <1>2, <1>5, <3>1 DEF Coming
    <3>3. step = "refreshing" => tab # Nothing
      BY DEF step
    <3> QED
      BY <1>1, <1>2, <1>3, <2>1, <3>1, <3>2, <3>3 DEF AnswerIsGiven
  <2>2. ASSUME NEW b \in acting, d.row = b.row, d.action = b.action,
               d = b \/ (d.step = "behind" /\ b.step = "refreshing")
        PROVE  AnswerIsGiven(d)'
    BY <1>5, <1>6, <2>2, GivenStays DEF AnswerIsGiven
  <2> QED
    BY <1>7, <2>1, <2>2
<1>11. Dialogs!DialogsAwaitTheirAnswers'
  <2>1. acting' \subseteq {F[d] : d \in acting}
    <3>1. ASSUME NEW d \in acting' PROVE \E b \in acting : d = F[b]
      <4>1. PICK f \in Dialogs!Refreshed(tab, "behind") : d = IF f = c THEN e ELSE f
        BY <1>1, <3>1
      <4>2. PICK b \in acting :
               f = IF b.step = "refreshing" /\ b.tab = tab THEN [b EXCEPT !.step = "behind"] ELSE b
        BY DEF Dialogs!Refreshed
      <4>3. CASE b = c
        BY <1>1, <4>1, <4>2, <4>3
      <4>4. CASE b # c
        <5>1. f # c
          BY <1>1, <4>2, <4>4, RequestGoesOn
        <5> QED
          BY <4>1, <4>2, <4>4, <5>1
      <4> QED
        BY <4>3, <4>4
    <3> QED
      BY <3>1
  <2>2. ASSUME NEW d \in acting
        PROVE  (F[d].waits => d.waits) /\ F[d].row = d.row /\ F[d].action = d.action
    BY <1>3, RequestGoesOn
  <2> HIDE DEF F
  <2> QED
    BY <1>1, <2>1, <2>2, SameQuestions DEF RowInv
<1> QED
  BY <1>1, <1>5, <1>6, <1>8, <1>10, <1>11, ToldStays DEF RowInv, QuestionIsWhole

LEMMA DialogsStay ==
    ASSUME RowsAreSensible, Dialogs!TypeOK, RowInv, [Dialogs!Next]_(Dialogs!rvars)
    PROVE  Dialogs!TypeOK' /\ RowInv'
<1>1. CASE UNCHANGED Dialogs!rvars
  BY <1>1 DEF Dialogs!rvars, Dialogs!TypeOK, RowInv, QuestionIsWhole, AnswerIsGiven, IsOver, Coming,
              Over, Dialogs!DialogsAwaitTheirAnswers
<1>2. CASE Dialogs!Next
  <2>1. CASE Dialogs!Turn \/ Dialogs!Focus
    BY <2>1, TurningKeepsDialogs
  <2>2. CASE Dialogs!Leave
    BY <2>2, LeaveKeepsDialogs
  <2>3. CASE Dialogs!AskNew \/ Dialogs!Dismiss \/ \E r \in Rows : \E a \in Answers : Dialogs!Ask(r, a)
    BY <2>3, AskingKeepsDialogs
  <2>4. CASE Dialogs!Confirm \/ \E r \in Rows : Dialogs!Clone(r)
    BY <2>4, SendingKeepsDialogs
  <2>5. CASE Dialogs!OthersAct
    BY <2>5, OthersKeepDialogs
  <2>6. CASE \E t \in Tabs : Dialogs!ServerReads(t) \/ Dialogs!Land(t) \/ Dialogs!FetchFails(t)
    BY <2>6, ServerReadsKeepsDialogs, FetchEndsKeepsDialogs
  <2>7. CASE \E c \in acting : \/ Dialogs!ServerAnswers(c) \/ Dialogs!ServerMakes(c)
                               \/ Dialogs!Fails(c) \/ Dialogs!Succeeds(c) \/ Dialogs!Close(c)
    BY <2>7, ServerKeepsDialogs, FailsKeepsDialogs, SucceedsKeepsDialogs, CloseKeepsDialogs
  <2> QED
    BY <1>2, <2>1, <2>2, <2>3, <2>4, <2>5, <2>6, <2>7 DEF Dialogs!Next
<1> QED
  BY <1>1, <1>2

\* In a list of any rows, tabs and answers, whatever others do meanwhile and wherever the member
\* goes: a dialog that waits is the one that asked, one answer is awaited at a time, and a row
\* whose answer was told with its list re-read is not offered there again.
THEOREM RowAnswersAreTold ==
    ASSUME RowsAreSensible
    PROVE  Dialogs!Spec => [](/\ Dialogs!TypeOK
                              /\ Dialogs!DialogsAwaitTheirAnswers
                              /\ Dialogs!AnsweredRowsAreOver)
<1>1. Dialogs!Init => Dialogs!TypeOK /\ RowInv
  BY DialogsAtFirst
<1>2. Dialogs!TypeOK /\ RowInv /\ [Dialogs!Next]_(Dialogs!rvars) => (Dialogs!TypeOK /\ RowInv)'
  BY DialogsStay
<1>3. RowInv => Dialogs!DialogsAwaitTheirAnswers /\ Dialogs!AnsweredRowsAreOver
  BY DEF RowInv, IsOver, Dialogs!AnsweredRowsAreOver
<1> QED
  BY <1>1, <1>2, <1>3, PTL DEF Dialogs!Spec

-----------------------------------------------------------------------------
(* The deck builder.                                                       *)

CONSTANTS Contents, First, MaxAt
VARIABLES server, seen, fetch, saved, draft, basis, verdict, touched, save

Builder == INSTANCE DeckBuilder

ContentsAreSensible == First \in Contents /\ MaxAt \in Nat

InFlight == {"sent", "answered", "refreshing"}

\* While a save is on its way and nothing replaced the draft, the draft is what was sent, and
\* what comes back is what was sent; and a verdict is of the draft.
DraftInv ==
    /\ save.step \in InFlight /\ ~touched => draft = save.sent
    /\ save.step \in InFlight \ {"sent"} => save.result.content = save.sent
    /\ Builder!VerdictIsOfTheDraft

LEMMA OneCopy ==
    ASSUME NEW d
    PROVE  Builder!Cardinality({d}) <= 1 /\ Builder!Cardinality({}) <= 1
<1>1. \A S : Builder!Cardinality(S) = Cardinality(S)
  BY DEF Builder!Cardinality, Cardinality
<1> QED
  BY <1>1, FS_Singleton, FS_EmptySet

LEMMA BuilderAtFirst ==
    ASSUME ContentsAreSensible, Builder!Init
    PROVE  Builder!TypeOK /\ DraftInv
<1>1. [content |-> First, at |-> 0] \in Builder!Copies
  BY DEF ContentsAreSensible, Builder!Copies
<1> DEFINE copy == [content |-> First, at |-> 0]
<1>2. /\ server = {copy} /\ seen = copy /\ fetch = [step |-> "none", copy |-> copy]
      /\ saved = First /\ draft = First /\ basis = 0 /\ verdict = {} /\ touched = FALSE
      /\ save = [step |-> "idle", sent |-> First, result |-> copy]
  BY DEF Builder!Init, Builder!NoFetch, Builder!NoSave
<1> HIDE DEF copy
<1>3. copy \in Builder!Copies
  BY <1>1 DEF copy
<1>4. /\ fetch \in [step : {"none", "asked", "answered", "ended"}, copy : Builder!Copies]
      /\ save \in [step : {"idle", "sent", "answered", "refreshing", "gone"},
                   sent : Contents, result : Builder!Copies]
  BY <1>2, <1>3 DEF ContentsAreSensible
<1>5. server \subseteq Builder!Copies /\ Builder!Cardinality(server) <= 1
  BY <1>2, <1>3, OneCopy
<1>6. Builder!TypeOK
  <2>1. {saved, draft} \cup verdict \subseteq Contents
    BY <1>2 DEF ContentsAreSensible
  <2>2. basis \in 0 .. MaxAt
    BY <1>2 DEF ContentsAreSensible
  <2>3. touched \in BOOLEAN
    BY <1>2
  <2>4. seen \in Builder!Copies
    BY <1>2, <1>3
  <2> QED
    BY <1>4, <1>5, <2>1, <2>2, <2>3, <2>4 DEF Builder!TypeOK
<1> QED
  BY <1>6 DEF Builder!Init, Builder!NoSave, DraftInv, InFlight, Builder!VerdictIsOfTheDraft

\* What a write leaves is one copy, of what was written.
LEMMA WrittenCopy ==
    ASSUME ContentsAreSensible, Builder!TypeOK, NEW c \in Contents, Builder!Write(c)
    PROVE  \E d \in Builder!Copies : server' = {d} /\ d.content = c
<1>1. PICK d \in server : d.at < MaxAt /\ server' = {[content |-> c, at |-> d.at + 1]}
  BY DEF Builder!Write
<1>2. d.at + 1 \in 0 .. MaxAt
  BY <1>1 DEF Builder!TypeOK, Builder!Copies, ContentsAreSensible
<1> DEFINE e == [content |-> c, at |-> d.at + 1]
<1>3. e \in Builder!Copies /\ e.content = c
  BY <1>2 DEF Builder!Copies
<1> HIDE DEF e
<1>4. server' = {e}
  BY <1>1 DEF e
<1> QED
  BY <1>3, <1>4

\* The API's and the query's steps leave the store and the save alone.
LEMMA ElsewhereKeepsDrafts ==
    ASSUME ContentsAreSensible, Builder!TypeOK, DraftInv,
           \/ Builder!OtherTabSaves \/ Builder!OtherTabDeletes \/ Builder!Publish \/ Builder!Focus
           \/ Builder!Answer \/ Builder!Lands \/ Builder!FetchFails \/ Builder!Ended
    PROVE  Builder!TypeOK' /\ DraftInv'
<1>1. UNCHANGED <<saved, draft, basis, verdict, touched, save>>
  BY DEF Builder!OtherTabSaves, Builder!OtherTabDeletes, Builder!Publish, Builder!Focus,
         Builder!Answer, Builder!Lands, Builder!FetchFails, Builder!Ended, Builder!store
<1>2. server' = server \/ server' = {} \/ \E d \in Builder!Copies : server' = {d}
  <2>1. ASSUME Builder!OtherTabSaves PROVE \E d \in Builder!Copies : server' = {d}
    BY <2>1, WrittenCopy DEF Builder!OtherTabSaves
  <2>2. ASSUME Builder!Publish PROVE \E d \in Builder!Copies : server' = {d}
    BY <2>2, WrittenCopy DEF Builder!Publish, Builder!TypeOK, Builder!Copies
  <2> QED
    BY <2>1, <2>2 DEF Builder!OtherTabDeletes, Builder!Focus, Builder!Answer, Builder!Lands,
                      Builder!FetchFails, Builder!Ended
<1>3. server' \subseteq Builder!Copies /\ Builder!Cardinality(server') <= 1
  BY <1>2, OneCopy DEF Builder!TypeOK
<1>4. Builder!NoFetch \in [step : {"none", "asked", "answered", "ended"}, copy : Builder!Copies]
  BY DEF ContentsAreSensible, Builder!NoFetch, Builder!Copies
<1>5. /\ Builder!Asked \in [step : {"none", "asked", "answered", "ended"}, copy : Builder!Copies]
      /\ Builder!HasEnded \in [step : {"none", "asked", "answered", "ended"}, copy : Builder!Copies]
  BY <1>4 DEF Builder!Asked, Builder!HasEnded
<1>6. fetch' \in [step : {"none", "asked", "answered", "ended"}, copy : Builder!Copies]
      /\ seen' \in Builder!Copies
  BY <1>4, <1>5 DEF Builder!TypeOK, Builder!OtherTabSaves, Builder!OtherTabDeletes, Builder!Publish,
     Builder!Focus, Builder!Answer, Builder!Lands, Builder!FetchFails, Builder!Ended
<1> QED
  BY <1>1, <1>3, <1>6 DEF Builder!TypeOK, DraftInv, Builder!VerdictIsOfTheDraft

LEMMA DraftingKeepsDrafts ==
    ASSUME ContentsAreSensible, Builder!TypeOK, DraftInv,
           Builder!Reset \/ Builder!Submit \/ \E c \in Contents : Builder!Edit(c)
    PROVE  Builder!TypeOK' /\ DraftInv'
<1>1. CASE Builder!Reset
  BY <1>1 DEF Builder!Reset, Builder!TypeOK, Builder!Copies, DraftInv, Builder!VerdictIsOfTheDraft
<1>2. CASE \E c \in Contents : Builder!Edit(c)
  BY <1>2 DEF Builder!Edit, Builder!TypeOK, DraftInv, Builder!VerdictIsOfTheDraft
<1>3. CASE Builder!Submit
  <2>1. /\ save' = [save EXCEPT !.step = "sent", !.sent = draft]
        /\ UNCHANGED <<server, seen, fetch, saved, draft, basis, verdict>> /\ touched' = FALSE
    BY <1>3 DEF Builder!Submit
  <2>2. /\ save' \in [step : {"idle", "sent", "answered", "refreshing", "gone"},
                      sent : Contents, result : Builder!Copies]
        /\ save'.step = "sent" /\ save'.sent = draft
    BY <2>1 DEF Builder!TypeOK
  <2> QED
    BY <2>1, <2>2 DEF Builder!TypeOK, DraftInv, InFlight, Builder!VerdictIsOfTheDraft
<1> QED
  BY <1>1, <1>2, <1>3

LEMMA SavingKeepsDrafts ==
    ASSUME ContentsAreSensible, Builder!TypeOK, DraftInv,
           Builder!Saves \/ Builder!SaveLost \/ Builder!Invalidate
    PROVE  Builder!TypeOK' /\ DraftInv'
<1>1. UNCHANGED <<seen, saved, draft, basis, verdict, touched>>
  BY DEF Builder!Saves, Builder!SaveLost, Builder!Invalidate, Builder!store
<1> DEFINE Save == [step : {"idle", "sent", "answered", "refreshing", "gone"},
                    sent : Contents, result : Builder!Copies]
<1>2. save \in Save
  BY DEF Builder!TypeOK
<1>3. CASE Builder!Saves
  <2>1. save.step = "sent" /\ fetch' = fetch
    BY <1>3 DEF Builder!Saves
  <2>2. CASE Builder!Write(save.sent)
             /\ save' = [save EXCEPT !.step = "answered", !.result = CHOOSE d \in server' : TRUE]
    <3>1. PICK d \in Builder!Copies : server' = {d} /\ d.content = save.sent
      BY <1>2, <2>2, WrittenCopy
    <3>2. (CHOOSE e \in server' : TRUE) = d
      BY <3>1
    <3>3. save' \in Save /\ save'.step = "answered" /\ save'.sent = save.sent /\ save'.result = d
      BY <1>2, <2>2, <3>2
    <3> QED
      BY <1>1, <2>1, <3>1, <3>3, OneCopy
         DEF Builder!TypeOK, DraftInv, InFlight, Builder!VerdictIsOfTheDraft
  <2>3. CASE server = {} /\ save' = [save EXCEPT !.step = "gone"] /\ UNCHANGED server
    <3>1. save' \in Save /\ save'.step = "gone"
      BY <1>2, <2>3
    <3> QED
      BY <1>1, <2>1, <2>3, <3>1 DEF Builder!TypeOK, DraftInv, InFlight, Builder!VerdictIsOfTheDraft
  <2> QED
    BY <1>3, <2>2, <2>3 DEF Builder!Saves
<1>4. CASE Builder!SaveLost
  <2>1. save' = [save EXCEPT !.step = "idle"] /\ UNCHANGED <<server, fetch>>
    BY <1>4 DEF Builder!SaveLost
  <2>2. save' \in Save /\ save'.step = "idle"
    BY <1>2, <2>1
  <2> QED
    BY <1>1, <2>1, <2>2 DEF Builder!TypeOK, DraftInv, InFlight, Builder!VerdictIsOfTheDraft
<1>5. CASE Builder!Invalidate
  <2>1. /\ save.step = "answered" /\ save' = [save EXCEPT !.step = "refreshing"]
        /\ fetch' = Builder!Asked /\ server' = server
    BY <1>5 DEF Builder!Invalidate
  <2>2. /\ save' \in Save /\ save'.step = "refreshing" /\ save'.sent = save.sent
        /\ save'.result = save.result
    BY <1>2, <2>1
  <2>3. fetch' \in [step : {"none", "asked", "answered", "ended"}, copy : Builder!Copies]
    BY <2>1 DEF ContentsAreSensible, Builder!Asked, Builder!NoFetch, Builder!Copies
  <2> QED
    BY <1>1, <2>1, <2>2, <2>3 DEF Builder!TypeOK, DraftInv, InFlight, Builder!VerdictIsOfTheDraft
<1> QED
  BY <1>3, <1>4, <1>5

LEMMA CommitKeepsDrafts ==
    ASSUME ContentsAreSensible, Builder!TypeOK, DraftInv, Builder!Commit
    PROVE  Builder!TypeOK' /\ DraftInv'
<1>1. /\ seen' = save.result /\ saved' = save.result.content /\ basis' = save.result.at
      /\ draft' = (IF touched THEN draft ELSE save.result.content)
      /\ verdict' = (IF touched THEN {} ELSE {save.result.content})
      /\ save' = Builder!NoSave /\ fetch' = Builder!NoFetch /\ touched' = FALSE
      /\ UNCHANGED server
  BY DEF Builder!Commit, Builder!Commits
<1>2. save.result \in Builder!Copies
      /\ save.result.content \in Contents /\ save.result.at \in 0 .. MaxAt
  BY DEF Builder!TypeOK, Builder!Copies
<1>3. /\ Builder!NoSave \in [step : {"idle", "sent", "answered", "refreshing", "gone"},
                             sent : Contents, result : Builder!Copies]
      /\ Builder!NoSave.step = "idle"
      /\ Builder!NoFetch \in [step : {"none", "asked", "answered", "ended"}, copy : Builder!Copies]
  BY DEF ContentsAreSensible, Builder!NoSave, Builder!NoFetch, Builder!Copies
<1>4. draft' \in Contents /\ verdict' \subseteq {draft'}
  BY <1>1, <1>2 DEF Builder!TypeOK
<1> QED
  BY <1>1, <1>2, <1>3, <1>4 DEF Builder!TypeOK, DraftInv, InFlight, Builder!VerdictIsOfTheDraft

LEMMA DraftsStay ==
    ASSUME ContentsAreSensible, Builder!TypeOK, DraftInv, [Builder!Next]_(Builder!bvars)
    PROVE  Builder!TypeOK' /\ DraftInv'
<1>1. CASE UNCHANGED Builder!bvars
  BY <1>1 DEF Builder!bvars, Builder!TypeOK, DraftInv, Builder!VerdictIsOfTheDraft
<1>2. CASE Builder!Next
  BY <1>2, ElsewhereKeepsDrafts, DraftingKeepsDrafts, SavingKeepsDrafts, CommitKeepsDrafts
     DEF Builder!Next
<1> QED
  BY <1>1, <1>2

\* The server's verdict is shown on the content it judged alone, whatever is edited, saved
\* elsewhere, deleted, refetched or lost while a save is on its way.
THEOREM VerdictsAreOfTheDraft ==
    ASSUME ContentsAreSensible
    PROVE  Builder!Spec => [](Builder!TypeOK /\ Builder!VerdictIsOfTheDraft)
<1>1. Builder!Init => Builder!TypeOK /\ DraftInv
  BY BuilderAtFirst
<1>2. Builder!TypeOK /\ DraftInv /\ [Builder!Next]_(Builder!bvars) => (Builder!TypeOK /\ DraftInv)'
  BY DraftsStay
<1>3. DraftInv => Builder!VerdictIsOfTheDraft
  BY DEF DraftInv
<1> QED
  BY <1>1, <1>2, <1>3, PTL DEF Builder!Spec

\* A dirty draft is changed by an edit alone: the answer of a save that commits either finds the
\* draft it sent, or leaves the one it finds.
THEOREM EditsAreTheMembers ==
    ASSUME ContentsAreSensible
    PROVE  Builder!Spec => Builder!DirtyDraftsAreKept
<1>1. Builder!Init => Builder!TypeOK /\ DraftInv
  BY BuilderAtFirst
<1>2. Builder!TypeOK /\ DraftInv /\ [Builder!Next]_(Builder!bvars) => (Builder!TypeOK /\ DraftInv)'
  BY DraftsStay
<1>3. ASSUME Builder!TypeOK, DraftInv, [Builder!Next]_(Builder!bvars), Builder!Dirty, draft' # draft
      PROVE  \E c \in Contents : Builder!Edit(c)
  <2>1. ~Builder!Reset
    BY <1>3 DEF Builder!Reset, Builder!ResetDue
  <2>2. ~Builder!Commit
    BY <1>3 DEF Builder!Commit, Builder!Commits, DraftInv, InFlight
  <2> QED
    BY <1>3, <2>1, <2>2
       DEF Builder!Next, Builder!bvars, Builder!store, Builder!OtherTabSaves, Builder!OtherTabDeletes,
           Builder!Publish, Builder!Focus, Builder!Answer, Builder!Lands, Builder!FetchFails,
           Builder!Ended, Builder!Submit, Builder!Saves, Builder!SaveLost, Builder!Invalidate
<1>4. Builder!TypeOK /\ DraftInv /\ [Builder!Next]_(Builder!bvars)
        => [Builder!Dirty /\ draft' # draft => \E c \in Contents : Builder!Edit(c)]_(Builder!bvars)
  BY <1>3
<1> QED
  BY <1>1, <1>2, <1>4, PTL DEF Builder!Spec, Builder!DirtyDraftsAreKept

-----------------------------------------------------------------------------
(* The paged lists.                                                        *)

CONSTANTS Ids, Values, PageSize
VARIABLES rows, gone, walk

Pages == INSTANCE Paging

\* Ids and sort values are numbers, there are finitely many rows, and a page holds one or more.
ListsAreSensible ==
    /\ IsFiniteSet(Ids) /\ Ids \subseteq Nat
    /\ Values \subseteq Nat \ {0}
    /\ PageSize \in Nat \ {0}

\* The order of a list, by sort value and id: (w, b) comes after (v, a).
Farther(dir, x, y) == IF dir = "asc" THEN y > x ELSE y < x
Later(dir, v, a, w, b) ==
    IF v = w THEN Farther(dir, a, b) ELSE v # 0 /\ (w = 0 \/ Farther(dir, v, w))

LEMMA LaterIsAnOrder ==
    ASSUME NEW dir, NEW v \in Nat, NEW a \in Nat, NEW w \in Nat, NEW b \in Nat, NEW u \in Nat, NEW c \in Nat
    PROVE  /\ ~Later(dir, v, a, v, a)
           /\ Later(dir, v, a, w, b) /\ Later(dir, w, b, u, c) => Later(dir, v, a, u, c)
           /\ a # b => Later(dir, v, a, w, b) \/ Later(dir, w, b, v, a)
           /\ ~(Later(dir, v, a, w, b) /\ Later(dir, w, b, v, a))
<1>1. CASE dir = "asc"
  BY <1>1 DEF Later, Farther
<1>2. CASE dir # "asc"
  BY <1>2 DEF Later, Farther
<1> QED BY <1>1, <1>2

AnySort == UNION {Pages!Sorted(list) : list \in Pages!Lists}
Walk == [list : Pages!Lists, sort : AnySort, step : {"first", "next", "done"}, page : Nat \ {0},
         cursor : [v : Nat, id : Nat], quiet : BOOLEAN, shown : [Ids -> 0 .. 2], stayed : SUBSET Ids]

PageShape ==
    /\ DOMAIN rows \subseteq Ids
    /\ \A r \in DOMAIN rows : rows[r] \in Pages!KeyValues(walk.sort.key)
    /\ walk \in Walk
    /\ walk.stayed \subseteq DOMAIN rows

\* The rows that come after the cursor.
RowsToCome == {r \in DOMAIN rows : Later(walk.sort.dir, walk.cursor.v, walk.cursor.id, rows[r], r)}

LEMMA RowsHaveValues ==
    ASSUME ListsAreSensible, PageShape, NEW r \in DOMAIN rows
    PROVE  r \in Nat /\ rows[r] \in Nat /\ (rows[r] = 0 => walk.sort.key = "price")
<1>1. r \in Nat /\ rows[r] \in Pages!KeyValues(walk.sort.key)
  BY DEF ListsAreSensible, PageShape
<1>2. CASE walk.sort.key = "price"
  <2>1. Pages!KeyValues(walk.sort.key) = Values \cup {0}
    BY <1>2 DEF Pages!KeyValues, Pages!Null
  <2>2. rows[r] \in Values \/ rows[r] = 0
    BY <1>1, <2>1
  <2>3. Values \subseteq Nat
    BY DEF ListsAreSensible
  <2>4. rows[r] \in Values => rows[r] \in Nat
    BY <2>3
  <2>5. rows[r] = 0 => rows[r] \in Nat
    OBVIOUS
  <2> QED
    BY <1>1, <1>2, <2>2, <2>4, <2>5
<1>3. CASE walk.sort.key # "price"
  BY <1>1, <1>3 DEF ListsAreSensible, Pages!KeyValues
<1> QED BY <1>2, <1>3

LEMMA RowsAreOrdered ==
    ASSUME ListsAreSensible, PageShape, NEW a \in DOMAIN rows, NEW b \in DOMAIN rows, NEW c \in DOMAIN rows
    PROVE  /\ a \in Nat /\ rows[a] \in Nat
           /\ Pages!Precedes(a, b) <=> Later(walk.sort.dir, rows[a], a, rows[b], b)
           /\ ~Pages!Precedes(a, a)
           /\ Pages!Precedes(a, b) /\ Pages!Precedes(b, c) => Pages!Precedes(a, c)
           /\ a # b => Pages!Precedes(a, b) \/ Pages!Precedes(b, a)
           /\ ~(Pages!Precedes(a, b) /\ Pages!Precedes(b, a))
<1>1. ASSUME NEW r \in DOMAIN rows PROVE r \in Nat /\ rows[r] \in Nat
  BY <1>1, RowsHaveValues
<1>2. ASSUME NEW r \in DOMAIN rows, NEW s \in DOMAIN rows
      PROVE  Pages!Precedes(r, s) <=> Later(walk.sort.dir, rows[r], r, rows[s], s)
  BY DEF Pages!Precedes, Pages!Beyond, Pages!Null, Later, Farther
<1>3. /\ a \in Nat /\ b \in Nat /\ c \in Nat
      /\ rows[a] \in Nat /\ rows[b] \in Nat /\ rows[c] \in Nat
  BY <1>1
<1> QED
  BY <1>2, <1>3, LaterIsAnOrder

\* The keyset predicate finds what comes after the cursor.
LEMMA AfterMeansComing ==
    ASSUME ListsAreSensible, PageShape, walk.step # "first"
    PROVE  Pages!AfterCursor = RowsToCome
<1>1. ASSUME NEW r \in DOMAIN rows PROVE rows[r] \in Nat /\ (rows[r] = 0 => walk.sort.key = "price")
  BY <1>1, RowsHaveValues
<1>2. walk.cursor.v \in Nat /\ walk.cursor.id \in Nat
  BY DEF PageShape, Walk
<1>3. ASSUME NEW r \in DOMAIN rows
      PROVE  r \in Pages!AfterCursor
               <=> Later(walk.sort.dir, walk.cursor.v, walk.cursor.id, rows[r], r)
  <2>1. CASE walk.cursor.v = 0
    BY <1>1, <2>1 DEF Pages!AfterCursor, Pages!Null, Pages!Beyond, Later, Farther
  <2>2. CASE walk.cursor.v # 0
    <3>1. r \in Pages!AfterCursor
            <=> \/ rows[r] # 0 /\ Pages!Beyond(walk.cursor.v, rows[r])
                \/ rows[r] = walk.cursor.v /\ Pages!Beyond(walk.cursor.id, r)
                \/ walk.sort.key = "price" /\ rows[r] = 0
      BY <2>2 DEF Pages!AfterCursor, Pages!Null, Pages!NullsToCome
    <3>2. Pages!Beyond(walk.cursor.v, walk.cursor.v) = FALSE
      BY <1>2 DEF Pages!Beyond
    <3> QED
      BY <1>1, <1>2, <2>2, <3>1, <3>2 DEF Pages!Beyond, Later, Farther
  <2> QED BY <2>1, <2>2
<1>4. Pages!AfterCursor \subseteq DOMAIN rows
  BY DEF Pages!AfterCursor, Pages!NullsToCome
<1> QED
  BY <1>3, <1>4 DEF RowsToCome

-----------------------------------------------------------------------------
(* A prefix of a list, by rank.                                            *)

Ahead(r, T) == {s \in T : Pages!Precedes(s, r)}
Rank(r, T) == Cardinality(Ahead(r, T))

LEMMA Prefix ==
    ASSUME NEW T, NEW n
    PROVE  Pages!FirstOf(T, n) = {r \in T : Rank(r, T) < n}
<1>1. \A S : Pages!Cardinality(S) = Cardinality(S)
  BY DEF Pages!Cardinality, Cardinality
<1> QED
  BY <1>1 DEF Pages!FirstOf, Rank, Ahead

LEMMA RanksAscend ==
    ASSUME ListsAreSensible, PageShape, NEW T \in SUBSET DOMAIN rows, NEW a \in T, NEW b \in T
    PROVE  /\ IsFiniteSet(T) /\ Cardinality(T) \in Nat
           /\ Rank(a, T) \in Nat /\ Rank(a, T) < Cardinality(T)
           /\ Pages!Precedes(a, b) <=> Rank(a, T) < Rank(b, T)
           /\ Rank(a, T) = Rank(b, T) => a = b
<1>1. IsFiniteSet(T)
  <2>1. T \subseteq Ids
    BY DEF PageShape
  <2> QED
    BY <2>1, FS_Subset DEF ListsAreSensible
<1>2. ASSUME NEW r \in T
      PROVE  IsFiniteSet(Ahead(r, T)) /\ Rank(r, T) \in Nat /\ Rank(r, T) < Cardinality(T)
  <2>1. Ahead(r, T) \in SUBSET T /\ r \notin Ahead(r, T)
    BY RowsAreOrdered DEF Ahead
  <2>2. IsFiniteSet(Ahead(r, T)) /\ Rank(r, T) <= Cardinality(T) /\ Rank(r, T) # Cardinality(T)
    BY <1>1, <2>1, FS_Subset DEF Rank
  <2>3. Rank(r, T) \in Nat /\ Cardinality(T) \in Nat
    BY <1>1, <2>2, FS_CardinalityType DEF Rank
  <2> QED
    BY <2>2, <2>3
<1>3. ASSUME NEW r \in T, NEW s \in T, Pages!Precedes(r, s)
      PROVE  Rank(r, T) < Rank(s, T)
  <2>1. Ahead(r, T) \in SUBSET Ahead(s, T) /\ r \in Ahead(s, T) /\ r \notin Ahead(r, T)
    BY <1>3, RowsAreOrdered DEF Ahead
  <2>2. Rank(r, T) <= Rank(s, T) /\ Rank(r, T) # Rank(s, T)
    BY <1>2, <2>1, FS_Subset DEF Rank
  <2> QED
    BY <1>2, <2>2
<1>4. a # b => Pages!Precedes(a, b) \/ Pages!Precedes(b, a)
  BY RowsAreOrdered
<1>5. /\ Rank(a, T) \in Nat /\ Rank(b, T) \in Nat
      /\ Pages!Precedes(a, b) => Rank(a, T) < Rank(b, T)
      /\ Pages!Precedes(b, a) => Rank(b, T) < Rank(a, T)
  BY <1>2, <1>3
<1>6. Cardinality(T) \in Nat /\ Rank(a, T) < Cardinality(T)
  BY <1>1, <1>2, FS_CardinalityType
<1> QED
  BY <1>1, <1>4, <1>5, <1>6

\* As many as are asked for, if there are.
LEMMA PrefixCounts ==
    ASSUME ListsAreSensible, PageShape, NEW T \in SUBSET DOMAIN rows, NEW n \in Nat
    PROVE  /\ IsFiniteSet(T) /\ Cardinality(T) \in Nat
           /\ n <= Cardinality(T) => Cardinality(Pages!FirstOf(T, n)) = n
           /\ Cardinality(T) <= n => Pages!FirstOf(T, n) = T
<1> DEFINE f == [r \in T |-> Rank(r, T)]
           Places == 0 .. Cardinality(T) - 1
           Image == {Rank(r, T) : r \in T}
<1>1. IsFiniteSet(T) /\ Cardinality(T) \in Nat
  <2>1. T \subseteq Ids
    BY DEF PageShape
  <2> QED
    BY <2>1, FS_Subset, FS_CardinalityType DEF ListsAreSensible
<1>2. ASSUME NEW r \in T PROVE Rank(r, T) \in Nat /\ Rank(r, T) < Cardinality(T)
  BY RanksAscend
<1>3. f \in Injection(T, Image) /\ f \in Surjection(T, Image)
  <2>1. \A r, s \in T : f[r] = f[s] => r = s
    BY RanksAscend
  <2> QED
    BY <2>1 DEF Injection, IsInjective, Surjection
<1>4. Cardinality(Image) = Cardinality(T)
  BY <1>1, <1>3, FS_Surjection
<1>5. IsFiniteSet(Places) /\ Cardinality(Places) = Cardinality(T)
  <2>1. PICK last \in Int : last = Cardinality(T) - 1
    BY <1>1
  <2>2. IsFiniteSet(0 .. last) /\ Cardinality(0 .. last) = IF 0 > last THEN 0 ELSE last - 0 + 1
    BY FS_Interval
  <2> QED
    BY <1>1, <2>1, <2>2
<1>6. Image \in SUBSET Places
  <2>1. \A r \in T : Rank(r, T) \in Places
    BY <1>1, <1>2
  <2> QED BY <2>1
<1>7. Image = Places
  BY <1>4, <1>5, <1>6, FS_Subset
<1>8. ASSUME n <= Cardinality(T) PROVE Cardinality(Pages!FirstOf(T, n)) = n
  <2> DEFINE P == Pages!FirstOf(T, n)
             Q == 0 .. n - 1
             g == [r \in P |-> Rank(r, T)]
  <2>1. P = {r \in T : Rank(r, T) < n}
    BY Prefix
  <2>2. \A r \in P : Rank(r, T) \in Q
    BY <1>2, <2>1
  <2>3. ASSUME NEW q \in Q PROVE \E r \in P : g[r] = q
    <3>1. q \in Places /\ q < n
      BY <1>1, <1>8
    <3>2. PICK r \in T : q = Rank(r, T)
      BY <1>7, <3>1
    <3> QED
      BY <2>1, <3>1, <3>2
  <2>4. \A r, s \in P : g[r] = g[s] => r = s
    BY <2>1, RanksAscend
  <2>5. IsFiniteSet(P)
    BY <1>1, <2>1, FS_Subset
  <2> HIDE DEF P, Q
  <2>6. g \in Injection(P, Q) /\ g \in Surjection(P, Q)
    BY <2>2, <2>3, <2>4 DEF Injection, IsInjective, Surjection
  <2>7. Cardinality(Q) = Cardinality(P)
    BY <2>5, <2>6, FS_Surjection
  <2>8. Cardinality(Q) = n
    <3>1. PICK last \in Int : last = n - 1
      OBVIOUS
    <3>2. Cardinality(0 .. last) = IF 0 > last THEN 0 ELSE last - 0 + 1
      BY FS_Interval
    <3> QED
      BY <3>1, <3>2 DEF Q
  <2> QED
    BY <2>7, <2>8 DEF P
<1>9. ASSUME Cardinality(T) <= n PROVE Pages!FirstOf(T, n) = T
  <2>1. \A r \in T : Rank(r, T) < n
    BY <1>1, <1>2, <1>9
  <2> QED
    BY <2>1, Prefix
<1> QED
  BY <1>1, <1>8, <1>9

\* A prefix of a prefix is one of the list.
LEMMA PrefixOfPrefix ==
    ASSUME ListsAreSensible, PageShape, NEW T \in SUBSET DOMAIN rows, NEW n \in Nat, NEW m \in Nat, n <= m
    PROVE  Pages!FirstOf(Pages!FirstOf(T, m), n) = Pages!FirstOf(T, n)
<1> DEFINE U == Pages!FirstOf(T, m)
<1>1. U = {r \in T : Rank(r, T) < m}
  BY Prefix
<1>2. ASSUME NEW r \in U PROVE Ahead(r, U) = Ahead(r, T)
  <2>1. ASSUME NEW s \in T, Pages!Precedes(s, r) PROVE s \in U
    BY <1>1, <1>2, <2>1, RanksAscend
  <2> QED
    BY <1>1, <2>1 DEF Ahead
<1>3. \A r \in U : Rank(r, U) = Rank(r, T)
  BY <1>2 DEF Rank
<1>4. \A r \in T : Rank(r, T) \in Nat
  BY RanksAscend
<1> HIDE DEF U
<1>5. Pages!FirstOf(U, n) = {r \in U : Rank(r, U) < n}
  BY Prefix
<1>6. Pages!FirstOf(T, n) = {r \in T : Rank(r, T) < n}
  BY Prefix
<1> QED
  BY <1>1, <1>3, <1>4, <1>5, <1>6 DEF U

\* What follows a prefix starts where it ends.
LEMMA PrefixOfRest ==
    ASSUME ListsAreSensible, PageShape, NEW T \in SUBSET DOMAIN rows, NEW n \in Nat, NEW m \in Nat
    PROVE  Pages!FirstOf(T \ Pages!FirstOf(T, m), n) = Pages!FirstOf(T, m + n) \ Pages!FirstOf(T, m)
<1> DEFINE U == Pages!FirstOf(T, m)
           V == T \ U
<1>1. U = {r \in T : Rank(r, T) < m}
  BY Prefix
<1>2. \A r \in T : Rank(r, T) \in Nat
  BY RanksAscend
<1>3. ASSUME NEW r \in V PROVE Rank(r, T) = m + Rank(r, V)
  <2>1. U \in SUBSET Ahead(r, T)
    <3>1. ASSUME NEW s \in U PROVE Pages!Precedes(s, r)
      <4>1. s \in T /\ r \in T /\ Rank(s, T) < Rank(r, T)
        BY <1>1, <1>2, <1>3
      <4> QED
        BY <4>1, RanksAscend
    <3> QED
      BY <1>1, <3>1 DEF Ahead
  <2>2. Ahead(r, V) = Ahead(r, T) \ U
    BY DEF Ahead
  <2>3. Cardinality(U) = m
    <3>1. Cardinality(T) \in Nat /\ Rank(r, T) < Cardinality(T) /\ ~(Rank(r, T) < m)
      BY <1>1, <1>3, RanksAscend
    <3>2. m <= Cardinality(T)
      BY <1>2, <1>3, <3>1
    <3> QED
      BY <3>2, PrefixCounts
  <2>4. IsFiniteSet(Ahead(r, T)) /\ Ahead(r, T) \cap U = U
    <3>1. IsFiniteSet(T)
      BY PrefixCounts
    <3> QED
      BY <2>1, <3>1, FS_Subset DEF Ahead
  <2> HIDE DEF U, V
  <2>5. Cardinality(Ahead(r, T) \ U) = Cardinality(Ahead(r, T)) - Cardinality(Ahead(r, T) \cap U)
    BY <2>4, FS_Difference
  <2>6. Rank(r, V) = Rank(r, T) - m
    BY <2>2, <2>3, <2>4, <2>5 DEF Rank
  <2>7. Rank(r, T) \in Nat
    BY <1>2, <1>3 DEF V
  <2> QED
    BY <2>6, <2>7
<1>4. V \in SUBSET DOMAIN rows
  OBVIOUS
<1>5. \A r \in V : Rank(r, V) \in Nat
  <2> HIDE DEF V
  <2> QED
    BY <1>4, RanksAscend
<1>6. Pages!FirstOf(V, n) = {r \in V : Rank(r, V) < n}
  BY Prefix
<1>7. Pages!FirstOf(T, m + n) = {r \in T : Rank(r, T) < m + n}
  BY Prefix
<1>8. \A r \in V : Rank(r, V) < n <=> Rank(r, T) < m + n
  BY <1>3, <1>5
<1> QED
  BY <1>6, <1>7, <1>8

-----------------------------------------------------------------------------
(* The walk.                                                               *)

Given(r) == IF r \in RowsToCome THEN 0 ELSE 1
Turned == Pages!FirstOf(DOMAIN rows, (walk.page - 1) * PageSize)

\* At first nothing has been shown.  A keyset walk has shown, of the rows that
\* stayed, those that its cursor has passed; pages by number, while nothing changes,
\* the rows of the pages turned.  A walk that is done has shown them all.
PageInv ==
    /\ PageShape
    /\ walk.step = "first" =>
          walk.page = 1 /\ walk.stayed = DOMAIN rows /\ \A r \in Ids : walk.shown[r] = 0
    /\ walk.list.style = "keyset" /\ walk.step = "next" =>
          \A r \in walk.stayed : walk.shown[r] = Given(r)
    /\ walk.list.style = "offset" /\ walk.quiet =>
          /\ walk.stayed = DOMAIN rows
          /\ walk.step = "next" =>
                \A r \in DOMAIN rows : walk.shown[r] = IF r \in Turned THEN 1 ELSE 0
    /\ (walk.list.style = "keyset" \/ walk.quiet) /\ walk.step = "done" =>
          \A r \in walk.stayed : walk.shown[r] = 1

LEMMA ListsHaveStyles ==
    ASSUME NEW list \in Pages!Lists
    PROVE  list.style \in {"keyset", "offset"}
BY DEF Pages!Lists, Pages!PackHistory, Pages!WalletPage, Pages!AuditList, Pages!TradeInbox,
       Pages!AdminTrades, Pages!NotificationList, Pages!InventoryList, Pages!SearchCards,
       Pages!AdminUserList, Pages!List

LEMMA WalkAtFirst ==
    ASSUME ListsAreSensible, Pages!Init
    PROVE  PageInv
<1>1. PICK list \in Pages!Lists : \E sort \in Pages!Sorted(list) :
         /\ \E R \in SUBSET Ids : rows \in [R -> Pages!KeyValues(sort.key)]
         /\ walk = [list |-> list, sort |-> sort, step |-> "first", page |-> 1,
                    cursor |-> [v |-> Pages!Null, id |-> 0], quiet |-> TRUE,
                    shown |-> [r \in Ids |-> 0], stayed |-> DOMAIN rows]
  BY DEF Pages!Init
<1>2. PICK sort \in Pages!Sorted(list) :
         /\ \E R \in SUBSET Ids : rows \in [R -> Pages!KeyValues(sort.key)]
         /\ walk = [list |-> list, sort |-> sort, step |-> "first", page |-> 1,
                    cursor |-> [v |-> Pages!Null, id |-> 0], quiet |-> TRUE,
                    shown |-> [r \in Ids |-> 0], stayed |-> DOMAIN rows]
  BY <1>1
<1>3. PICK R \in SUBSET Ids : rows \in [R -> Pages!KeyValues(sort.key)]
  BY <1>2
<1>4. DOMAIN rows \in SUBSET Ids
  BY <1>3
<1>5. sort \in AnySort
  BY DEF AnySort
<1>6. walk \in Walk
  <2>1. [v |-> Pages!Null, id |-> 0] \in [v : Nat, id : Nat]
    BY DEF Pages!Null
  <2>2. [r \in Ids |-> 0] \in [Ids -> 0 .. 2]
    OBVIOUS
  <2>3. 1 \in Nat \ {0} /\ TRUE \in BOOLEAN
    OBVIOUS
  <2> QED
    BY <1>2, <1>4, <1>5, <2>1, <2>2, <2>3 DEF Walk
<1>7. /\ walk.step = "first" /\ walk.page = 1 /\ walk.stayed = DOMAIN rows /\ walk.sort = sort
      /\ \A r \in Ids : walk.shown[r] = 0
  BY <1>2
<1> QED
  BY <1>3, <1>4, <1>6, <1>7 DEF PageInv, PageShape

\* What the turn of a page changes.
LEMMA ShowMoves ==
    ASSUME PageShape, NEW page, NEW cursor \in [v : Nat, id : Nat], NEW more \in BOOLEAN,
           Pages!Show(page, cursor, more), rows' = rows
    PROVE  /\ PageShape'
           /\ walk'.list = walk.list /\ walk'.sort = walk.sort /\ walk'.quiet = walk.quiet
           /\ walk'.stayed = walk.stayed /\ walk'.cursor = cursor
           /\ walk'.step = IF more THEN "next" ELSE "done"
           /\ walk'.page = IF walk.list.style = "offset" THEN walk.page + 1 ELSE 1
           /\ \A r \in Ids : walk'.shown[r] = IF r \in page /\ walk.shown[r] < 2
                                              THEN walk.shown[r] + 1 ELSE walk.shown[r]
<1> DEFINE shown == [r \in Ids |-> IF r \in page /\ walk.shown[r] < 2 THEN walk.shown[r] + 1
                                   ELSE walk.shown[r]]
           turn == IF walk.list.style = "offset" THEN walk.page + 1 ELSE 1
           step == IF more THEN "next" ELSE "done"
<1>1. walk \in Walk
  BY DEF PageShape
<1>2. shown \in [Ids -> 0 .. 2]
  <2>1. ASSUME NEW r \in Ids PROVE shown[r] \in 0 .. 2
    <3>1. walk.shown[r] \in 0 .. 2
      BY <1>1 DEF Walk
    <3> QED BY <3>1
  <2> QED BY <2>1
<1>3. turn \in Nat \ {0} /\ step \in {"first", "next", "done"}
  BY <1>1 DEF Walk
<1>4. walk' = [walk EXCEPT !.shown = shown, !.page = turn, !.cursor = cursor, !.step = step]
  BY DEF Pages!Show
<1>5. \A r \in Ids : shown[r] = IF r \in page /\ walk.shown[r] < 2 THEN walk.shown[r] + 1
                                ELSE walk.shown[r]
  OBVIOUS
<1>6. /\ turn = IF walk.list.style = "offset" THEN walk.page + 1 ELSE 1
      /\ step = IF more THEN "next" ELSE "done"
  OBVIOUS
<1> HIDE DEF shown, turn, step
<1>7. walk' \in Walk
  BY <1>1, <1>2, <1>3, <1>4 DEF Walk
<1>8. /\ walk'.list = walk.list /\ walk'.sort = walk.sort /\ walk'.quiet = walk.quiet
      /\ walk'.stayed = walk.stayed /\ walk'.cursor = cursor /\ walk'.step = step
      /\ walk'.page = turn /\ walk'.shown = shown
  BY <1>1, <1>4 DEF Walk
<1>9. PageShape'
  BY <1>7, <1>8 DEF PageShape, Walk, AnySort, Pages!Lists, Pages!Sorted, Pages!KeyValues,
     Pages!PackHistory, Pages!WalletPage, Pages!AuditList, Pages!TradeInbox, Pages!AdminTrades,
     Pages!NotificationList, Pages!InventoryList, Pages!SearchCards, Pages!AdminUserList, Pages!List
<1> QED
  BY <1>5, <1>6, <1>8, <1>9

\* A row that stays is on a keyset page when the cursor passes it.
LEMMA KeysetTurns ==
    ASSUME ListsAreSensible, PageInv, Pages!KeysetPage
    PROVE  PageInv'
<1> DEFINE T == Pages!AfterCursor
           found == Pages!FirstOf(T, PageSize + 1)
           page == Pages!FirstOf(found, PageSize)
           more == found # page
           last == CHOOSE r \in page : \A s \in page \ {r} : Pages!Precedes(s, r)
           cursor == IF more THEN [v |-> rows[last], id |-> last] ELSE walk.cursor
<1>1. /\ walk.list.style = "keyset" /\ walk.step # "done" /\ rows' = rows
      /\ Pages!Show(page, cursor, more)
  BY DEF Pages!KeysetPage
<1>2. PageShape
  BY DEF PageInv
<1>3. T \in SUBSET DOMAIN rows
  BY DEF Pages!AfterCursor, Pages!NullsToCome
<1>4. PageSize \in Nat /\ PageSize > 0 /\ PageSize + 1 \in Nat
  BY DEF ListsAreSensible
<1>5. page = Pages!FirstOf(T, PageSize) /\ page = {r \in T : Rank(r, T) < PageSize}
  BY <1>2, <1>3, <1>4, PrefixOfPrefix, Prefix
<1>6. page \in SUBSET T
  BY <1>5
<1>7. ~more => page = T
  <2>1. Cardinality(T) \in Nat
    BY <1>2, <1>3, <1>4, PrefixCounts
  <2>2. CASE Cardinality(T) <= PageSize
    BY <1>2, <1>3, <1>4, <1>5, <2>2, PrefixCounts
  <2>3. CASE PageSize + 1 <= Cardinality(T)
    <3>1. Cardinality(Pages!FirstOf(T, PageSize)) = PageSize
      BY <1>2, <1>3, <1>4, <2>1, <2>3, PrefixCounts
    <3>2. Cardinality(found) = PageSize + 1
      BY <1>2, <1>3, <1>4, <2>3, PrefixCounts
    <3> QED
      BY <1>4, <1>5, <3>1, <3>2
  <2> QED
    BY <1>4, <2>1, <2>2, <2>3
<1>8. ASSUME more
      PROVE  last \in page /\ \A s \in page \ {last} : Pages!Precedes(s, last)
  <2>1. page # {}
    <3>1. T # {}
      BY <1>6, <1>8, Prefix
    <3>2. Cardinality(T) \in Nat /\ IsFiniteSet(T)
      BY <1>2, <1>3, <1>4, PrefixCounts
    <3>3. CASE Cardinality(T) <= PageSize
      BY <1>2, <1>3, <1>4, <1>5, <3>1, <3>3, PrefixCounts
    <3>4. CASE PageSize <= Cardinality(T)
      <4>1. Cardinality(page) = PageSize
        BY <1>2, <1>3, <1>4, <1>5, <3>4, PrefixCounts
      <4> QED
        BY <1>4, <4>1, FS_EmptySet
    <3> QED
      BY <1>4, <3>2, <3>3, <3>4
  <2> DEFINE R == {p \in page \X page : Pages!Precedes(p[2], p[1])}
  <2>2. \A a, b \in page : <<a, b>> \in R <=> Pages!Precedes(b, a)
    OBVIOUS
  <2>3. IsFiniteSet(page)
    <3>1. IsFiniteSet(T)
      BY <1>2, <1>3, <1>4, PrefixCounts
    <3> QED
      BY <1>6, <3>1, FS_Subset
  <2>4. page \subseteq DOMAIN rows
    BY <1>3, <1>6
  <2> HIDE DEF R, page
  <2>5. /\ \A a, b \in page : a = b \/ <<a, b>> \in R \/ <<b, a>> \in R
        /\ \A a, b, c \in page : <<a, b>> \in R /\ <<b, c>> \in R => <<a, c>> \in R
    BY <1>2, <2>2, <2>4, RowsAreOrdered
  <2>6. PICK m \in page : \A s \in page : s = m \/ <<m, s>> \in R
    BY <2>1, <2>3, <2>5, OrderHasLeast
  <2>7. \A s \in page \ {m} : Pages!Precedes(s, m)
    BY <2>2, <2>6
  <2> QED
    BY <2>7
<1>9. cursor \in [v : Nat, id : Nat] /\ more \in BOOLEAN
  <2>1. CASE more
    <3>1. last \in DOMAIN rows
      BY <1>3, <1>6, <1>8, <2>1
    <3>2. rows[last] \in Nat /\ last \in Nat
      BY <1>2, <3>1, RowsHaveValues
    <3> HIDE DEF more, last
    <3> QED
      BY <2>1, <3>2 DEF more
  <2>2. CASE ~more
    <3> HIDE DEF more, last
    <3> QED
      BY <1>2, <2>2 DEF PageShape, Walk, more
  <2> QED BY <2>1, <2>2
\* The rows that are yet to come are those of before without the page.
<1>10. ASSUME more, NEW r \in DOMAIN rows
       PROVE  Later(walk.sort.dir, rows[last], last, rows[r], r) <=> r \in T \ page
  <2>1. last \in page /\ last \in T /\ last \in DOMAIN rows
    BY <1>3, <1>6, <1>8, <1>10
  <2>2. Later(walk.sort.dir, rows[last], last, rows[r], r) <=> Pages!Precedes(last, r)
    BY <1>2, <1>10, <2>1, RowsAreOrdered
  <2>3. Pages!Precedes(last, r) => r \in T
    <3>1. CASE walk.step = "first"
      BY <3>1 DEF Pages!AfterCursor
    <3>2. CASE walk.step # "first"
      <4>1. T = RowsToCome
        BY <1>2, <3>2, AfterMeansComing
      <4>2. Later(walk.sort.dir, walk.cursor.v, walk.cursor.id, rows[last], last)
        BY <2>1, <4>1 DEF RowsToCome
      <4>3. /\ walk.cursor.v \in Nat /\ walk.cursor.id \in Nat
            /\ rows[last] \in Nat /\ last \in Nat /\ rows[r] \in Nat /\ r \in Nat
        BY <1>2, <1>10, <2>1, RowsHaveValues DEF PageShape, Walk
      <4>4. Pages!Precedes(last, r) =>
               Later(walk.sort.dir, walk.cursor.v, walk.cursor.id, rows[r], r)
        BY <2>2, <4>2, <4>3, LaterIsAnOrder
      <4> QED
        BY <1>10, <4>1, <4>4 DEF RowsToCome
    <3> QED BY <3>1, <3>2
  <2>4. Pages!Precedes(last, r) => r \notin page
    BY <1>2, <1>3, <1>6, <1>8, <1>10, <2>1, RowsAreOrdered
  <2>5. r \in T \ page => Pages!Precedes(last, r)
    <3>1. ASSUME r \in T \ page PROVE Rank(last, T) < Rank(r, T)
      <4>1. Rank(last, T) < PageSize /\ ~(Rank(r, T) < PageSize)
        BY <1>5, <2>1, <3>1
      <4>2. Rank(last, T) \in Nat /\ Rank(r, T) \in Nat
        BY <1>2, <1>3, <2>1, <3>1, RanksAscend
      <4> QED
        BY <1>4, <4>1, <4>2
    <3> QED
      BY <1>2, <1>3, <2>1, <3>1, RanksAscend
  <2> QED
    BY <2>2, <2>3, <2>4, <2>5
<1>11. ASSUME NEW r \in walk.stayed
       PROVE  r \in Ids /\ r \in DOMAIN rows /\ walk.shown[r] = IF r \in T THEN 0 ELSE 1
  <2>1. r \in Ids /\ r \in DOMAIN rows
    BY <1>2 DEF PageShape
  <2>2. CASE walk.step = "first"
    BY <2>1, <2>2 DEF PageInv, Pages!AfterCursor
  <2>3. CASE walk.step # "first"
    <3>1. T = RowsToCome /\ walk.step = "next"
      BY <1>1, <1>2, <2>3, AfterMeansComing DEF PageShape, Walk
    <3> QED
      BY <1>1, <2>1, <3>1 DEF PageInv, Given
  <2> QED BY <2>1, <2>2, <2>3
<1> HIDE DEF T, found, page, more, last
<1>12. /\ PageShape'
       /\ walk'.list = walk.list /\ walk'.sort = walk.sort /\ walk'.quiet = walk.quiet
       /\ walk'.stayed = walk.stayed /\ walk'.cursor = cursor
       /\ walk'.step = IF more THEN "next" ELSE "done"
       /\ \A r \in Ids : walk'.shown[r] = IF r \in page /\ walk.shown[r] < 2
                                          THEN walk.shown[r] + 1 ELSE walk.shown[r]
  <2> HIDE DEF cursor
  <2> QED
    BY <1>1, <1>2, <1>9, ShowMoves
<1>13. ASSUME NEW r \in walk.stayed
       PROVE  walk'.shown[r] = IF r \in T \ page THEN 0 ELSE 1
  <2>1. walk'.shown[r] = IF r \in page /\ walk.shown[r] < 2 THEN walk.shown[r] + 1 ELSE walk.shown[r]
    BY <1>11, <1>12
  <2>2. walk.shown[r] = IF r \in T THEN 0 ELSE 1
    BY <1>11
  <2> QED
    BY <1>6, <2>1, <2>2
<1>14. CASE more
  <2>1. walk'.step = "next" /\ cursor = [v |-> rows[last], id |-> last]
    BY <1>12, <1>14
  <2>2. ASSUME NEW r \in DOMAIN rows PROVE (r \in RowsToCome)' <=> r \in T \ page
    <3>1. walk'.cursor.v = rows[last] /\ walk'.cursor.id = last
      BY <1>12, <2>1
    <3>2. (r \in RowsToCome)' <=> Later(walk.sort.dir, rows[last], last, rows[r], r)
      BY <1>1, <1>12, <3>1 DEF RowsToCome, Later, Farther
    <3> QED
      BY <1>10, <1>14, <3>2
  <2>3. \A r \in walk'.stayed : walk'.shown[r] = Given(r)'
    <3>1. ASSUME NEW r \in walk.stayed PROVE walk'.shown[r] = Given(r)'
      BY <1>11, <1>13, <2>2 DEF Given
    <3> QED
      BY <1>12, <3>1
  <2> QED
    BY <1>1, <1>12, <2>1, <2>3 DEF PageInv
<1>15. CASE ~more
  <2>1. walk'.step = "done" /\ page = T
    BY <1>7, <1>12, <1>15
  <2>2. \A r \in walk'.stayed : walk'.shown[r] = 1
    BY <1>12, <1>13, <2>1
  <2> QED
    BY <1>1, <1>12, <2>1, <2>2 DEF PageInv
<1> QED
  BY <1>14, <1>15

\* A page by number shows the next of an unchanged list.
LEMMA OffsetTurns ==
    ASSUME ListsAreSensible, PageInv, Pages!OffsetPage
    PROVE  PageInv'
<1> DEFINE D == DOMAIN rows
           page == Pages!FirstOf(D \ Turned, PageSize)
           more == walk.page * PageSize < Pages!Cardinality(D)
<1>1. /\ walk.list.style = "offset" /\ walk.step # "done" /\ rows' = rows
      /\ Pages!Show(page, walk.cursor, more)
  BY DEF Pages!OffsetPage, Pages!Skipped, Turned
<1>2. PageShape
  BY DEF PageInv
<1>3. walk.cursor \in [v : Nat, id : Nat] /\ more \in BOOLEAN
  BY <1>2 DEF PageShape, Walk
<1>4. /\ PageShape'
      /\ walk'.list = walk.list /\ walk'.sort = walk.sort /\ walk'.quiet = walk.quiet
      /\ walk'.stayed = walk.stayed
      /\ walk'.step = IF more THEN "next" ELSE "done"
      /\ walk'.page = walk.page + 1
      /\ \A r \in Ids : walk'.shown[r] = IF r \in page /\ walk.shown[r] < 2
                                         THEN walk.shown[r] + 1 ELSE walk.shown[r]
  <2> HIDE DEF page, more
  <2> QED
    BY <1>1, <1>2, <1>3, ShowMoves
<1>5. CASE ~walk.quiet
  BY <1>1, <1>4, <1>5 DEF PageInv
<1>6. CASE walk.quiet
  <2> DEFINE m == (walk.page - 1) * PageSize
  <2>1. walk.page \in Nat /\ walk.page > 0 /\ PageSize \in Nat /\ PageSize > 0
    BY <1>2 DEF PageShape, Walk, ListsAreSensible
  <2>2. m \in Nat /\ m + PageSize = walk.page * PageSize
    <3>1. PICK n \in Nat : n = walk.page - 1
      BY <2>1
    <3>2. n * PageSize \in Nat /\ (n + 1) * PageSize = n * PageSize + PageSize
      BY <2>1, <3>1
    <3> QED
      BY <2>1, <3>1, <3>2
  <2>3. D \in SUBSET DOMAIN rows /\ D \subseteq Ids
    BY <1>2 DEF PageShape
  <2>4. Turned = Pages!FirstOf(D, m)
    BY DEF Turned
  <2> HIDE DEF m
  <2>5. page = Pages!FirstOf(D, m + PageSize) \ Turned
    BY <1>2, <2>1, <2>2, <2>3, <2>4, PrefixOfRest
  <2>6. Turned \subseteq Pages!FirstOf(D, m + PageSize)
    <3>1. \A r \in D : Rank(r, D) \in Nat
      BY <1>2, <2>3, RanksAscend
    <3> QED
      BY <2>1, <2>2, <2>4, <3>1, Prefix
  <2>7. walk.stayed = D /\ \A r \in D : walk.shown[r] = IF r \in Turned THEN 1 ELSE 0
    <3>1. walk.stayed = D
      BY <1>1, <1>6 DEF PageInv
    <3>2. CASE walk.step = "first"
      <4>1. m = 0 /\ \A r \in Ids : walk.shown[r] = 0
        BY <2>1, <3>2 DEF PageInv, m
      <4>2. Turned = {}
        <5>1. \A r \in D : Rank(r, D) \in Nat
          BY <1>2, <2>3, RanksAscend
        <5> QED
          BY <2>4, <4>1, <5>1, Prefix
      <4> QED
        BY <2>3, <3>1, <4>1, <4>2
    <3>3. CASE walk.step = "next"
      BY <1>1, <1>6, <3>1, <3>3 DEF PageInv
    <3> QED
      BY <1>1, <1>2, <3>2, <3>3 DEF PageShape, Walk
  <2> HIDE DEF page, more
  <2>8. ASSUME NEW r \in D
        PROVE  walk'.shown[r] = IF r \in Pages!FirstOf(D, m + PageSize) THEN 1 ELSE 0
    <3>1. walk'.shown[r] = IF r \in page /\ walk.shown[r] < 2 THEN walk.shown[r] + 1 ELSE walk.shown[r]
      BY <1>4, <2>3
    <3>2. walk.shown[r] = IF r \in Turned THEN 1 ELSE 0
      BY <2>7
    <3> QED
      BY <2>5, <2>6, <3>1, <3>2
  <2>9. Turned' = Pages!FirstOf(D, m + PageSize)
    <3>1. walk'.page - 1 = walk.page
      BY <1>4, <2>1
    <3>2. (walk'.page - 1) * PageSize = m + PageSize
      BY <2>2, <3>1
    <3>3. \A a, b \in D : Pages!Precedes(a, b)' <=> Pages!Precedes(a, b)
      BY <1>1, <1>4 DEF Pages!Precedes, Pages!Beyond
    <3>4. ASSUME NEW r \in D PROVE {s \in D : Pages!Precedes(s, r)'} = {s \in D : Pages!Precedes(s, r)}
      BY <3>3, <3>4
    <3>5. Turned' = {r \in D : Pages!Cardinality({s \in D : Pages!Precedes(s, r)'}) < m + PageSize}
      BY <1>1, <3>2 DEF Turned, Pages!FirstOf
    <3>6. Pages!FirstOf(D, m + PageSize)
            = {r \in D : Pages!Cardinality({s \in D : Pages!Precedes(s, r)}) < m + PageSize}
      BY DEF Pages!FirstOf
    <3> QED
      BY <3>4, <3>5, <3>6
  <2>10. ~more => \A r \in D : r \in Pages!FirstOf(D, m + PageSize)
    <3>1. Pages!Cardinality(D) = Cardinality(D)
      BY DEF Pages!Cardinality, Cardinality
    <3>2. Cardinality(D) \in Nat /\ m + PageSize \in Nat
      BY <1>2, <2>1, <2>2, <2>3, PrefixCounts
    <3>3. ~more => Cardinality(D) <= m + PageSize
      BY <2>2, <3>1, <3>2 DEF more
    <3> QED
      BY <1>2, <2>3, <3>2, <3>3, PrefixCounts
  <2>11. walk'.stayed = DOMAIN rows' /\ walk'.quiet /\ walk'.list.style = "offset"
    BY <1>1, <1>4, <1>6, <2>7
  <2>12. CASE more
    <3>1. walk'.step = "next"
      BY <1>4, <2>12
    <3>2. \A r \in DOMAIN rows' : walk'.shown[r] = IF r \in Turned' THEN 1 ELSE 0
      BY <1>1, <2>8, <2>9
    <3> QED
      BY <1>4, <2>11, <3>1, <3>2 DEF PageInv
  <2>13. CASE ~more
    <3>1. walk'.step = "done"
      BY <1>4, <2>13
    <3>2. \A r \in walk'.stayed : walk'.shown[r] = 1
      BY <1>1, <2>8, <2>10, <2>11, <2>13
    <3> QED
      BY <1>4, <2>11, <3>1, <3>2 DEF PageInv
  <2> QED BY <2>12, <2>13
<1> QED BY <1>5, <1>6

\* Rows that come, leave or move under the walk: for those that stay nothing changes.
LEMMA UnsettledWalk ==
    ASSUME ListsAreSensible, PageInv, NEW S, Pages!Unsettle(S), walk.step # "done",
           DOMAIN rows' \subseteq Ids,
           \A r \in DOMAIN rows' : rows'[r] \in Pages!KeyValues(walk.sort.key),
           \A r \in DOMAIN rows \ S : r \in DOMAIN rows' /\ rows'[r] = rows[r]
    PROVE  PageInv'
<1> DEFINE stays == IF walk.step = "first" THEN DOMAIN rows' ELSE walk.stayed \ S
           still == walk.quiet /\ walk.step = "first"
<1>1. walk \in Walk /\ walk.stayed \subseteq DOMAIN rows /\ PageShape
  BY DEF PageInv, PageShape
<1>2. walk' = [walk EXCEPT !.quiet = still, !.stayed = stays]
  BY DEF Pages!Unsettle
<1>3. stays \in SUBSET Ids /\ still \in BOOLEAN
  BY <1>1 DEF PageShape
<1>4. stays \subseteq DOMAIN rows'
  BY <1>1
<1>5. /\ walk.step = "first" => stays = DOMAIN rows'
      /\ walk.step # "first" => stays = walk.stayed \ S /\ ~still
  OBVIOUS
<1> HIDE DEF stays, still
<1>6. walk' \in Walk
  BY <1>1, <1>2, <1>3 DEF Walk
<1>7. /\ walk'.list = walk.list /\ walk'.sort = walk.sort /\ walk'.step = walk.step
      /\ walk'.page = walk.page /\ walk'.cursor = walk.cursor /\ walk'.shown = walk.shown
      /\ walk'.stayed = stays /\ walk'.quiet = still
  BY <1>1, <1>2 DEF Walk
<1>8. PageShape'
  BY <1>4, <1>6, <1>7 DEF PageShape, Walk, AnySort, Pages!Lists, Pages!Sorted, Pages!KeyValues,
     Pages!PackHistory, Pages!WalletPage, Pages!AuditList, Pages!TradeInbox, Pages!AdminTrades,
     Pages!NotificationList, Pages!InventoryList, Pages!SearchCards, Pages!AdminUserList, Pages!List
<1>9. CASE walk.step = "first"
  <2>1. walk.page = 1 /\ \A r \in Ids : walk.shown[r] = 0
    BY <1>9 DEF PageInv
  <2> QED
    BY <1>5, <1>7, <1>8, <1>9, <2>1 DEF PageInv
<1>10. CASE walk.step = "next"
  <2>1. ~walk'.quiet /\ walk'.step = "next" /\ walk'.stayed = walk.stayed \ S
    BY <1>5, <1>7, <1>10
  <2>2. ASSUME walk.list.style = "keyset", NEW r \in walk.stayed \ S
        PROVE  walk'.shown[r] = Given(r)'
    <3>1. r \in DOMAIN rows /\ r \in DOMAIN rows' /\ rows'[r] = rows[r]
      BY <1>1, <2>2
    <3>2. (r \in RowsToCome)' <=> r \in RowsToCome
      BY <1>7, <3>1 DEF RowsToCome, Later, Farther
    <3>3. walk.shown[r] = Given(r)
      BY <1>10, <2>2 DEF PageInv
    <3> QED
      BY <1>7, <3>2, <3>3 DEF Given
  <2> QED
    BY <1>7, <1>8, <2>1, <2>2 DEF PageInv
<1> QED
  BY <1>1, <1>9, <1>10 DEF Walk

LEMMA WalkStays ==
    ASSUME ListsAreSensible, PageInv, [Pages!Next]_(Pages!gvars)
    PROVE  PageInv'
<1>1. CASE UNCHANGED Pages!gvars
  <2>1. rows' = rows /\ walk' = walk
    BY <1>1 DEF Pages!gvars
  <2>2. PageShape'
    BY <2>1 DEF PageInv, PageShape, Walk, AnySort, Pages!Lists, Pages!Sorted, Pages!KeyValues,
       Pages!PackHistory, Pages!WalletPage, Pages!AuditList, Pages!TradeInbox, Pages!AdminTrades,
       Pages!NotificationList, Pages!InventoryList, Pages!SearchCards, Pages!AdminUserList, Pages!List
  <2>3. RowsToCome' = RowsToCome /\ Turned' = Turned
    BY <2>1 DEF RowsToCome, Later, Farther, Turned, Pages!FirstOf, Pages!Precedes, Pages!Beyond
  <2> QED
    BY <2>1, <2>2, <2>3 DEF PageInv, Given
<1>2. CASE Pages!KeysetPage
  BY <1>2, KeysetTurns
<1>3. CASE Pages!OffsetPage
  BY <1>3, OffsetTurns
<1>4. CASE Pages!Insert
  <2>1. PICK r \in Ids \ (DOMAIN rows \cup gone) : \E v \in Pages!KeyValues(walk.sort.key) :
           rows' = [s \in DOMAIN rows \cup {r} |-> IF s = r THEN v ELSE rows[s]]
    BY <1>4 DEF Pages!Insert
  <2>2. PICK v \in Pages!KeyValues(walk.sort.key) :
           rows' = [s \in DOMAIN rows \cup {r} |-> IF s = r THEN v ELSE rows[s]]
    BY <2>1
  <2>3. DOMAIN rows \subseteq Ids /\ \A s \in DOMAIN rows : rows[s] \in Pages!KeyValues(walk.sort.key)
    BY DEF PageInv, PageShape
  <2>4. /\ DOMAIN rows' \subseteq Ids
        /\ \A s \in DOMAIN rows' : rows'[s] \in Pages!KeyValues(walk.sort.key)
        /\ \A s \in DOMAIN rows \ {} : s \in DOMAIN rows' /\ rows'[s] = rows[s]
    BY <2>2, <2>3
  <2>5. Pages!Unsettle({}) /\ walk.step # "done"
    BY <1>4 DEF Pages!Insert
  <2> QED
    BY <2>4, <2>5, UnsettledWalk
<1>5. CASE Pages!LeaveScope
  <2>1. PICK r \in DOMAIN rows :
           rows' = [s \in DOMAIN rows \ {r} |-> rows[s]] /\ Pages!Unsettle({r})
    BY <1>5 DEF Pages!LeaveScope
  <2>2. /\ DOMAIN rows' \subseteq Ids
        /\ \A s \in DOMAIN rows' : rows'[s] \in Pages!KeyValues(walk.sort.key)
        /\ \A s \in DOMAIN rows \ {r} : s \in DOMAIN rows' /\ rows'[s] = rows[s]
    BY <2>1 DEF PageInv, PageShape
  <2>3. walk.step # "done"
    BY <1>5 DEF Pages!LeaveScope
  <2> QED
    BY <2>1, <2>2, <2>3, UnsettledWalk
<1>6. CASE Pages!MoveRow
  <2>1. PICK r \in DOMAIN rows : \E v \in Pages!KeyValues(walk.sort.key) \ {Pages!Null} :
           v # rows[r] /\ rows' = [rows EXCEPT ![r] = v] /\ Pages!Unsettle({r})
    BY <1>6 DEF Pages!MoveRow
  <2>2. PICK v \in Pages!KeyValues(walk.sort.key) :
           rows' = [rows EXCEPT ![r] = v] /\ Pages!Unsettle({r})
    BY <2>1
  <2>3. /\ DOMAIN rows' \subseteq Ids
        /\ \A s \in DOMAIN rows' : rows'[s] \in Pages!KeyValues(walk.sort.key)
        /\ \A s \in DOMAIN rows \ {r} : s \in DOMAIN rows' /\ rows'[s] = rows[s]
    BY <2>2 DEF PageInv, PageShape
  <2>4. walk.step # "done"
    BY <1>6 DEF Pages!MoveRow
  <2> QED
    BY <2>2, <2>3, <2>4, UnsettledWalk
<1> QED
  BY <1>1, <1>2, <1>3, <1>4, <1>5, <1>6 DEF Pages!Next

\* Of any list the API pages, with any number of rows and any size of page: a row
\* that stays where it is from the first page to the last is shown once, whatever is
\* inserted, leaves or moves around it under a keyset (afterCursor, its ties and its
\* prices that are null included), and while nothing changes under a page number.
THEOREM StayingRowsAreShown ==
    ASSUME ListsAreSensible
    PROVE  Pages!Spec => []Pages!RowsThatStayAreShownOnce
<1>1. Pages!Init => PageInv
  BY WalkAtFirst
<1>2. PageInv /\ [Pages!Next]_(Pages!gvars) => PageInv'
  BY WalkStays
<1>3. PageInv => Pages!RowsThatStayAreShownOnce
  <2> SUFFICES ASSUME PageInv, walk.list.style = "keyset" \/ walk.quiet, NEW r \in walk.stayed
               PROVE  walk.shown[r] <= 1 /\ (walk.step = "done" => walk.shown[r] = 1)
    BY DEF Pages!RowsThatStayAreShownOnce
  <2>1. r \in Ids /\ r \in DOMAIN rows /\ walk \in Walk
    BY DEF PageInv, PageShape
  <2>2. walk.list.style \in {"keyset", "offset"} /\ walk.step \in {"first", "next", "done"}
    BY <2>1, ListsHaveStyles DEF Walk
  <2>3. CASE walk.step = "first"
    BY <2>1, <2>3 DEF PageInv
  <2>4. CASE walk.step = "next"
    <3>1. walk.shown[r] = 0 \/ walk.shown[r] = 1
      BY <2>1, <2>2, <2>4 DEF PageInv, Given
    <3> QED
      BY <2>4, <3>1
  <2>5. CASE walk.step = "done"
    BY <2>5 DEF PageInv
  <2> QED BY <2>2, <2>3, <2>4, <2>5
<1> QED
  BY <1>1, <1>2, <1>3, PTL DEF Pages!Spec

-----------------------------------------------------------------------------
-----------------------------------------------------------------------------
(* One trade's page.                                                       *)

CONSTANTS MaxAnswers, MaxFaults, None
VARIABLES role, trade, spent, rereading, onPage, choice, answer, check, refusal, elsewhere, answers,
          losses, outcome, mine, crossed, missed

Offer == INSTANCE TradePage WITH
    fetch <- rereading, shown <- onPage, asking <- choice, others <- elsewhere, faults <- losses

Statuses == {"PENDING", "ACCEPTED", "DECLINED", "COUNTERED", "CANCELLED", "VOIDED"}
Doings == Offer!Actions \cup {"propose"}
StatusOf(last) == IF last = "propose" THEN "PENDING" ELSE Offer!Leaves(last)
Told == [row : Statuses, last : Doings, countered : BOOLEAN]
Readings == [row : Statuses \cup {None}, last : Doings \cup {None}, countered : BOOLEAN \cup {None}]

\* What is not there is none of the values that may be.
NothingIsSomething ==
    /\ None \notin Statuses \cup Doings \cup BOOLEAN \cup {"yes", "no"}
    /\ None \notin Readings

\* A status was the trade's at or before its last action.
Upto(status, last) ==
    \/ status = "PENDING"
    \/ status = "ACCEPTED" /\ last = "void"
    \/ status = StatusOf(last)

Doing == [status : Statuses, last : Doings, countered : BOOLEAN]
Answering == [step : {"idle", "sent", "done", "refused", "short", "lost", "settling"},
              action : Offer!Actions \cup {None}, own : BOOLEAN]
Checking == [step : {"idle", "asked", "may", "may not"}, voidable : {None, "yes", "no"},
             failed : BOOLEAN]

TradeIsWhole == trade \in Doing /\ trade.status = StatusOf(trade.last) /\ (trade.last = "counter" => trade.countered = TRUE)

OfferShape ==
    /\ role \in {"initiator", "recipient", "admin"}
    /\ rereading = None \/ rereading \in Readings
    /\ onPage \in Told
    /\ choice \in Offer!Actions \cup {None}
    /\ answer \in Answering
    /\ check \in Checking
    /\ {refusal, mine, crossed, missed} \subseteq BOOLEAN
    /\ outcome \in {"none", "told", "refused", "short", "lost"}

\* The history is read after the row, and the page shows an earlier moment than what is read.
ReadingIsInOrder ==
    /\ Upto(onPage.row, onPage.last) /\ Upto(onPage.row, trade.last)
    /\ onPage.row = "COUNTERED" => onPage.countered = TRUE
    /\ rereading # None =>
          /\ rereading.row # None =>
                Upto(rereading.row, trade.last) /\ (rereading.row = "PENDING" => onPage.row = "PENDING")
          /\ rereading.last # None => rereading.row # None /\ Upto(rereading.row, rereading.last)
          /\ rereading.countered # None =>
                rereading.row # None /\ (rereading.row = "COUNTERED" => rereading.countered = TRUE)

\* A party answers and an administrator voids.
AnswerIsTheRoles ==
    /\ choice # None => (choice = "void" <=> role = "admin")
    /\ refusal => choice = "void"
    /\ answer.step # "idle" => answer.action # None /\ (answer.action = "void" <=> role = "admin")

IsClosed ==
    /\ trade.status # "PENDING"
    /\ rereading # None /\ rereading.row # None => rereading.row # "PENDING"

\* An answer that was given, or refused to a party, found the trade closed or closed it, and
\* what is read from then on says so.
AnswerIsShown ==
    /\ answer.step \in {"done", "settling"} => trade.status # "PENDING"
    /\ answer.step = "refused" /\ answer.action # "void" => trade.status # "PENDING"
    /\ answer.step = "settling" => rereading # None /\ IsClosed
    /\ outcome = "told" \/ (outcome = "refused" /\ role # "admin") =>
          IsClosed /\ (rereading = None /\ ~missed => onPage.row # "PENDING")

\* A void that is under way keeps its dialog, which no check contradicts that was not under way
\* before; and a dialog whose own void was the trade's last action waits for it, or was told
\* that the answer was lost.
VoidKeepsItsDialog ==
    /\ answer.own /\ answer.action = "void" /\ answer.step # "idle" =>
          /\ choice = "void" /\ ~refusal
          /\ ~crossed => check.step = "idle" /\ check.voidable = "yes"
    /\ choice = "void" /\ mine /\ trade.last = "void" =>
          \/ outcome = "lost" /\ refusal
          \/ answer.own /\ answer.action = "void" /\ answer.step \in {"done", "settling", "lost"}

OfferInv ==
    OfferShape /\ TradeIsWhole /\ ReadingIsInOrder /\ AnswerIsTheRoles /\ AnswerIsShown /\ VoidKeepsItsDialog

LEMMA LeavesAStatus ==
    ASSUME NEW a \in Offer!Actions
    PROVE  Offer!Leaves(a) \in Statuses \ {"PENDING"} /\ StatusOf(a) = Offer!Leaves(a)
  BY DEF Offer!Actions, Offer!Leaves, Statuses, StatusOf

LEMMA OfferAtFirst ==
    ASSUME NothingIsSomething, Offer!Init
    PROVE  OfferInv
<1>1. Offer!Reading \in Readings /\ Offer!Reading.row = None
  BY DEF Offer!Reading, Readings
<1>2. OfferShape
  BY <1>1 DEF Offer!Init, OfferShape, Answering, Checking, Offer!Actions, Offer!Leaves, Statuses, Doings, StatusOf, Told,
              Offer!Idle, Offer!NoCheck
<1>3. TradeIsWhole
  BY DEF Offer!Init, TradeIsWhole, Doing, Statuses, Doings, StatusOf
<1> QED
  BY <1>1, <1>2, <1>3 DEF Offer!Init, OfferInv, ReadingIsInOrder, AnswerIsTheRoles, AnswerIsShown, IsClosed,
       VoidKeepsItsDialog, Upto, StatusOf, Offer!Idle, Offer!NoCheck, Offer!Reading, NothingIsSomething

\* An action that the trade allows moves it on.
LEMMA DoesMovesOn ==
    ASSUME OfferInv, NEW action \in Offer!Actions, Offer!Possible(action), Offer!Does(action)
    PROVE  /\ TradeIsWhole'
           /\ trade'.status # "PENDING" /\ trade'.last = action
           /\ trade.last # "void"
           /\ \A status \in Statuses : Upto(status, trade.last) => Upto(status, trade'.last)
<1>1. /\ trade' = [status |-> Offer!Leaves(action), last |-> action, countered |-> action = "counter"]
      /\ Offer!Leaves(action) \in Statuses \ {"PENDING"} /\ StatusOf(action) = Offer!Leaves(action)
      /\ (action = "counter") \in BOOLEAN
  BY LeavesAStatus DEF Offer!Does
<1>2. trade.status = "PENDING" \/ (trade.status = "ACCEPTED" /\ action = "void")
  BY DEF Offer!Possible, Offer!Voidable
<1>3. trade.status = StatusOf(trade.last) /\ trade.last \in Doings
  BY DEF OfferInv, TradeIsWhole, Doing
<1>4. trade.last = "propose" \/ (trade.last = "accept" /\ action = "void")
  BY <1>2, <1>3 DEF StatusOf, Offer!Leaves, Doings, Offer!Actions
<1>5. ASSUME NEW status \in Statuses, Upto(status, trade.last) PROVE Upto(status, action)
  BY <1>4, <1>5 DEF Upto, StatusOf, Offer!Leaves
<1>6. trade' \in Doing /\ trade'.last = action /\ trade'.status = StatusOf(action)
      /\ (trade'.last = "counter" => trade'.countered = TRUE)
  BY <1>1 DEF Doings, Doing
<1>7. trade.last # "void"
  BY <1>4
<1> QED
  BY <1>1, <1>5, <1>6, <1>7 DEF TradeIsWhole

-----------------------------------------------------------------------------
\* A refetch that ends, with an answer that waited for it or without.
LEMMA RefetchEndsKeeps ==
    ASSUME NothingIsSomething, OfferInv, Offer!RefetchEnds, rereading' = None, onPage' \in Told,
           missed' \in BOOLEAN,
           UNCHANGED <<role, trade, spent, elsewhere, check, refusal, crossed, answers, mine>>,
           Upto(onPage'.row, onPage'.last), Upto(onPage'.row, trade.last),
           onPage'.row = "COUNTERED" => onPage'.countered = TRUE,
           rereading # None, ~missed' => rereading.row = onPage'.row /\ rereading.row # None
    PROVE  OfferInv'
<1>1. CASE answer.step = "settling"
  <2>0. answer.own \in BOOLEAN
    BY DEF OfferInv, OfferShape, Answering
  <2>1. /\ answer' = Offer!Idle
        /\ answer.own = TRUE => outcome' = "told" /\ choice' = None
        /\ answer.own = FALSE => outcome' = outcome /\ choice' = choice
    BY <1>1 DEF Offer!RefetchEnds
  <2>2. answer'.step = "idle" /\ answer'.own = TRUE /\ answer'.action = None
    BY <2>1 DEF Offer!Idle
  <2>3. OfferShape'
    <3>1. answer' \in Answering
      BY <2>1 DEF Offer!Idle, Answering
    <3>2. choice' = choice \/ choice' = None
      BY <2>0, <2>1
    <3>3. outcome' = outcome \/ outcome' = "told"
      BY <2>0, <2>1
    <3> QED
      BY <3>1, <3>2, <3>3 DEF OfferInv, OfferShape
  <2>4. ReadingIsInOrder' /\ TradeIsWhole'
    BY DEF OfferInv, ReadingIsInOrder, TradeIsWhole
  <2>5. AnswerIsTheRoles'
    <3>1. CASE answer.own = TRUE
      <4>1. ~refusal
        BY <1>1, <3>1 DEF OfferInv, AnswerIsTheRoles, VoidKeepsItsDialog, NothingIsSomething, Doings,
           Offer!Actions
      <4> QED
        BY <2>1, <2>2, <3>1, <4>1 DEF OfferInv, AnswerIsTheRoles
    <3>2. CASE answer.own = FALSE
      BY <2>1, <2>2, <3>2 DEF OfferInv, AnswerIsTheRoles
    <3> QED
      BY <2>0, <3>1, <3>2
  <2>6. AnswerIsShown'
    <3>1. CASE answer.own = TRUE
      BY <1>1, <2>1, <2>2, <3>1 DEF OfferInv, AnswerIsShown, IsClosed
    <3>2. CASE answer.own = FALSE
      BY <2>1, <2>2, <3>2 DEF OfferInv, AnswerIsShown, IsClosed
    <3> QED
      BY <2>0, <3>1, <3>2
  <2>7. VoidKeepsItsDialog'
    <3>1. CASE answer.own = TRUE
      BY <2>1, <2>2, <3>1 DEF VoidKeepsItsDialog, NothingIsSomething, Doings, Offer!Actions
    <3>2. CASE answer.own = FALSE
      BY <2>1, <2>2, <3>2 DEF OfferInv, VoidKeepsItsDialog
    <3> QED
      BY <2>0, <3>1, <3>2
  <2> QED
    BY <2>3, <2>4, <2>5, <2>6, <2>7 DEF OfferInv
<1>2. CASE answer.step # "settling"
  <2>1. UNCHANGED <<answer, outcome, choice>>
    BY <1>2 DEF Offer!RefetchEnds
  <2>2. OfferShape'
    BY <2>1 DEF OfferInv, OfferShape
  <2>3. ReadingIsInOrder' /\ AnswerIsTheRoles' /\ VoidKeepsItsDialog' /\ TradeIsWhole'
    BY <2>1 DEF OfferInv, TradeIsWhole, ReadingIsInOrder, AnswerIsTheRoles, VoidKeepsItsDialog
  <2>4. AnswerIsShown'
    BY <1>2, <2>1 DEF OfferInv, AnswerIsShown, IsClosed
  <2> QED
    BY <2>2, <2>3, <2>4 DEF OfferInv
<1> QED BY <1>1, <1>2

LEMMA ReadsKeepOffer ==
    ASSUME NothingIsSomething, OfferInv,
           Offer!Refetches \/ Offer!ServerReads \/ Offer!Arrives \/ Offer!FetchFails
    PROVE  OfferInv'
<1>1. CASE Offer!Refetches
  <2>1. /\ rereading = None /\ rereading' = Offer!Reading
        /\ UNCHANGED <<role, trade, onPage, choice, answer, check, refusal, outcome, mine, crossed, missed>>
    BY <1>1 DEF Offer!Refetches, Offer!serverVars, Offer!voidVars
  <2>2. rereading' \in Readings /\ rereading'.row = None /\ rereading'.last = None
        /\ rereading'.countered = None
    BY <2>1 DEF Offer!Reading, Readings
  <2> QED
    BY <2>1, <2>2 DEF OfferInv, OfferShape, TradeIsWhole, ReadingIsInOrder, AnswerIsTheRoles, AnswerIsShown, IsClosed,
                      VoidKeepsItsDialog
<1>2. CASE Offer!ServerReads
  <2>1. UNCHANGED <<role, trade, onPage, choice, answer, check, refusal, outcome, mine, crossed, missed>>
    BY <1>2 DEF Offer!ServerReads, Offer!serverVars, Offer!voidVars
  <2>2. rereading # None /\ rereading \in Readings
    BY <1>2 DEF Offer!ServerReads, Offer!ReadsRow, Offer!ReadsTimeline, Offer!ReadsChain, OfferInv, OfferShape
  <2>3. ASSUME rereading' \in Readings, ReadingIsInOrder',
               rereading'.row = rereading.row \/ rereading'.row = trade.status
        PROVE  OfferInv'
    <3>1. rereading' # None
      BY <2>3 DEF NothingIsSomething
    <3>2. OfferShape'
      BY <2>1, <2>3 DEF OfferInv, OfferShape
    <3>3. AnswerIsTheRoles' /\ VoidKeepsItsDialog' /\ TradeIsWhole'
      BY <2>1 DEF OfferInv, TradeIsWhole, AnswerIsTheRoles, VoidKeepsItsDialog
    <3>4. AnswerIsShown'
      BY <2>1, <2>2, <2>3, <3>1 DEF OfferInv, AnswerIsShown, IsClosed
    <3> QED
      BY <2>3, <3>2, <3>3, <3>4 DEF OfferInv
  <2>4. trade.status \in Statuses /\ trade.last \in Doings /\ trade.countered \in BOOLEAN
        /\ trade.status = StatusOf(trade.last) /\ (trade.last = "counter" => trade.countered = TRUE)
    BY DEF OfferInv, TradeIsWhole, Doing
  <2>5. CASE Offer!ReadsRow
    <3>1. rereading.row = None /\ rereading' = [rereading EXCEPT !.row = trade.status]
      BY <2>5 DEF Offer!ReadsRow
    <3>2. rereading' \in Readings /\ rereading'.row = trade.status
          /\ rereading'.last = rereading.last /\ rereading'.countered = rereading.countered
      BY <2>2, <2>4, <3>1 DEF Readings
    <3>3. rereading.last = None /\ rereading.countered = None
      BY <2>2, <3>1 DEF OfferInv, ReadingIsInOrder
    <3>4. Upto(trade.status, trade.last)
      BY <2>4 DEF Upto
    <3>5. trade.status = "PENDING" => onPage.row = "PENDING"
      <4>1. Upto(onPage.row, trade.last)
        BY DEF OfferInv, ReadingIsInOrder
      <4> QED
        BY <2>4, <4>1 DEF Upto, StatusOf, Offer!Leaves, Doings, Offer!Actions
    <3> QED
      BY <2>1, <2>3, <3>2, <3>3, <3>4, <3>5 DEF OfferInv, ReadingIsInOrder
  <2>6. CASE Offer!ReadsTimeline
    <3>1. rereading.row # None /\ rereading' = [rereading EXCEPT !.last = trade.last]
      BY <2>6 DEF Offer!ReadsTimeline, Offer!HistoryFollows
    <3>2. rereading' \in Readings /\ rereading'.last = trade.last
          /\ rereading'.row = rereading.row /\ rereading'.countered = rereading.countered
      BY <2>2, <2>4, <3>1 DEF Readings
    <3> QED
      BY <2>1, <2>2, <2>3, <3>1, <3>2 DEF OfferInv, ReadingIsInOrder
  <2>7. CASE Offer!ReadsChain
    <3>1. rereading.row # None /\ rereading' = [rereading EXCEPT !.countered = trade.countered]
      BY <2>7 DEF Offer!ReadsChain, Offer!HistoryFollows
    <3>2. rereading' \in Readings /\ rereading'.countered = trade.countered
          /\ rereading'.row = rereading.row /\ rereading'.last = rereading.last
      BY <2>2, <2>4, <3>1 DEF Readings
    <3>3. rereading.row = "COUNTERED" => trade.countered = TRUE
      <4>1. Upto(rereading.row, trade.last)
        BY <2>2, <3>1 DEF OfferInv, ReadingIsInOrder
      <4> QED
        BY <2>4, <4>1 DEF Upto, StatusOf, Offer!Leaves, Doings, Offer!Actions
    <3> QED
      BY <2>1, <2>2, <2>3, <3>1, <3>2, <3>3 DEF OfferInv, ReadingIsInOrder
  <2> QED
    BY <1>2, <2>5, <2>6, <2>7 DEF Offer!ServerReads
<1>3. CASE Offer!Arrives
  <2>1. /\ rereading # None /\ rereading.row # None /\ rereading.last # None /\ rereading.countered # None
        /\ onPage' = rereading /\ rereading' = None /\ missed' = FALSE
        /\ Offer!RefetchEnds
        /\ UNCHANGED <<role, trade, spent, elsewhere, check, refusal, crossed, answers, mine>>
    BY <1>3 DEF Offer!Arrives, Offer!serverVars, Offer!voidVars
  <2>2. rereading \in Readings
    BY <2>1 DEF OfferInv, OfferShape
  <2>3. rereading \in Told
    BY <2>1, <2>2 DEF Readings, Told
  <2>4. /\ Upto(rereading.row, rereading.last) /\ Upto(rereading.row, trade.last)
        /\ rereading.row = "COUNTERED" => rereading.countered = TRUE
    BY <2>1 DEF OfferInv, ReadingIsInOrder
  <2> QED
    BY <2>1, <2>3, <2>4, RefetchEndsKeeps
<1>4. CASE Offer!FetchFails
  <2>1. /\ rereading # None /\ rereading' = None /\ missed' = TRUE /\ onPage' = onPage
        /\ Offer!RefetchEnds
        /\ UNCHANGED <<role, trade, spent, elsewhere, check, refusal, crossed, answers, mine>>
    BY <1>4 DEF Offer!FetchFails, Offer!serverVars, Offer!voidVars
  <2>2. onPage \in Told /\ Upto(onPage.row, onPage.last) /\ Upto(onPage.row, trade.last)
        /\ (onPage.row = "COUNTERED" => onPage.countered = TRUE)
    BY DEF OfferInv, OfferShape, ReadingIsInOrder
  <2> QED
    BY <2>1, <2>2, RefetchEndsKeeps
<1> QED
  BY <1>1, <1>2, <1>3, <1>4

\* Another action closes the trade, or reverses it.
LEMMA OthersKeepOffer ==
    ASSUME NothingIsSomething, OfferInv, Offer!OthersAct
    PROVE  OfferInv'
<1>1. UNCHANGED <<role, rereading, onPage, choice, answer, check, refusal, crossed, outcome, missed>>
  BY DEF Offer!OthersAct, Offer!voidVars
<1>2. CASE UNCHANGED <<trade, mine>>
  BY <1>1, <1>2 DEF OfferInv, OfferShape, TradeIsWhole, ReadingIsInOrder, AnswerIsTheRoles, AnswerIsShown, IsClosed,
                    VoidKeepsItsDialog
<1>3. CASE mine' = FALSE /\ \E action \in Offer!Actions : Offer!Possible(action) /\ Offer!Does(action)
  <2>1. PICK action \in Offer!Actions : Offer!Possible(action) /\ Offer!Does(action)
    BY <1>3
  <2>2. /\ TradeIsWhole'
        /\ trade'.status # "PENDING"
        /\ \A status \in Statuses : Upto(status, trade.last) => Upto(status, trade'.last)
    BY <2>1, DoesMovesOn
  <2>3. OfferShape'
    BY <1>1, <1>3, <2>2 DEF OfferInv, OfferShape
  <2>4. ReadingIsInOrder'
    <3>1. onPage.row \in Statuses
      BY DEF OfferInv, OfferShape, Told
    <3>2. rereading # None /\ rereading.row # None => rereading.row \in Statuses
      BY DEF OfferInv, OfferShape, Readings
    <3> QED
      BY <1>1, <2>2, <3>1, <3>2 DEF OfferInv, ReadingIsInOrder
  <2>5. AnswerIsTheRoles' /\ VoidKeepsItsDialog'
    BY <1>1, <1>3 DEF OfferInv, AnswerIsTheRoles, VoidKeepsItsDialog
  <2>6. AnswerIsShown'
    BY <1>1, <2>2 DEF OfferInv, AnswerIsShown, IsClosed
  <2> QED
    BY <2>2, <2>3, <2>4, <2>5, <2>6 DEF OfferInv
<1> QED
  BY <1>2, <1>3 DEF Offer!OthersAct

LEMMA PartyKeepsOffer ==
    ASSUME NothingIsSomething, OfferInv,
           \/ \E action \in Offer!Actions : Offer!Ask(action)
           \/ Offer!Dismiss \/ Offer!Confirm \/ Offer!AnswerLost \/ Offer!OnSuccess \/ Offer!OnError
    PROVE  OfferInv'
<1> USE DEF Offer!serverVars, Offer!voidVars
<1>1. CASE \E action \in Offer!Actions : Offer!Ask(action)
  <2>1. PICK action \in Offer!Actions : Offer!Ask(action)
    BY <1>1
  <2>2. /\ role # "admin" /\ choice = None /\ choice' = action /\ action # "void"
        /\ UNCHANGED <<role, trade, rereading, onPage, answer, check, refusal, outcome, mine, crossed, missed>>
    BY <2>1 DEF Offer!Ask, Offer!MayAsk
  <2>3. OfferShape'
    BY <2>2 DEF OfferInv, OfferShape
  <2>4. ReadingIsInOrder' /\ TradeIsWhole' /\ AnswerIsShown'
    BY <2>2 DEF OfferInv, ReadingIsInOrder, TradeIsWhole, AnswerIsShown, IsClosed
  <2>5. ~refusal
    BY <2>2 DEF OfferInv, AnswerIsTheRoles, NothingIsSomething, Doings, Offer!Actions
  <2>6. AnswerIsTheRoles' /\ VoidKeepsItsDialog'
    BY <2>2, <2>5 DEF OfferInv, AnswerIsTheRoles, VoidKeepsItsDialog
  <2> QED
    BY <2>3, <2>4, <2>6 DEF OfferInv
<1>2. CASE Offer!Dismiss
  <2>1. /\ choice # None /\ choice # "void" /\ answer.step = "idle" /\ choice' = None
        /\ UNCHANGED <<role, trade, rereading, onPage, answer, check, refusal, outcome, mine, crossed, missed>>
    BY <1>2 DEF Offer!Dismiss
  <2>2. OfferShape'
    BY <2>1 DEF OfferInv, OfferShape
  <2>3. ReadingIsInOrder' /\ TradeIsWhole' /\ AnswerIsShown'
    BY <2>1 DEF OfferInv, ReadingIsInOrder, TradeIsWhole, AnswerIsShown, IsClosed
  <2>4. AnswerIsTheRoles' /\ VoidKeepsItsDialog'
    BY <2>1 DEF OfferInv, AnswerIsTheRoles, VoidKeepsItsDialog, NothingIsSomething, Doings, Offer!Actions
  <2> QED
    BY <2>2, <2>3, <2>4 DEF OfferInv
<1>3. CASE Offer!Confirm
  <2>1. /\ choice # None /\ choice # "void" /\ answer.step = "idle" /\ outcome' = "none"
        /\ answer' = [Offer!Idle EXCEPT !.step = "sent", !.action = choice]
        /\ UNCHANGED <<role, trade, rereading, onPage, choice, check, refusal, mine, crossed, missed>>
    BY <1>3 DEF Offer!Confirm
  <2>2. answer'.step = "sent" /\ answer'.action = choice /\ answer' \in Answering
    BY <2>1 DEF OfferInv, OfferShape, Offer!Idle, Answering
  <2>3. OfferShape'
    BY <2>1, <2>2 DEF OfferInv, OfferShape
  <2>4. ReadingIsInOrder' /\ TradeIsWhole' /\ AnswerIsShown'
    BY <2>1, <2>2 DEF OfferInv, ReadingIsInOrder, TradeIsWhole, AnswerIsShown, IsClosed
  <2>5. AnswerIsTheRoles' /\ VoidKeepsItsDialog'
    BY <2>1, <2>2 DEF OfferInv, AnswerIsTheRoles, VoidKeepsItsDialog
  <2> QED
    BY <2>3, <2>4, <2>5 DEF OfferInv
<1>4. CASE Offer!AnswerLost
  <2>1. /\ answer.step = "sent" \/ answer.step = "done"
        /\ answer' = [answer EXCEPT !.step = "lost"]
        /\ UNCHANGED <<role, trade, rereading, onPage, choice, check, refusal, outcome, mine, crossed, missed>>
    BY <1>4 DEF Offer!AnswerLost
  <2>2. /\ answer'.step = "lost" /\ answer'.action = answer.action /\ answer'.own = answer.own
        /\ answer' \in Answering
    BY <2>1 DEF OfferInv, OfferShape, Answering
  <2>3. OfferShape'
    BY <2>1, <2>2 DEF OfferInv, OfferShape
  <2>4. ReadingIsInOrder' /\ TradeIsWhole' /\ AnswerIsShown'
    BY <2>1, <2>2 DEF OfferInv, ReadingIsInOrder, TradeIsWhole, AnswerIsShown, IsClosed
  <2>5. AnswerIsTheRoles' /\ VoidKeepsItsDialog'
    BY <2>1, <2>2 DEF OfferInv, AnswerIsTheRoles, VoidKeepsItsDialog
  <2> QED
    BY <2>3, <2>4, <2>5 DEF OfferInv
<1>5. CASE Offer!OnSuccess
  <2>1. /\ answer.step = "done" /\ answer.action # "void" /\ rereading' = Offer!Reading
        /\ answer' = [answer EXCEPT !.step = "settling"]
        /\ UNCHANGED <<role, trade, onPage, choice, check, refusal, outcome, mine, crossed, missed>>
    BY <1>5 DEF Offer!OnSuccess
  <2>2. /\ answer'.step = "settling" /\ answer'.action = answer.action /\ answer'.own = answer.own
        /\ answer' \in Answering
    BY <2>1 DEF OfferInv, OfferShape, Answering
  <2>3. /\ rereading' \in Readings /\ rereading'.row = None /\ rereading'.last = None
        /\ rereading'.countered = None /\ rereading' # None
    BY <2>1 DEF Offer!Reading, Readings, NothingIsSomething
  <2>4. OfferShape'
    BY <2>1, <2>2, <2>3 DEF OfferInv, OfferShape
  <2>5. ReadingIsInOrder' /\ TradeIsWhole'
    BY <2>1, <2>2, <2>3 DEF OfferInv, ReadingIsInOrder, TradeIsWhole
  <2>6. AnswerIsShown'
    BY <2>1, <2>2, <2>3 DEF OfferInv, AnswerIsShown, IsClosed
  <2>7. AnswerIsTheRoles' /\ VoidKeepsItsDialog'
    BY <2>1, <2>2 DEF OfferInv, AnswerIsTheRoles, VoidKeepsItsDialog
  <2> QED
    BY <2>4, <2>5, <2>6, <2>7 DEF OfferInv
<1>6. CASE Offer!OnError
  <2>1. /\ answer.step \in {"refused", "short", "lost"} /\ answer.action # "void"
        /\ outcome' = answer.step /\ answer' = Offer!Idle /\ choice' = None
        /\ rereading' = Offer!Reading
        /\ UNCHANGED <<role, trade, onPage, check, refusal, mine, crossed, missed>>
    BY <1>6 DEF Offer!OnError, Offer!TradeAgain
  <2>2. answer'.step = "idle" /\ answer' \in Answering
    BY <2>1 DEF Offer!Idle, Answering
  <2>3. /\ rereading' \in Readings /\ rereading'.row = None /\ rereading'.last = None
        /\ rereading'.countered = None /\ rereading' # None
    BY <2>1 DEF Offer!Reading, Readings, NothingIsSomething
  <2>4. OfferShape'
    BY <2>1, <2>2, <2>3 DEF OfferInv, OfferShape
  <2>5. ReadingIsInOrder' /\ TradeIsWhole'
    BY <2>1, <2>2, <2>3 DEF OfferInv, ReadingIsInOrder, TradeIsWhole
  <2>6. AnswerIsShown'
    BY <2>1, <2>2, <2>3 DEF OfferInv, AnswerIsShown, IsClosed
  <2>7. ~refusal
    BY <2>1 DEF OfferInv, AnswerIsTheRoles, NothingIsSomething, Doings, Offer!Actions
  <2>8. AnswerIsTheRoles' /\ VoidKeepsItsDialog'
    BY <2>1, <2>2, <2>7 DEF OfferInv, AnswerIsTheRoles, VoidKeepsItsDialog, NothingIsSomething, Doings,
       Offer!Actions
  <2> QED
    BY <2>4, <2>5, <2>6, <2>8 DEF OfferInv
<1> QED
  BY <1>1, <1>2, <1>3, <1>4, <1>5, <1>6

\* The server does what was asked, or refuses it.
LEMMA ServerKeepsOffer ==
    ASSUME NothingIsSomething, OfferInv, Offer!ServerAnswers
    PROVE  OfferInv'
<1>1. answer.step = "sent"
      /\ UNCHANGED <<role, rereading, onPage, choice, check, refusal, crossed, outcome, missed>>
  BY DEF Offer!ServerAnswers, Offer!voidVars
<1>2. answer.action \in Offer!Actions
  BY <1>1 DEF OfferInv, OfferShape, Answering, AnswerIsTheRoles
<1>3. CASE /\ Offer!Possible(answer.action) /\ Offer!Does(answer.action) /\ mine' = answer.own
           /\ answer' = [answer EXCEPT !.step = "done"]
  <2>1. /\ answer'.step = "done" /\ answer'.action = answer.action /\ answer'.own = answer.own
        /\ answer' \in Answering /\ answer.own \in BOOLEAN
    BY <1>3 DEF OfferInv, OfferShape, Answering
  <2>2. /\ TradeIsWhole' /\ trade'.status # "PENDING" /\ trade'.last = answer.action
        /\ \A status \in Statuses : Upto(status, trade.last) => Upto(status, trade'.last)
    BY <1>2, <1>3, DoesMovesOn
  <2>3. OfferShape'
    BY <1>1, <1>3, <2>1 DEF OfferInv, OfferShape
  <2>4. ReadingIsInOrder'
    <3>1. onPage.row \in Statuses
      BY DEF OfferInv, OfferShape, Told
    <3>2. rereading # None /\ rereading.row # None => rereading.row \in Statuses
      BY DEF OfferInv, OfferShape, Readings
    <3> QED
      BY <1>1, <2>2, <3>1, <3>2 DEF OfferInv, ReadingIsInOrder
  <2>5. AnswerIsTheRoles'
    BY <1>1, <2>1 DEF OfferInv, AnswerIsTheRoles
  <2>6. AnswerIsShown'
    BY <1>1, <2>1, <2>2 DEF OfferInv, AnswerIsShown, IsClosed
  <2>7. VoidKeepsItsDialog'
    BY <1>1, <1>3, <2>1, <2>2 DEF OfferInv, VoidKeepsItsDialog
  <2> QED
    BY <2>2, <2>3, <2>4, <2>5, <2>6, <2>7 DEF OfferInv
<1>4. ASSUME UNCHANGED <<trade, mine>>, NEW step \in {"refused", "short"},
             answer' = [answer EXCEPT !.step = step],
             step = "refused" /\ answer.action # "void" => trade.status # "PENDING"
      PROVE  OfferInv'
  <2>1. /\ answer'.step = step /\ answer'.action = answer.action /\ answer'.own = answer.own
        /\ answer' \in Answering
    BY <1>4 DEF OfferInv, OfferShape, Answering
  <2>2. OfferShape'
    BY <1>1, <1>4, <2>1 DEF OfferInv, OfferShape
  <2>3. ReadingIsInOrder' /\ TradeIsWhole'
    BY <1>1, <1>4 DEF OfferInv, ReadingIsInOrder, TradeIsWhole
  <2>4. AnswerIsTheRoles'
    BY <1>1, <2>1 DEF OfferInv, AnswerIsTheRoles
  <2>5. AnswerIsShown'
    BY <1>1, <1>4, <2>1 DEF OfferInv, AnswerIsShown, IsClosed
  <2>6. VoidKeepsItsDialog'
    BY <1>1, <1>4, <2>1 DEF OfferInv, VoidKeepsItsDialog
  <2> QED
    BY <2>2, <2>3, <2>4, <2>5, <2>6 DEF OfferInv
<1>5. CASE /\ ~Offer!Possible(answer.action) /\ UNCHANGED <<trade, mine>>
           /\ answer' = [answer EXCEPT !.step = "refused"]
  <2>1. answer.action # "void" => trade.status # "PENDING"
    BY <1>5 DEF Offer!Possible
  <2> QED
    BY <1>4, <1>5, <2>1
<1>6. CASE UNCHANGED <<trade, mine>> /\ answer' = [answer EXCEPT !.step = "short"]
  BY <1>4, <1>6
<1> QED
  BY <1>3, <1>5, <1>6 DEF Offer!ServerAnswers

LEMMA ChecksKeepOffer ==
    ASSUME NothingIsSomething, OfferInv,
           Offer!OpenVoid \/ Offer!ChecksAgain \/ Offer!ServerChecks \/ Offer!CheckArrives \/ Offer!CheckFails
    PROVE  OfferInv'
<1> USE DEF Offer!serverVars, Offer!voidVars
<1>1. CASE Offer!OpenVoid
  <2>1. /\ role = "admin" /\ choice' = "void" /\ refusal' = FALSE /\ crossed' = FALSE /\ mine' = FALSE
        /\ choice = None /\ check' = [Offer!NoCheck EXCEPT !.step = "asked"]
        /\ UNCHANGED <<role, trade, rereading, onPage, answer, outcome, missed>>
    BY <1>1 DEF Offer!OpenVoid
  <2>2. check' \in Checking
    BY <2>1 DEF Offer!NoCheck, Checking
  <2>3. OfferShape'
    BY <2>1, <2>2 DEF OfferInv, OfferShape, Offer!Actions
  <2>4. ReadingIsInOrder' /\ TradeIsWhole' /\ AnswerIsShown'
    BY <2>1 DEF OfferInv, ReadingIsInOrder, TradeIsWhole, AnswerIsShown, IsClosed
  <2>5. ~(answer.own /\ answer.action = "void" /\ answer.step # "idle")
    BY <2>1 DEF OfferInv, VoidKeepsItsDialog, NothingIsSomething, Doings, Offer!Actions
  <2>6. AnswerIsTheRoles' /\ VoidKeepsItsDialog'
    BY <2>1, <2>5 DEF OfferInv, AnswerIsTheRoles, VoidKeepsItsDialog
  <2> QED
    BY <2>3, <2>4, <2>6 DEF OfferInv
\* A check is asked for only where no void of this dialog is under way.
<1>2. ASSUME check' \in Checking,
             answer.own /\ answer.action = "void" /\ answer.step # "idle" /\ ~crossed => check' = check,
             UNCHANGED <<role, trade, rereading, onPage, choice, answer, refusal, outcome, mine, crossed,
                         missed>>
      PROVE  OfferInv'
  <2>1. OfferShape'
    BY <1>2 DEF OfferInv, OfferShape
  <2>2. ReadingIsInOrder' /\ TradeIsWhole' /\ AnswerIsShown' /\ AnswerIsTheRoles'
    BY <1>2 DEF OfferInv, ReadingIsInOrder, TradeIsWhole, AnswerIsShown, IsClosed, AnswerIsTheRoles
  <2>3. VoidKeepsItsDialog'
    BY <1>2 DEF OfferInv, VoidKeepsItsDialog
  <2> QED
    BY <2>1, <2>2, <2>3 DEF OfferInv
<1>3. check \in Checking
  BY DEF OfferInv, OfferShape
<1>4. answer.own /\ answer.action = "void" /\ answer.step # "idle" /\ ~crossed => check.step = "idle"
  BY DEF OfferInv, VoidKeepsItsDialog
<1>5. CASE Offer!ChecksAgain
  <2>1. /\ answer.step = "idle" \/ ~answer.own
        /\ check' = [check EXCEPT !.step = "asked"]
        /\ UNCHANGED <<role, trade, rereading, onPage, choice, answer, refusal, outcome, mine, crossed,
                       missed>>
    BY <1>5 DEF Offer!ChecksAgain, Offer!CheckEnabled
  <2>2. check' \in Checking
    BY <1>3, <2>1 DEF Checking
  <2> QED
    BY <1>2, <2>1, <2>2
<1>6. CASE Offer!ServerChecks
  <2>1. /\ check.step = "asked"
        /\ check' = [check EXCEPT !.step = "may"] \/ check' = [check EXCEPT !.step = "may not"]
        /\ UNCHANGED <<role, trade, rereading, onPage, choice, answer, refusal, outcome, mine, crossed,
                       missed>>
    BY <1>6 DEF Offer!ServerChecks
  <2>2. check' \in Checking
    BY <1>3, <2>1 DEF Checking
  <2> QED
    BY <1>2, <1>4, <2>1, <2>2
<1>7. CASE Offer!CheckArrives
  <2>1. /\ check.step # "idle"
        /\ \E v \in {"yes", "no"} : check' = [step |-> "idle", voidable |-> v, failed |-> FALSE]
        /\ UNCHANGED <<role, trade, rereading, onPage, choice, answer, refusal, outcome, mine, crossed,
                       missed>>
    BY <1>7 DEF Offer!CheckArrives
  <2>2. check' \in Checking
    <3>1. PICK v \in {"yes", "no"} : check' = [step |-> "idle", voidable |-> v, failed |-> FALSE]
      BY <2>1
    <3> QED
      BY <3>1 DEF Checking
  <2> QED
    BY <1>2, <1>4, <2>1, <2>2
<1>8. CASE Offer!CheckFails
  <2>1. /\ check.step # "idle"
        /\ check' = [check EXCEPT !.step = "idle", !.failed = TRUE]
        /\ UNCHANGED <<role, trade, rereading, onPage, choice, answer, refusal, outcome, mine, crossed,
                       missed>>
    BY <1>8 DEF Offer!CheckFails
  <2>2. check' \in Checking
    BY <1>3, <2>1 DEF Checking
  <2> QED
    BY <1>2, <1>4, <2>1, <2>2
<1> QED
  BY <1>1, <1>5, <1>6, <1>7, <1>8

LEMMA VoidKeepsOffer ==
    ASSUME NothingIsSomething, OfferInv,
           Offer!ConfirmVoid \/ Offer!OnVoided \/ Offer!OnVoidRefused \/ Offer!CloseVoid
    PROVE  OfferInv'
<1> USE DEF Offer!serverVars, Offer!voidVars
<1>1. CASE Offer!ConfirmVoid
  <2>1. /\ choice = "void" /\ check.voidable = "yes" /\ ~refusal /\ answer.step = "idle"
        /\ answer' = [Offer!Idle EXCEPT !.step = "sent", !.action = "void"] /\ outcome' = "none"
        /\ crossed' = (check.step # "idle")
        /\ UNCHANGED <<role, trade, rereading, onPage, choice, check, refusal, mine, missed>>
    BY <1>1 DEF Offer!ConfirmVoid, Offer!Offered
  <2>2. /\ answer'.step = "sent" /\ answer'.action = "void" /\ answer' \in Answering
        /\ answer'.own = TRUE
    BY <2>1 DEF Offer!Idle, Answering, Offer!Actions
  <2>3. OfferShape'
    <3>1. crossed' \in BOOLEAN
      BY <2>1
    <3> QED
      BY <2>1, <2>2, <3>1 DEF OfferInv, OfferShape
  <2>4. ReadingIsInOrder' /\ TradeIsWhole' /\ AnswerIsShown'
    BY <2>1, <2>2 DEF OfferInv, ReadingIsInOrder, TradeIsWhole, AnswerIsShown, IsClosed
  <2>5. role = "admin"
    BY <2>1 DEF OfferInv, AnswerIsTheRoles, NothingIsSomething, Doings, Offer!Actions
  <2>6. AnswerIsTheRoles'
    BY <2>1, <2>2, <2>5 DEF OfferInv, AnswerIsTheRoles, NothingIsSomething, Doings, Offer!Actions
  <2>7. ~(mine /\ trade.last = "void")
    BY <2>1 DEF OfferInv, VoidKeepsItsDialog
  <2>8. VoidKeepsItsDialog'
    BY <2>1, <2>2, <2>7 DEF VoidKeepsItsDialog
  <2> QED
    BY <2>3, <2>4, <2>6, <2>8 DEF OfferInv
<1>2. CASE Offer!OnVoided
  <2>1. /\ answer.step = "done" /\ answer.action = "void" /\ rereading' = Offer!Reading
        /\ answer' = [answer EXCEPT !.step = "settling"]
        /\ check' = check \/ (~answer.own /\ check' = [check EXCEPT !.step = "asked"])
        /\ UNCHANGED <<role, trade, onPage, choice, refusal, outcome, mine, crossed, missed>>
    BY <1>2 DEF Offer!OnVoided, Offer!CheckEnabled
  <2>2. /\ answer'.step = "settling" /\ answer'.action = answer.action /\ answer'.own = answer.own
        /\ answer' \in Answering
    BY <2>1 DEF OfferInv, OfferShape, Answering
  <2>3. /\ rereading' \in Readings /\ rereading'.row = None /\ rereading'.last = None
        /\ rereading'.countered = None /\ rereading' # None
    BY <2>1 DEF Offer!Reading, Readings, NothingIsSomething
  <2>4. check' \in Checking
    BY <2>1 DEF OfferInv, OfferShape, Checking
  <2>5. OfferShape'
    BY <2>1, <2>2, <2>3, <2>4 DEF OfferInv, OfferShape
  <2>6. ReadingIsInOrder' /\ TradeIsWhole'
    BY <2>1, <2>2, <2>3 DEF OfferInv, ReadingIsInOrder, TradeIsWhole
  <2>7. AnswerIsShown'
    BY <2>1, <2>2, <2>3 DEF OfferInv, AnswerIsShown, IsClosed
  <2>8. AnswerIsTheRoles' /\ VoidKeepsItsDialog'
    BY <2>1, <2>2 DEF OfferInv, AnswerIsTheRoles, VoidKeepsItsDialog
  <2> QED
    BY <2>5, <2>6, <2>7, <2>8 DEF OfferInv
<1>3. CASE Offer!OnVoidRefused
  <2>1. /\ answer.step \in {"refused", "lost"} /\ answer.action = "void" /\ answer' = Offer!Idle
        /\ answer.own = TRUE => outcome' = answer.step /\ refusal' = TRUE /\ rereading' = Offer!Reading
        /\ answer.own = FALSE => UNCHANGED <<outcome, refusal, rereading>>
        /\ UNCHANGED <<role, trade, onPage, choice, check, mine, crossed, missed>>
    BY <1>3 DEF Offer!OnVoidRefused
  <2>2. answer'.step = "idle" /\ answer' \in Answering /\ answer.own \in BOOLEAN
    BY <2>1 DEF Offer!Idle, Answering, OfferInv, OfferShape
  <2>3. role = "admin"
    BY <2>1 DEF OfferInv, AnswerIsTheRoles
  <2>4. CASE answer.own = TRUE
    <3>1. /\ rereading' \in Readings /\ rereading'.row = None /\ rereading'.last = None
          /\ rereading'.countered = None /\ rereading' # None
      BY <2>1, <2>4 DEF Offer!Reading, Readings, NothingIsSomething
    <3>2. OfferShape'
      BY <2>1, <2>2, <2>4, <3>1 DEF OfferInv, OfferShape
    <3>3. ReadingIsInOrder' /\ TradeIsWhole'
      BY <2>1, <3>1 DEF OfferInv, ReadingIsInOrder, TradeIsWhole
    <3>4. AnswerIsShown'
      BY <2>1, <2>2, <2>3, <2>4, <3>1 DEF AnswerIsShown
    <3>5. choice = "void" /\ ~refusal
      BY <2>1, <2>4 DEF OfferInv, VoidKeepsItsDialog
    <3>6. AnswerIsTheRoles'
      BY <2>1, <2>2, <2>3, <3>5 DEF AnswerIsTheRoles
    <3>7. mine /\ trade.last = "void" => answer.step = "lost"
      BY <2>1, <3>5 DEF OfferInv, VoidKeepsItsDialog
    <3>8. VoidKeepsItsDialog'
      BY <2>1, <2>2, <2>4, <3>7 DEF VoidKeepsItsDialog
    <3> QED
      BY <3>2, <3>3, <3>4, <3>6, <3>8 DEF OfferInv
  <2>5. CASE answer.own = FALSE
    <3>1. OfferShape'
      BY <2>1, <2>2, <2>5 DEF OfferInv, OfferShape
    <3>2. ReadingIsInOrder' /\ TradeIsWhole'
      BY <2>1, <2>5 DEF OfferInv, ReadingIsInOrder, TradeIsWhole
    <3>3. AnswerIsShown'
      BY <2>1, <2>2, <2>5 DEF OfferInv, AnswerIsShown, IsClosed
    <3>4. AnswerIsTheRoles' /\ VoidKeepsItsDialog'
      BY <2>1, <2>2, <2>5 DEF OfferInv, AnswerIsTheRoles, VoidKeepsItsDialog
    <3> QED
      BY <3>1, <3>2, <3>3, <3>4 DEF OfferInv
  <2> QED
    BY <2>2, <2>4, <2>5
<1>4. CASE Offer!CloseVoid
  <2>1. /\ choice = "void" /\ choice' = None /\ refusal' = FALSE /\ check' = Offer!NoCheck
        /\ answer' = IF answer.step = "idle" THEN answer ELSE [answer EXCEPT !.own = FALSE]
        /\ UNCHANGED <<role, trade, rereading, onPage, outcome, mine, crossed, missed>>
    BY <1>4 DEF Offer!CloseVoid
  <2>2. /\ answer' \in Answering /\ answer'.step = answer.step /\ answer'.action = answer.action
        /\ answer'.step = "idle" \/ answer'.own = FALSE
    BY <2>1 DEF OfferInv, OfferShape, Answering
  <2>3. check' \in Checking
    BY <2>1 DEF Offer!NoCheck, Checking
  <2>4. OfferShape'
    BY <2>1, <2>2, <2>3 DEF OfferInv, OfferShape
  <2>5. ReadingIsInOrder' /\ TradeIsWhole'
    BY <2>1 DEF OfferInv, ReadingIsInOrder, TradeIsWhole
  <2>6. AnswerIsShown'
    BY <2>1, <2>2 DEF OfferInv, AnswerIsShown, IsClosed
  <2>7. AnswerIsTheRoles'
    BY <2>1, <2>2 DEF OfferInv, AnswerIsTheRoles
  <2>8. VoidKeepsItsDialog'
    BY <2>1, <2>2 DEF VoidKeepsItsDialog, NothingIsSomething, Doings, Offer!Actions
  <2> QED
    BY <2>4, <2>5, <2>6, <2>7, <2>8 DEF OfferInv
<1> QED
  BY <1>1, <1>2, <1>3, <1>4

LEMMA OfferStays ==
    ASSUME NothingIsSomething, OfferInv, [Offer!Next]_(Offer!tradeVars)
    PROVE  OfferInv'
<1>1. CASE UNCHANGED Offer!tradeVars
  BY <1>1 DEF Offer!tradeVars, OfferInv, OfferShape, TradeIsWhole, ReadingIsInOrder, AnswerIsTheRoles,
              AnswerIsShown, IsClosed, VoidKeepsItsDialog
<1>2. CASE Offer!Next
  BY <1>2, OthersKeepOffer, ReadsKeepOffer, PartyKeepsOffer, ServerKeepsOffer, ChecksKeepOffer,
     VoidKeepsOffer DEF Offer!Next
<1> QED
  BY <1>1, <1>2

LEMMA OfferIsHonest ==
    ASSUME NothingIsSomething, OfferInv
    PROVE  /\ Offer!TypeOK
           /\ Offer!TheHistoryTellsTheStatus
           /\ Offer!AnswersAreShown
           /\ Offer!NoVoidThatWorkedIsRefused
<1>1. Offer!TheHistoryTellsTheStatus
  <2>1. Upto(onPage.row, onPage.last) /\ (onPage.row = "COUNTERED" => onPage.countered = TRUE)
    BY DEF OfferInv, ReadingIsInOrder
  <2> QED
    BY <2>1 DEF Offer!TheHistoryTellsTheStatus, Upto, StatusOf, Offer!Leaves
<1>2. Offer!AnswersAreShown
  <2>1. role = "admin" \/ role # "admin"
    OBVIOUS
  <2> QED
    BY <2>1 DEF OfferInv, AnswerIsShown, IsClosed, Offer!AnswersAreShown
<1>3. Offer!NoVoidThatWorkedIsRefused
  <2> SUFFICES ASSUME Offer!SaysRefused, mine, trade.last = "void", ~crossed
               PROVE  outcome = "lost"
    BY DEF Offer!NoVoidThatWorkedIsRefused
  <2>1. choice = "void" /\ (refusal \/ check.voidable = "no")
    BY DEF Offer!SaysRefused
  <2>2. answer.own /\ answer.action = "void" /\ answer.step # "idle" => ~refusal /\ check.voidable = "yes"
    BY DEF OfferInv, VoidKeepsItsDialog
  <2> QED
    BY <2>1, <2>2 DEF OfferInv, VoidKeepsItsDialog
<1>4. Offer!TypeOK
  <2>1. /\ trade.last \in Doings /\ trade.status = StatusOf(trade.last)
        /\ onPage.row # None /\ onPage.last # None /\ onPage.countered \in BOOLEAN
    BY DEF OfferInv, OfferShape, TradeIsWhole, Doing, Told, NothingIsSomething
  <2>2. ASSUME rereading # None
        PROVE  rereading.row \in {None, onPage.row} \cup {Offer!Leaves(a) : a \in Offer!Actions}
    <3>1. rereading.row \in Statuses \cup {None}
      BY <2>2 DEF OfferInv, OfferShape, Readings
    <3>2. rereading.row = "PENDING" => onPage.row = "PENDING"
      BY <2>2, <3>1 DEF OfferInv, ReadingIsInOrder, NothingIsSomething, Statuses
    <3>3. Statuses \ {"PENDING"} \subseteq {Offer!Leaves(a) : a \in Offer!Actions}
      BY DEF Statuses, Offer!Leaves, Offer!Actions
    <3> QED
      BY <3>1, <3>2, <3>3
  <2>3. answer.step \in {"idle", "sent", "done", "refused", "short", "lost", "settling"}
        /\ check.step \in {"idle", "asked", "may", "may not"} /\ choice \in Offer!Actions \cup {None}
    BY DEF OfferInv, OfferShape, Answering, Checking
  <2>4. refusal => choice = "void"
    BY DEF OfferInv, AnswerIsTheRoles
  <2> QED
    BY <2>1, <2>2, <2>3, <2>4 DEF Offer!TypeOK, StatusOf, Doings
<1> QED
  BY <1>1, <1>2, <1>3, <1>4

\* Of any number of answers, refetches, voids and acts of others, and however many of them are
\* lost: a page never says less in its history than in its status; once an answer was told, or
\* refused because another was faster, a page that has read again offers no other; and a void that
\* succeeded is not called refused, unless its answer was lost or a check was under way.
THEOREM TradesAreShownAsTheyAre ==
    ASSUME NothingIsSomething
    PROVE  Offer!Spec => [](/\ Offer!TypeOK
                            /\ Offer!TheHistoryTellsTheStatus
                            /\ Offer!AnswersAreShown
                            /\ Offer!NoVoidThatWorkedIsRefused)
<1>1. Offer!Init => OfferInv
  BY OfferAtFirst
<1>2. OfferInv /\ [Offer!Next]_(Offer!tradeVars) => OfferInv'
  BY OfferStays
<1>3. OfferInv => /\ Offer!TypeOK
                  /\ Offer!TheHistoryTellsTheStatus
                  /\ Offer!AnswersAreShown
                  /\ Offer!NoVoidThatWorkedIsRefused
  BY OfferIsHonest
<1> QED
  BY <1>1, <1>2, <1>3, PTL DEF Offer!Spec

-----------------------------------------------------------------------------
(* A list of cards behind its search field and filters.                    *)

CONSTANTS Texts, Trim, Within, Cards, Sets, MaxActs, MaxFails
VARIABLES place, entries, at, filters, text, emitted, timer, data, request, error, acts, fails, own,
          moved, overtaken, meant

Search == INSTANCE SearchList

TextsAreSensible ==
    /\ "" \in Texts /\ Trim \in [Texts -> Texts] /\ Trim[""] = ""
    /\ \A t \in Texts : Trim[Trim[t]] = Trim[t]
    /\ \A t \in Texts : <<t, t>> \in Within
    /\ None \notin Texts
    /\ None \notin [of : Search!Filters, more : BOOLEAN] \cup [of : Search!Filters, pages : Nat]

\* The history has the entry that is shown, and filters and field hold texts.
SearchShape ==
    /\ entries \in Seq(Search!Filters) /\ at \in DOMAIN entries
    /\ place = "pool" => Len(entries) = 1
    /\ filters \in Search!Filters /\ text \in Texts /\ timer \in Texts \cup {None}
    /\ request # None => request \in [of : Search!Filters, more : BOOLEAN]

\* Until the location is moved otherwise it says what the field emitted last, which is what the
\* field holds or is about to send, unless a text was taken over with a search still to be sent.
FieldIsSent ==
    /\ ~moved => Trim[Search!location.q] = emitted
    /\ ~overtaken => IF timer = None THEN Trim[text] = emitted ELSE timer = text

\* What is under way, or was answered last, is for the filters as they were rendered.
QueryIsOfTheFilters ==
    /\ Trim[filters.q] = filters.q
    /\ data # None => data \in [of : Search!Filters, pages : Nat]
    /\ request = None /\ error # "list" => data # None /\ data.of = filters
    /\ request # None =>
          request.of = filters /\ (request.more = TRUE => data # None /\ data.of = filters)

SearchInv ==
    /\ SearchShape /\ FieldIsSent /\ QueryIsOfTheFilters
    /\ text = own /\ Search!location = meant

\* The entry that is shown, after its filters were replaced and after others were pushed.
LEMMA ReplacedIsShown ==
    ASSUME SearchShape, NEW f \in Search!Filters, Search!Replaces(f)
    PROVE  /\ entries' \in Seq(Search!Filters) /\ at' \in DOMAIN entries'
           /\ Len(entries') = Len(entries) /\ Search!location' = f
  BY DEF SearchShape, Search!Replaces, Search!location

\* A filter that is pushed is the entry shown, whether the place keeps a history or not.
LEMMA PushedIsShown ==
    ASSUME SearchShape, NEW f \in Search!Filters, Search!Pushes(f)
    PROVE  /\ entries' \in Seq(Search!Filters) /\ at' \in DOMAIN entries'
           /\ place = "pool" => Len(entries') = 1
           /\ Search!location' = f
<1>1. CASE place = "url"
  <2>1. entries' = Append(SubSeq(entries, 1, at), f) /\ at' = at + 1
    BY <1>1 DEF Search!Pushes
  <2>2. at \in 1 .. Len(entries)
    BY DEF SearchShape
  <2>3. SubSeq(entries, 1, at) \in Seq(Search!Filters) /\ Len(SubSeq(entries, 1, at)) = at
    BY <2>2 DEF SearchShape
  <2>4. /\ entries' \in Seq(Search!Filters) /\ Len(entries') = at + 1 /\ entries'[at + 1] = f
    BY <2>1, <2>2, <2>3
  <2> QED
    BY <1>1, <2>1, <2>2, <2>4 DEF Search!location
<1>2. CASE place # "url"
  <2>1. Search!Replaces(f)
    BY <1>2 DEF Search!Pushes
  <2> QED
    BY <2>1, ReplacedIsShown DEF SearchShape
<1> QED
  BY <1>1, <1>2

\* One entry alone is a sequence of them.
LEMMA OneEntry ==
    ASSUME NEW S, NEW e \in S
    PROVE  << e >> \in Seq(S) /\ Len(<< e >>) = 1 /\ << e >>[1] = e
<1>1. << e >> \in Seq(S)
  OBVIOUS
<1> QED
  BY <1>1

\* The first render: the field and the query are those of the URL.
LEMMA SearchAtFirst ==
    ASSUME TextsAreSensible, Search!Init
    PROVE  SearchInv
<1>1. Search!NoFilters \in Search!Filters /\ Search!NoFilters.q = ""
  BY DEF TextsAreSensible, Search!NoFilters, Search!Filters
<1>2. Search!Asks(Search!NoFilters) \in [of : Search!Filters, more : BOOLEAN]
      /\ Search!Asks(Search!NoFilters).of = Search!NoFilters
      /\ Search!Asks(Search!NoFilters).more = FALSE
  BY <1>1 DEF Search!Asks
<1>3. entries \in Seq(Search!Filters) /\ Len(entries) = 1 /\ at = 1 /\ Search!location = Search!NoFilters
  <2>1. entries = << Search!NoFilters >> /\ at = 1
    BY DEF Search!Init
  <2>2. entries \in Seq(Search!Filters) /\ Len(entries) = 1 /\ entries[1] = Search!NoFilters
    BY <1>1, <2>1, OneEntry
  <2> QED
    BY <2>1, <2>2 DEF Search!location
<1>4. SearchShape
  <2>1. at \in DOMAIN entries
    BY <1>3
  <2>2. /\ filters \in Search!Filters /\ text \in Texts /\ timer \in Texts \cup {None}
        /\ request \in [of : Search!Filters, more : BOOLEAN]
    BY <1>1, <1>2 DEF Search!Init, TextsAreSensible
  <2> QED
    BY <1>3, <2>1, <2>2 DEF SearchShape
<1>5. FieldIsSent
  BY <1>1, <1>3 DEF Search!Init, FieldIsSent, TextsAreSensible
<1>6. QueryIsOfTheFilters
  BY <1>1, <1>2 DEF Search!Init, QueryIsOfTheFilters, TextsAreSensible
<1> QED
  BY <1>3, <1>4, <1>5, <1>6 DEF Search!Init, SearchInv

\* The member's steps leave the query alone.
LEMMA MembersActAsMeant ==
    ASSUME TextsAreSensible, SearchInv,
           \/ \E t \in Texts : Search!Type(t)
           \/ Search!TimerFires \/ Search!ClearText
           \/ \E s \in Sets \cup {None} : Search!PickFilter(s)
           \/ Search!ClearFilters \/ Search!Traverse(at - 1) \/ Search!Traverse(at + 1)
    PROVE  SearchInv'
<1> USE DEF Search!fieldVars, Search!queryVars
<1>1. Search!location \in Search!Filters
  BY DEF SearchInv, SearchShape, Search!location
<1>2. UNCHANGED <<filters, data, request, error>>
  BY DEF Search!Type, Search!TimerFires, Search!ClearText, Search!PickFilter, Search!ClearFilters, Search!Traverse
<1>3. QueryIsOfTheFilters'
  BY <1>2 DEF SearchInv, QueryIsOfTheFilters
<1>4. CASE \E t \in Texts : Search!Type(t)
  <2> PICK t \in Texts : Search!Type(t)
    BY <1>4
  <2>1. UNCHANGED <<place, entries, at, filters, emitted, request, moved, meant>>
        /\ text' = t /\ timer' = t /\ own' = t
    BY DEF Search!Type
  <2>2. Search!location' = Search!location
    BY <2>1 DEF Search!location
  <2>3. SearchShape'
    BY <2>1 DEF SearchInv, SearchShape
  <2>4. FieldIsSent'
    BY <2>1, <2>2 DEF SearchInv, FieldIsSent, TextsAreSensible
  <2> QED
    BY <1>3, <2>1, <2>2, <2>3, <2>4 DEF SearchInv
<1>5. ASSUME NEW t \in Texts, Search!Sends(t),
             UNCHANGED <<place, filters, request, moved>>,
             text' = own', ~overtaken' => text' = t, text' \in Texts
      PROVE  SearchInv'
  <2> DEFINE f == [Search!location EXCEPT !.q = Trim[t]]
  <2>1. f \in Search!Filters /\ f.q = Trim[t] /\ Trim[t] \in Texts
    BY <1>1 DEF TextsAreSensible, Search!Filters
  <2>2. Search!Replaces(f) /\ emitted' = Trim[t] /\ timer' = None /\ meant' = [meant EXCEPT !.q = Trim[t]]
    BY <1>5 DEF Search!Sends, Search!Sent, Search!Base
  <2> HIDE DEF f
  <2>3. /\ entries' \in Seq(Search!Filters) /\ at' \in DOMAIN entries'
        /\ Len(entries') = Len(entries) /\ Search!location' = f
    BY <2>1, <2>2, ReplacedIsShown DEF SearchInv
  <2>4. SearchShape'
    BY <1>5, <2>2, <2>3 DEF SearchInv, SearchShape
  <2>5. FieldIsSent'
    BY <1>5, <2>1, <2>2, <2>3 DEF FieldIsSent, TextsAreSensible
  <2>6. Search!location' = meant'
    BY <2>2, <2>3 DEF SearchInv, f
  <2> QED
    BY <1>3, <1>5, <2>4, <2>5, <2>6 DEF SearchInv
<1>6. CASE Search!TimerFires
  <2>1. timer \in Texts /\ (~overtaken => text = timer)
    BY <1>6 DEF Search!TimerFires, SearchInv, SearchShape, FieldIsSent
  <2>2. Search!Sends(timer) /\ UNCHANGED <<place, filters, text, request, own, moved, overtaken>>
    BY <1>6 DEF Search!TimerFires
  <2>3. text' = own' /\ text' \in Texts
    BY <2>2 DEF SearchInv, SearchShape
  <2> QED
    BY <1>5, <2>1, <2>2, <2>3
<1>7. CASE Search!ClearText
  <2>1. Search!Sends("") /\ UNCHANGED <<place, filters, request, moved>> /\ text' = "" /\ own' = "" /\ "" \in Texts
    BY <1>7 DEF Search!ClearText, TextsAreSensible
  <2> QED
    BY <1>5, <2>1
<1>8. CASE \E s \in Sets \cup {None} : Search!PickFilter(s)
  <2> PICK s \in Sets \cup {None} : Search!PickFilter(s)
    BY <1>8
  <2> DEFINE f == [Search!location EXCEPT !.set = s]
  <2>1. f \in Search!Filters /\ f.q = Search!location.q
    BY <1>1 DEF Search!Filters
  <2>2. /\ Search!Pushes(f) /\ meant' = [meant EXCEPT !.set = s]
        /\ UNCHANGED <<place, filters, text, emitted, timer, request, own, moved, overtaken>>
    BY DEF Search!PickFilter, Search!Base
  <2> HIDE DEF f
  <2>3. /\ entries' \in Seq(Search!Filters) /\ at' \in DOMAIN entries'
        /\ place = "pool" => Len(entries') = 1
        /\ Search!location' = f
    BY <2>1, <2>2, PushedIsShown DEF SearchInv
  <2>4. SearchShape'
    BY <2>2, <2>3 DEF SearchInv, SearchShape
  <2>5. FieldIsSent'
    BY <2>1, <2>2, <2>3 DEF SearchInv, FieldIsSent
  <2>6. Search!location' = meant'
    BY <2>2, <2>3 DEF SearchInv, f
  <2> QED
    BY <1>3, <2>2, <2>4, <2>5, <2>6 DEF SearchInv
<1>9. CASE Search!ClearFilters
  <2>1. Search!NoFilters \in Search!Filters
    BY DEF TextsAreSensible, Search!NoFilters, Search!Filters
  <2>2. /\ Search!Pushes(Search!NoFilters) /\ moved' = TRUE /\ meant' = Search!NoFilters
        /\ UNCHANGED <<place, filters, text, emitted, timer, request, own, overtaken>>
    BY <1>9 DEF Search!ClearFilters
  <2>3. /\ entries' \in Seq(Search!Filters) /\ at' \in DOMAIN entries'
        /\ place = "pool" => Len(entries') = 1
        /\ Search!location' = Search!NoFilters
    BY <2>1, <2>2, PushedIsShown DEF SearchInv
  <2>4. SearchShape'
    BY <2>2, <2>3 DEF SearchInv, SearchShape
  <2>5. FieldIsSent'
    BY <2>2 DEF SearchInv, FieldIsSent
  <2> QED
    BY <1>3, <2>2, <2>3, <2>4, <2>5 DEF SearchInv
<1>10. ASSUME NEW to, Search!Traverse(to) PROVE SearchInv'
  <2>1. /\ to \in DOMAIN entries /\ at' = to /\ moved' = TRUE /\ meant' = entries[to]
        /\ UNCHANGED <<place, entries, filters, text, emitted, timer, request, own, overtaken>>
    BY <1>10 DEF Search!Traverse
  <2>2. SearchShape'
    BY <2>1 DEF SearchInv, SearchShape
  <2>3. FieldIsSent'
    BY <2>1 DEF SearchInv, FieldIsSent
  <2> QED
    BY <1>3, <2>1, <2>2, <2>3 DEF SearchInv, Search!location
<1> QED
  BY <1>4, <1>6, <1>7, <1>8, <1>9, <1>10

\* A render takes the location's filters over, and the field its search where it differs.
LEMMA RendersKeepTheField ==
    ASSUME TextsAreSensible, SearchInv, Search!Renders
    PROVE  SearchInv'
<1> USE DEF Search!queryVars
<1> DEFINE next == [Search!location EXCEPT !.q = Trim[Search!location.q]]
<1>1. Search!location \in Search!Filters
  BY DEF SearchInv, SearchShape, Search!location
<1>2. next \in Search!Filters /\ next.q = Trim[Search!location.q] /\ next.q \in Texts /\ Trim[next.q] = next.q
  BY <1>1 DEF TextsAreSensible, Search!Filters
<1>3. /\ filters' = next /\ moved' = FALSE
      /\ IF next.q # emitted
         THEN text' = next.q /\ emitted' = next.q
         ELSE UNCHANGED <<text, emitted>>
      /\ own' = IF moved /\ next.q # emitted THEN next.q ELSE own
      /\ overtaken' = (overtaken \/ (next.q # emitted /\ timer # None))
      /\ IF next = filters
         THEN UNCHANGED <<data, request, error>>
         ELSE request' = Search!Asks(next) /\ error' = "none" /\ UNCHANGED data
      /\ UNCHANGED <<place, entries, at, timer, meant>>
  BY DEF Search!Renders, Search!Adopts
<1> HIDE DEF next
<1>4. Search!location' = Search!location
  BY <1>3 DEF Search!location
<1>5. Search!Asks(next) \in [of : Search!Filters, more : BOOLEAN]
      /\ Search!Asks(next).of = next /\ Search!Asks(next).more = FALSE
  BY <1>2 DEF Search!Asks
<1>6. text' \in Texts /\ (request' # None => request' \in [of : Search!Filters, more : BOOLEAN])
  BY <1>2, <1>3, <1>5 DEF SearchInv, SearchShape
<1>7. SearchShape'
  BY <1>2, <1>3, <1>6 DEF SearchInv, SearchShape
<1>8. emitted' = next.q
  BY <1>3
<1>9. FieldIsSent'
  <2>1. Trim[Search!location'.q] = emitted'
    BY <1>2, <1>4, <1>8
  <2>2. ASSUME ~overtaken' PROVE IF timer' = None THEN Trim[text'] = emitted' ELSE timer' = text'
    BY <1>2, <1>3, <2>2 DEF SearchInv, FieldIsSent
  <2> QED
    BY <2>1, <2>2 DEF FieldIsSent
<1>10. QueryIsOfTheFilters'
  <2>1. CASE next = filters
    BY <1>3, <2>1 DEF SearchInv, QueryIsOfTheFilters
  <2>2. CASE next # filters
    BY <1>2, <1>3, <1>5, <2>2 DEF SearchInv, QueryIsOfTheFilters, TextsAreSensible
  <2> QED
    BY <2>1, <2>2
<1>11. text' = own'
  BY <1>2, <1>3 DEF SearchInv, FieldIsSent
<1> QED
  BY <1>3, <1>4, <1>7, <1>9, <1>10, <1>11 DEF SearchInv

\* Fetches, their answers and their failures are of the filters they were begun for.
LEMMA QueriesAnswerTheFilters ==
    ASSUME TextsAreSensible, SearchInv,
           Search!Arrives \/ Search!RequestFails \/ Search!Retry \/ Search!LoadMore
    PROVE  SearchInv'
<1> USE DEF Search!fieldVars
<1>1. UNCHANGED <<place, entries, at, filters, text, emitted, timer, own, moved, overtaken, meant>>
  BY DEF Search!Arrives, Search!RequestFails, Search!Retry, Search!LoadMore, Search!Keeps
<1>2. Search!location' = Search!location
  BY <1>1 DEF Search!location
<1>3. FieldIsSent' /\ text' = own' /\ Search!location' = meant'
  BY <1>1, <1>2 DEF SearchInv, FieldIsSent
<1>4. filters \in Search!Filters
  BY DEF SearchInv, SearchShape
<1>5. ASSUME request' # None => request' \in [of : Search!Filters, more : BOOLEAN] PROVE SearchShape'
  BY <1>1, <1>5 DEF SearchInv, SearchShape
<1>6. CASE Search!Arrives
  <2>1. data' = [of |-> request.of, pages |-> IF request.more THEN data.pages + 1 ELSE 1]
        /\ request # None /\ request' = None
    BY <1>6 DEF Search!Arrives
  <2>2. request.of = filters /\ (request.more = TRUE => data.pages \in Nat) /\ request.more \in BOOLEAN
    BY <2>1 DEF SearchInv, SearchShape, QueryIsOfTheFilters
  <2>3. data' \in [of : Search!Filters, pages : Nat] /\ data'.of = filters
    BY <1>4, <2>1, <2>2
  <2> QED
    BY <1>1, <1>3, <1>5, <2>1, <2>3 DEF SearchInv, QueryIsOfTheFilters, TextsAreSensible
<1>7. CASE Search!RequestFails
  <2>1. request # None /\ request' = None /\ error' = (IF request.more THEN "more" ELSE "list") /\ data' = data
    BY <1>7 DEF Search!RequestFails
  <2>2. request.more \in BOOLEAN
    BY <2>1 DEF SearchInv, SearchShape
  <2> QED
    BY <1>1, <1>3, <1>5, <2>1, <2>2 DEF SearchInv, QueryIsOfTheFilters
<1>8. CASE Search!Retry
  <2>1. request' = Search!Asks(filters) /\ UNCHANGED data
    BY <1>8 DEF Search!Retry
  <2>2. request' \in [of : Search!Filters, more : BOOLEAN] /\ request'.of = filters /\ request'.more = FALSE
    BY <1>4, <2>1 DEF Search!Asks
  <2> QED
    BY <1>1, <1>3, <1>5, <2>1, <2>2 DEF SearchInv, QueryIsOfTheFilters, TextsAreSensible
<1>9. CASE Search!LoadMore
  <2>1. Search!Says = "cards" /\ request = None /\ request' = [of |-> data.of, more |-> TRUE] /\ UNCHANGED <<data, error>>
    BY <1>9 DEF Search!LoadMore
  <2>2. error # "list"
    BY <2>1 DEF Search!Says
  <2>3. data # None /\ data.of = filters
    BY <2>1, <2>2 DEF SearchInv, QueryIsOfTheFilters
  <2>4. request' \in [of : Search!Filters, more : BOOLEAN] /\ request'.of = filters
    BY <1>4, <2>1, <2>3
  <2> QED
    BY <1>1, <1>3, <1>5, <2>1, <2>3, <2>4 DEF SearchInv, QueryIsOfTheFilters, TextsAreSensible
<1> QED
  BY <1>6, <1>7, <1>8, <1>9

\* Every step of the field, the history, the render and the query keeps the invariant.
LEMMA SearchStays ==
    ASSUME TextsAreSensible, SearchInv, [Search!Next]_(Search!searchVars)
    PROVE  SearchInv'
<1>1. CASE UNCHANGED Search!searchVars
  <2>1. UNCHANGED <<place, entries, at, filters, text, emitted, timer, data, request, error, own, moved, overtaken, meant>>
    BY <1>1 DEF Search!searchVars
  <2>2. Search!location' = Search!location
    BY <2>1 DEF Search!location
  <2> QED
    BY <2>1, <2>2 DEF SearchInv, SearchShape, FieldIsSent, QueryIsOfTheFilters
<1>2. CASE Search!Next
  BY <1>2, MembersActAsMeant, RendersKeepTheField, QueriesAnswerTheFilters DEF Search!Next
<1> QED
  BY <1>1, <1>2

\* With nothing under way the data are those of the filters, so nothing is dimmed.
LEMMA RestingListIsCurrent ==
    ASSUME TextsAreSensible, SearchInv
    PROVE  Search!ListIsOfTheField
<1> SUFFICES ASSUME request = None, timer = None, filters = Search!location, ~moved, ~overtaken
             PROVE  Search!Typed = filters.q /\ (error = "list" \/ Search!Current)
  BY DEF Search!ListIsOfTheField
<1>1. Trim[filters.q] = emitted /\ Trim[text] = emitted /\ Trim[filters.q] = filters.q
  BY DEF SearchInv, FieldIsSent, QueryIsOfTheFilters
<1>2. Search!Typed = filters.q
  BY <1>1 DEF Search!Typed
<1>3. ASSUME error # "list" PROVE Search!Current
  <2>1. data.of = filters /\ filters.q \in Texts
    BY <1>3 DEF SearchInv, SearchShape, QueryIsOfTheFilters, Search!Filters
  <2>2. Search!Narrows /\ ~Search!Stale /\ ~Search!Placeholder
    BY <1>2, <2>1 DEF TextsAreSensible, Search!Narrows, Search!Stale, Search!Placeholder
  <2> QED
    BY <1>2, <2>1, <2>2 DEF Search!Current
<1> QED
  BY <1>2, <1>3

\* Of any texts, cards, filters and history, however many requests fail: what was typed is not
\* replaced but by the member's own Back or Clear filters; a search and a filter do not undo one
\* another, in whatever order they are sent and rendered; and a list at rest is that of the field
\* and of the URL, or says that it failed (search-input.tsx, url-state.ts, name-match.ts).
THEOREM SearchesAreTheMembers ==
    ASSUME TextsAreSensible
    PROVE  Search!Spec => [](Search!TypedStays /\ Search!ChoicesAreKept /\ Search!ListIsOfTheField)
<1>1. Search!Init => SearchInv
  BY SearchAtFirst
<1>2. SearchInv /\ [Search!Next]_(Search!searchVars) => SearchInv'
  BY SearchStays
<1>3. SearchInv => Search!TypedStays /\ Search!ChoicesAreKept /\ Search!ListIsOfTheField
  BY RestingListIsCurrent DEF SearchInv, Search!TypedStays, Search!ChoicesAreKept
<1> QED
  BY <1>1, <1>2, <1>3, PTL DEF Search!Spec

-----------------------------------------------------------------------------
(* The administrators' list of accounts.                                   *)

CONSTANTS Accounts, MaxActions
VARIABLES accounts, grants, table, refetch, prompt, ongoing, prompts, abroad, intended, unlucky, excused

Users == INSTANCE AdminUserList WITH
    server <- accounts, list <- table, dialog <- prompt, actions <- ongoing, dialogs <- prompts,
    others <- abroad, meant <- intended, failed <- unlucky

\* A row and what an action changes of it, without the bounds of the runs.
AccountRow == [coins : Nat, flag : BOOLEAN]
AccountPage == [Accounts -> AccountRow]
Change == [coins : Nat] \cup [flag : BOOLEAN]
Action == [step : {"sent", "done", "refused", "refreshing"}, account : Accounts, kind : Users!Kinds,
           change : Change, answer : Change, before : AccountPage]
Prompt == [open : {TRUE}, number : Nat, account : Accounts, kind : Users!Kinds, row : AccountRow]

UsersShape ==
    /\ accounts \in AccountPage /\ table \in AccountPage
    /\ refetch \in [step : {"none", "sent", "read"}, page : AccountPage]
    /\ prompt.open = TRUE => prompt \in Prompt
    /\ \A n \in DOMAIN ongoing : ongoing[n] \in Action
    /\ prompts \in Nat /\ excused \in BOOLEAN

\* The account reads as the answer says.
Agrees(n) == \A f \in DOMAIN ongoing[n].answer :
                accounts[ongoing[n].account][f] = ongoing[n].answer[f]

\* Until its action is done a page that was put aside is what the server has; once it is done the
\* server agrees with the answer, and what the refetch brings is read after it.
ActionIsKept(n) ==
    /\ ongoing[n].step \in {"sent", "refused"} => ongoing[n].before = accounts
    /\ ongoing[n].step \in {"done", "refreshing"} => Agrees(n)
    /\ ongoing[n].step = "refreshing" /\ refetch.step = "none" => table = accounts
    /\ ongoing[n].step # "done" /\ refetch.step = "read" => refetch.page = accounts

\* Nothing excuses the list but what happened to more than one action.
ListIsKept ==
    excused = FALSE =>
        /\ \A m, n \in DOMAIN ongoing : m = n
        /\ \A n \in DOMAIN ongoing : ActionIsKept(n)
        /\ DOMAIN ongoing = {} =>
              table = accounts /\ (refetch.step = "read" => refetch.page = accounts)

UsersInv == UsersShape /\ ListIsKept

\* A page with one account patched is a page, and the account has what was patched.
LEMMA PatchedIsAPage ==
    ASSUME NEW page \in AccountPage, NEW a \in Accounts, NEW change \in Change
    PROVE  /\ Users!Patched(page, a, change) \in AccountPage
           /\ \A f \in DOMAIN change : Users!Patched(page, a, change)[a][f] = change[f]
<1>1. page[a] \in AccountRow
  BY DEF AccountPage
<1> DEFINE row == [f \in DOMAIN page[a] |-> IF f \in DOMAIN change THEN change[f] ELSE page[a][f]]
<1>2. DOMAIN page[a] = {"coins", "flag"} /\ page[a].coins \in Nat /\ page[a].flag \in BOOLEAN
  BY <1>1 DEF AccountRow
<1>3. \/ DOMAIN change = {"coins"} /\ change.coins \in Nat
      \/ DOMAIN change = {"flag"} /\ change.flag \in BOOLEAN
  BY DEF Change
<1>4. row.coins \in Nat /\ row.flag \in BOOLEAN /\ DOMAIN row = {"coins", "flag"}
  BY <1>2, <1>3
<1>5. row = [coins |-> row.coins, flag |-> row.flag]
  BY <1>4
<1>6. row \in AccountRow
  BY <1>4, <1>5 DEF AccountRow
<1>7. \A f \in DOMAIN change : row[f] = change[f]
  BY <1>2, <1>3
<1>8. Users!Patched(page, a, change) = [page EXCEPT ![a] = row]
  BY DEF Users!Patched
<1> HIDE DEF row
<1> QED
  BY <1>6, <1>7, <1>8 DEF AccountPage

\* Patching what is there already changes nothing.
LEMMA PatchedAlready ==
    ASSUME NEW page \in AccountPage, NEW a \in Accounts, NEW change \in Change,
           \A f \in DOMAIN change : page[a][f] = change[f]
    PROVE  Users!Patched(page, a, change) = page
<1>1. page[a] \in AccountRow
  BY DEF AccountPage
<1> DEFINE row == [f \in DOMAIN page[a] |-> IF f \in DOMAIN change THEN change[f] ELSE page[a][f]]
<1>2. DOMAIN page[a] = {"coins", "flag"} /\ page[a] = [f \in DOMAIN page[a] |-> page[a][f]]
  BY <1>1 DEF AccountRow
<1>3. row = page[a]
  BY <1>2
<1>4. Users!Patched(page, a, change) = [page EXCEPT ![a] = row]
  BY DEF Users!Patched
<1> HIDE DEF row
<1> QED
  BY <1>3, <1>4 DEF AccountPage

\* What the client expects of an action is a coin balance or a flag.
LEMMA ExpectedIsAChange ==
    ASSUME NEW d, d.row \in AccountRow, d.kind \in Users!Kinds
    PROVE  Users!Expected(d) \in Change
  BY DEF Users!Expected, AccountRow, Change, Users!Kinds

\* The page opens on what the server has, with no action and no refetch.
LEMMA UsersAtFirst ==
    ASSUME Users!Init
    PROVE  UsersInv
<1>1. Users!NoPage \in AccountPage
  BY DEF Users!NoPage, AccountPage, AccountRow
<1>2. accounts = Users!NoPage /\ table = Users!NoPage /\ refetch = [step |-> "none", page |-> Users!NoPage]
      /\ prompt.open = FALSE /\ DOMAIN ongoing = {} /\ prompts = 0 /\ excused = FALSE
  BY DEF Users!Init, Users!NoFetch, Users!NoDialog
<1>3. refetch \in [step : {"none", "sent", "read"}, page : AccountPage]
  BY <1>1, <1>2
<1> QED
  BY <1>1, <1>2, <1>3 DEF UsersInv, UsersShape, ListIsKept

\* A dialog that is asked, closed or confirmed.
LEMMA PromptsKeepTheList ==
    ASSUME UsersInv, Users!Ask \/ Users!Close \/ Users!Confirm
    PROVE  UsersInv'
<1>1. CASE Users!Ask
  <2> PICK a \in Accounts, k \in Users!Kinds :
           /\ prompts' = prompts + 1
           /\ prompt' = [open |-> TRUE, number |-> prompts', account |-> a, kind |-> k, row |-> table[a]]
           /\ UNCHANGED <<accounts, grants, table, refetch, ongoing, excused>>
    BY <1>1 DEF Users!Ask
  <2>1. table[a] \in AccountRow /\ prompts' \in Nat
    BY DEF UsersInv, UsersShape, AccountPage
  <2>2. prompt' \in Prompt
    BY <2>1 DEF Prompt
  <2>3. UsersShape'
    BY <2>1, <2>2 DEF UsersInv, UsersShape
  <2> QED
    BY <2>3 DEF UsersInv, ListIsKept, ActionIsKept, Agrees
<1>2. CASE Users!Close
  <2>1. prompt'.open = FALSE /\ UNCHANGED <<accounts, table, refetch, ongoing, prompts, excused>>
    BY <1>2 DEF Users!Close, Users!NoDialog
  <2> QED
    BY <2>1 DEF UsersInv, UsersShape, ListIsKept, ActionIsKept, Agrees
<1>3. CASE Users!Confirm
  <2> DEFINE change == Users!Expected(prompt)
             made == [step |-> "sent", account |-> prompt.account, kind |-> prompt.kind,
                      change |-> change, answer |-> change, before |-> table]
  <2>1. /\ prompt.open = TRUE /\ prompt'.open = FALSE
        /\ refetch' = [step |-> "none", page |-> Users!NoPage]
        /\ table' = Users!Patched(table, prompt.account, change)
        /\ ongoing' = [n \in DOMAIN ongoing \cup {prompt.number} |->
                          IF n # prompt.number THEN ongoing[n] ELSE made]
        /\ excused' = (excused \/ ongoing # <<>>)
        /\ UNCHANGED <<accounts, prompts>>
    BY <1>3 DEF Users!Confirm, Users!ConfirmKeeping, Users!NoDialog, Users!NoFetch
  <2>2. prompt \in Prompt /\ table \in AccountPage
    BY <2>1 DEF UsersInv, UsersShape
  <2>3. change \in Change /\ prompt.account \in Accounts /\ prompt.kind \in Users!Kinds
    BY <2>2, ExpectedIsAChange DEF Prompt
  <2> HIDE DEF change
  <2>4. made \in Action /\ made.step = "sent" /\ made.before = table
    BY <2>2, <2>3 DEF Action
  <2> HIDE DEF made
  <2>5. Users!NoPage \in AccountPage
    BY DEF Users!NoPage, AccountPage, AccountRow
  <2>6. refetch' \in [step : {"none", "sent", "read"}, page : AccountPage] /\ refetch'.step = "none"
    BY <2>1, <2>5
  <2>7. table' \in AccountPage
    BY <2>1, <2>2, <2>3, PatchedIsAPage
  <2>8. \A n \in DOMAIN ongoing' : ongoing'[n] \in Action
    BY <2>1, <2>4 DEF UsersInv, UsersShape
  <2>9. UsersShape'
    <3>1. excused' \in BOOLEAN
      BY <2>1 DEF UsersInv, UsersShape
    <3> QED
      BY <2>1, <2>6, <2>7, <2>8, <3>1 DEF UsersInv, UsersShape
  <2>10. ASSUME excused' = FALSE PROVE DOMAIN ongoing' = {prompt.number} /\ ongoing'[prompt.number] = made /\ table = accounts
    <3>1. ~(excused \/ ongoing # <<>>)
      BY <2>1, <2>10
    <3>2. excused = FALSE /\ ongoing = <<>>
      BY <3>1 DEF UsersInv, UsersShape
    <3>3. DOMAIN ongoing = {}
      BY <3>2
    <3>4. table = accounts
      BY <3>2, <3>3 DEF UsersInv, ListIsKept
    <3>5. DOMAIN ongoing' = {prompt.number} /\ ongoing'[prompt.number] = made
      BY <2>1, <3>3
    <3> QED
      BY <3>4, <3>5
  <2>11. PICK number : number = prompt.number
    OBVIOUS
  <2>12. ASSUME excused' = FALSE PROVE ActionIsKept(number)'
    <3>1. ongoing'[number] = made /\ accounts' = accounts /\ table = accounts /\ refetch'.step = "none"
      BY <2>1, <2>6, <2>10, <2>11, <2>12
    <3> QED
      BY <2>4, <3>1 DEF ActionIsKept
  <2>13. ListIsKept'
    BY <2>10, <2>11, <2>12 DEF ListIsKept
  <2> QED
    BY <2>9, <2>13 DEF UsersInv
<1> QED
  BY <1>1, <1>2, <1>3

\* The cardinality that the instance sees is the library's.
LEMMA CountOfActions == \A S : Users!Cardinality(S) = Cardinality(S)
BY DEF Users!Cardinality, Cardinality

\* An action that goes on, while the others stay as they are.
LEMMA ActionsKeepTheList ==
    ASSUME UsersInv, NEW n \in DOMAIN ongoing,
           \/ Users!ServerActs(n) \/ Users!ServerRefuses(n) \/ Users!Fail(n)
           \/ Users!Succeed(n) \/ Users!PatchRow(n)
    PROVE  UsersInv'
<1>1. ongoing[n] \in Action /\ accounts \in AccountPage /\ table \in AccountPage
  BY DEF UsersInv, UsersShape
<1>2. /\ ongoing[n].account \in Accounts /\ ongoing[n].change \in Change /\ ongoing[n].answer \in Change
      /\ ongoing[n].before \in AccountPage /\ ongoing[n].kind \in Users!Kinds
      /\ ongoing[n].step \in {"sent", "done", "refused", "refreshing"}
  BY <1>1 DEF Action
<1>3. ASSUME excused = FALSE PROVE DOMAIN ongoing = {n} /\ ActionIsKept(n)
  BY <1>3 DEF UsersInv, ListIsKept
<1>4. ASSUME ongoing' = Users!Ended(n)
      PROVE  /\ \A m \in DOMAIN ongoing' : ongoing'[m] \in Action
             /\ excused = FALSE => DOMAIN ongoing' = {}
  BY <1>3, <1>4 DEF Users!Ended, UsersInv, UsersShape
<1>5. CASE Users!ServerActs(n)
  <2> DEFINE a == ongoing[n]
             row == accounts[a.account]
             fields == IF a.kind = "grant" THEN [coins |-> row.coins + 1] ELSE a.change
             made == [[a EXCEPT !.step = "done"] EXCEPT !.answer = fields]
  <2>1. /\ a.step = "sent"
        /\ accounts' = Users!Patched(accounts, a.account, fields)
        /\ ongoing' = [ongoing EXCEPT ![n].step = "done", ![n].answer = fields]
        /\ UNCHANGED <<table, refetch, prompt, prompts, excused>>
    BY <1>5 DEF Users!ServerActs
  <2>2. row.coins \in Nat
    BY <1>1, <1>2 DEF AccountPage, AccountRow
  <2>3. fields \in Change
    BY <1>2, <2>2 DEF Change
  <2> HIDE DEF fields
  <2>4. made \in Action /\ made.step = "done" /\ made.answer = fields /\ made.account = a.account
    BY <1>1, <2>3 DEF Action
  <2>5. ongoing' = [ongoing EXCEPT ![n] = made]
    BY <2>1
  <2>6. DOMAIN ongoing' = DOMAIN ongoing /\ ongoing'[n] = made /\ (\A m \in DOMAIN ongoing' : ongoing'[m] \in Action)
    BY <2>4, <2>5 DEF UsersInv, UsersShape
  <2>7. accounts' \in AccountPage /\ (\A f \in DOMAIN fields : accounts'[a.account][f] = fields[f])
    BY <1>1, <1>2, <2>1, <2>3, PatchedIsAPage
  <2> HIDE DEF made
  <2>8. UsersShape'
    BY <2>1, <2>6, <2>7 DEF UsersInv, UsersShape
  <2>9. ASSUME excused' = FALSE PROVE ActionIsKept(n)'
    BY <2>4, <2>6, <2>7 DEF ActionIsKept, Agrees
  <2>10. ListIsKept'
    BY <1>3, <2>1, <2>6, <2>9 DEF ListIsKept
  <2> QED
    BY <2>8, <2>10 DEF UsersInv
<1>6. CASE Users!ServerRefuses(n)
  <2> DEFINE made == [ongoing[n] EXCEPT !.step = "refused"]
  <2>1. /\ ongoing[n].step = "sent" /\ ongoing' = [ongoing EXCEPT ![n] = made]
        /\ UNCHANGED <<accounts, table, refetch, prompt, prompts, excused>>
    BY <1>6 DEF Users!ServerRefuses
  <2>2. made \in Action /\ made.step = "refused" /\ made.before = ongoing[n].before
    BY <1>1 DEF Action
  <2> HIDE DEF made
  <2>3. DOMAIN ongoing' = DOMAIN ongoing /\ ongoing'[n] = made /\ (\A m \in DOMAIN ongoing' : ongoing'[m] \in Action)
    BY <2>1, <2>2 DEF UsersInv, UsersShape
  <2>4. UsersShape'
    BY <2>1, <2>3 DEF UsersInv, UsersShape
  <2>5. ASSUME excused' = FALSE PROVE ActionIsKept(n)'
    BY <1>3, <2>1, <2>2, <2>3, <2>5 DEF ActionIsKept
  <2>6. ListIsKept'
    BY <1>3, <2>1, <2>3, <2>5 DEF ListIsKept
  <2> QED
    BY <2>4, <2>6 DEF UsersInv
<1>7. CASE Users!Fail(n)
  <2>1. /\ ongoing[n].step # "refreshing" /\ table' = ongoing[n].before /\ ongoing' = Users!Ended(n)
        /\ excused' = (excused \/ ongoing[n].step = "done")
        /\ UNCHANGED <<accounts, refetch, prompt, prompts>>
    BY <1>7 DEF Users!Fail, Users!FailWith
  <2>2. UsersShape'
    <3>1. excused' \in BOOLEAN
      BY <2>1 DEF UsersInv, UsersShape
    <3> QED
      BY <1>2, <1>4, <2>1, <3>1 DEF UsersInv, UsersShape
  <2>3. ASSUME excused' = FALSE
        PROVE  DOMAIN ongoing' = {} /\ table' = accounts' /\ (refetch'.step = "read" => refetch'.page = accounts')
    <3>1. ~(excused \/ ongoing[n].step = "done")
      BY <2>1, <2>3
    <3>2. excused = FALSE /\ ongoing[n].step \in {"sent", "refused"}
      BY <1>2, <2>1, <3>1 DEF UsersInv, UsersShape
    <3> QED
      BY <1>3, <1>4, <2>1, <3>2 DEF ActionIsKept
  <2> QED
    BY <2>2, <2>3 DEF UsersInv, ListIsKept
<1>8. CASE Users!Succeed(n)
  <2> DEFINE made == [ongoing[n] EXCEPT !.step = "refreshing"]
  <2>1. /\ ongoing[n].step = "done" /\ ongoing' = [ongoing EXCEPT ![n] = made]
        /\ refetch' = [step |-> "sent", page |-> Users!NoPage]
        /\ UNCHANGED <<accounts, table, prompt, prompts, excused>>
    BY <1>8 DEF Users!Succeed, Users!NoFetch
  <2>2. made \in Action /\ made.step = "refreshing" /\ made.answer = ongoing[n].answer
        /\ made.account = ongoing[n].account
    BY <1>1 DEF Action
  <2> HIDE DEF made
  <2>3. DOMAIN ongoing' = DOMAIN ongoing /\ ongoing'[n] = made /\ (\A m \in DOMAIN ongoing' : ongoing'[m] \in Action)
    BY <2>1, <2>2 DEF UsersInv, UsersShape
  <2>4. Users!NoPage \in AccountPage
    BY DEF Users!NoPage, AccountPage, AccountRow
  <2>5. refetch' \in [step : {"none", "sent", "read"}, page : AccountPage] /\ refetch'.step = "sent"
    BY <2>1, <2>4
  <2>6. UsersShape'
    BY <2>1, <2>3, <2>5 DEF UsersInv, UsersShape
  <2>7. ASSUME excused' = FALSE PROVE ActionIsKept(n)'
    BY <1>3, <2>1, <2>2, <2>3, <2>5, <2>7 DEF ActionIsKept, Agrees
  <2>8. ListIsKept'
    BY <1>3, <2>1, <2>3, <2>7 DEF ListIsKept
  <2> QED
    BY <2>6, <2>8 DEF UsersInv
<1>9. CASE Users!PatchRow(n)
  <2>1. /\ ongoing[n].step = "refreshing"
        /\ refetch.step = "none" \/ Cardinality(DOMAIN ongoing) > 1
        /\ table' = Users!Patched(table, ongoing[n].account, ongoing[n].answer)
        /\ ongoing' = Users!Ended(n)
        /\ UNCHANGED <<accounts, refetch, prompt, prompts, excused>>
    BY <1>9, CountOfActions DEF Users!PatchRow
  <2>2. table' \in AccountPage
    BY <1>1, <1>2, <2>1, PatchedIsAPage
  <2>3. UsersShape'
    BY <1>4, <2>1, <2>2 DEF UsersInv, UsersShape
  <2>4. ASSUME excused' = FALSE
        PROVE  DOMAIN ongoing' = {} /\ table' = accounts' /\ refetch'.step = "none"
    <3>1. DOMAIN ongoing = {n} /\ ActionIsKept(n)
      BY <1>3, <2>1, <2>4
    <3>2. refetch.step = "none"
      BY <2>1, <3>1, FS_Singleton
    <3>3. table = accounts /\ (\A f \in DOMAIN ongoing[n].answer : table[ongoing[n].account][f] = ongoing[n].answer[f])
      BY <2>1, <3>1, <3>2 DEF ActionIsKept, Agrees
    <3>4. Users!Patched(table, ongoing[n].account, ongoing[n].answer) = table
      BY <1>1, <1>2, <3>3, PatchedAlready
    <3> QED
      BY <1>4, <2>1, <2>4, <3>2, <3>3, <3>4
  <2> QED
    BY <2>3, <2>4 DEF UsersInv, ListIsKept
<1> QED
  BY <1>5, <1>6, <1>7, <1>8, <1>9

\* What a fetch brings is the server's, unless it was read before an action was done.
LEMMA FetchesKeepTheList ==
    ASSUME UsersInv,
           Users!Focus \/ Users!ServerReads \/ Users!Land \/ Users!FetchFails \/ Users!OtherActs
    PROVE  UsersInv'
<1>1. Users!NoPage \in AccountPage
  BY DEF Users!NoPage, AccountPage, AccountRow
<1>2. CASE Users!Focus
  <2>1. /\ refetch.step = "none" /\ refetch' = [step |-> "sent", page |-> Users!NoPage]
        /\ UNCHANGED <<accounts, table, prompt, ongoing, prompts, excused>>
    BY <1>2 DEF Users!Focus, Users!NoFetch
  <2>2. refetch' \in [step : {"none", "sent", "read"}, page : AccountPage] /\ refetch'.step = "sent"
    BY <1>1, <2>1
  <2> QED
    BY <2>1, <2>2 DEF UsersInv, UsersShape, ListIsKept, ActionIsKept, Agrees
<1>3. CASE Users!ServerReads
  <2>1. /\ refetch.step = "sent" /\ refetch' = [step |-> "read", page |-> accounts]
        /\ UNCHANGED <<accounts, table, prompt, ongoing, prompts, excused>>
    BY <1>3 DEF Users!ServerReads
  <2>2. refetch' \in [step : {"none", "sent", "read"}, page : AccountPage]
        /\ refetch'.step = "read" /\ refetch'.page = accounts
    BY <2>1 DEF UsersInv, UsersShape
  <2>3. UsersShape'
    BY <2>1, <2>2 DEF UsersInv, UsersShape
  <2> QED
    BY <2>1, <2>2, <2>3 DEF UsersInv, ListIsKept, ActionIsKept, Agrees
<1>4. CASE Users!Land
  <2>1. /\ refetch.step = "read" /\ refetch' = [step |-> "none", page |-> Users!NoPage]
        /\ table' = refetch.page
        /\ excused' = (excused /\ (ongoing # <<>> \/ refetch.page # accounts))
        /\ UNCHANGED <<accounts, prompt, ongoing, prompts>>
    BY <1>4 DEF Users!Land, Users!NoFetch
  <2>2. refetch' \in [step : {"none", "sent", "read"}, page : AccountPage] /\ refetch'.step = "none"
    BY <1>1, <2>1
  <2>3. UsersShape'
    <3>1. excused' \in BOOLEAN
      BY <2>1 DEF UsersInv, UsersShape
    <3> QED
      BY <2>1, <2>2, <3>1 DEF UsersInv, UsersShape
  <2>4. CASE excused = FALSE
    <3>1. \A m, n \in DOMAIN ongoing : m = n
      BY <2>4 DEF UsersInv, ListIsKept
    <3>2. \A n \in DOMAIN ongoing : ActionIsKept(n)'
      BY <2>1, <2>2, <2>4 DEF UsersInv, ListIsKept, ActionIsKept, Agrees
    <3>3. DOMAIN ongoing = {} => table' = accounts
      BY <2>1, <2>4 DEF UsersInv, ListIsKept
    <3> QED
      BY <2>1, <2>2, <2>3, <3>1, <3>2, <3>3 DEF UsersInv, ListIsKept
  <2>5. CASE excused # FALSE /\ excused' = FALSE
    <3>1. excused = TRUE /\ ~(ongoing # <<>> \/ refetch.page # accounts)
      BY <2>1, <2>5 DEF UsersInv, UsersShape
    <3>2. ongoing = <<>> /\ refetch.page = accounts
      BY <3>1
    <3>3. DOMAIN ongoing' = {} /\ table' = accounts'
      BY <2>1, <3>2
    <3> QED
      BY <2>2, <2>3, <3>3 DEF UsersInv, ListIsKept
  <2> QED
    BY <2>3, <2>4, <2>5 DEF UsersInv, ListIsKept
<1>5. CASE Users!FetchFails
  <2>1. /\ refetch' = [step |-> "none", page |-> Users!NoPage] /\ excused' = TRUE
        /\ UNCHANGED <<accounts, table, prompt, ongoing, prompts>>
    BY <1>5 DEF Users!FetchFails, Users!NoFetch
  <2>2. refetch' \in [step : {"none", "sent", "read"}, page : AccountPage]
    BY <1>1, <2>1
  <2> QED
    BY <2>1, <2>2 DEF UsersInv, UsersShape, ListIsKept
<1>6. CASE Users!OtherActs
  <2> PICK a \in Accounts, k \in Users!Kinds :
           accounts' = Users!Patched(accounts, a, Users!Expected([kind |-> k, row |-> accounts[a]]))
    BY <1>6 DEF Users!OtherActs
  <2>1. excused' = TRUE /\ UNCHANGED <<table, refetch, prompt, ongoing, prompts>>
    BY <1>6 DEF Users!OtherActs
  <2>2. accounts \in AccountPage /\ accounts[a] \in AccountRow
    BY DEF UsersInv, UsersShape, AccountPage
  <2>3. Users!Expected([kind |-> k, row |-> accounts[a]]) \in Change
    BY <2>2, ExpectedIsAChange
  <2>4. accounts' \in AccountPage
    BY <2>2, <2>3, PatchedIsAPage
  <2> QED
    BY <2>1, <2>4 DEF UsersInv, UsersShape, ListIsKept
<1> QED
  BY <1>2, <1>3, <1>4, <1>5, <1>6

\* Every step of the dialog, the actions, the refetch and the others keeps the invariant.
LEMMA UsersStay ==
    ASSUME UsersInv, [Users!Next]_(Users!avars)
    PROVE  UsersInv'
<1>1. CASE UNCHANGED Users!avars
  BY <1>1 DEF Users!avars, UsersInv, UsersShape, ListIsKept, ActionIsKept, Agrees
<1>2. CASE Users!Next
  BY <1>2, PromptsKeepTheList, ActionsKeepTheList, FetchesKeepTheList DEF Users!Next
<1> QED
  BY <1>1, <1>2

\* Of any number of accounts, of refusals, refetches and dialogs: with nothing under way the list
\* shows the accounts as they are, unless actions of this tab crossed, an answer was lost, a fetch
\* failed or another administrator acted (lib/query/admin.ts, useAdminUserAction).
THEOREM AccountsAreShownAsTheyAre ==
    Users!Spec => []Users!ListIsCurrent
<1>1. Users!Init => UsersInv
  BY UsersAtFirst
<1>2. UsersInv /\ [Users!Next]_(Users!avars) => UsersInv'
  BY UsersStay
<1>3. UsersInv => Users!ListIsCurrent
  <2> SUFFICES ASSUME UsersInv, ~excused, ongoing = <<>>, refetch.step = "none"
               PROVE  table = accounts
    BY DEF Users!ListIsCurrent
  <2>1. DOMAIN ongoing = {} /\ (excused = FALSE)
    OBVIOUS
  <2> QED
    BY <2>1 DEF UsersInv, ListIsKept
<1> QED
  BY <1>1, <1>2, <1>3, PTL DEF Users!Spec

-----------------------------------------------------------------------------
(* The trade composer.                                                     *)

CONSTANTS TradeCards, MaxLines, MaxCopies, MaxCoins, Starts, MaxDeeds, UnderWay
VARIABLES stock, coins, original, created, offer, blocked, balance, owned, counting, picker, checking,
          sending, notice, leaving, deeds, meanwhile, standing, since, doubtful

Composer == INSTANCE TradeComposer WITH
    Cards <- TradeCards, MaxActs <- MaxDeeds, sent <- created, fetch <- counting, acts <- deeds,
    others <- meanwhile, basis <- standing, unsure <- doubtful

Phases == {"asked", "ok", "other", "answered", "coins", "copies"}
Pressed == [offer : Composer!OfferType, balance : 0 .. MaxCoins]
Posted == [body : Composer!OfferType, phase : Phases]

OffersAreSensible ==
    /\ MaxCopies \in Nat \ {0} /\ MaxCoins \in Nat
    /\ \A start \in Starts :
          /\ start.trade \in {"none", "pending", "closed", "missing"}
          /\ start.asked \in Composer!Counts /\ start.offered \in Composer!Counts
    /\ None \notin Composer!Counts \cup (0 .. MaxCopies) \cup Pressed \cup Posted
    /\ UnderWay \notin Composer!Counts \cup {None}

ComposerShape ==
    /\ stock \in Composer!Counts /\ coins \in 0 .. MaxCoins /\ balance \in 0 .. MaxCoins
    /\ original \in {"none", "pending", "closed", "missing"}
    /\ offer \in Composer!OfferType /\ {blocked, leaving} \subseteq BOOLEAN
    /\ standing \in {"none", "reviewed", "refused"}
    /\ IsFiniteSet(created) /\ \A s \in created : s.number \in Nat /\ s.body \in Composer!OfferType
    /\ owned \in [Composer!Keys -> Composer!Counts \cup {None}]
    /\ counting \in [Composer!Keys -> Composer!Counts \cup {None, UnderWay}]
    /\ picker.side \in {"none", "give", "get"} /\ picker.stock \in Composer!Counts
    /\ checking # None => checking \in Pressed
    /\ sending # None => sending \in Posted
    /\ notice \in {"none", "answered", "coins", "copies"}
    /\ meanwhile \in Nat /\ since \in 0 .. meanwhile /\ doubtful \in Nat

\* An offer that is on its way is the one in review, which nothing is counted for any more, and
\* one that was refused for its copies is back in the composer.
OfferStandsStill ==
    /\ sending # None => offer.step = "review" /\ picker.side = "none" /\ sending.body = offer
    /\ offer.step = "review" => checking = None
    /\ standing = "refused" => offer.step = "compose" /\ checking = None /\ sending = None

\* One trade is there whose answer was told, or is about to be, and one for each doubt.
TradesAreFew ==
    /\ Cardinality(created) <= doubtful + 1
    /\ ~leaving /\ sending = None => Cardinality(created) <= doubtful
    /\ sending # None /\ sending.phase # "ok" => Cardinality(created) <= doubtful
    /\ offer.mode = "counter" =>
          Cardinality(created) <= 1 /\ (original = "pending" => created = {})

\* The server would take the offer.
Fits(o) ==
    /\ Composer!Terms(o) # Composer!NoTerms /\ o.coinsGive <= coins
    /\ \A c \in TradeCards : o.give[c] <= stock[c]

\* The counts a review waits for are read after it was pressed.
ReviewHolds ==
    standing = "reviewed" /\ since = meanwhile /\ leaving = FALSE =>
        /\ offer.step = "review" /\ sending = None => Fits(offer)
        /\ checking # None =>
              /\ checking.offer = offer /\ checking.balance = coins
              /\ Composer!Key(offer) # {} /\ counting[Composer!Key(offer)] \in {UnderWay, stock}

Short == \E c \in TradeCards : offer.give[c] > stock[c]

\* Since the server refused the offer for its copies it lacks them, and they are counted again.
RefusalHolds ==
    /\ sending # None /\ sending.phase = "copies" /\ since = meanwhile => Short
    /\ standing = "refused" /\ since = meanwhile =>
          /\ Short
          /\ counting[Composer!Key(offer)] \in {None, UnderWay, stock}
          /\ counting[Composer!Key(offer)] = None => owned[Composer!Key(offer)] = stock

ComposerInv ==
    ComposerShape /\ OfferStandsStill /\ TradesAreFew /\ ReviewHolds /\ RefusalHolds

\* The cardinality that the instance sees is the library's.
LEMMA CountOfTrades == \A S : Composer!Cardinality(S) = Cardinality(S)
BY DEF Composer!Cardinality, Cardinality

\* An offer is composed or in review.
LEMMA ComposeOrReview ==
    ASSUME NEW o \in Composer!OfferType, NEW step \in {"compose", "review"}
    PROVE  LET p == [o EXCEPT !.step = step]
           IN  /\ p \in Composer!OfferType /\ p.step = step
               /\ p.mode = o.mode /\ p.give = o.give /\ p.get = o.get
               /\ p.coinsGive = o.coinsGive /\ p.coinsGet = o.coinsGet
               /\ Composer!Key(p) = Composer!Key(o) /\ Composer!Terms(p) = Composer!Terms(o)
  BY DEF Composer!OfferType, Composer!Key, Composer!Terms

\* The cards an offer gives are one key of the counts.
LEMMA KeyIsOne ==
    ASSUME NEW o \in Composer!OfferType
    PROVE  Composer!Key(o) \in Composer!Keys \cup {{}}
  BY DEF Composer!Key, Composer!Keys, Composer!Lines

\* Where copies are short there is a line of them.
LEMMA ShortHasALine ==
    ASSUME ComposerShape, OffersAreSensible, Short
    PROVE  Composer!Key(offer) \in Composer!Keys
<1> PICK c \in TradeCards : offer.give[c] > stock[c]
  BY DEF Short
<1>1. offer.give \in Composer!Counts /\ stock \in Composer!Counts
  BY DEF ComposerShape, Composer!OfferType
<1>2. offer.give[c] \in Nat /\ stock[c] \in Nat
  BY <1>1 DEF Composer!Counts, OffersAreSensible
<1>3. c \in Composer!Key(offer)
  BY <1>2 DEF Composer!Key, Composer!Lines
<1> QED
  BY <1>3, KeyIsOne DEF ComposerShape

\* The composer opens on a draft for which nothing was sent.
LEMMA ComposerAtFirst ==
    ASSUME OffersAreSensible, Composer!Init
    PROVE  ComposerInv
<1> USE DEF OffersAreSensible
<1>1. PICK start \in Starts : offer = Composer!InitialState(start) /\ blocked = Composer!Blocked(start)
                              /\ original = start.trade
  BY DEF Composer!Init
<1>2. Composer!Empty \in Composer!Counts /\ [c \in TradeCards |-> MaxCopies] \in Composer!Counts
      /\ [c \in TradeCards |-> IF c = start.card THEN 1 ELSE 0] \in Composer!Counts
  BY DEF Composer!Empty, Composer!Counts
<1>3. offer \in Composer!OfferType /\ offer.step = "compose"
  <2>1. ASSUME NEW mode \in {"new", "counter"}, NEW party \in {"none", "member"},
               NEW give \in Composer!Counts, NEW get \in Composer!Counts
        PROVE  Composer!NewOffer(mode, party, give, get) \in Composer!OfferType
               /\ Composer!NewOffer(mode, party, give, get).step = "compose"
    BY DEF Composer!NewOffer, Composer!OfferType
  <2> QED
    BY <1>1, <1>2, <2>1 DEF Composer!InitialState
<1>4. blocked \in BOOLEAN
  BY <1>1 DEF Composer!Blocked
<1>5. /\ owned \in [Composer!Keys -> Composer!Counts \cup {None}]
      /\ counting \in [Composer!Keys -> Composer!Counts \cup {None, UnderWay}]
  BY DEF Composer!Init
<1>6. /\ created = {} /\ checking = None /\ sending = None /\ standing = "none" /\ leaving = FALSE
      /\ doubtful = 0 /\ meanwhile = 0 /\ since = 0 /\ notice = "none"
      /\ picker.side = "none" /\ picker.stock = Composer!Empty
      /\ stock = [c \in TradeCards |-> MaxCopies] /\ coins = MaxCoins /\ balance = coins
  BY DEF Composer!Init
<1>7. IsFiniteSet(created) /\ Cardinality(created) = 0
  BY <1>6, FS_EmptySet
<1>8. ComposerShape
  <2>1. /\ stock \in Composer!Counts /\ coins \in 0 .. MaxCoins /\ balance \in 0 .. MaxCoins
        /\ picker.side \in {"none", "give", "get"} /\ picker.stock \in Composer!Counts
    BY <1>2, <1>6
  <2>2. meanwhile \in Nat /\ since \in 0 .. meanwhile /\ doubtful \in Nat
    BY <1>6
  <2>3. original \in {"none", "pending", "closed", "missing"}
    BY <1>1
  <2> QED
    BY <1>3, <1>4, <1>5, <1>6, <1>7, <2>1, <2>2, <2>3 DEF ComposerShape
<1> QED
  BY <1>3, <1>6, <1>7, <1>8 DEF ComposerInv, OfferStandsStill, TradesAreFew, ReviewHolds, RefusalHolds

\* The counts that come and go.
LEMMA CountsAreKept ==
    ASSUME OffersAreSensible, ComposerInv, NEW k \in Composer!Keys,
           Composer!ServerReads(k) \/ Composer!CountsArrive(k) \/ Composer!CountsFail(k)
    PROVE  ComposerInv'
<1> DEFINE key == Composer!Key(offer)
<1>1. /\ UNCHANGED <<stock, coins, original, created, blocked, balance, picker, sending, notice,
                     leaving, meanwhile, since, doubtful>>
      /\ standing' \in {standing, "none"}
  BY DEF Composer!ServerReads, Composer!CountsArrive, Composer!CountsFail, Composer!serverVars
<1>2. ComposerShape
  BY DEF ComposerInv
<1>3. ASSUME NEW n \in Composer!Counts \cup {None, UnderWay}, counting' = [counting EXCEPT ![k] = n]
      PROVE  counting' \in [Composer!Keys -> Composer!Counts \cup {None, UnderWay}]
             /\ counting'[k] = n
             /\ \A j \in Composer!Keys \ {k} : counting'[j] = counting[j]
  BY <1>2, <1>3 DEF ComposerShape
<1>4. CASE Composer!ServerReads(k)
  <2>1. /\ counting[k] = UnderWay /\ counting' = [counting EXCEPT ![k] = stock]
        /\ UNCHANGED <<offer, owned, checking, standing>>
    BY <1>4 DEF Composer!ServerReads
  <2>2. stock \in Composer!Counts
    BY <1>2 DEF ComposerShape
  <2>3. counting' \in [Composer!Keys -> Composer!Counts \cup {None, UnderWay}] /\ counting'[k] = stock
        /\ \A j \in Composer!Keys \ {k} : counting'[j] = counting[j]
    BY <1>3, <2>1, <2>2
  <2>4. ComposerShape'
    BY <1>1, <1>2, <2>1, <2>3 DEF ComposerShape
  <2>5. OfferStandsStill' /\ TradesAreFew'
    BY <1>1, <2>1 DEF ComposerInv, OfferStandsStill, TradesAreFew
  <2>6. key \in Composer!Keys \cup {{}} /\ {} \notin Composer!Keys
    BY <1>2, KeyIsOne DEF ComposerShape, Composer!Keys
  <2>7. key \in Composer!Keys => counting'[key] \in {counting[key], stock} /\ (counting'[key] = None => counting[key] = None)
    BY <2>1, <2>2, <2>3 DEF OffersAreSensible
  <2>8. ReviewHolds'
    BY <1>1, <2>1, <2>6, <2>7 DEF ComposerInv, ReviewHolds, Fits
  <2>9. RefusalHolds'
    <3>1. Short => key \in Composer!Keys
      BY <1>2, ShortHasALine
    <3> QED
      BY <1>1, <2>1, <2>7, <3>1 DEF ComposerInv, RefusalHolds, Short
  <2> QED
    BY <2>4, <2>5, <2>8, <2>9 DEF ComposerInv
<1>5. CASE Composer!CountsArrive(k)
  <2>1. /\ counting[k] \notin {None, UnderWay}
        /\ owned' = [owned EXCEPT ![k] = counting[k]] /\ counting' = [counting EXCEPT ![k] = None]
        /\ IF checking # None /\ Composer!Key(checking.offer) = k
           THEN /\ checking' = None
                /\ offer' = IF Composer!Problems(checking.offer, counting[k], checking.balance) = {}
                            THEN [offer EXCEPT !.step = "review"] ELSE offer
           ELSE UNCHANGED <<checking, offer>>
        /\ UNCHANGED standing
    BY <1>5 DEF Composer!CountsArrive
  <2>2. counting[k] \in Composer!Counts
    BY <1>2, <2>1 DEF ComposerShape
  <2>3. counting' \in [Composer!Keys -> Composer!Counts \cup {None, UnderWay}] /\ counting'[k] = None
        /\ \A j \in Composer!Keys \ {k} : counting'[j] = counting[j]
    BY <1>3, <2>1
  <2>4. owned' \in [Composer!Keys -> Composer!Counts \cup {None}] /\ owned'[k] = counting[k]
        /\ \A j \in Composer!Keys \ {k} : owned'[j] = owned[j]
    BY <1>2, <2>1, <2>2 DEF ComposerShape
  <2>5. offer \in Composer!OfferType
    BY <1>2 DEF ComposerShape
  <2> DEFINE reviewed == [offer EXCEPT !.step = "review"]
  <2>6. /\ reviewed \in Composer!OfferType /\ reviewed.step = "review"
        /\ reviewed.mode = offer.mode /\ reviewed.give = offer.give /\ reviewed.coinsGive = offer.coinsGive
        /\ Composer!Key(reviewed) = Composer!Key(offer) /\ Composer!Terms(reviewed) = Composer!Terms(offer)
    BY <2>5, ComposeOrReview
  <2>7. offer' \in {offer, reviewed} /\ (offer' # offer => checking # None) /\ checking' \in {None, checking}
    BY <2>1
  <2>8. /\ offer' \in Composer!OfferType
        /\ offer'.mode = offer.mode /\ offer'.give = offer.give /\ offer'.coinsGive = offer.coinsGive
        /\ Composer!Key(offer') = Composer!Key(offer) /\ Composer!Terms(offer') = Composer!Terms(offer)
    BY <2>5, <2>6, <2>7
  <2> HIDE DEF reviewed
  <2>9. ComposerShape'
    BY <1>1, <1>2, <2>1, <2>3, <2>4, <2>7, <2>8 DEF ComposerShape
  <2>10. OfferStandsStill'
    <3>1. checking # None => offer.step # "review" /\ sending = None /\ standing # "refused"
      BY DEF ComposerInv, OfferStandsStill
    <3>2. offer' = reviewed => checking' = None \/ offer' = offer
      BY <2>1
    <3> QED
      BY <1>1, <2>1, <2>7, <3>1, <3>2 DEF ComposerInv, OfferStandsStill
  <2>11. TradesAreFew'
    BY <1>1, <2>8 DEF ComposerInv, TradesAreFew
  <2>12. ReviewHolds'
    <3> SUFFICES ASSUME standing = "reviewed", since = meanwhile, leaving = FALSE
                 PROVE  /\ offer'.step = "review" /\ sending = None => Fits(offer)'
                        /\ checking' # None =>
                              /\ checking'.offer = offer' /\ checking'.balance = coins
                              /\ Composer!Key(offer)' # {}
                              /\ counting'[Composer!Key(offer)'] \in {UnderWay, stock}
      BY <1>1, <2>1 DEF ReviewHolds
    <3>1. CASE checking # None /\ Composer!Key(checking.offer) = k
      <4>1. /\ checking' = None
            /\ offer' = IF Composer!Problems(checking.offer, counting[k], checking.balance) = {}
                        THEN reviewed ELSE offer
        BY <2>1, <3>1 DEF reviewed
      <4>2. /\ checking.offer = offer /\ checking.balance = coins /\ key = k
            /\ counting[k] = stock /\ offer.step # "review"
        BY <2>1, <3>1 DEF ComposerInv, ReviewHolds, OfferStandsStill
      <4>3. ASSUME offer'.step = "review" PROVE Fits(offer)'
        <5>1. Composer!Problems(offer, stock, coins) = {}
          BY <4>1, <4>2, <4>3
        <5>2. ~Composer!NothingOffered(offer) /\ ~(offer.coinsGive > coins)
              /\ ~\E c \in Composer!Lines(offer.give) : Composer!Exceeds(offer.give[c], stock[c])
          BY <5>1 DEF Composer!Problems
        <5>3. offer.give \in Composer!Counts /\ stock \in Composer!Counts
              /\ offer.coinsGive \in 0 .. MaxCoins /\ coins \in 0 .. MaxCoins
          BY <1>2 DEF ComposerShape, Composer!OfferType
        <5>4. ASSUME NEW c \in TradeCards PROVE offer.give[c] <= stock[c]
          <6>1. offer.give[c] \in 0 .. MaxCopies /\ stock[c] \in 0 .. MaxCopies
            BY <5>3 DEF Composer!Counts
          <6>2. stock[c] # None
            BY <6>1 DEF OffersAreSensible
          <6>3. offer.give[c] > 0 => c \in Composer!Lines(offer.give)
            BY DEF Composer!Lines
          <6> QED
            BY <5>2, <6>1, <6>2, <6>3 DEF Composer!Exceeds, OffersAreSensible
        <5>5. offer.coinsGive <= coins
          BY <5>2, <5>3 DEF OffersAreSensible
        <5> QED
          BY <1>1, <2>8, <5>2, <5>4, <5>5 DEF Fits, Composer!NothingOffered
      <4> QED
        BY <4>1, <4>3
    <3>2. CASE ~(checking # None /\ Composer!Key(checking.offer) = k)
      <4>1. UNCHANGED <<checking, offer>>
        BY <2>1, <3>2
      <4>2. checking # None => key # k /\ key # {} /\ checking.offer = offer /\ checking.balance = coins
                               /\ counting[key] \in {UnderWay, stock}
        BY <3>2 DEF ComposerInv, ReviewHolds
      <4>3. key # {} => key \in Composer!Keys
        BY <2>5, KeyIsOne
      <4>4. offer'.step = "review" /\ sending = None => Fits(offer)'
        BY <1>1, <4>1 DEF ComposerInv, ReviewHolds, Fits
      <4> QED
        BY <2>3, <4>1, <4>2, <4>3, <4>4
    <3> QED
      BY <3>1, <3>2
  <2>13. RefusalHolds'
    <3>1. Short' <=> Short
      BY <1>1, <2>8 DEF Short
    <3>2. Short => key \in Composer!Keys
      BY <1>2, ShortHasALine
    <3>3. counting[key] # None /\ key = k => owned'[key] = counting[key]
      BY <2>4
    <3>4. stock \in Composer!Counts
      BY <1>2 DEF ComposerShape
    <3>5. ASSUME standing = "refused", since = meanwhile
          PROVE  /\ Short
                 /\ counting'[key] \in {None, UnderWay, stock}
                 /\ counting'[key] = None => owned'[key] = stock
      <4>1. Short /\ key \in Composer!Keys /\ counting[key] \in {None, UnderWay, stock}
            /\ (counting[key] = None => owned[key] = stock)
        BY <3>2, <3>5 DEF ComposerInv, RefusalHolds
      <4>2. CASE key = k
        BY <2>1, <2>3, <2>4, <4>1, <4>2
      <4>3. CASE key # k
        BY <2>3, <2>4, <4>1, <4>3
      <4> QED
        BY <4>1, <4>2, <4>3
    <3>6. Composer!Key(offer)' = key
      BY <2>8
    <3> QED
      BY <1>1, <2>1, <3>1, <3>5, <3>6 DEF ComposerInv, RefusalHolds
  <2> QED
    BY <2>9, <2>10, <2>11, <2>12, <2>13 DEF ComposerInv
<1>6. CASE Composer!CountsFail(k)
  <2>1. /\ counting' = [counting EXCEPT ![k] = None] /\ checking' \in {None, checking} /\ standing' = "none"
        /\ UNCHANGED <<offer, owned>>
    BY <1>6 DEF Composer!CountsFail
  <2>2. counting' \in [Composer!Keys -> Composer!Counts \cup {None, UnderWay}]
    BY <1>3, <2>1
  <2>3. ComposerShape'
    BY <1>1, <1>2, <2>1, <2>2 DEF ComposerShape
  <2>4. OfferStandsStill' /\ TradesAreFew'
    BY <1>1, <2>1 DEF ComposerInv, OfferStandsStill, TradesAreFew
  <2>5. ReviewHolds' /\ RefusalHolds'
    BY <1>1, <2>1 DEF ComposerInv, ReviewHolds, RefusalHolds, Short
  <2> QED
    BY <2>3, <2>4, <2>5 DEF ComposerInv
<1> QED
  BY <1>4, <1>5, <1>6

\* What is on screen is counted again.
LEMMA AskedAgain ==
    ASSUME ComposerShape, counting' = Composer!AskAgain(offer)
    PROVE  /\ counting' \in [Composer!Keys -> Composer!Counts \cup {None, UnderWay}]
           /\ Composer!Key(offer) # {} => counting'[Composer!Key(offer)] = UnderWay
  BY KeyIsOne DEF ComposerShape, Composer!AskAgain

\* Coming back to the window and the balance's answer leave the offer as it is.
LEMMA FocusAndBalanceAreKept ==
    ASSUME OffersAreSensible, ComposerInv, Composer!BalanceArrives \/ Composer!Focus
    PROVE  ComposerInv'
<1>1. UNCHANGED <<stock, coins, original, created, offer, blocked, owned, picker, checking, sending,
                  notice, leaving, meanwhile, standing, since, doubtful>>
  BY DEF Composer!BalanceArrives, Composer!Focus, Composer!serverVars
<1>2. ComposerShape
  BY DEF ComposerInv
<1>3. OfferStandsStill' /\ TradesAreFew'
  BY <1>1 DEF ComposerInv, OfferStandsStill, TradesAreFew
<1>4. CASE Composer!BalanceArrives
  <2>1. balance' = coins /\ UNCHANGED counting
    BY <1>4 DEF Composer!BalanceArrives
  <2>2. ComposerShape'
    BY <1>1, <1>2, <2>1 DEF ComposerShape
  <2>3. ReviewHolds' /\ RefusalHolds'
    BY <1>1, <2>1 DEF ComposerInv, ReviewHolds, RefusalHolds, Short, Fits
  <2> QED
    BY <1>3, <2>2, <2>3 DEF ComposerInv
<1>5. CASE Composer!Focus
  <2>1. counting' = Composer!AskAgain(offer) /\ Composer!Key(offer) # {} /\ UNCHANGED balance
    BY <1>5 DEF Composer!Focus
  <2>2. counting' \in [Composer!Keys -> Composer!Counts \cup {None, UnderWay}]
        /\ counting'[Composer!Key(offer)] = UnderWay
    BY <1>2, <2>1, AskedAgain
  <2>3. ComposerShape'
    BY <1>1, <1>2, <2>1, <2>2 DEF ComposerShape
  <2>4. ReviewHolds' /\ RefusalHolds'
    BY <1>1, <2>2 DEF ComposerInv, ReviewHolds, RefusalHolds, Short, Fits, OffersAreSensible
  <2> QED
    BY <1>3, <2>3, <2>4 DEF ComposerInv
<1> QED
  BY <1>4, <1>5

\* An edit keeps the mode and the step, and nothing is promised of what it makes.
LEMMA EditsPromiseNothing ==
    ASSUME OffersAreSensible, ComposerInv, NEW o \in Composer!OfferType, Composer!Edited(o),
           o.mode = offer.mode, o.step = offer.step, sending = None,
           UNCHANGED <<stock, coins, original, created, blocked, balance, owned, picker, checking,
                       sending, notice, leaving, meanwhile, doubtful>>
    PROVE  ComposerInv'
<1>1. offer' = o /\ counting' = Composer!AskFor(o) /\ standing' = "none" /\ since' = since
  BY DEF Composer!Edited
<1>2. counting' \in [Composer!Keys -> Composer!Counts \cup {None, UnderWay}]
  BY <1>1 DEF ComposerInv, ComposerShape, Composer!AskFor
<1>3. ComposerShape'
  BY <1>1, <1>2 DEF ComposerInv, ComposerShape
<1>4. OfferStandsStill' /\ TradesAreFew'
  BY <1>1 DEF ComposerInv, OfferStandsStill, TradesAreFew
<1>5. ReviewHolds' /\ RefusalHolds'
  BY <1>1 DEF ComposerInv, ReviewHolds, RefusalHolds
<1> QED
  BY <1>3, <1>4, <1>5 DEF ComposerInv

\* With one count replaced, within the cap, an offer is an offer.
LEMMA CountIsEdited ==
    ASSUME NEW o \in Composer!OfferType, NEW side \in {"give", "get"}, NEW c \in TradeCards,
           NEW n \in 0 .. MaxCopies
    PROVE  LET p == [o EXCEPT ![side][c] = n]
           IN  p \in Composer!OfferType /\ p.mode = o.mode /\ p.step = o.step
<1>1. CASE side = "give"
  <2>1. [o.give EXCEPT ![c] = n] \in Composer!Counts
    BY DEF Composer!OfferType, Composer!Counts
  <2>2. [o EXCEPT ![side][c] = n] = [o EXCEPT !.give = [o.give EXCEPT ![c] = n]]
    BY <1>1
  <2> QED
    BY <2>1, <2>2 DEF Composer!OfferType
<1>2. CASE side = "get"
  <2>1. [o.get EXCEPT ![c] = n] \in Composer!Counts
    BY DEF Composer!OfferType, Composer!Counts
  <2>2. [o EXCEPT ![side][c] = n] = [o EXCEPT !.get = [o.get EXCEPT ![c] = n]]
    BY <1>2
  <2> QED
    BY <2>1, <2>2 DEF Composer!OfferType
<1> QED
  BY <1>1, <1>2

\* What the member edits, cards, counts, coins or the other party, is an offer in no review.
LEMMA MembersEditInPlace ==
    ASSUME OffersAreSensible, ComposerInv,
           \/ \E c \in TradeCards :
                 \/ Composer!Pick(c)
                 \/ \E side \in {"give", "get"}, n \in 0 .. MaxCopies : Composer!SetCount(side, c, n)
           \/ \E side \in {"coinsGive", "coinsGet"}, n \in 0 .. MaxCoins : Composer!SetCoins(side, n)
           \/ Composer!ChooseParty
    PROVE  ComposerInv'
<1>1. offer \in Composer!OfferType
  BY DEF ComposerInv, ComposerShape
<1>2. picker.side # "none" \/ offer.step = "compose" => sending = None
  BY DEF ComposerInv, OfferStandsStill
<1>3. ASSUME NEW c \in TradeCards, Composer!Pick(c) PROVE ComposerInv'
  <2> DEFINE side == picker.side
             n == offer[side][c] + 1
  <2>1. /\ side # "none" /\ Composer!MayPick(side, c)
        /\ Composer!Edited([offer EXCEPT ![side][c] = @ + 1])
        /\ UNCHANGED <<stock, coins, original, created, blocked, balance, owned, picker, checking,
                       sending, notice, leaving, meanwhile, doubtful>>
    BY <1>3 DEF Composer!Pick, Composer!serverVars
  <2>2. side \in {"give", "get"}
    BY <2>1 DEF ComposerInv, ComposerShape
  <2>3. offer[side][c] \in 0 .. MaxCopies
    BY <1>1, <2>2 DEF Composer!OfferType, Composer!Counts
  <2>4. offer[side][c] < MaxCopies
    BY <2>1 DEF Composer!MayPick
  <2>5. n \in 0 .. MaxCopies
    BY <2>3, <2>4 DEF OffersAreSensible
  <2>6. [offer EXCEPT ![side][c] = @ + 1] = [offer EXCEPT ![side][c] = n]
    OBVIOUS
  <2> HIDE DEF side, n
  <2>7. LET p == [offer EXCEPT ![side][c] = n]
        IN  p \in Composer!OfferType /\ p.mode = offer.mode /\ p.step = offer.step
    BY <1>1, <2>2, <2>5, CountIsEdited
  <2>8. sending = None
    BY <1>2, <2>1 DEF side
  <2> QED
    BY <2>1, <2>6, <2>7, <2>8, EditsPromiseNothing
<1>4. ASSUME NEW c \in TradeCards, NEW side \in {"give", "get"}, NEW n \in 0 .. MaxCopies,
             Composer!SetCount(side, c, n)
      PROVE  ComposerInv'
  <2>1. /\ offer.step = "compose" /\ Composer!Edited([offer EXCEPT ![side][c] = n])
        /\ UNCHANGED <<stock, coins, original, created, blocked, balance, owned, picker, checking,
                       sending, notice, leaving, meanwhile, doubtful>>
    BY <1>4 DEF Composer!SetCount, Composer!Composing, Composer!serverVars
  <2>2. LET p == [offer EXCEPT ![side][c] = n]
        IN  p \in Composer!OfferType /\ p.mode = offer.mode /\ p.step = offer.step
    BY <1>1, CountIsEdited
  <2> QED
    BY <1>2, <2>1, <2>2, EditsPromiseNothing
<1>5. ASSUME NEW side \in {"coinsGive", "coinsGet"}, NEW n \in 0 .. MaxCoins, Composer!SetCoins(side, n)
      PROVE  ComposerInv'
  <2> DEFINE p == [offer EXCEPT ![side] = n]
  <2>1. /\ offer.step = "compose" /\ Composer!Edited(p)
        /\ UNCHANGED <<stock, coins, original, created, blocked, balance, owned, picker, checking,
                       sending, notice, leaving, meanwhile, doubtful>>
    BY <1>5 DEF Composer!SetCoins, Composer!Composing, Composer!serverVars
  <2>2. p \in Composer!OfferType /\ p.mode = offer.mode /\ p.step = offer.step
    <3>1. CASE side = "coinsGive"
      BY <1>1, <3>1 DEF Composer!OfferType
    <3>2. CASE side = "coinsGet"
      BY <1>1, <3>2 DEF Composer!OfferType
    <3> QED
      BY <3>1, <3>2
  <2> HIDE DEF p
  <2> QED
    BY <1>2, <2>1, <2>2, EditsPromiseNothing
<1>6. CASE Composer!ChooseParty
  <2> DEFINE p == [offer EXCEPT !.party = IF offer.party = "none" THEN "member" ELSE "none"]
  <2>1. /\ offer.step = "compose" /\ Composer!Edited(p)
        /\ UNCHANGED <<stock, coins, original, created, blocked, balance, owned, picker, checking,
                       sending, notice, leaving, meanwhile, doubtful>>
    BY <1>6 DEF Composer!ChooseParty, Composer!Composing, Composer!serverVars
  <2>2. p \in Composer!OfferType /\ p.mode = offer.mode /\ p.step = offer.step
    BY <1>1 DEF Composer!OfferType
  <2> HIDE DEF p
  <2> QED
    BY <1>2, <2>1, <2>2, EditsPromiseNothing
<1> QED
  BY <1>3, <1>4, <1>5, <1>6

\* Opening and closing the picker leaves the offer as it is.
LEMMA PickersComeAndGo ==
    ASSUME OffersAreSensible, ComposerInv,
           Composer!ClosePicker \/ \E side \in {"give", "get"} : Composer!OpenPicker(side)
    PROVE  ComposerInv'
<1>1. UNCHANGED <<stock, coins, original, created, offer, blocked, balance, owned, counting, checking,
                  sending, notice, leaving, meanwhile, standing, since, doubtful>>
  BY DEF Composer!ClosePicker, Composer!OpenPicker, Composer!serverVars
<1>2. /\ picker'.side \in {"none", "give", "get"} /\ picker'.stock \in Composer!Counts
      /\ offer.step = "compose" \/ picker'.side = "none"
  BY DEF Composer!ClosePicker, Composer!OpenPicker, Composer!Composing, Composer!Empty,
         Composer!Counts, ComposerInv, ComposerShape, OffersAreSensible
<1>3. ComposerShape'
  BY <1>1, <1>2 DEF ComposerInv, ComposerShape
<1>4. OfferStandsStill' /\ TradesAreFew' /\ ReviewHolds' /\ RefusalHolds'
  BY <1>1, <1>2 DEF ComposerInv, OfferStandsStill, TradesAreFew, ReviewHolds, RefusalHolds, Fits, Short
<1> QED
  BY <1>3, <1>4 DEF ComposerInv

\* Review opens at once on an offer that gives no card, and waits for the counts of any other.
LEMMA ReviewsAreCounted ==
    ASSUME OffersAreSensible, ComposerInv, Composer!Review
    PROVE  ComposerInv'
<1> DEFINE key == Composer!Key(offer)
<1>1. /\ offer.step = "compose" /\ picker.side = "none" /\ checking = None /\ Composer!Shown(offer) = {}
      /\ standing' = IF balance = coins /\ (key # {} => counting[key] \in {None, UnderWay})
                     THEN "reviewed" ELSE "none"
      /\ since' = meanwhile
      /\ IF key = {}
         THEN offer' = [offer EXCEPT !.step = "review"] /\ UNCHANGED <<checking, counting>>
         ELSE /\ checking' = [offer |-> offer, balance |-> balance]
              /\ counting' = IF counting[key] = None THEN Composer!AskAgain(offer) ELSE counting
              /\ UNCHANGED offer
      /\ UNCHANGED <<stock, coins, original, created, blocked, balance, owned, picker, sending, notice,
                     leaving, meanwhile, doubtful>>
  BY DEF Composer!Review, Composer!Composing, Composer!serverVars
<1>2. ComposerShape /\ offer \in Composer!OfferType /\ balance \in 0 .. MaxCoins
  BY DEF ComposerInv, ComposerShape
<1>3. sending = None
  BY <1>1 DEF ComposerInv, OfferStandsStill
<1>4. standing' \in {"none", "reviewed"} /\ since' \in 0 .. meanwhile'
  BY <1>1, <1>2 DEF ComposerShape
<1>5. RefusalHolds'
  BY <1>1, <1>3, <1>4 DEF RefusalHolds
<1>6. CASE key = {}
  <2> DEFINE p == [offer EXCEPT !.step = "review"]
  <2>1. offer' = p /\ UNCHANGED <<checking, counting>>
    BY <1>1, <1>6
  <2>2. /\ p \in Composer!OfferType /\ p.step = "review"
        /\ p.mode = offer.mode /\ p.give = offer.give /\ p.coinsGive = offer.coinsGive
        /\ Composer!Terms(p) = Composer!Terms(offer)
    BY <1>2, ComposeOrReview
  <2> HIDE DEF p
  <2>3. ComposerShape'
    BY <1>1, <1>2, <1>4, <2>1, <2>2 DEF ComposerShape
  <2>4. OfferStandsStill' /\ TradesAreFew'
    BY <1>1, <1>3, <1>4, <2>1, <2>2 DEF ComposerInv, OfferStandsStill, TradesAreFew
  <2>5. ASSUME standing' = "reviewed" PROVE Fits(offer)'
    <3>1. balance = coins
      BY <1>1, <2>5
    <3>2. ~Composer!NothingOffered(offer) /\ ~(offer.coinsGive > balance)
      BY <1>1 DEF Composer!Shown, Composer!Problems
    <3>3. offer.coinsGive <= coins
      BY <1>2, <3>1, <3>2 DEF Composer!OfferType, OffersAreSensible
    <3>4. ASSUME NEW c \in TradeCards PROVE offer.give[c] <= stock[c]
      <4>1. offer.give[c] \in 0 .. MaxCopies /\ stock[c] \in 0 .. MaxCopies
        BY <1>2 DEF ComposerShape, Composer!OfferType, Composer!Counts
      <4>2. ~(offer.give[c] > 0)
        BY <1>6 DEF Composer!Key, Composer!Lines
      <4> QED
        BY <4>1, <4>2 DEF OffersAreSensible
    <3> QED
      BY <1>1, <2>1, <2>2, <3>2, <3>3, <3>4 DEF Fits, Composer!NothingOffered
  <2>6. ReviewHolds'
    BY <1>1, <2>1, <2>5 DEF ReviewHolds
  <2> QED
    BY <1>5, <2>3, <2>4, <2>6 DEF ComposerInv
<1>7. CASE key # {}
  <2> DEFINE p == [offer |-> offer, balance |-> balance]
  <2>1. /\ checking' = p /\ UNCHANGED offer
        /\ counting' = IF counting[key] = None THEN Composer!AskAgain(offer) ELSE counting
    BY <1>1, <1>7
  <2>2. p \in Pressed /\ p.offer = offer /\ p.balance = balance
    BY <1>2 DEF Pressed
  <2> HIDE DEF p
  <2>3. /\ counting' \in [Composer!Keys -> Composer!Counts \cup {None, UnderWay}]
        /\ counting[key] \in {None, UnderWay} => counting'[key] = UnderWay
    BY <1>2, <1>7, <2>1, AskedAgain DEF ComposerShape, OffersAreSensible
  <2>4. ComposerShape'
    BY <1>1, <1>2, <1>4, <2>1, <2>2, <2>3 DEF ComposerShape
  <2>5. OfferStandsStill' /\ TradesAreFew'
    BY <1>1, <1>3, <1>4, <2>1 DEF ComposerInv, OfferStandsStill, TradesAreFew
  <2>6. ReviewHolds'
    <3>1. standing' = "reviewed" => balance = coins /\ counting'[key] = UnderWay
      BY <1>1, <1>7, <2>3
    <3> QED
      BY <1>1, <1>7, <2>1, <2>2, <3>1 DEF ReviewHolds
  <2> QED
    BY <1>5, <2>4, <2>5, <2>6 DEF ComposerInv
<1> QED
  BY <1>6, <1>7

\* Going back drops the review, and Send posts the offer that was reviewed.
LEMMA BackAndSendAreKept ==
    ASSUME OffersAreSensible, ComposerInv, Composer!BackToEdit \/ Composer!Send
    PROVE  ComposerInv'
<1>1. UNCHANGED <<stock, coins, original, created, blocked, balance, owned, counting, picker, checking,
                  notice, leaving, meanwhile, standing, since>>
  BY DEF Composer!BackToEdit, Composer!Send, Composer!serverVars
<1>2. ComposerShape /\ offer \in Composer!OfferType /\ offer.step = "review" /\ sending = None
      /\ picker.side = "none" /\ checking = None
  BY DEF ComposerInv, ComposerShape, OfferStandsStill, Composer!BackToEdit, Composer!Send, Composer!MaySend
<1>3. standing # "refused"
  BY <1>2 DEF ComposerInv, OfferStandsStill
<1>4. CASE Composer!BackToEdit
  <2> DEFINE p == [offer EXCEPT !.step = "compose"]
  <2>1. offer' = p /\ UNCHANGED <<sending, doubtful>>
    BY <1>4 DEF Composer!BackToEdit
  <2>2. p \in Composer!OfferType /\ p.step = "compose" /\ p.mode = offer.mode
    BY <1>2, ComposeOrReview
  <2> HIDE DEF p
  <2>3. ComposerShape'
    BY <1>1, <1>2, <2>1, <2>2 DEF ComposerShape
  <2>4. OfferStandsStill' /\ TradesAreFew'
    BY <1>1, <1>2, <1>3, <2>1, <2>2 DEF ComposerInv, OfferStandsStill, TradesAreFew
  <2>5. ReviewHolds' /\ RefusalHolds'
    BY <1>1, <1>2, <1>3, <2>1, <2>2 DEF ReviewHolds, RefusalHolds
  <2> QED
    BY <2>3, <2>4, <2>5 DEF ComposerInv
<1>5. CASE Composer!Send
  <2> DEFINE p == [body |-> offer, phase |-> "asked"]
  <2>1. sending' = p /\ doubtful' = (IF leaving THEN doubtful + 1 ELSE doubtful) /\ UNCHANGED offer
    BY <1>5 DEF Composer!Send
  <2>2. p \in Posted /\ p.body = offer /\ p.phase = "asked" /\ p # None
    BY <1>2 DEF Posted, Phases, OffersAreSensible
  <2> HIDE DEF p
  <2>3. leaving \in BOOLEAN /\ doubtful \in Nat /\ IsFiniteSet(created)
    BY <1>2 DEF ComposerShape
  <2>4. Cardinality(created) \in Nat
    BY <2>3, FS_CardinalityType
  <2>5. doubtful' \in Nat /\ doubtful' >= doubtful /\ Cardinality(created) <= doubtful'
    <3>1. CASE leaving = TRUE
      BY <2>1, <2>3, <2>4, <3>1 DEF ComposerInv, TradesAreFew
    <3>2. CASE leaving = FALSE
      BY <1>2, <2>1, <2>3, <2>4, <3>2 DEF ComposerInv, TradesAreFew
    <3> QED
      BY <2>3, <3>1, <3>2
  <2>6. ComposerShape'
    BY <1>1, <1>2, <2>1, <2>2, <2>5 DEF ComposerShape
  <2>7. OfferStandsStill'
    BY <1>1, <1>2, <1>3, <2>1, <2>2 DEF OfferStandsStill
  <2>8. TradesAreFew'
    BY <1>1, <2>1, <2>2, <2>4, <2>5 DEF ComposerInv, TradesAreFew
  <2>9. ReviewHolds' /\ RefusalHolds'
    BY <1>1, <1>2, <1>3, <2>1, <2>2 DEF ReviewHolds, RefusalHolds
  <2> QED
    BY <2>6, <2>7, <2>8, <2>9 DEF ComposerInv
<1> QED
  BY <1>4, <1>5

\* What the server decides of an offer.
LEMMA ServersAreAsked ==
    ASSUME OffersAreSensible, ComposerInv, Composer!ServerDecides
    PROVE  ComposerInv'
<1> DEFINE d == Composer!Decision(sending.body)
           p == [sending EXCEPT !.phase = d]
           made == [number |-> Composer!Cardinality(created), body |-> sending.body]
<1>1. /\ sending # None /\ sending.phase = "asked" /\ sending' = p
      /\ IF d = "ok"
         THEN /\ created' = created \cup {made}
              /\ stock' = [c \in TradeCards |-> stock[c] - sending.body.give[c]]
              /\ original' = IF sending.body.mode = "counter" THEN "closed" ELSE original
         ELSE UNCHANGED <<created, stock, original>>
      /\ since' = (IF d = "copies" THEN meanwhile ELSE since)
      /\ UNCHANGED <<coins, offer, blocked, balance, owned, counting, picker, checking, notice,
                     leaving, meanwhile, standing, doubtful>>
  BY DEF Composer!ServerDecides
<1>2. ComposerShape /\ offer \in Composer!OfferType /\ sending \in Posted /\ sending.body = offer
      /\ offer.step = "review" /\ picker.side = "none" /\ checking = None /\ standing # "refused"
  BY <1>1 DEF ComposerInv, ComposerShape, OfferStandsStill
<1>3. d \in {"other", "answered", "coins", "copies", "ok"}
  BY DEF Composer!Decision
<1>4. /\ d = "ok" => (\A c \in TradeCards : ~(offer.give[c] > stock[c]))
                     /\ (offer.mode = "counter" => original = "pending")
      /\ d = "copies" => Short
  BY <1>2 DEF Composer!Decision, Short
<1>5. p \in Posted /\ p.phase = d /\ p.body = offer /\ p # None
  BY <1>2, <1>3 DEF Posted, Phases, OffersAreSensible
<1>6. IsFiniteSet(created) /\ Cardinality(created) \in Nat /\ doubtful \in Nat
  BY <1>2, FS_CardinalityType DEF ComposerShape
<1>7. made.number \in Nat /\ made.body \in Composer!OfferType
  BY <1>2, <1>6, CountOfTrades
<1> HIDE DEF d, p, made
<1>8. stock' \in Composer!Counts
  <2>1. CASE d = "ok"
    <3>1. ASSUME NEW c \in TradeCards PROVE stock[c] - offer.give[c] \in 0 .. MaxCopies
      <4>1. offer.give[c] \in 0 .. MaxCopies /\ stock[c] \in 0 .. MaxCopies
        BY <1>2 DEF ComposerShape, Composer!OfferType, Composer!Counts
      <4> QED
        BY <1>4, <2>1, <4>1 DEF OffersAreSensible
    <3> QED
      BY <1>1, <1>2, <2>1, <3>1 DEF Composer!Counts
  <2>2. CASE d # "ok"
    BY <1>1, <1>2, <2>2 DEF ComposerShape
  <2> QED
    BY <2>1, <2>2
<1>9. /\ IsFiniteSet(created') /\ Cardinality(created') \in Nat
      /\ Cardinality(created') <= Cardinality(created) + 1
      /\ d # "ok" => created' = created
      /\ created = {} => Cardinality(created') <= 1
      /\ \A s \in created' : s.number \in Nat /\ s.body \in Composer!OfferType
  <2>1. CASE d = "ok"
    <3>1. created' = created \cup {made}
      BY <1>1, <2>1
    <3>2. IsFiniteSet(created') /\ Cardinality(created') \in {Cardinality(created), Cardinality(created) + 1}
      BY <1>6, <3>1, FS_AddElement
    <3>3. \A s \in created' : s.number \in Nat /\ s.body \in Composer!OfferType
      BY <1>2, <1>7, <3>1 DEF ComposerShape
    <3>4. created = {} => Cardinality(created) = 0
      BY FS_EmptySet
    <3> QED
      BY <1>6, <2>1, <3>2, <3>3, <3>4
  <2>2. CASE d # "ok"
    <3>1. created' = created
      BY <1>1, <2>2
    <3>2. created = {} => Cardinality(created) = 0
      BY FS_EmptySet
    <3> QED
      BY <1>2, <1>6, <3>1, <3>2 DEF ComposerShape
  <2> QED
    BY <2>1, <2>2
<1>10. original' \in {"none", "pending", "closed", "missing"}
  BY <1>1, <1>2 DEF ComposerShape
<1>11. since' \in 0 .. meanwhile
  BY <1>1, <1>2 DEF ComposerShape
<1>12. ComposerShape'
  BY <1>1, <1>2, <1>5, <1>8, <1>9, <1>10, <1>11 DEF ComposerShape
<1>13. OfferStandsStill'
  BY <1>1, <1>2, <1>5 DEF OfferStandsStill
<1>14. TradesAreFew'
  <2>1. Cardinality(created) <= doubtful
    BY <1>1 DEF ComposerInv, TradesAreFew
  <2>2. Cardinality(created') <= doubtful + 1 /\ (d # "ok" => Cardinality(created') <= doubtful)
    BY <1>6, <1>9, <2>1
  <2>3. ASSUME offer.mode = "counter"
        PROVE  Cardinality(created') <= 1 /\ (original' = "pending" => created' = {})
    <3>1. CASE d = "ok"
      <4>1. original = "pending" /\ original' = "closed" /\ created = {}
        BY <1>1, <1>2, <1>4, <2>3, <3>1 DEF ComposerInv, TradesAreFew
      <4> QED
        BY <1>9, <4>1
    <3>2. CASE d # "ok"
      BY <1>1, <2>3, <3>2 DEF ComposerInv, TradesAreFew
    <3> QED
      BY <3>1, <3>2
  <2> QED
    BY <1>1, <1>5, <2>2, <2>3 DEF TradesAreFew
<1>15. ReviewHolds'
  BY <1>1, <1>2, <1>5 DEF ReviewHolds
<1>16. RefusalHolds'
  <2>1. d = "copies" => Short'
    BY <1>1, <1>4 DEF Short
  <2> QED
    BY <1>1, <1>2, <1>5, <2>1 DEF RefusalHolds
<1> QED
  BY <1>12, <1>13, <1>14, <1>15, <1>16 DEF ComposerInv

\* An answer that arrives, or is lost, leaves the page or tells why not.
LEMMA AnswersAreTaken ==
    ASSUME OffersAreSensible, ComposerInv, Composer!Succeeds \/ Composer!Refused \/ Composer!AnswerLost
    PROVE  ComposerInv'
<1>1. /\ sending # None /\ sending' = None
      /\ UNCHANGED <<stock, coins, original, created, blocked, balance, owned, picker, checking,
                     meanwhile, since>>
  BY DEF Composer!Succeeds, Composer!Refused, Composer!AnswerLost, Composer!Answered, Composer!serverVars
<1>2. ComposerShape /\ offer \in Composer!OfferType /\ offer.step = "review" /\ checking = None
      /\ sending \in Posted /\ sending.phase \in Phases /\ sending.body = offer /\ standing # "refused"
  BY <1>1 DEF ComposerInv, ComposerShape, OfferStandsStill, Posted
<1>3. IsFiniteSet(created) /\ Cardinality(created) \in Nat /\ doubtful \in Nat
  BY <1>2, FS_CardinalityType DEF ComposerShape
<1> DEFINE p == [offer EXCEPT !.step = "compose"]
<1>4. /\ p \in Composer!OfferType /\ p.step = "compose" /\ p.mode = offer.mode /\ p.give = offer.give
      /\ Composer!Key(p) = Composer!Key(offer)
  BY <1>2, ComposeOrReview
<1>5. CASE Composer!Succeeds
  <2>1. /\ leaving' = TRUE /\ counting' = Composer!AskAgain(offer)
        /\ UNCHANGED <<offer, notice, standing, doubtful>>
    BY <1>5 DEF Composer!Succeeds
  <2>2. counting' \in [Composer!Keys -> Composer!Counts \cup {None, UnderWay}]
    BY <1>2, <2>1, AskedAgain
  <2>3. ComposerShape'
    BY <1>1, <1>2, <2>1, <2>2 DEF ComposerShape
  <2>4. OfferStandsStill' /\ ReviewHolds' /\ RefusalHolds'
    BY <1>1, <1>2, <2>1 DEF OfferStandsStill, ReviewHolds, RefusalHolds
  <2>5. TradesAreFew'
    BY <1>1, <1>3, <2>1 DEF ComposerInv, TradesAreFew
  <2> QED
    BY <2>3, <2>4, <2>5 DEF ComposerInv
<1>6. CASE Composer!Refused
  <2>1. /\ sending.phase # "ok" /\ offer' = p
        /\ notice' = (IF sending.phase = "other" THEN notice ELSE sending.phase)
        /\ counting' = (IF sending.phase = "copies" THEN Composer!AskAgain(offer) ELSE counting)
        /\ standing' = (IF sending.phase = "copies" THEN "refused" ELSE "none")
        /\ sending.phase # "asked"
        /\ UNCHANGED <<leaving, doubtful>>
    BY <1>6 DEF Composer!Refused, Composer!Answered
  <2> HIDE DEF p
  <2>2. counting' \in [Composer!Keys -> Composer!Counts \cup {None, UnderWay}]
        /\ (sending.phase = "copies" /\ Composer!Key(offer) # {} => counting'[Composer!Key(offer)] = UnderWay)
    BY <1>2, <2>1, AskedAgain DEF ComposerShape
  <2>3. notice' \in {"none", "answered", "coins", "copies"} /\ standing' \in {"none", "refused"}
    BY <1>2, <2>1 DEF ComposerShape, Phases
  <2>4. ComposerShape'
    BY <1>1, <1>2, <1>4, <2>1, <2>2, <2>3 DEF ComposerShape
  <2>5. OfferStandsStill'
    BY <1>1, <1>2, <1>4, <2>1 DEF OfferStandsStill
  <2>6. TradesAreFew'
    BY <1>1, <1>3, <1>4, <2>1 DEF ComposerInv, TradesAreFew
  <2>7. ReviewHolds'
    BY <2>3 DEF ReviewHolds
  <2>8. RefusalHolds'
    <3> SUFFICES ASSUME standing' = "refused", since = meanwhile
                 PROVE  /\ Short'
                        /\ counting'[Composer!Key(offer)'] = UnderWay
      BY <1>1 DEF RefusalHolds, OffersAreSensible
    <3>1. sending.phase = "copies"
      BY <2>1
    <3>2. Short
      BY <1>1, <3>1 DEF ComposerInv, RefusalHolds
    <3>3. Short'
      BY <1>1, <1>4, <2>1, <3>2 DEF Short
    <3>4. Composer!Key(offer) # {}
      BY <1>2, <3>2, ShortHasALine DEF Composer!Keys
    <3> QED
      BY <1>4, <2>1, <2>2, <3>1, <3>3, <3>4
  <2> QED
    BY <2>4, <2>5, <2>6, <2>7, <2>8 DEF ComposerInv
<1>7. CASE Composer!AnswerLost
  <2>1. /\ offer' = p /\ doubtful' = (IF sending.phase = "ok" THEN doubtful + 1 ELSE doubtful)
        /\ UNCHANGED <<notice, counting, standing, leaving>>
    BY <1>7 DEF Composer!AnswerLost
  <2> HIDE DEF p
  <2>2. doubtful' \in Nat /\ doubtful' >= doubtful /\ Cardinality(created) <= doubtful'
    <3>1. CASE sending.phase = "ok"
      BY <1>1, <1>3, <2>1, <3>1 DEF ComposerInv, TradesAreFew
    <3>2. CASE sending.phase # "ok"
      BY <1>1, <1>3, <2>1, <3>2 DEF ComposerInv, TradesAreFew
    <3> QED
      BY <3>1, <3>2
  <2>3. ComposerShape'
    BY <1>1, <1>2, <1>4, <2>1, <2>2 DEF ComposerShape
  <2>4. OfferStandsStill' /\ ReviewHolds' /\ RefusalHolds'
    BY <1>1, <1>2, <1>4, <2>1 DEF OfferStandsStill, ReviewHolds, RefusalHolds
  <2>5. TradesAreFew'
    BY <1>1, <1>3, <1>4, <2>1, <2>2 DEF ComposerInv, TradesAreFew
  <2> QED
    BY <2>3, <2>4, <2>5 DEF ComposerInv
<1> QED
  BY <1>5, <1>6, <1>7

\* Whatever others do, nothing is said of the copies and coins they leave.
LEMMA OthersAreLeftOut ==
    ASSUME OffersAreSensible, ComposerInv, Composer!OthersAct
    PROVE  ComposerInv'
<1>1. /\ meanwhile' = meanwhile + 1
      /\ UNCHANGED <<created, offer, blocked, balance, owned, counting, picker, checking, sending, notice,
                     leaving, standing, since, doubtful>>
  BY DEF Composer!OthersAct
<1>2. stock' \in Composer!Counts /\ coins' \in 0 .. MaxCoins
      /\ original' \in {original, "closed"} /\ original' \in {"none", "pending", "closed", "missing"}
  <2>1. stock \in Composer!Counts /\ coins \in 0 .. MaxCoins
        /\ original \in {"none", "pending", "closed", "missing"}
    BY DEF ComposerInv, ComposerShape
  <2>2. \/ (\E c \in TradeCards, n \in 0 .. MaxCopies : stock' = [stock EXCEPT ![c] = n])
              /\ UNCHANGED <<coins, original>>
        \/ coins' \in 0 .. MaxCoins /\ UNCHANGED <<stock, original>>
        \/ original' = "closed" /\ UNCHANGED <<stock, coins>>
    BY DEF Composer!OthersAct
  <2>3. ASSUME NEW c \in TradeCards, NEW n \in 0 .. MaxCopies PROVE [stock EXCEPT ![c] = n] \in Composer!Counts
    BY <2>1 DEF Composer!Counts
  <2> QED
    BY <2>1, <2>2, <2>3
<1>3. meanwhile \in Nat /\ since \in 0 .. meanwhile
  BY DEF ComposerInv, ComposerShape
<1>4. since' \in 0 .. meanwhile' /\ meanwhile' \in Nat /\ since' # meanwhile'
  BY <1>1, <1>3
<1>5. ComposerShape'
  BY <1>1, <1>2, <1>4 DEF ComposerInv, ComposerShape
<1>6. OfferStandsStill' /\ TradesAreFew'
  BY <1>1, <1>2 DEF ComposerInv, OfferStandsStill, TradesAreFew
<1>7. ReviewHolds' /\ RefusalHolds'
  BY <1>4 DEF ReviewHolds, RefusalHolds
<1> QED
  BY <1>5, <1>6, <1>7 DEF ComposerInv

\* Every step of the member, the counts, the server and the others keeps the invariant.
LEMMA ComposerStays ==
    ASSUME OffersAreSensible, ComposerInv, [Composer!Next]_(Composer!composerVars)
    PROVE  ComposerInv'
<1>1. CASE UNCHANGED Composer!composerVars
  <2>1. UNCHANGED <<stock, coins, original, created, offer, blocked, balance, owned, counting, picker,
                    checking, sending, notice, leaving, meanwhile, standing, since, doubtful>>
    BY <1>1 DEF Composer!composerVars, Composer!serverVars
  <2> QED
    BY <2>1 DEF ComposerInv, ComposerShape, OfferStandsStill, TradesAreFew, ReviewHolds, RefusalHolds, Fits, Short
<1>2. CASE Composer!Next
  BY <1>2, CountsAreKept, FocusAndBalanceAreKept, MembersEditInPlace, PickersComeAndGo, ReviewsAreCounted,
     BackAndSendAreKept, ServersAreAsked, AnswersAreTaken, OthersAreLeftOut DEF Composer!Next
<1> QED
  BY <1>1, <1>2

\* What the invariant says is what the properties ask.
LEMMA ComposerIsHonest ==
    ASSUME OffersAreSensible, ComposerInv
    PROVE  /\ Composer!OneTradePerSend
           /\ Composer!ReviewedOffersAreTaken
           /\ Composer!RefusedLinesAreMarked
<1>1. ComposerShape /\ offer \in Composer!OfferType
  BY DEF ComposerInv, ComposerShape
<1>2. Composer!OneTradePerSend
  <2>1. Cardinality(created) \in Nat /\ doubtful \in Nat
    BY <1>1, FS_CardinalityType DEF ComposerShape
  <2> QED
    BY <2>1, CountOfTrades DEF ComposerInv, TradesAreFew, Composer!OneTradePerSend
<1>3. Composer!ReviewedOffersAreTaken
  <2> SUFFICES ASSUME offer.step = "review", standing = "reviewed", since = meanwhile, sending = None,
                      ~leaving, offer.mode = "counter" => original = "pending"
               PROVE  Composer!Decision(offer) = "ok"
    BY DEF Composer!ReviewedOffersAreTaken
  <2>1. leaving = FALSE
    BY <1>1 DEF ComposerShape
  <2>2. Fits(offer)
    BY <2>1 DEF ComposerInv, ReviewHolds
  <2>3. offer.coinsGive \in 0 .. MaxCoins /\ coins \in 0 .. MaxCoins
    BY <1>1 DEF ComposerShape, Composer!OfferType
  <2>4. ~(offer.coinsGive > coins)
    BY <2>2, <2>3 DEF Fits, OffersAreSensible
  <2>5. ASSUME NEW c \in TradeCards PROVE ~(offer.give[c] > stock[c])
    <3>1. offer.give[c] \in 0 .. MaxCopies /\ stock[c] \in 0 .. MaxCopies
      BY <1>1 DEF ComposerShape, Composer!OfferType, Composer!Counts
    <3> QED
      BY <2>2, <3>1 DEF Fits, OffersAreSensible
  <2> QED
    BY <2>2, <2>4, <2>5 DEF Fits, Composer!Decision, Composer!NothingOffered
<1>4. Composer!RefusedLinesAreMarked
  <2> SUFFICES ASSUME standing = "refused", since = meanwhile, \A k \in Composer!Keys : counting[k] = None
               PROVE  "copies" \in Composer!Shown(offer)
    BY DEF Composer!RefusedLinesAreMarked
  <2> DEFINE key == Composer!Key(offer)
  <2>1. Short /\ key \in Composer!Keys
    BY <1>1, ShortHasALine DEF ComposerInv, RefusalHolds
  <2>2. owned[key] = stock
    BY <2>1 DEF ComposerInv, RefusalHolds
  <2>3. PICK c \in TradeCards : offer.give[c] > stock[c]
    BY <2>1 DEF Short
  <2>4. stock \in Composer!Counts /\ offer.give[c] \in 0 .. MaxCopies /\ stock[c] \in 0 .. MaxCopies
    BY <1>1 DEF ComposerShape, Composer!OfferType, Composer!Counts
  <2>5. c \in Composer!Lines(offer.give) /\ stock # None /\ stock[c] # None
    BY <2>3, <2>4 DEF Composer!Lines, OffersAreSensible
  <2>6. Composer!Available(offer)[c] = stock[c]
    BY <2>1, <2>2, <2>5 DEF Composer!Available, Composer!Keys
  <2>7. Composer!Exceeds(offer.give[c], Composer!Available(offer)[c])
    BY <2>3, <2>5, <2>6 DEF Composer!Exceeds
  <2> QED
    BY <2>5, <2>7 DEF Composer!Shown, Composer!Problems
<1> QED
  BY <1>2, <1>3, <1>4

\* For any cards, caps and acts of others, and however many answers are lost: one trade is created,
\* and one more for each answer that was lost or Send pressed while leaving, a counter once; an
\* offer in review that nobody has touched is one the server takes; and a refusal for copies
\* marks a line once they are counted again (trade-composer.tsx, docs/Pages.md).
THEOREM OneTradeIsSent ==
    ASSUME OffersAreSensible
    PROVE  Composer!Spec => [](/\ Composer!OneTradePerSend
                               /\ Composer!ReviewedOffersAreTaken
                               /\ Composer!RefusedLinesAreMarked)
<1>1. Composer!Init => ComposerInv
  BY ComposerAtFirst
<1>2. ComposerInv /\ [Composer!Next]_(Composer!composerVars) => ComposerInv'
  BY ComposerStays
<1>3. ComposerInv => /\ Composer!OneTradePerSend
                     /\ Composer!ReviewedOffersAreTaken
                     /\ Composer!RefusedLinesAreMarked
  BY ComposerIsHonest
<1> QED
  BY <1>1, <1>2, <1>3, PTL DEF Composer!Spec

=============================================================================
