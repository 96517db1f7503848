----------------------------- MODULE TradePage ------------------------------
(* One trade on screen: /trades/[id], where a party answers it, and           *)
(* /admin/trades/[id], where an administrator voids it behind a check that    *)
(* the API runs and rolls back.  The other party, the expiry job and other    *)
(* administrators close the trade meanwhile; the API puts a trade together    *)
(* from a row and, afterwards, its history.                                   *)
EXTENDS Naturals

CONSTANTS
    MaxOthers,   \* bound: things that others do
    MaxAnswers,  \* bound: answers that are confirmed
    MaxFaults,   \* bound: reads and answers that are lost
    None

VARIABLES
    role,     \* of who looks
    trade,    \* the row, and whether a counter to it exists
    spent,    \* its reversal would be refused
    fetch,    \* the read under way: row, timeline and chain, as far as they were read
    shown,    \* the query's data
    asking,   \* the answer that the open dialog is about
    answer,   \* its mutation, and whether that dialog is still the one that is open
    check,    \* the query of void-check
    refusal,  \* VoidDialog's `refused`
    others, answers, faults,
    outcome,  \* how the last answer ended: "told", or for what it failed
    mine,     \* the last action on the trade was this page's, and this dialog's if a void
    crossed,  \* the check was under way when the void was confirmed
    missed    \* the last refetch failed

tradeVars == <<role, trade, spent, fetch, shown, asking, answer, check, refusal, others, answers,
               faults, outcome, mine, crossed, missed>>
serverVars == <<role, trade, spent, others>>
voidVars   == <<check, refusal, crossed>>

Actions == {"accept", "decline", "counter", "cancel", "expire", "void"}

\* The status that each action leaves, and those it may be done to.
Leaves(action) ==
    CASE action = "accept" -> "ACCEPTED"
      [] action = "decline" -> "DECLINED"
      [] action = "counter" -> "COUNTERED"
      [] action \in {"cancel", "expire"} -> "CANCELLED"
      [] action = "void" -> "VOIDED"

Voidable == trade.status = "PENDING" \/ (trade.status = "ACCEPTED" /\ ~spent)
Possible(action) == IF action = "void" THEN Voidable ELSE trade.status = "PENDING"

\* closeTrade and settle: status, audit row and counter are written by one transaction.
Does(action) ==
    trade' = [status |-> Leaves(action), last |-> action, countered |-> action = "counter"]

Reading == [row |-> None, last |-> None, countered |-> None]
Idle == [step |-> "idle", action |-> None, own |-> TRUE]
NoCheck == [step |-> "idle", voidable |-> None, failed |-> FALSE]

Init ==
    /\ role \in {"initiator", "recipient", "admin"}
    /\ trade = [status |-> "PENDING", last |-> "propose", countered |-> FALSE]
    /\ spent = FALSE
    /\ fetch \in {None, Reading}
    /\ shown = [row |-> trade.status, last |-> trade.last, countered |-> trade.countered]
    /\ asking = None /\ answer = Idle /\ check = NoCheck /\ refusal = FALSE
    /\ others = 0 /\ answers = 0 /\ faults = 0
    /\ outcome = "none" /\ mine = FALSE /\ crossed = FALSE /\ missed = FALSE

Fault == faults < MaxFaults /\ faults' = faults + 1

OthersAct ==
    /\ others < MaxOthers /\ others' = others + 1
    /\ \/ /\ \E action \in Actions : Possible(action) /\ Does(action)
          /\ mine' = FALSE /\ UNCHANGED spent
       \/ /\ trade.status = "ACCEPTED" /\ spent' = ~spent
          /\ UNCHANGED <<trade, mine>>
    /\ UNCHANGED <<role, fetch, shown, asking, answer, voidVars, answers, faults, outcome, missed>>

-----------------------------------------------------------------------------
(* Reads.                                                                     *)

\* A success is told when the refetch it began has ended, if its dialog was not closed.
RefetchEnds ==
    IF answer.step = "settling"
    THEN /\ answer' = Idle
         /\ outcome' = IF answer.own THEN "told" ELSE outcome
         /\ asking' = IF answer.own THEN None ELSE asking
    ELSE UNCHANGED <<answer, outcome, asking>>

Refetches ==
    /\ fetch = None /\ fetch' = Reading
    /\ UNCHANGED <<serverVars, shown, asking, answer, voidVars, answers, faults, outcome, mine, missed>>

ReadsRow ==
    /\ fetch # None /\ fetch.row = None
    /\ fetch' = [fetch EXCEPT !.row = trade.status]

HistoryAtOnce == TRUE
\* withHistory is called with the row.
HistoryFollows == fetch.row # None

ReadsTimeline ==
    /\ fetch # None /\ HistoryFollows /\ fetch.last = None
    /\ fetch' = [fetch EXCEPT !.last = trade.last]

ReadsChain ==
    /\ fetch # None /\ HistoryFollows /\ fetch.countered = None
    /\ fetch' = [fetch EXCEPT !.countered = trade.countered]

ServerReads ==
    /\ ReadsRow \/ ReadsTimeline \/ ReadsChain
    /\ UNCHANGED <<serverVars, shown, asking, answer, voidVars, answers, faults, outcome, mine, missed>>

Arrives ==
    /\ fetch # None /\ fetch.row # None /\ fetch.last # None /\ fetch.countered # None
    /\ shown' = fetch /\ fetch' = None /\ missed' = FALSE
    /\ RefetchEnds
    /\ UNCHANGED <<serverVars, voidVars, answers, faults, mine>>

\* What was shown stays.
FetchFails ==
    /\ fetch # None /\ Fault
    /\ fetch' = None /\ missed' = TRUE
    /\ RefetchEnds
    /\ UNCHANGED <<serverVars, shown, voidVars, answers, mine>>

-----------------------------------------------------------------------------
(* A party's answer.                                                          *)

MayAsk(action) ==
    /\ shown.row = "PENDING"
    /\ action \in IF role = "recipient" THEN {"accept", "decline"} ELSE {"cancel"}

Ask(action) ==
    /\ role # "admin" /\ asking = None /\ MayAsk(action)
    /\ asking' = action
    /\ UNCHANGED <<serverVars, fetch, shown, answer, voidVars, answers, faults, outcome, mine, missed>>

\* The dialog cannot be dismissed while its answer is under way.
Dismiss ==
    /\ asking \notin {None, "void"} /\ answer.step = "idle"
    /\ asking' = None
    /\ UNCHANGED <<serverVars, fetch, shown, answer, voidVars, answers, faults, outcome, mine, missed>>

Confirm ==
    /\ asking \notin {None, "void"} /\ answer.step = "idle"
    /\ answers < MaxAnswers /\ answers' = answers + 1
    /\ answer' = [Idle EXCEPT !.step = "sent", !.action = asking] /\ outcome' = "none"
    /\ UNCHANGED <<serverVars, fetch, shown, asking, voidVars, faults, mine, missed>>

\* An accepter may be short of what is asked, and the trade stays open.
ServerAnswers ==
    /\ answer.step = "sent"
    /\ \/ /\ Possible(answer.action) /\ Does(answer.action) /\ mine' = answer.own
          /\ answer' = [answer EXCEPT !.step = "done"]
       \/ /\ ~Possible(answer.action) /\ UNCHANGED <<trade, mine>>
          /\ answer' = [answer EXCEPT !.step = "refused"]
       \/ /\ Possible(answer.action) /\ answer.action = "accept" /\ UNCHANGED <<trade, mine>>
          /\ answer' = [answer EXCEPT !.step = "short"]
    /\ UNCHANGED <<role, spent, others, fetch, shown, asking, voidVars, answers, faults, outcome, missed>>

AnswerLost ==
    /\ answer.step \in {"sent", "done"} /\ Fault
    /\ answer' = [answer EXCEPT !.step = "lost"]
    /\ UNCHANGED <<serverVars, fetch, shown, asking, voidVars, answers, outcome, mine, missed>>

\* Success invalidates all trades, or all that administrators read, and waits for the refetch.
OnSuccess ==
    /\ answer.step = "done" /\ answer.action # "void"
    /\ answer' = [answer EXCEPT !.step = "settling"]
    /\ fetch' = Reading
    /\ UNCHANGED <<serverVars, shown, asking, voidVars, answers, faults, outcome, mine, missed>>

NothingAgain == fetch
\* "Answered elsewhere meanwhile (409): show what it is now."
TradeAgain == Reading

OnError ==
    /\ answer.step \in {"refused", "short", "lost"} /\ answer.action # "void"
    /\ outcome' = answer.step /\ answer' = Idle /\ asking' = None
    /\ fetch' = TradeAgain
    /\ UNCHANGED <<serverVars, shown, voidVars, answers, faults, mine, missed>>

-----------------------------------------------------------------------------
(* An administrator's void.                                                   *)

OpenVoid ==
    /\ role = "admin" /\ asking = None
    /\ shown.row \in {"PENDING", "ACCEPTED"}
    /\ asking' = "void" /\ refusal' = FALSE /\ crossed' = FALSE /\ mine' = FALSE
    /\ check' = [NoCheck EXCEPT !.step = "asked"]
    /\ UNCHANGED <<serverVars, fetch, shown, answer, answers, faults, outcome, missed>>

\* useVoidCheck(id, open && voiding.isIdle): a void that failed leaves the mutation in its error,
\* and one whose dialog was closed is not this dialog's.
CheckEnabled == asking = "void" /\ (answer.step = "idle" \/ ~answer.own) /\ ~refusal

\* The window is focused again, or Try again is pressed.
ChecksAgain ==
    /\ CheckEnabled /\ check.step = "idle"
    /\ check' = [check EXCEPT !.step = "asked"]
    /\ UNCHANGED <<serverVars, fetch, shown, asking, answer, refusal, answers, faults, outcome,
                   mine, crossed, missed>>

\* voidCheck: the void is run and rolled back.
ServerChecks ==
    /\ check.step = "asked"
    /\ check' = [check EXCEPT !.step = IF Voidable THEN "may" ELSE "may not"]
    /\ UNCHANGED <<serverVars, fetch, shown, asking, answer, refusal, answers, faults, outcome,
                   mine, crossed, missed>>

CheckArrives ==
    /\ check.step \in {"may", "may not"}
    /\ check' = [step |-> "idle", voidable |-> IF check.step = "may" THEN "yes" ELSE "no",
                 failed |-> FALSE]
    /\ UNCHANGED <<serverVars, fetch, shown, asking, answer, refusal, answers, faults, outcome,
                   mine, crossed, missed>>

CheckFails ==
    /\ check.step # "idle" /\ Fault
    /\ check' = [check EXCEPT !.step = "idle", !.failed = TRUE]
    /\ UNCHANGED <<serverVars, fetch, shown, asking, answer, refusal, answers, outcome, mine,
                   crossed, missed>>

\* `voidable`: also while a later check fails or is under way.
Offered == asking = "void" /\ check.voidable = "yes" /\ ~refusal

\* Bound: one mutation under way.
ConfirmVoid ==
    /\ Offered /\ answer.step = "idle"
    /\ answers < MaxAnswers /\ answers' = answers + 1
    /\ answer' = [Idle EXCEPT !.step = "sent", !.action = "void"] /\ outcome' = "none"
    /\ crossed' = (check.step # "idle")
    /\ UNCHANGED <<serverVars, fetch, shown, asking, check, refusal, faults, mine, missed>>

\* An enabled check is refetched with everything that administrators read.
OnVoided ==
    /\ answer.step = "done" /\ answer.action = "void"
    /\ answer' = [answer EXCEPT !.step = "settling"]
    /\ fetch' = Reading
    /\ check' = IF CheckEnabled THEN [check EXCEPT !.step = "asked"] ELSE check
    /\ UNCHANGED <<serverVars, shown, asking, refusal, answers, faults, outcome, mine, crossed, missed>>

OnVoidRefused ==
    /\ answer.step \in {"refused", "lost"} /\ answer.action = "void"
    /\ answer' = Idle
    /\ IF answer.own
       THEN outcome' = answer.step /\ refusal' = TRUE /\ fetch' = Reading
       ELSE UNCHANGED <<outcome, refusal, fetch>>
    /\ UNCHANGED <<serverVars, shown, asking, check, answers, faults, mine, crossed, missed>>

\* Cancel, Escape, and the Close of a dialog that offers nothing, which a void under way does not
\* disable.
CloseVoid ==
    /\ asking = "void" /\ (answer.step = "idle" \/ ~answer.own \/ ~Offered)
    /\ asking' = None /\ refusal' = FALSE /\ check' = NoCheck
    /\ answer' = IF answer.step = "idle" THEN answer ELSE [answer EXCEPT !.own = FALSE]
    /\ UNCHANGED <<serverVars, fetch, shown, answers, faults, outcome, mine, crossed, missed>>

-----------------------------------------------------------------------------

Next ==
    \/ OthersAct \/ Refetches \/ ServerReads \/ Arrives \/ FetchFails
    \/ \E action \in Actions : Ask(action)
    \/ Dismiss \/ Confirm \/ ServerAnswers \/ AnswerLost \/ OnError
    \/ OnSuccess
    \/ OpenVoid \/ ChecksAgain \/ ServerChecks \/ CheckArrives \/ CheckFails \/ ConfirmVoid
    \/ OnVoided \/ OnVoidRefused \/ CloseVoid

Spec == Init /\ [][Next]_tradeVars

-----------------------------------------------------------------------------

\* Type invariant.
TypeOK ==
    /\ trade.last \in Actions \union {"propose"}
    /\ trade.status = IF trade.last = "propose" THEN "PENDING" ELSE Leaves(trade.last)
    /\ fetch # None => fetch.row \in {None, shown.row} \union {Leaves(a) : a \in Actions}
    /\ shown.row # None /\ shown.last # None /\ shown.countered \in BOOLEAN
    /\ asking \in Actions \union {None}
    /\ answer.step \in {"idle", "sent", "done", "refused", "short", "lost", "settling"}
    /\ refusal => asking = "void"
    /\ check.step \in {"idle", "asked", "may", "may not"}

\* A page never says less in its timeline and its negotiation than in its status
\* (trade-detail.tsx:40-44, trade-status-timeline.tsx): a closed trade's closing entry is there, so
\* that an expired offer is not called cancelled by its sender, and a countered one's counter is.
TheHistoryTellsTheStatus ==
    shown.row # "PENDING" =>
        /\ shown.last # "propose"
        /\ (shown.last = "void" \/ Leaves(shown.last) = shown.row)
        /\ (shown.row = "COUNTERED" => shown.countered)

\* Once an answer was told, or refused because another was faster, and the page has read the trade
\* again, it no longer offers to answer it (trade-detail.tsx:173-186).
AnswersAreShown ==
    fetch = None /\ answer.step = "idle" /\ outcome \in {"told", "refused"} /\ ~missed =>
        \/ shown.row # "PENDING"
        \/ (role = "admin" /\ outcome = "refused")

\* What the dialog says of a void: one of several texts.
SaysRefused ==
    /\ asking = "void" /\ check.voidable # None /\ ~check.failed
    /\ refusal \/ check.voidable = "no"

\* "announce a refusal for a void that succeeded" (void-dialog.tsx:27-28): only if its answer was
\* lost, or a check was already under way when it was confirmed.
NoVoidThatWorkedIsRefused ==
    SaysRefused /\ mine /\ trade.last = "void" => outcome = "lost" \/ crossed
=============================================================================
