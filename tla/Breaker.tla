------------------------------ MODULE Breaker ------------------------------
(***************************************************************************)
(* The circuit breaker of one card source: a counter of failures in a row  *)
(* and an open key, both in Redis with a TTL, written by every job that    *)
(* calls the source and reset by an administrator.  The increment and the  *)
(* SET of the open key are two round trips, and others come between them.  *)
(* While Redis is away a write is lost, which is a job that did not report.*)
(***************************************************************************)
EXTENDS Integers, FiniteSets

CONSTANTS
    Jobs,       \* the job attempts that may be calling the source
    Threshold   \* failures in a row that open the breaker

VARIABLES
    count,    \* failures in a row, as the counter says
    open,     \* does the open key exist?
    opening,  \* jobs between the increment and the SET
    troubled  \* may a call to the source still fail, and why ever?

bvars == <<count, open, opening, troubled>>

\* The counter is capped where its value stops to matter.
TypeOK == /\ count \in 0 .. Threshold /\ open \in BOOLEAN
          /\ opening \subseteq Jobs /\ troubled \in BOOLEAN

Init == /\ count = 0 /\ open = FALSE /\ opening = {}
        /\ troubled = TRUE

Min2(a, b) == IF a < b THEN a ELSE b

\* recordFailure, first round trip: incr and expire in one pipeline.
Count(j) ==
    /\ count' = Min2(count + 1, Threshold)
    /\ opening' = IF count' >= Threshold THEN opening \cup {j} ELSE opening
    /\ UNCHANGED <<open, troubled>>

\* The price batches, and a page of the catalog sync: a failure that is the
\* provider's own.
BatchFails(j) == troubled /\ j \notin opening /\ Count(j)

\* The sets of the catalog sync: whatever was thrown is counted, a 429 and an error
\* of ours too.
SetsFail(j) == troubled /\ j \notin opening /\ Count(j)

\* Second round trip, which may be lost.
Opens(j) ==
    /\ j \in opening /\ opening' = opening \ {j}
    /\ open' \in {TRUE, open}
    /\ UNCHANGED <<count, troubled>>

\* recordSuccess.
Answered ==
    /\ count' = 0
    /\ UNCHANGED <<open, opening, troubled>>

\* The counter's TTL, an hour after its last increment.
WindowEnds ==
    /\ count > 0 /\ count' = 0
    /\ UNCHANGED <<open, opening, troubled>>

\* Mutant of CooldownEnds: the open key is set without a TTL.
NoCooldown == FALSE /\ UNCHANGED bvars
\* The open key's TTL, half an hour after it was set last.
CooldownEnds ==
    /\ open /\ open' = FALSE
    /\ UNCHANGED <<count, opening, troubled>>

\* resetBreaker deletes both keys.
Reset ==
    /\ open' = FALSE /\ count' = 0
    /\ UNCHANGED <<opening, troubled>>

\* From now on calls to the source succeed.
Recovers ==
    /\ troubled /\ troubled' = FALSE
    /\ UNCHANGED <<count, open, opening>>

Next ==
    \/ \E j \in Jobs : BatchFails(j) \/ SetsFail(j) \/ Opens(j)
    \/ Answered \/ WindowEnds \/ CooldownEnds \/ Reset \/ Recovers

\* A job goes on with its own code; a TTL runs out.
Fairness == WF_bvars(CooldownEnds) /\ \A j \in Jobs : WF_bvars(Opens(j))

Spec == Init /\ [][Next]_bvars

-----------------------------------------------------------------------------

\* A source that has recovered is selected again for good, whatever was in
\* flight when it did: nothing schedules a re-test, the key expires
\* (provider-breaker.service.ts:15, ProviderSelectorService.select).
ClosedOnceWell == troubled \/ ~open
RecoveredMeansClosed == <>[]ClosedOnceWell
=============================================================================
