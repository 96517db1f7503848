-------------------------- MODULE PriceSweep_proofs --------------------------
(***************************************************************************)
(* What PriceSweep promises of a sweep, for every catalog, batch size,     *)
(* limit, number of workers and number of jobs.                            *)
(***************************************************************************)
EXTENDS PriceSweep, SumTheorems, SequenceTheorems

-----------------------------------------------------------------------------
(* The inductive invariant.                                                *)

Walking == {"loop", "record", "finish", "close"}
OnARow == Walking \cup {"broken"}

\* What a call has left behind it, as NothingIsSkipped says it.
Behind(s) ==
    IF s.wrapped THEN {c \in s.there : c > s.from \/ c <= s.last}
    ELSE {c \in s.there : s.from < c /\ c <= s.last}

\* A call by itself: its counters, and what it knows of the cards there are.
CallOK(s, cards) ==
    /\ s.step # "idle" => s.job # 0
    /\ s.step \in {"chosen", "loop", "record"} => s.stalls < MaxStalls
    /\ s.step = "chosen" =>
          ~s.wrapped /\ ~s.completed /\ s.tried = {} /\ s.priced = {}
    /\ s.step \in Walking =>
          /\ s.there \subseteq cards
          /\ Behind(s) \subseteq s.tried
          /\ s.tried # s.priced => s.failed
          /\ s.completed => s.there \subseteq s.tried
CallInv == \A w \in Workers : CallOK(sweep[w], mirror)

\* Attempts are left while the job is unfinished; a call whose job never lost
\* a lock holds the job; what is reported as failed has failed.
QueueInv ==
    /\ Unfinished => job.made < Attempts /\ job.id # 0
    /\ \A w \in Workers :
          sweep[w].step # "idle" /\ sweep[w].job \notin lapsed => Holds(w)
    /\ \A w \in Workers : \A j \in 1 .. MaxJobs : <<w, j>> \in failures =>
          j <= job.id /\ (j = job.id => job.state = "failed")

\* A call and its row; the last three hold while the job keeps its lock.
RowOK(s) ==
    /\ s.step \in OnARow => s.run \in 1 .. Len(rows) /\ rows[s.run].job = s.job
    /\ s.job \notin lapsed =>
          /\ s.step = "chosen" =>
                \A i \in RunsOf(s.job) : rows[i].provider = s.provider
          /\ s.step \in OnARow =>
                RunsOf(s.job) = {s.run} /\ rows[s.run].provider = s.provider
          /\ s.step = "done" => RunsOf(s.job) = {}
OneOpenRun ==
    \A i, k \in 1 .. Len(rows) :
        /\ rows[i].job = rows[k].job /\ rows[i].job # 0
        /\ rows[i].job \notin lapsed
        /\ rows[i].status = "RUNNING" /\ rows[k].status = "RUNNING"
        => i = k
RowInv ==
    /\ \A w \in Workers : RowOK(sweep[w])
    /\ OneOpenRun
    /\ CompletedJobsCloseTheirRuns

SweepInv == TypeOK /\ CallInv /\ QueueInv /\ RowInv

-----------------------------------------------------------------------------
(* The order of ids, and what a batch leaves behind.                       *)

\* Newest names the greatest element of a bounded set of naturals.
LEMMA NewestIsGreatest ==
    ASSUME NEW n \in Nat, NEW T \in SUBSET (0 .. n), T # {}
    PROVE  Newest(T) \in T /\ \A x \in T : x <= Newest(T)
<1> DEFINE U == {n - x : x \in T}
<1>1. PICK d \in U : \A y \in U : d <= y
  <2>1. \A x \in T : x \in 0 .. n
    OBVIOUS
  <2>2. U \in SUBSET Nat
    BY <2>1
  <2>3. U # {}
    OBVIOUS
  <2> QED BY <2>2, <2>3, Least
<1>2. PICK m \in T : d = n - m
  BY <1>1
<1>3. ASSUME NEW x \in T PROVE x <= m
  <2>1. d <= n - x
    BY <1>1, <1>3
  <2> QED BY <1>2, <1>3, <2>1
<1> QED BY <1>2, <1>3 DEF Newest

\* What follows a position is finite and, unless there is nothing, some of
\* it is in the batch: the least of it.
LEMMA BatchOfRest ==
    ASSUME mirror \in SUBSET (1 .. Catalog), NEW last \in Positions
    PROVE  /\ Batch(last) \subseteq Rest(last)
           /\ Rest(last) \in SUBSET (1 .. Catalog)
           /\ \A c, e \in Rest(last) :
                 e \in Batch(last) /\ c <= e => c \in Batch(last)
           /\ \A c \in Rest(last) : \E e \in Batch(last) : e <= c
<1> USE SweepAssumption
<1>1. Rest(last) \in SUBSET (1 .. Catalog) /\ Batch(last) \subseteq Rest(last)
  BY DEF Rest, Batch
<1> DEFINE below(c) == {d \in Rest(last) : d < c}
<1>2. ASSUME NEW c PROVE IsFiniteSet(below(c))
  <2>1. IsFiniteSet(1 .. Catalog)
    BY FS_Interval
  <2>2. below(c) \in SUBSET (1 .. Catalog)
    BY <1>1
  <2> QED BY <2>1, <2>2, FS_Subset
<1>3. ASSUME NEW c \in Rest(last), NEW e \in Rest(last),
             e \in Batch(last), c <= e
      PROVE  c \in Batch(last)
  <2>1. below(c) \in SUBSET below(e)
    BY <1>1, <1>3
  <2>2. Cardinality(below(c)) <= Cardinality(below(e))
    BY <1>2, <2>1, FS_Subset
  <2>3. Cardinality(below(c)) \in Nat /\ Cardinality(below(e)) \in Nat
    BY <1>2, FS_CardinalityType
  <2>4. Cardinality(below(e)) < BatchSize
    BY <1>3 DEF Batch
  <2> QED BY <2>2, <2>3, <2>4 DEF Batch
<1>4. ASSUME NEW c \in Rest(last)
      PROVE  \E e \in Batch(last) : e <= c
  <2>1. Rest(last) \in SUBSET Nat
    BY <1>1
  <2>2. PICK m \in Rest(last) : \A x \in Rest(last) : m <= x
    BY <2>1, <1>4, Least
  <2>3. below(m) = {}
    BY <2>1, <2>2
  <2>4. Cardinality(below(m)) = 0
    BY <2>3, FS_EmptySet
  <2>5. m \in Batch(last)
    BY <2>4 DEF Batch
  <2> QED BY <2>2, <2>5
<1> QED BY <1>1, <1>3, <1>4

\* The batch a call asks for is all that lies between where it stands and the
\* batch's end; a call that finds none is back where it started.
LEMMA BatchOfCall ==
    ASSUME mirror \in SUBSET (1 .. Catalog), NEW s \in SweepType
    PROVE  /\ Ids(s) \in SUBSET (1 .. Catalog)
           /\ Ids(s) # {} =>
                /\ BatchEnd(s) \in Positions
                /\ \A c \in mirror :
                      s.last < c /\ c <= BatchEnd(s) => c \in Ids(s)
           /\ Rest(s.last) # {} /\ Ids(s) = {} =>
                /\ s.wrapped
                /\ \A c \in mirror : s.last < c => s.from < c
           /\ Rest(s.last) = {} => \A c \in mirror : c <= s.last
<1> USE SweepAssumption
<1>1. s.last \in Positions /\ s.from \in Positions /\ s.wrapped \in BOOLEAN
  BY DEF SweepType
<1>2. /\ Batch(s.last) \subseteq Rest(s.last)
      /\ Rest(s.last) \in SUBSET (1 .. Catalog)
      /\ \A c, e \in Rest(s.last) :
            e \in Batch(s.last) /\ c <= e => c \in Batch(s.last)
      /\ \A c \in Rest(s.last) : \E e \in Batch(s.last) : e <= c
  BY <1>1, BatchOfRest
<1>3. Ids(s) \in SUBSET (1 .. Catalog)
  BY <1>2 DEF Ids
<1>4. ASSUME Ids(s) # {}
      PROVE  /\ BatchEnd(s) \in Positions
             /\ \A c \in mirror :
                   s.last < c /\ c <= BatchEnd(s) => c \in Ids(s)
  <2>1. Ids(s) \in SUBSET (0 .. Catalog)
    BY <1>3
  <2>2. BatchEnd(s) \in Ids(s)
    BY <1>4, <2>1, NewestIsGreatest DEF BatchEnd
  <2>3. ASSUME NEW c \in mirror, s.last < c, c <= BatchEnd(s)
        PROVE  c \in Ids(s)
    <3>1. c \in Rest(s.last)
      BY <2>3 DEF Rest
    <3>2. c \in Batch(s.last)
      BY <1>2, <2>2, <2>3, <3>1 DEF Ids
    <3>3. s.wrapped => c <= s.from
      BY <1>1, <1>3, <2>2, <2>3 DEF Ids, Positions
    <3> QED BY <3>2, <3>3 DEF Ids
  <2> QED BY <2>1, <2>2, <2>3 DEF Positions
<1>5. ASSUME Rest(s.last) # {}, Ids(s) = {}
      PROVE  s.wrapped /\ \A c \in mirror : s.last < c => s.from < c
  <2>1. ASSUME NEW c \in Rest(s.last)
        PROVE  s.wrapped /\ s.from < c
    <3>1. PICK e \in Batch(s.last) : e <= c
      BY <1>2, <2>1
    <3>2. s.wrapped /\ ~(e <= s.from)
      BY <1>5, <3>1 DEF Ids
    <3> QED BY <1>1, <1>2, <2>1, <3>1, <3>2 DEF Positions
  <2> QED BY <1>5, <2>1 DEF Rest
<1>6. ASSUME Rest(s.last) = {} PROVE \A c \in mirror : c <= s.last
  BY <1>1, <1>6 DEF Rest, Positions
<1> QED BY <1>3, <1>4, <1>5, <1>6

-----------------------------------------------------------------------------
(* Calls: their shape and CallInv.                                         *)

\* A worker that goes on to an orderly call leaves all calls orderly.
LEMMA NewCall ==
    ASSUME TypeOK, CallInv, mirror \subseteq mirror', NEW w \in Workers,
           NEW new \in SweepType, CallOK(new, mirror'),
           sweep' = [sweep EXCEPT ![w] = new]
    PROVE  sweep' \in [Workers -> SweepType] /\ CallInv'
<1>1. sweep' \in [Workers -> SweepType]
  BY DEF TypeOK
<1>2. ASSUME NEW v \in Workers PROVE CallOK(sweep'[v], mirror')
  <2>1. CASE v = w
    BY <2>1 DEF TypeOK
  <2>2. CASE v # w
    <3>1. sweep'[v] = sweep[v] /\ CallOK(sweep[v], mirror)
      BY <2>2 DEF TypeOK, CallInv
    <3> QED BY <3>1 DEF CallOK
  <2> QED BY <2>1, <2>2
<1> QED BY <1>1, <1>2 DEF CallInv

\* Nothing is under way in a call that has not begun.
LEMMA NoSweepOK ==
    NoSweep \in SweepType /\ \A cards : CallOK(NoSweep, cards)
BY SweepAssumption DEF NoSweep, SweepType, CallOK, Walking, Providers, Positions

\* The call that passes a batch, whatever became of it.
LEMMA PassedOK ==
    ASSUME mirror \in SUBSET (1 .. Catalog), NEW s \in SweepType,
           CallOK(s, mirror), s.step = "loop", Ids(s) # {},
           NEW failed \in BOOLEAN, NEW down \in BOOLEAN
    PROVE  /\ Passed(s, failed, down) \in SweepType
           /\ CallOK(Passed(s, failed, down), mirror)
<1> USE SweepAssumption
<1> DEFINE t == Passed(s, failed, down)
<1>1. /\ Ids(s) \in SUBSET (1 .. Catalog) /\ BatchEnd(s) \in Positions
      /\ \A c \in mirror : s.last < c /\ c <= BatchEnd(s) => c \in Ids(s)
  BY BatchOfCall
<1>2. t \in SweepType
  <2>1. /\ s.tried \cup Ids(s) \in SUBSET (1 .. Catalog)
        /\ s.priced \cup Ids(s) \in SUBSET (1 .. Catalog)
        /\ s.priced \in SUBSET (1 .. Catalog)
    BY <1>1 DEF SweepType
  <2>2. (s.failed \/ failed) \in BOOLEAN /\ (~down /\ LastOfPass(s)) \in BOOLEAN
    OBVIOUS
  <2>3. 0 \in 0 .. MaxStalls
    OBVIOUS
  <2> QED BY <1>1, <2>1, <2>2, <2>3 DEF Passed, SweepType
<1>3. /\ t.step = "record" /\ t.job = s.job /\ t.stalls = 0
      /\ t.there = s.there /\ t.from = s.from /\ t.wrapped = s.wrapped
      /\ t.last = BatchEnd(s) /\ t.tried = s.tried \cup Ids(s)
      /\ t.failed = (s.failed \/ failed)
      /\ t.priced = IF failed THEN s.priced ELSE s.priced \cup Ids(s)
      /\ t.completed = (~down /\ LastOfPass(s))
  BY DEF Passed, SweepType
<1>4. /\ s.job # 0 /\ s.there \subseteq mirror /\ Behind(s) \subseteq s.tried
      /\ s.tried # s.priced => s.failed
  BY DEF CallOK, Walking
<1>5. s.last \in Positions /\ s.from \in Positions /\ s.there \in SUBSET (1 .. Catalog)
  BY DEF SweepType
<1>6. Behind(t) \subseteq t.tried
  <2>1. ASSUME NEW c \in Behind(t) PROVE c \in s.tried \cup Ids(s)
    <3>1. c \in s.there /\ c \in mirror /\ c \in 1 .. Catalog
      BY <1>3, <1>4, <1>5, <2>1 DEF Behind
    <3>2. CASE s.last < c /\ c <= BatchEnd(s)
      BY <1>1, <3>1, <3>2
    <3>3. CASE ~(s.last < c /\ c <= BatchEnd(s))
      <4>1. c \in Behind(s)
        BY <1>1, <1>3, <1>5, <2>1, <3>1, <3>3 DEF Behind, Positions
      <4> QED BY <1>4, <4>1
    <3> QED BY <3>2, <3>3
  <2> QED BY <1>3, <2>1
<1>7. t.completed => t.there \subseteq t.tried
  <2>1. ASSUME LastOfPass(s) PROVE t.there \subseteq Behind(t)
    BY <1>1, <1>3, <1>5, <2>1 DEF LastOfPass, Behind, Positions
  <2> QED BY <1>3, <1>6, <2>1
<1>8. t.tried # t.priced => t.failed
  BY <1>3, <1>4
<1> HIDE DEF t
<1>9. CallOK(t, mirror)
  <2>1. t.step # "idle" /\ t.step # "chosen" /\ t.job # 0 /\ t.stalls < MaxStalls
    BY <1>3, <1>4
  <2>2. t.there \subseteq mirror
    BY <1>3, <1>4
  <2> QED BY <2>1, <2>2, <1>6, <1>7, <1>8 DEF CallOK
<1> QED BY <1>2, <1>9 DEF t

\* The newest of some rows is one of them.
LEMMA NewestRow ==
    ASSUME TypeOK, NEW T \in SUBSET (1 .. Len(rows)), T # {}
    PROVE  Newest(T) \in T
<1>1. Len(rows) \in Nat
  BY LenProperties DEF TypeOK
<1>2. T \in SUBSET (0 .. Len(rows))
  BY <1>1
<1> QED BY <1>1, <1>2, NewestIsGreatest

\* A call begins on a row its job left open, or on a new one of its own.
NewRow(s) == [job |-> s.job, provider |-> s.provider, status |-> "RUNNING",
              cursor |-> NoCursor, failed |-> FALSE]
OldRun(w, i) == i \in RunsOf(sweep[w].job) /\ rows' = rows /\ story' = story
NewRun(w, i, from) ==
    /\ RunsOf(sweep[w].job) = {} /\ i = Len(rows) + 1
    /\ rows' = Append(rows, NewRow(sweep[w]))
    /\ story' = Append(story, [asked |-> {}, swept |-> FALSE, stopped |-> from])

LEMMA Started ==
    ASSUME TypeOK, NEW w \in Workers, StartOrResume(w)
    PROVE  \E i \in 1 .. Len(rows') : \E from \in Positions :
              /\ rows' \in Seq(RowType) /\ Begin(w, i, from)
              /\ OldRun(w, i) \/ NewRun(w, i, from)
<1> USE SweepAssumption
<1> DEFINE own == RunsOf(sweep[w].job)
<1>1. /\ rows \in Seq(RowType) /\ Len(rows) \in Nat
      /\ sweep[w].job \in 0 .. MaxJobs /\ sweep[w].provider \in Providers
  BY LenProperties DEF TypeOK, SweepType
<1>2. \A i \in 1 .. Len(rows) : ReadPriceCursor(rows[i].cursor) \in Positions
  <2>1. ASSUME NEW i \in 1 .. Len(rows)
        PROVE  ReadPriceCursor(rows[i].cursor) \in Positions
    <3>1. rows[i] \in RowType
      BY <1>1, <2>1, ElementOfSeq
    <3> QED BY <3>1 DEF RowType, ReadPriceCursor, NoCursor, Positions
  <2> QED BY <2>1
<1>3. LastClosedCursor \in Positions
  <2>1. ASSUME Closed # {} PROVE Newest(Closed) \in 1 .. Len(rows)
    <3>1. Closed \in SUBSET (1 .. Len(rows))
      BY DEF Closed
    <3> QED BY <2>1, <3>1, NewestRow
  <2> QED BY <1>2, <2>1 DEF LastClosedCursor, Positions
<1>4. ReadPriceCursor(NoCursor) \in Positions
  BY DEF ReadPriceCursor, Positions
<1>5. CASE own # {}
  <2>1. Newest(own) \in own /\ own \in SUBSET (1 .. Len(rows))
    BY <1>5, NewestRow DEF RunsOf
  <2>2. PICK from \in Positions : Begin(w, Newest(own), from)
    BY <1>2, <1>3, <1>5, <2>1 DEF StartOrResume
  <2>3. rows' = rows /\ story' = story
    BY <1>5 DEF StartOrResume
  <2>4. Newest(own) \in 1 .. Len(rows')
    BY <2>1, <2>3
  <2>5. OldRun(w, Newest(own))
    BY <2>1, <2>3 DEF OldRun
  <2> QED BY <1>1, <2>2, <2>3, <2>4, <2>5
<1>6. CASE own = {}
  <2>1. PICK from \in Positions :
           /\ Begin(w, Len(rows) + 1, from) /\ rows' = Append(rows, NewRow(sweep[w]))
           /\ story' = Append(story, [asked |-> {}, swept |-> FALSE, stopped |-> from])
    BY <1>3, <1>4, <1>6 DEF StartOrResume, NewRow
  <2>2. NewRow(sweep[w]) \in RowType
    BY <1>1 DEF NewRow, RowType
  <2>3. rows' \in Seq(RowType) /\ Len(rows') = Len(rows) + 1
    BY <1>1, <2>1, <2>2, AppendProperties
  <2>4. NewRun(w, Len(rows) + 1, from)
    BY <1>6, <2>1 DEF NewRun
  <2>5. Len(rows) + 1 \in 1 .. Len(rows')
    BY <1>1, <2>3
  <2> QED BY <2>1, <2>3, <2>4, <2>5
<1> QED BY <1>5, <1>6

\* What the steps of the walk make of a call, other than passing a batch.
LEMMA WalkedOK ==
    ASSUME mirror \in SUBSET (1 .. Catalog), NEW s \in SweepType,
           CallOK(s, mirror), s.step = "loop", NEW new,
           \/ new = [s EXCEPT !.step = "finish"]
           \/ new = [s EXCEPT !.step = "broken"]
           \/ new = AfterStall(s)
           \/ /\ Rest(s.last) = {} /\ MustWrap(s)
              /\ new = [s EXCEPT !.wrapped = TRUE, !.last = 0]
           \/ /\ Rest(s.last) = {} /\ ~MustWrap(s)
              /\ new = [s EXCEPT !.step = "finish", !.completed = TRUE]
           \/ /\ Rest(s.last) # {} /\ Ids(s) = {}
              /\ new = [s EXCEPT !.step = "finish", !.completed = TRUE,
                                 !.last = s.from]
    PROVE  new \in SweepType /\ CallOK(new, mirror)
<1> USE SweepAssumption
<1>1. /\ s.last \in Positions /\ s.from \in Positions /\ 0 \in Positions
      /\ s.there \in SUBSET (1 .. Catalog) /\ s.stalls \in 0 .. MaxStalls
      /\ s.job # 0 /\ s.there \subseteq mirror /\ Behind(s) \subseteq s.tried
      /\ s.tried # s.priced => s.failed
      /\ s.completed => s.there \subseteq s.tried
      /\ s.stalls < MaxStalls
  BY DEF SweepType, CallOK, Walking, Positions
<1>2. /\ Rest(s.last) # {} /\ Ids(s) = {} =>
            s.wrapped /\ \A c \in mirror : s.last < c => s.from < c
      /\ Rest(s.last) = {} => \A c \in mirror : c <= s.last
  BY BatchOfCall
<1>3. CASE new = [s EXCEPT !.step = "finish"]
  <2>1. new \in SweepType
    BY <1>3 DEF SweepType
  <2>2. Behind(new) = Behind(s)
    BY <1>3 DEF Behind, SweepType
  <2> QED BY <1>1, <1>3, <2>1, <2>2 DEF CallOK, Walking, SweepType
<1>4. CASE new = [s EXCEPT !.step = "broken"]
  <2>1. new \in SweepType
    BY <1>4 DEF SweepType
  <2> QED BY <1>1, <1>4, <2>1 DEF CallOK, Walking, SweepType
<1>5. CASE new = AfterStall(s)
  <2>1. new \in SweepType
    <3>1. s.stalls + 1 \in 0 .. MaxStalls
      BY <1>1
    <3> QED BY <1>5, <3>1 DEF SweepType, AfterStall
  <2>2. Behind(new) = Behind(s)
    BY <1>5 DEF Behind, SweepType, AfterStall
  <2>3. /\ new.step # "idle" /\ new.step # "chosen" /\ new.job # 0
        /\ new.step \in {"loop", "record"} => new.stalls < MaxStalls
    BY <1>1, <1>5 DEF SweepType, AfterStall
  <2>4. /\ new.there = s.there /\ new.tried = s.tried /\ new.priced = s.priced
        /\ new.failed = s.failed /\ new.completed = s.completed
    BY <1>5 DEF SweepType, AfterStall
  <2> QED BY <1>1, <2>1, <2>2, <2>3, <2>4 DEF CallOK
<1>6. CASE /\ Rest(s.last) = {} /\ MustWrap(s)
           /\ new = [s EXCEPT !.wrapped = TRUE, !.last = 0]
  <2>1. new \in SweepType
    BY <1>1, <1>6 DEF SweepType
  <2>2. /\ new.step = "loop" /\ new.job = s.job /\ new.stalls = s.stalls
        /\ new.there = s.there /\ new.tried = s.tried /\ new.priced = s.priced
        /\ new.failed = s.failed /\ new.completed = s.completed
        /\ new.wrapped /\ new.last = 0 /\ new.from = s.from
    BY <1>6 DEF SweepType
  <2>3. Behind(new) \subseteq Behind(s)
    <3>1. ASSUME NEW c \in Behind(new) PROVE c \in Behind(s)
      <4>1. c \in s.there /\ c \in mirror /\ c \in 1 .. Catalog
        BY <1>1, <2>2, <3>1 DEF Behind
      <4>2. s.from < c /\ c <= s.last /\ ~s.wrapped
        BY <1>1, <1>2, <1>6, <2>2, <3>1, <4>1 DEF Behind, MustWrap
      <4> QED BY <4>1, <4>2 DEF Behind
    <3> QED BY <3>1
  <2> QED BY <1>1, <2>1, <2>2, <2>3 DEF CallOK, Walking
<1>7. CASE /\ Rest(s.last) = {} /\ ~MustWrap(s)
           /\ new = [s EXCEPT !.step = "finish", !.completed = TRUE]
  <2>1. new \in SweepType
    BY <1>7 DEF SweepType
  <2>2. /\ new.step = "finish" /\ new.job = s.job /\ Behind(new) = Behind(s)
        /\ new.there = s.there /\ new.tried = s.tried /\ new.priced = s.priced
        /\ new.failed = s.failed
    BY <1>7 DEF SweepType, Behind
  <2>3. s.there \subseteq Behind(s)
    BY <1>1, <1>2, <1>7 DEF Behind, MustWrap
  <2> QED BY <1>1, <2>1, <2>2, <2>3 DEF CallOK, Walking
<1>8. CASE /\ Rest(s.last) # {} /\ Ids(s) = {}
           /\ new = [s EXCEPT !.step = "finish", !.completed = TRUE,
                              !.last = s.from]
  <2>1. new \in SweepType
    BY <1>1, <1>8 DEF SweepType
  <2>2. /\ new.step = "finish" /\ new.job = s.job /\ new.wrapped = s.wrapped
        /\ new.there = s.there /\ new.tried = s.tried /\ new.priced = s.priced
        /\ new.failed = s.failed
    BY <1>8 DEF SweepType
  <2>3. s.there \subseteq Behind(s) /\ Behind(new) \subseteq s.there
    <3>1. ASSUME NEW c \in s.there PROVE c > s.from \/ c <= s.last
      <4>1. c \in mirror /\ c \in 1 .. Catalog
        BY <1>1, <3>1
      <4> QED BY <1>1, <1>2, <1>8, <4>1 DEF Positions
    <3> QED BY <1>2, <1>8, <2>2, <3>1 DEF Behind
  <2> QED BY <1>1, <2>1, <2>2, <2>3 DEF CallOK, Walking
<1> QED BY <1>3, <1>4, <1>5, <1>6, <1>7, <1>8

\* A step keeps every call orderly.
LEMMA CallStep ==
    ASSUME TypeOK, CallInv, QueueInv, Next
    PROVE  sweep' \in [Workers -> SweepType] /\ CallInv'
<1> USE SweepAssumption
<1> DEFINE Goal == sweep' \in [Workers -> SweepType] /\ CallInv'
<1>1. mirror \in SUBSET (1 .. Catalog) /\ job.id \in 0 .. MaxJobs
  BY DEF TypeOK
<1>2. ASSUME NEW w \in Workers
      PROVE  sweep[w] \in SweepType /\ CallOK(sweep[w], mirror)
  BY <1>2 DEF TypeOK, CallInv
<1>3. ASSUME UNCHANGED sweep, mirror \subseteq mirror' PROVE Goal
  BY <1>3 DEF TypeOK, CallInv, CallOK
<1>4. ASSUME NEW w \in Workers, sweep' = [sweep EXCEPT ![w] = NoSweep],
             mirror' = mirror
      PROVE  Goal
  BY <1>4, NewCall, NoSweepOK
<1>5. ASSUME NEW w \in Workers, NEW new, Advance(w, new),
             new \in SweepType, CallOK(new, mirror)
      PROVE  Goal
  <2>1. mirror' = mirror /\ sweep' = [sweep EXCEPT ![w] = new]
    BY <1>5 DEF Advance
  <2> QED BY <1>5, <2>1, NewCall
<1>6. ASSUME NEW w \in Workers, Choose(w) PROVE Goal
  <2>1. PICK p \in Providers :
           sweep' = [sweep EXCEPT ![w] = [Take(w) EXCEPT !.provider = p]]
    <3>1. \A open \in BreakerReads : Candidates(open) \subseteq Providers
      <4>1. \A open : Selected(open) \subseteq Providers
        BY DEF Selected, Providers
      <4>2. RunsOf(job.id) # {} => rows[Newest(RunsOf(job.id))].provider \in Providers
        <5>1. RunsOf(job.id) \in SUBSET (1 .. Len(rows))
          BY DEF RunsOf
        <5>2. \A i \in 1 .. Len(rows) : rows[i] \in RowType
          BY ElementOfSeq DEF TypeOK
        <5> QED BY <5>1, <5>2, NewestRow DEF RowType
      <4> QED BY <4>1, <4>2 DEF Candidates
    <3> QED BY <1>6, <3>1 DEF Choose
  <2>2. job.id # 0 /\ mirror' = mirror
    BY <1>6 DEF Choose, QueueInv, Unfinished
  <2>3. [Take(w) EXCEPT !.provider = p] \in SweepType
    BY <1>1, NoSweepOK DEF Take, SweepType
  <2>4. CallOK([Take(w) EXCEPT !.provider = p], mirror)
    BY <2>2 DEF Take, CallOK, NoSweep, Walking
  <2> QED BY <2>1, <2>2, <2>3, <2>4, NewCall
<1>7. ASSUME NEW w \in Workers, Abandon(w) PROVE Goal
  <2>1. /\ job.id # 0 /\ mirror' = mirror
        /\ sweep' = [sweep EXCEPT ![w] = [Take(w) EXCEPT !.step = "done"]]
    BY <1>7 DEF Abandon, QueueInv, Unfinished
  <2>2. [Take(w) EXCEPT !.step = "done"] \in SweepType
    BY <1>1, NoSweepOK DEF Take, SweepType
  <2>3. CallOK([Take(w) EXCEPT !.step = "done"], mirror)
    BY <2>1 DEF Take, CallOK, NoSweep, Walking
  <2> QED BY <2>1, <2>2, <2>3, NewCall
<1>8. ASSUME NEW w \in Workers, StartOrResume(w) PROVE Goal
  <2>1. PICK i \in 1 .. Len(rows'), from \in Positions :
           rows' \in Seq(RowType) /\ Begin(w, i, from)
    BY <1>8, Started
  <2> DEFINE s == sweep[w]
             new == [s EXCEPT !.step = "loop", !.run = i, !.from = from,
                              !.last = from, !.failed = rows'[i].failed,
                              !.there = mirror]
  <2>2. /\ s.step = "chosen" /\ mirror' = mirror
        /\ sweep' = [sweep EXCEPT ![w] = new]
    BY <1>8, <2>1 DEF StartOrResume, Begin
  <2>3. rows'[i].failed \in BOOLEAN /\ i \in Nat
    <3>1. rows'[i] \in RowType /\ Len(rows') \in Nat
      BY <2>1, ElementOfSeq, LenProperties
    <3> QED BY <3>1 DEF RowType
  <2>4. new \in SweepType
    BY <1>1, <1>2, <2>1, <2>3 DEF SweepType
  <2>5. /\ new.step = "loop" /\ new.job = s.job /\ new.stalls = s.stalls
        /\ new.there = mirror /\ new.tried = s.tried /\ new.priced = s.priced
        /\ new.completed = s.completed /\ new.wrapped = s.wrapped
        /\ new.from = from /\ new.last = from
    BY <1>2 DEF SweepType
  <2>6. /\ s.job # 0 /\ s.stalls < MaxStalls /\ ~s.wrapped /\ ~s.completed
        /\ s.tried = {} /\ s.priced = {}
    BY <1>2, <2>2 DEF CallOK
  <2>7. Behind(new) = {}
    BY <1>1, <2>5, <2>6 DEF Behind, Positions
  <2> HIDE DEF new
  <2>8. CallOK(new, mirror)
    BY <2>5, <2>6, <2>7 DEF CallOK
  <2> QED BY <2>2, <2>4, <2>8, NewCall
<1>9. ASSUME NEW w \in Workers,
             \/ StopForBudget(w) \/ Wrap(w) \/ EndOfCatalog(w)
             \/ BackAtTheStart(w) \/ RateLimited(w) \/ ContractBroken(w)
      PROVE  Goal
  <2>1. PICK new :
           /\ Advance(w, new)
           /\ \/ new = [sweep[w] EXCEPT !.step = "finish"]
              \/ new = [sweep[w] EXCEPT !.step = "broken"]
              \/ new = AfterStall(sweep[w])
              \/ /\ Rest(sweep[w].last) = {} /\ MustWrap(sweep[w])
                 /\ new = [sweep[w] EXCEPT !.wrapped = TRUE, !.last = 0]
              \/ /\ Rest(sweep[w].last) = {} /\ ~MustWrap(sweep[w])
                 /\ new = [sweep[w] EXCEPT !.step = "finish", !.completed = TRUE]
              \/ /\ Rest(sweep[w].last) # {} /\ Ids(sweep[w]) = {}
                 /\ new = [sweep[w] EXCEPT !.step = "finish", !.completed = TRUE,
                                           !.last = sweep[w].from]
    BY <1>9 DEF StopForBudget, Wrap, EndOfCatalog, BackAtTheStart, RateLimited,
                ContractBroken, Ask
  <2>2. sweep[w].step = "loop"
    BY <2>1 DEF Advance
  <2>3. new \in SweepType /\ CallOK(new, mirror)
    BY <1>1, <1>2, <2>1, <2>2, WalkedOK
  <2> QED BY <1>5, <2>1, <2>3
<1>10. ASSUME NEW w \in Workers, Answered(w) \/ BatchFailed(w) PROVE Goal
  <2>1. PICK failed \in BOOLEAN, down \in BOOLEAN :
           Ids(sweep[w]) # {} /\ Advance(w, Passed(sweep[w], failed, down))
    BY <1>10 DEF Answered, BatchFailed, Ask
  <2>2. sweep[w].step = "loop"
    BY <2>1 DEF Advance
  <2>3. /\ Passed(sweep[w], failed, down) \in SweepType
        /\ CallOK(Passed(sweep[w], failed, down), mirror)
    BY <1>1, <1>2, <2>1, <2>2, PassedOK
  <2> QED BY <1>5, <2>1, <2>3
<1>11. ASSUME NEW w \in Workers, RecordProgress(w) \/ RecordFinally(w)
       PROVE  Goal
  <2>1. PICK next \in {"loop", "finish", "close"} :
           /\ sweep' = [sweep EXCEPT ![w] = [sweep[w] EXCEPT !.step = next]]
           /\ sweep[w].step \in {"record", "finish"} /\ mirror' = mirror
           /\ next = "loop" => sweep[w].step = "record"
    BY <1>2, <1>11 DEF RecordProgress, RecordFinally, Write, TypeOK, SweepType
  <2> DEFINE new == [sweep[w] EXCEPT !.step = next]
  <2>2. new \in SweepType
    BY <1>2 DEF SweepType
  <2>3. Behind(new) = Behind(sweep[w])
    BY <1>2 DEF Behind, SweepType
  <2>4. CallOK(new, mirror)
    BY <1>2, <2>1, <2>3 DEF CallOK, Walking, SweepType
  <2> HIDE DEF new
  <2>5. sweep' = [sweep EXCEPT ![w] = new]
    BY <2>1 DEF new
  <2> QED BY <2>1, <2>2, <2>4, <2>5, NewCall
<1>12. ASSUME NEW w \in Workers, CloseRun(w) PROVE Goal
  <2> DEFINE new == [NoSweep EXCEPT !.step = "done", !.job = sweep[w].job]
  <2>1. /\ mirror' = mirror /\ sweep' = [sweep EXCEPT ![w] = new]
        /\ sweep[w].job # 0
    BY <1>2, <1>12 DEF CloseRun, CallOK
  <2>2. new \in SweepType
    BY <1>2, NoSweepOK DEF SweepType
  <2>3. CallOK(new, mirror)
    BY <2>1 DEF CallOK, NoSweep, Walking
  <2> QED BY <2>1, <2>2, <2>3, NewCall
<1>13. ASSUME NEW w \in Workers, \/ Crash(w) \/ Return(w) \/ CloseBroken(w)
                                 \/ AttemptFails(w)
       PROVE  Goal
  BY <1>4, <1>13 DEF Crash, Return, CloseBroken, AttemptFails
<1>14. ASSUME \/ Enqueue \/ AddCard
              \/ \E w \in Workers :
                    \/ FailsToStart(w) \/ LockLapses(w)
                    \/ \E j \in 1 .. MaxJobs : CloseIfFinallyFailed(w, j)
       PROVE  Goal
  BY <1>3, <1>14 DEF Enqueue, AddCard, FailsToStart, LockLapses,
                     CloseIfFinallyFailed
<1> QED BY <1>6, <1>7, <1>8, <1>9, <1>10, <1>11, <1>12, <1>13, <1>14
        DEF Next, Work

-----------------------------------------------------------------------------
(* The queue: QueueInv.                                                    *)

JobType == [id : 0 .. MaxJobs,
            state : {"none", "waiting", "active", "completed", "failed"},
            by : Workers \cup {NoOne},
            made : 0 .. Attempts, stalled : 0 .. MaxStalledCount]
QueueGoal ==
    /\ job' \in JobType /\ failures' \subseteq Workers \X (1 .. MaxJobs)
    /\ lapsed' \subseteq 1 .. MaxJobs
    /\ QueueInv'

\* The job stays as it is, and no call begins.
LEMMA JobKept ==
    ASSUME TypeOK, QueueInv, UNCHANGED <<job, lapsed>>, failures' \subseteq failures,
           \A v \in Workers : sweep'[v].step # "idle" =>
              sweep[v].step # "idle" /\ sweep'[v].job = sweep[v].job
    PROVE  QueueGoal
<1>1. /\ job' \in JobType /\ failures' \subseteq Workers \X (1 .. MaxJobs)
      /\ lapsed' \subseteq 1 .. MaxJobs
  BY DEF TypeOK, JobType
<1>2. QueueInv'
  BY DEF QueueInv, Unfinished, Holds
<1> QED BY <1>1, <1>2 DEF QueueGoal

\* The job is given up by whoever held it, or its lock is lost.
LEMMA JobSettled ==
    ASSUME TypeOK, QueueInv, Unfinished, job' \in JobType, job'.id = job.id,
           job'.state # "active",
           job'.state = "waiting" => job'.made < Attempts,
           failures' \subseteq failures \cup (Workers \X {job.id}),
           failures' \subseteq failures \/ job'.state = "failed",
           lapsed' \in {lapsed, lapsed \cup {job.id}},
           \A v \in Workers : sweep'[v].step # "idle" =>
              sweep'[v] = sweep[v] /\ (Holds(v) => job.id \in lapsed')
    PROVE  QueueGoal
<1> USE SweepAssumption
<1>1. job.id \in 1 .. MaxJobs
  BY DEF TypeOK, QueueInv
<1>2. /\ failures' \subseteq Workers \X (1 .. MaxJobs)
      /\ lapsed' \subseteq 1 .. MaxJobs
  BY <1>1 DEF TypeOK
<1>3. Unfinished' => job'.made < Attempts /\ job'.id # 0
  BY <1>1 DEF Unfinished
<1>4. ASSUME NEW v \in Workers, sweep'[v].step # "idle", sweep'[v].job \notin lapsed'
      PROVE  Holds(v)'
  BY <1>4 DEF QueueInv, Holds
<1>5. ASSUME NEW v \in Workers, NEW j \in 1 .. MaxJobs, <<v, j>> \in failures'
      PROVE  j <= job'.id /\ (j = job'.id => job'.state = "failed")
  <2>1. CASE <<v, j>> \in failures
    BY <2>1 DEF QueueInv, Unfinished
  <2>2. CASE <<v, j>> \notin failures
    BY <1>1, <1>5, <2>2
  <2> QED BY <2>1, <2>2
<1> QED BY <1>2, <1>3, <1>4, <1>5 DEF QueueGoal, QueueInv

\* An unfinished job is picked up.
LEMMA JobTaken ==
    ASSUME TypeOK, QueueInv, NEW w \in Workers, job.state = "waiting",
           job' = [job EXCEPT !.state = "active", !.by = w],
           UNCHANGED <<failures, lapsed>>, NEW new, new.job = job.id,
           sweep' = [sweep EXCEPT ![w] = new]
    PROVE  QueueGoal
<1>1. /\ job' \in JobType /\ failures' \subseteq Workers \X (1 .. MaxJobs)
      /\ lapsed' \subseteq 1 .. MaxJobs
  BY DEF TypeOK, JobType
<1>2. job'.state = "active" /\ job'.by = w /\ job'.id = job.id /\ job'.made = job.made
  BY DEF TypeOK
<1>3. job.made < Attempts /\ job.id # 0
  BY DEF QueueInv, Unfinished
<1>4. ASSUME NEW v \in Workers, sweep'[v].step # "idle", sweep'[v].job \notin lapsed'
      PROVE  Holds(v)'
  <2>1. CASE v = w
    BY <1>2, <2>1 DEF Holds, TypeOK
  <2>2. CASE v # w
    BY <1>4, <2>2 DEF QueueInv, Holds, TypeOK
  <2> QED BY <2>1, <2>2
<1>5. \A v \in Workers : \A j \in 1 .. MaxJobs : <<v, j>> \in failures' =>
         j <= job'.id /\ (j = job'.id => job'.state = "failed")
  BY <1>2 DEF QueueInv
<1>6. QueueInv'
  BY <1>2, <1>3, <1>4, <1>5 DEF QueueInv, Unfinished
<1> QED BY <1>1, <1>6 DEF QueueGoal

\* What an attempt that threw, returned or died makes of the job it held.
LEMMA Endings ==
    ASSUME TypeOK, QueueInv, NEW w \in Workers, Holds(w)
    PROVE  \A after \in {Threw(w), Returned(w), Stalled} :
              /\ after \in JobType /\ after.id = job.id /\ after.state # "active"
              /\ after.state = "waiting" => after.made < Attempts
<1> USE SweepAssumption DEF JobType
<1>1. job \in JobType /\ job.made < Attempts /\ Unfinished
  BY DEF Holds, QueueInv, Unfinished, TypeOK
<1>2. job.made \in Nat /\ job.made + 1 \in 0 .. Attempts
  BY <1>1
<1>3. /\ Threw(w) \in JobType /\ Threw(w).id = job.id /\ Threw(w).state # "active"
      /\ Threw(w).state = "waiting" => Threw(w).made < Attempts
  BY <1>1, <1>2 DEF Threw
<1>4. /\ Returned(w) \in JobType /\ Returned(w).id = job.id
      /\ Returned(w).state = "completed"
  BY <1>1 DEF Returned
<1>5. /\ Stalled \in JobType /\ Stalled.id = job.id /\ Stalled.state # "active"
      /\ Stalled.made = job.made
  <2>1. job.stalled < MaxStalledCount => job.stalled + 1 \in 0 .. MaxStalledCount
    BY <1>1 DEF MaxStalledCount
  <2> QED BY <1>1, <2>1 DEF Stalled
<1> QED BY <1>1, <1>3, <1>4, <1>5

\* A worker ends its call and settles the job, if the job is still its own.
LEMMA CallEnds ==
    ASSUME TypeOK, QueueInv, NEW w \in Workers,
           sweep' = [sweep EXCEPT ![w] = NoSweep], lapsed' = lapsed,
           job' = job \/ (Holds(w) /\ job' \in {Threw(w), Returned(w), Stalled}),
           failures' \subseteq failures
              \/ (job' # job /\ job'.state = "failed"
                    /\ failures' \subseteq failures \cup (Workers \X {job.id}))
    PROVE  QueueGoal
<1>1. \A v \in Workers : sweep'[v].step # "idle" => v # w /\ sweep'[v] = sweep[v]
  BY DEF TypeOK, NoSweep
<1>2. CASE job' = job
  BY <1>1, <1>2, JobKept
<1>3. CASE job' # job
  <2>1. Holds(w) /\ Unfinished
    BY <1>3 DEF Holds, Unfinished
  <2>2. /\ job' \in JobType /\ job'.id = job.id /\ job'.state # "active"
        /\ job'.state = "waiting" => job'.made < Attempts
    BY <1>3, <2>1, Endings
  <2>3. \A v \in Workers : v # w => ~Holds(v)
    BY <2>1 DEF Holds
  <2>4. failures' \subseteq failures \cup (Workers \X {job.id})
    OBVIOUS
  <2> QED BY <1>1, <2>1, <2>2, <2>3, <2>4, JobSettled
<1> QED BY <1>2, <1>3

\* A step keeps the queue's part of the invariant.
LEMMA QueueStep ==
    ASSUME TypeOK, CallInv, QueueInv, Next
    PROVE  QueueGoal
<1> USE SweepAssumption
<1>1. sweep \in [Workers -> SweepType] /\ job \in JobType
  BY DEF TypeOK, JobType
<1>2. ASSUME NEW w \in Workers, NEW new, sweep' = [sweep EXCEPT ![w] = new],
             sweep[w].step # "idle", new.job = sweep[w].job,
             UNCHANGED <<job, failures, lapsed>>
      PROVE  QueueGoal
  <2>1. \A v \in Workers : sweep'[v].step # "idle" =>
           sweep[v].step # "idle" /\ sweep'[v].job = sweep[v].job
    BY <1>1, <1>2
  <2> QED BY <1>2, <2>1, JobKept
<1>3. ASSUME Enqueue PROVE QueueGoal
  <2>1. job.id + 1 \in 1 .. MaxJobs /\ job.id \in Nat
    BY <1>1, <1>3 DEF Enqueue, JobType
  <2>2. /\ job'.id = job.id + 1 /\ job'.state = "waiting" /\ job'.made = 0
        /\ job' \in JobType
    BY <1>3, <2>1 DEF Enqueue, JobType, MaxStalledCount
  <2>3. UNCHANGED <<sweep, failures, lapsed>> /\ ~Unfinished
    BY <1>3 DEF Enqueue
  <2>4. \A v \in Workers : ~Holds(v)
    BY <2>3 DEF Unfinished, Holds
  <2>5. \A v \in Workers :
           ~(sweep'[v].step # "idle" /\ sweep'[v].job \notin lapsed')
    BY <2>3, <2>4 DEF QueueInv
  <2>6. \A v \in Workers : \A j \in 1 .. MaxJobs : <<v, j>> \in failures' =>
           j <= job'.id /\ j # job'.id
    BY <2>1, <2>2, <2>3 DEF QueueInv
  <2>7. QueueInv'
    BY <2>1, <2>2, <2>5, <2>6 DEF QueueInv
  <2> QED BY <2>2, <2>3, <2>7 DEF QueueGoal, TypeOK
<1>4. ASSUME AddCard \/ \E w \in Workers : \E j \in 1 .. MaxJobs :
                           CloseIfFinallyFailed(w, j)
      PROVE  QueueGoal
  BY <1>4, JobKept DEF AddCard, CloseIfFinallyFailed
<1>5. ASSUME NEW w \in Workers, Choose(w) \/ Abandon(w) PROVE QueueGoal
  <2>1. PICK new : /\ new.job = job.id
                   /\ sweep' = [sweep EXCEPT ![w] = new]
    BY <1>5 DEF Choose, Abandon, Take, NoSweep
  <2> QED BY <1>5, <2>1, JobTaken DEF Choose, Abandon
<1>6. ASSUME NEW w \in Workers, FailsToStart(w) PROVE QueueGoal
  <2>1. job.made < Attempts /\ job.made + 1 \in 0 .. Attempts /\ Unfinished
    BY <1>1, <1>6 DEF FailsToStart, QueueInv, Unfinished, JobType
  <2>2. /\ job' \in JobType /\ job'.id = job.id /\ job'.state # "active"
        /\ job'.state = "waiting" => job'.made < Attempts
        /\ job'.state # "failed" => failures' = failures
    <3>1. /\ job' = [job EXCEPT !.made = job.made + 1,
                                !.state = IF job.made + 1 = Attempts
                                          THEN "failed" ELSE "waiting"]
          /\ job.made + 1 # Attempts => failures' = failures
      BY <1>6 DEF FailsToStart
    <3>2. job.made + 1 # Attempts => job.made + 1 < Attempts
      BY <2>1
    <3> QED BY <1>1, <2>1, <3>1, <3>2 DEF JobType
  <2>3. /\ UNCHANGED <<sweep, lapsed>> /\ \A v \in Workers : ~Holds(v)
        /\ failures' \subseteq failures \cup (Workers \X {job.id})
    BY <1>6 DEF FailsToStart, Holds
  <2> QED BY <2>1, <2>2, <2>3, JobSettled
<1>7. ASSUME NEW w \in Workers, StartOrResume(w) PROVE QueueGoal
  <2>1. PICK i \in 1 .. Len(rows'), from \in Positions : Begin(w, i, from)
    BY <1>7, Started
  <2>2. PICK new : new.job = sweep[w].job /\ sweep' = [sweep EXCEPT ![w] = new]
    BY <1>1, <2>1 DEF Begin, SweepType
  <2>3. sweep[w].step # "idle" /\ UNCHANGED <<job, failures, lapsed>>
    BY <1>7 DEF StartOrResume
  <2> QED BY <1>2, <2>2, <2>3
<1>8. ASSUME NEW w \in Workers, NEW new, Advance(w, new),
             new.job = sweep[w].job
      PROVE  QueueGoal
  BY <1>2, <1>8 DEF Advance
<1>9. ASSUME NEW w \in Workers,
             \/ StopForBudget(w) \/ Wrap(w) \/ EndOfCatalog(w)
             \/ BackAtTheStart(w) \/ RateLimited(w) \/ ContractBroken(w)
             \/ Answered(w) \/ BatchFailed(w)
      PROVE  QueueGoal
  <2>1. /\ AfterStall(sweep[w]).job = sweep[w].job
        /\ \A failed, down : Passed(sweep[w], failed, down).job = sweep[w].job
    BY <1>1 DEF AfterStall, Passed, SweepType
  <2>2. CASE \/ StopForBudget(w) \/ Wrap(w) \/ EndOfCatalog(w)
             \/ BackAtTheStart(w) \/ ContractBroken(w)
    <3>1. PICK new : new.job = sweep[w].job /\ Advance(w, new)
      BY <1>1, <2>2 DEF StopForBudget, Wrap, EndOfCatalog, BackAtTheStart,
                        ContractBroken, Ask, SweepType
    <3> QED BY <1>8, <3>1
  <2>3. CASE RateLimited(w) \/ Answered(w) \/ BatchFailed(w)
    <3>1. PICK new : new.job = sweep[w].job /\ Advance(w, new)
      BY <2>1, <2>3 DEF RateLimited, Answered, BatchFailed, Ask
    <3> QED BY <1>8, <3>1
  <2> QED BY <1>9, <2>2, <2>3
<1>10. ASSUME NEW w \in Workers,
              RecordProgress(w) \/ RecordFinally(w) \/ CloseRun(w)
       PROVE  QueueGoal
  <2>1. PICK new : /\ new.job = sweep[w].job
                   /\ sweep' = [sweep EXCEPT ![w] = new]
    BY <1>1, <1>10 DEF RecordProgress, RecordFinally, CloseRun, NoSweep, SweepType
  <2> QED BY <1>2, <1>10, <2>1 DEF RecordProgress, RecordFinally, CloseRun, Write
<1>11. ASSUME NEW w \in Workers, Return(w) PROVE QueueGoal
  BY <1>11, CallEnds DEF Return, Returned
<1>12. ASSUME NEW w \in Workers, CloseBroken(w) \/ AttemptFails(w)
       PROVE  QueueGoal
  <2>1. /\ sweep' = [sweep EXCEPT ![w] = NoSweep] /\ lapsed' = lapsed
        /\ job' = Threw(w) /\ RaiseFailed(w, job')
    BY <1>12 DEF CloseBroken, AttemptFails
  <2>2. job' = job \/ Holds(w)
    BY <2>1 DEF Threw
  <2>3. \/ failures' \subseteq failures
        \/ /\ job' # job /\ job'.state = "failed"
           /\ failures' \subseteq failures \cup (Workers \X {job.id})
    BY <2>1 DEF RaiseFailed
  <2> QED BY <2>1, <2>2, <2>3, CallEnds
<1>13. ASSUME NEW w \in Workers, Crash(w) PROVE QueueGoal
  <2>1. /\ sweep' = [sweep EXCEPT ![w] = NoSweep] /\ lapsed' = lapsed
        /\ job' = IF Holds(w) THEN Stalled ELSE job
    BY <1>13 DEF Crash
  <2>2. PICK v \in Workers :
           failures' = IF job'.state = "failed" /\ job.state # "failed"
                       THEN {f \in failures : f[1] # w} \cup {<<v, job.id>>}
                       ELSE {f \in failures : f[1] # w}
    BY <1>13, <2>1 DEF Crash
  <2>3. \/ failures' \subseteq failures
        \/ /\ job' # job /\ job'.state = "failed"
           /\ failures' \subseteq failures \cup (Workers \X {job.id})
    BY <2>2
  <2> QED BY <2>1, <2>3, CallEnds
<1>14. ASSUME NEW w \in Workers, LockLapses(w) PROVE QueueGoal
  <2>1. /\ Holds(w) /\ Unfinished /\ job' = Stalled /\ sweep' = sweep
        /\ lapsed' = lapsed \cup {job.id}
    BY <1>14 DEF LockLapses, Holds, Unfinished
  <2>2. /\ job' \in JobType /\ job'.id = job.id /\ job'.state # "active"
        /\ job'.state = "waiting" => job'.made < Attempts
    BY <2>1, Endings
  <2>3. /\ failures' \subseteq failures \/ job'.state = "failed"
        /\ failures' \subseteq failures \cup (Workers \X {job.id})
    BY <1>14, <2>1 DEF LockLapses, RaiseFailed
  <2> QED BY <2>1, <2>2, <2>3, JobSettled
<1> QED BY <1>3, <1>4, <1>5, <1>6, <1>7, <1>9, <1>10, <1>11, <1>12, <1>13,
           <1>14 DEF Next, Work

-----------------------------------------------------------------------------
(* The run rows: RowInv.                                                   *)

RowGoal == rows' \in Seq(RowType) /\ RowInv'
CompletedLater == job'.state = "completed" => job' = job

\* The rows stay as they are, and one worker goes on to a call they suit.
LEMMA RowsKept ==
    ASSUME TypeOK, RowInv, rows' = rows, lapsed \subseteq lapsed',
           NEW w \in Workers, NEW new, RowOK(new),
           sweep' = [sweep EXCEPT ![w] = new], CompletedJobsCloseTheirRuns'
    PROVE  RowGoal
<1>1. ASSUME NEW v \in Workers PROVE RowOK(sweep[v])'
  <2>1. sweep'[v] = new \/ sweep'[v] = sweep[v]
    BY DEF TypeOK
  <2>2. RowOK(sweep'[v])
    BY <2>1 DEF RowInv
  <2> QED BY <2>2 DEF RowOK, RunsOf
<1>2. OneOpenRun'
  BY DEF RowInv, OneOpenRun
<1> QED BY <1>1, <1>2 DEF RowGoal, RowInv, TypeOK

\* A call that is not on a row, and will not begin on one, suits any rows.
LEMMA NoRow == RowOK(NoSweep)
BY DEF RowOK, NoSweep, OnARow, Walking

\* A job that is completed stays without open runs while the rows stay.
LEMMA StillClosed ==
    ASSUME RowInv, \A k : RunsOf(k)' \subseteq RunsOf(k),
           lapsed \subseteq lapsed', CompletedLater
    PROVE  CompletedJobsCloseTheirRuns'
<1>1. CASE job' = job
  <2>1. RunsOf(job.id)' \subseteq RunsOf(job.id)
    BY <1>1 DEF RunsOf
  <2> QED BY <1>1, <2>1 DEF RowInv, CompletedJobsCloseTheirRuns
<1>2. CASE job' # job
  BY <1>2 DEF CompletedJobsCloseTheirRuns, CompletedLater
<1> QED BY <1>1, <1>2

\* Open runs of one job are closed, or its rows rewritten as they stand, by
\* the only call the job has left or by none.
LEMMA RowsClosed ==
    ASSUME TypeOK, RowInv, lapsed' = lapsed, CompletedLater, NEW j,
           rows' \in Seq(RowType), Len(rows') = Len(rows),
           \A i \in 1 .. Len(rows) :
              /\ rows'[i].job = rows[i].job /\ rows'[i].provider = rows[i].provider
              /\ rows'[i].status = "RUNNING" => rows[i].status = "RUNNING"
              /\ rows[i].job # j => rows'[i].status = rows[i].status,
           \A v \in Workers :
              \/ sweep'[v] = sweep[v]
                 /\ (sweep[v].job # j \/ j \in lapsed \/ sweep[v].step = "idle")
              \/ sweep'[v].step = "idle"
              \/ /\ sweep'[v].step = "done" /\ sweep'[v].job = j
                 /\ j \notin lapsed => RunsOf(j)' = {}
    PROVE  RowGoal
<1>1. \A k : RunsOf(k)' \subseteq RunsOf(k) /\ (k # j => RunsOf(k)' = RunsOf(k))
  BY DEF RunsOf
<1>2. ASSUME NEW v \in Workers PROVE RowOK(sweep[v])'
  <2>1. CASE sweep'[v].step = "idle"
    BY <2>1 DEF RowOK, OnARow, Walking
  <2>3. CASE sweep'[v].step = "done"
    <3>1. ASSUME NEW k, k = sweep'[v].job, k \notin lapsed PROVE RunsOf(k)' = {}
      <4>1. sweep'[v] = sweep[v] => RunsOf(k) = {}
        BY <2>3, <3>1 DEF RowInv, RowOK
      <4>2. RunsOf(k) = {} => RunsOf(k)' = {}
        BY <1>1
      <4> QED BY <2>3, <3>1, <4>1, <4>2
    <3>2. sweep'[v].job \notin lapsed => RunsOf(sweep[v].job)' = {}
      BY <3>1 DEF RunsOf
    <3> QED BY <2>3, <3>2 DEF RowOK, OnARow, Walking
  <2>2. CASE sweep'[v].step \notin {"idle", "done"}
    <3>1. sweep'[v] = sweep[v] /\ (sweep[v].job # j \/ j \in lapsed)
      BY <2>2
    <3>2. RowOK(sweep[v])
      BY DEF RowInv
    <3>3. sweep[v].step \in OnARow =>
             /\ rows'[sweep[v].run].job = rows[sweep[v].run].job
             /\ rows'[sweep[v].run].provider = rows[sweep[v].run].provider
      BY <3>2 DEF RowOK
    <3>4. \A i \in RunsOf(sweep[v].job) : rows'[i].provider = rows[i].provider
      BY DEF RunsOf
    <3>5. sweep[v].job \notin lapsed => RunsOf(sweep[v].job)' = RunsOf(sweep[v].job)
      BY <1>1, <3>1 DEF RunsOf
    <3> QED BY <2>2, <3>1, <3>2, <3>3, <3>4, <3>5 DEF RowOK
  <2> QED BY <2>1, <2>2, <2>3
<1>3. OneOpenRun'
  BY DEF RowInv, OneOpenRun
<1>4. CompletedJobsCloseTheirRuns'
  BY <1>1, StillClosed
<1> QED BY <1>2, <1>3, <1>4 DEF RowGoal, RowInv

\* Two calls of one job: the job has lost a lock.
LEMMA Alone ==
    ASSUME QueueInv, NEW v \in Workers, NEW w \in Workers, v # w,
           sweep[v].step # "idle", sweep[w].step # "idle",
           sweep[v].job = sweep[w].job
    PROVE  sweep[v].job \in lapsed
BY DEF QueueInv, Holds

\* One row is rewritten.
LEMMA RowRewritten ==
    ASSUME TypeOK, NEW i \in 1 .. Len(rows), NEW r \in RowType,
           rows' = [rows EXCEPT ![i] = r]
    PROVE  /\ rows' \in Seq(RowType) /\ Len(rows') = Len(rows)
           /\ \A k \in 1 .. Len(rows) : rows'[k] = IF k = i THEN r ELSE rows[k]
BY ExceptSeq DEF TypeOK

\* A worker closes a row of its own job and leaves it, or closes nothing and
\* writes it as it stands; either way it is the job's only call.
LEMMA OwnRowClosed ==
    ASSUME TypeOK, QueueInv, RowInv, NEW w \in Workers,
           sweep[w].step \in OnARow, NEW status \in {"SUCCEEDED", "PARTIAL", "FAILED"},
           rows' = [rows EXCEPT ![sweep[w].run].status = status],
           lapsed' = lapsed, CompletedLater, NEW new,
           sweep' = [sweep EXCEPT ![w] = new],
           new.step = "idle" \/ (new.step = "done" /\ new.job = sweep[w].job)
    PROVE  RowGoal
<1>0. PICK j : j = sweep[w].job
  OBVIOUS
<1> DEFINE i == sweep[w].run
           r == [rows[i] EXCEPT !.status = status]
<1>1. i \in 1 .. Len(rows) /\ rows[i].job = j /\ (j \notin lapsed => RunsOf(j) = {i})
  BY <1>0 DEF RowInv, RowOK
<1>2. rows[i] \in RowType
  BY <1>1, ElementOfSeq DEF TypeOK
<1>3. /\ r \in RowType /\ r.job = rows[i].job /\ r.provider = rows[i].provider
      /\ r.status = status
  BY <1>2 DEF RowType
<1>4. rows' = [rows EXCEPT ![i] = r]
  OBVIOUS
<1> HIDE DEF r
<1>5. /\ rows' \in Seq(RowType) /\ Len(rows') = Len(rows)
      /\ \A k \in 1 .. Len(rows) : rows'[k] = IF k = i THEN r ELSE rows[k]
  BY <1>1, <1>3, <1>4, RowRewritten
<1>6. \A k \in 1 .. Len(rows) :
         /\ rows'[k].job = rows[k].job /\ rows'[k].provider = rows[k].provider
         /\ rows'[k].status = "RUNNING" => rows[k].status = "RUNNING"
         /\ rows[k].job # j => rows'[k].status = rows[k].status
  BY <1>1, <1>3, <1>5
<1>7. j \notin lapsed => RunsOf(j)' = {}
  <2>1. ASSUME NEW k \in RunsOf(j)', j \notin lapsed PROVE k \in RunsOf(j) /\ k # i
    BY <1>3, <1>5, <1>6, <2>1 DEF RunsOf
  <2> QED BY <1>1, <2>1
<1>8. ASSUME NEW v \in Workers
      PROVE  \/ sweep'[v] = sweep[v]
                /\ (sweep[v].job # j \/ j \in lapsed \/ sweep[v].step = "idle")
             \/ sweep'[v].step = "idle"
             \/ /\ sweep'[v].step = "done" /\ sweep'[v].job = j
                /\ j \notin lapsed => RunsOf(j)' = {}
  <2>1. CASE v = w
    BY <1>0, <1>7, <2>1 DEF TypeOK
  <2>2. CASE v # w
    <3>1. sweep'[v] = sweep[v] /\ sweep[w].step # "idle"
      BY <2>2 DEF TypeOK, OnARow, Walking
    <3> QED BY <1>0, <2>2, <3>1, Alone
  <2> QED BY <2>1, <2>2
<1> HIDE DEF i
<1> QED BY <1>5, <1>6, <1>8, RowsClosed

\* A call picked up by a worker goes on with its open run's provider.
LEMMA ChooseRows ==
    ASSUME TypeOK, QueueInv, RowInv, NEW w \in Workers, Choose(w)
    PROVE  RowGoal
<1>1. PICK p : /\ RunsOf(job.id) # {} => p = rows[Newest(RunsOf(job.id))].provider
               /\ sweep' = [sweep EXCEPT ![w] = [Take(w) EXCEPT !.provider = p]]
  BY DEF Choose, Candidates
<1>2. job.id # 0 /\ rows' = rows /\ lapsed' = lapsed /\ CompletedLater
  BY DEF Choose, QueueInv, Unfinished, CompletedLater, TypeOK
<1> DEFINE new == [Take(w) EXCEPT !.provider = p]
<1>3. new.step = "chosen" /\ new.job = job.id /\ new.provider = p
  BY DEF Take, NoSweep
<1>4. ASSUME job.id \notin lapsed, NEW i \in RunsOf(job.id)
      PROVE  rows[i].provider = p
  <2>1. Newest(RunsOf(job.id)) \in RunsOf(job.id)
    BY <1>4, NewestRow DEF RunsOf
  <2>2. i = Newest(RunsOf(job.id))
    BY <1>2, <1>4, <2>1 DEF RunsOf, RowInv, OneOpenRun
  <2> QED BY <1>1, <1>4, <2>2
<1> HIDE DEF new
<1>5. RowOK(new)
  BY <1>3, <1>4 DEF RowOK, OnARow, Walking
<1>6. CompletedJobsCloseTheirRuns'
  <2>1. \A k : RunsOf(k)' \subseteq RunsOf(k)
    BY <1>2 DEF RunsOf
  <2> QED BY <1>2, <2>1, StillClosed
<1> QED BY <1>1, <1>2, <1>5, <1>6, RowsKept DEF new

\* Abandoning a resumed run closes the job's only open run.
LEMMA AbandonRows ==
    ASSUME TypeOK, QueueInv, RowInv, NEW w \in Workers, Abandon(w)
    PROVE  RowGoal
<1>0. PICK j : j = job.id
  OBVIOUS
<1>1. /\ j # 0 /\ job.state = "waiting" /\ RunsOf(j) # {} /\ lapsed' = lapsed
      /\ CompletedLater
      /\ sweep' = [sweep EXCEPT ![w] = [Take(w) EXCEPT !.step = "done"]]
  BY <1>0 DEF Abandon, QueueInv, Unfinished, CompletedLater, TypeOK
<1> DEFINE i == Newest(RunsOf(j))
           r == [rows[i] EXCEPT !.status = "PARTIAL"]
<1>2. i \in 1 .. Len(rows) /\ rows[i].job = j /\ rows[i].status = "RUNNING"
  <2>1. i \in RunsOf(j)
    BY <1>1, NewestRow DEF RunsOf
  <2> QED BY <2>1 DEF RunsOf
<1>3. rows[i] \in RowType
  BY <1>2, ElementOfSeq DEF TypeOK
<1>4. /\ r \in RowType /\ r.job = rows[i].job /\ r.provider = rows[i].provider
      /\ r.status = "PARTIAL"
  BY <1>3 DEF RowType
<1>5. rows' = [rows EXCEPT ![i] = r]
  BY <1>0 DEF Abandon
<1> HIDE DEF r, i
<1>6. /\ rows' \in Seq(RowType) /\ Len(rows') = Len(rows)
      /\ \A k \in 1 .. Len(rows) : rows'[k] = IF k = i THEN r ELSE rows[k]
  BY <1>2, <1>4, <1>5, RowRewritten
<1>7. \A k \in 1 .. Len(rows) :
         /\ rows'[k].job = rows[k].job /\ rows'[k].provider = rows[k].provider
         /\ rows'[k].status = "RUNNING" => rows[k].status = "RUNNING"
         /\ rows[k].job # j => rows'[k].status = rows[k].status
  BY <1>2, <1>4, <1>6
<1>8. j \notin lapsed => RunsOf(j)' = {}
  <2>1. ASSUME NEW k \in RunsOf(j)', j \notin lapsed PROVE FALSE
    <3>1. /\ k \in 1 .. Len(rows) /\ rows[k].job = j /\ rows[k].status = "RUNNING"
          /\ k # i
      BY <1>4, <1>6, <1>7, <2>1 DEF RunsOf
    <3> QED BY <1>1, <1>2, <2>1, <3>1 DEF RowInv, OneOpenRun
  <2> QED BY <2>1
<1>9. ASSUME NEW v \in Workers
      PROVE  \/ sweep'[v] = sweep[v]
                /\ (sweep[v].job # j \/ j \in lapsed \/ sweep[v].step = "idle")
             \/ sweep'[v].step = "idle"
             \/ /\ sweep'[v].step = "done" /\ sweep'[v].job = j
                /\ j \notin lapsed => RunsOf(j)' = {}
  <2>1. CASE v = w
    BY <1>0, <1>1, <1>8, <2>1 DEF TypeOK, Take, NoSweep
  <2>2. CASE v # w
    <3>1. sweep'[v] = sweep[v] /\ ~Holds(v)
      BY <1>1, <2>2 DEF TypeOK, Holds
    <3> QED BY <3>1 DEF QueueInv
  <2> QED BY <2>1, <2>2
<1> QED BY <1>1, <1>6, <1>7, <1>9, RowsClosed

\* What is reported as failed has no call of its own left that holds it.
LEMMA CloseIfFinallyFailedRows ==
    ASSUME TypeOK, QueueInv, RowInv, NEW w \in Workers, NEW j \in 1 .. MaxJobs,
           CloseIfFinallyFailed(w, j)
    PROVE  RowGoal
<1>1. UNCHANGED <<job, sweep, lapsed>> /\ <<w, j>> \in failures
  BY DEF CloseIfFinallyFailed
<1>2. rows \in Seq(RowType) /\ Len(rows) \in Nat
  BY LenProperties DEF TypeOK
<1>3. \A i \in 1 .. Len(rows) : rows[i] \in RowType
  BY <1>2, ElementOfSeq
<1>4. /\ rows' \in Seq(RowType) /\ Len(rows') = Len(rows)
      /\ \A i \in 1 .. Len(rows) :
            /\ rows'[i].job = rows[i].job /\ rows'[i].provider = rows[i].provider
            /\ rows'[i].status = "RUNNING" => rows[i].status = "RUNNING"
            /\ rows[i].job # j => rows'[i].status = rows[i].status
  <2>1. CASE rows' = rows
    BY <1>2, <2>1
  <2>2. CASE rows' = [i \in 1 .. Len(rows) |->
                        IF i \in RunsOf(j) THEN [rows[i] EXCEPT !.status = "FAILED"]
                        ELSE rows[i]]
    <3>1. \A i \in 1 .. Len(rows) :
             [rows[i] EXCEPT !.status = "FAILED"] \in RowType
      BY <1>3 DEF RowType
    <3>2. rows' \in [1 .. Len(rows) -> RowType]
      BY <1>3, <2>2, <3>1
    <3>3. rows' \in Seq(RowType) /\ Len(rows') = Len(rows)
      BY <1>2, <3>2
    <3>4. ASSUME NEW i \in 1 .. Len(rows)
          PROVE  /\ rows'[i].job = rows[i].job
                 /\ rows'[i].provider = rows[i].provider
                 /\ rows'[i].status = "RUNNING" => rows[i].status = "RUNNING"
                 /\ rows[i].job # j => rows'[i].status = rows[i].status
      <4>1. rows[i] \in RowType
        BY <1>3
      <4> QED BY <2>2, <4>1 DEF RowType, RunsOf
    <3> QED BY <3>3, <3>4
  <2> QED BY <2>1, <2>2 DEF CloseIfFinallyFailed
<1>5. ASSUME NEW v \in Workers
      PROVE  sweep'[v] = sweep[v]
                /\ (sweep[v].job # j \/ j \in lapsed \/ sweep[v].step = "idle")
  BY <1>1 DEF QueueInv, Holds
<1> QED BY <1>1, <1>4, <1>5, RowsClosed DEF CompletedLater

\* A call begins on its job's open run, or on a new one when there is none.
LEMMA StartRows ==
    ASSUME TypeOK, CallInv, QueueInv, RowInv, NEW w \in Workers, StartOrResume(w)
    PROVE  RowGoal
<1>1. PICK i \in 1 .. Len(rows'), from \in Positions :
         /\ rows' \in Seq(RowType) /\ Begin(w, i, from)
         /\ OldRun(w, i) \/ NewRun(w, i, from)
  BY Started
<1>2. PICK j : j = sweep[w].job
  OBVIOUS
<1> DEFINE new == [sweep[w] EXCEPT !.step = "loop", !.run = i, !.from = from,
                                   !.last = from, !.failed = rows'[i].failed,
                                   !.there = mirror]
<1>3. /\ sweep[w].step = "chosen" /\ UNCHANGED <<job, lapsed>> /\ j # 0
      /\ sweep' = [sweep EXCEPT ![w] = new]
      /\ RowOK(sweep[w]) /\ sweep[w] \in SweepType
  BY <1>1, <1>2 DEF StartOrResume, Begin, CallInv, CallOK, RowInv, TypeOK
<1>4. /\ new.step = "loop" /\ new.job = j /\ new.run = i
      /\ new.provider = sweep[w].provider
  BY <1>2, <1>3 DEF SweepType
<1> HIDE DEF new
<1>5. CASE OldRun(w, i)
  <2>1. rows' = rows /\ i \in RunsOf(j)
    BY <1>2, <1>5 DEF OldRun
  <2>2. i \in 1 .. Len(rows) /\ rows[i].job = j
    BY <2>1 DEF RunsOf
  <2>3. j \notin lapsed =>
           RunsOf(j) = {i} /\ rows[i].provider = sweep[w].provider
    <3>1. ASSUME j \notin lapsed, NEW k \in RunsOf(j) PROVE k = i
      BY <1>3, <2>1, <3>1 DEF RunsOf, RowInv, OneOpenRun
    <3> QED BY <1>2, <1>3, <2>1, <3>1 DEF RowOK
  <2>4. RowOK(new)
    BY <1>4, <2>2, <2>3 DEF RowOK, OnARow, Walking
  <2>5. CompletedJobsCloseTheirRuns'
    <3>1. \A k : RunsOf(k)' \subseteq RunsOf(k)
      BY <2>1 DEF RunsOf
    <3> QED BY <1>3, <3>1, StillClosed DEF CompletedLater
  <2> QED BY <1>3, <2>1, <2>4, <2>5, RowsKept
<1>6. CASE NewRun(w, i, from)
  <2> DEFINE r == NewRow(sweep[w])
  <2>1. /\ rows \in Seq(RowType) /\ Len(rows) \in Nat
        /\ RunsOf(j) = {} /\ i = Len(rows) + 1 /\ rows' = Append(rows, r)
    BY <1>2, <1>6, LenProperties DEF NewRun, TypeOK
  <2>2. /\ r \in RowType /\ r.job = j /\ r.status = "RUNNING"
        /\ r.provider = sweep[w].provider
    BY <1>2, <1>3, SweepAssumption DEF NewRow, RowType, SweepType
  <2> HIDE DEF r
  <2>3. /\ Len(rows') = Len(rows) + 1 /\ rows'[i] = r
        /\ \A k \in 1 .. Len(rows) : rows'[k] = rows[k]
    BY <2>1, <2>2, AppendProperties
  <2>4. \A k : k # j => RunsOf(k)' = RunsOf(k)
    BY <2>1, <2>2, <2>3 DEF RunsOf
  <2>5. RunsOf(j)' = {i}
    BY <2>1, <2>2, <2>3 DEF RunsOf
  <2>6. ASSUME NEW v \in Workers PROVE RowOK(sweep[v])'
    <3>1. CASE v = w
      <4>1. sweep'[v] = new
        BY <1>3, <3>1 DEF TypeOK
      <4>2. RunsOf(sweep[v].job)' = {i}
        BY <1>4, <2>5, <4>1 DEF RunsOf
      <4> QED BY <1>1, <1>4, <2>2, <2>3, <4>1, <4>2 DEF RowOK, OnARow, Walking
    <3>2. CASE v # w
      <4>1. sweep'[v] = sweep[v] /\ RowOK(sweep[v])
        BY <1>3, <3>2 DEF TypeOK, RowInv
      <4>2. sweep[v].job = j => sweep[v].step = "idle" \/ j \in lapsed
        BY <1>2, <1>3, <3>2, Alone
      <4>3. sweep[v].job # j => RunsOf(sweep[v].job)' = RunsOf(sweep[v].job)
        BY <2>4, <4>1 DEF RunsOf
      <4>4. sweep[v].step \in OnARow =>
               /\ sweep[v].run \in 1 .. Len(rows')
               /\ rows'[sweep[v].run] = rows[sweep[v].run]
        BY <2>1, <2>3, <4>1 DEF RowOK
      <4>5. \A k \in RunsOf(sweep[v].job) : rows'[k] = rows[k]
        BY <2>3 DEF RunsOf
      <4> QED BY <1>3, <4>1, <4>2, <4>3, <4>4, <4>5 DEF RowOK, OnARow, Walking
    <3> QED BY <3>1, <3>2
  <2>7. OneOpenRun'
    <3>1. ASSUME NEW a \in 1 .. Len(rows'), NEW b \in 1 .. Len(rows'),
                 rows'[a].job = rows'[b].job, rows'[a].job # 0,
                 rows'[a].job \notin lapsed',
                 rows'[a].status = "RUNNING", rows'[b].status = "RUNNING"
          PROVE  a = b
      <4>1. CASE rows'[a].job = j
        <5>1. a \in RunsOf(j)' /\ b \in RunsOf(j)'
          BY <3>1, <4>1 DEF RunsOf
        <5> QED BY <2>5, <5>1
      <4>2. CASE rows'[a].job # j
        BY <1>3, <2>1, <2>2, <2>3, <3>1, <4>2 DEF RowInv, OneOpenRun
      <4> QED BY <4>1, <4>2
    <3> QED BY <3>1 DEF OneOpenRun
  <2>8. CompletedJobsCloseTheirRuns'
    <3>1. ASSUME job.state = "completed", job.id \notin lapsed PROVE job.id # j
      BY <1>2, <1>3, <3>1 DEF QueueInv, Holds
    <3>2. job.id # j => RunsOf(job.id)' = RunsOf(job.id)
      BY <1>3, <2>4 DEF RunsOf
    <3> QED BY <1>3, <3>1, <3>2 DEF RowInv, CompletedJobsCloseTheirRuns
  <2> QED BY <1>1, <2>6, <2>7, <2>8 DEF RowGoal, RowInv
<1> QED BY <1>1, <1>5, <1>6

\* The progress of a run is written, and its status left as it stands.
LEMMA WriteRows ==
    ASSUME TypeOK, RowInv, NEW w \in Workers, sweep[w].step \in OnARow, Write(w),
           NEW next \in OnARow, UNCHANGED <<job, lapsed>>,
           sweep' = [sweep EXCEPT ![w] = [sweep[w] EXCEPT !.step = next]]
    PROVE  RowGoal
<1> DEFINE s == sweep[w]
           r == [rows[s.run] EXCEPT !.cursor = s.last, !.failed = s.failed]
<1>1. s \in SweepType /\ s.run \in 1 .. Len(rows)
  BY DEF TypeOK, RowInv, RowOK
<1>2. rows[s.run] \in RowType
  BY <1>1, ElementOfSeq DEF TypeOK
<1>3. /\ r \in RowType /\ r.job = rows[s.run].job
      /\ r.provider = rows[s.run].provider /\ r.status = rows[s.run].status
  BY <1>1, <1>2 DEF RowType, SweepType
<1>4. rows' = [rows EXCEPT ![s.run] = r]
  BY <1>1, <1>2 DEF Write, TypeOK
<1> HIDE DEF r
<1>5. /\ rows' \in Seq(RowType) /\ Len(rows') = Len(rows)
      /\ \A k \in 1 .. Len(rows) : rows'[k] = IF k = s.run THEN r ELSE rows[k]
  BY <1>1, <1>3, <1>4, RowRewritten
<1>6. \A k \in 1 .. Len(rows) :
         /\ rows'[k].job = rows[k].job /\ rows'[k].provider = rows[k].provider
         /\ rows'[k].status = rows[k].status
  BY <1>3, <1>5
<1>7. \A k : RunsOf(k)' = RunsOf(k)
  BY <1>5, <1>6 DEF RunsOf
<1>8. ASSUME NEW v \in Workers PROVE RowOK(sweep[v])'
  <2>1. /\ sweep'[v].job = sweep[v].job /\ sweep'[v].run = sweep[v].run
        /\ sweep'[v].provider = sweep[v].provider
        /\ sweep'[v].step = sweep[v].step
              \/ (sweep[v].step \in OnARow /\ sweep'[v].step \in OnARow)
    BY <1>1 DEF TypeOK, SweepType
  <2>2. RowOK(sweep[v])
    BY DEF RowInv
  <2>3. RunsOf(sweep[v].job)' = RunsOf(sweep[v].job)
    BY <1>7, <2>1 DEF RunsOf
  <2>4. \A k \in RunsOf(sweep[v].job) : rows'[k].provider = rows[k].provider
    BY <1>6 DEF RunsOf
  <2>5. sweep'[v].step \notin {"chosen", "done"} \/ sweep'[v].step = sweep[v].step
    BY <2>1 DEF OnARow, Walking
  <2> QED BY <1>5, <1>6, <2>1, <2>2, <2>3, <2>4, <2>5 DEF RowOK, OnARow, Walking
<1>9. OneOpenRun'
  BY <1>5, <1>6 DEF RowInv, OneOpenRun
<1>10. CompletedJobsCloseTheirRuns'
  BY <1>7, StillClosed DEF CompletedLater
<1> QED BY <1>5, <1>8, <1>9, <1>10 DEF RowGoal, RowInv

\* A step of the walk stays with the call's job, row and provider.
Onward(s, t) ==
    /\ t.job = s.job /\ t.run = s.run /\ t.provider = s.provider
    /\ t.step \in OnARow

LEMMA WalkIsOnward ==
    ASSUME NEW s \in SweepType, s.step = "loop"
    PROVE  /\ Onward(s, [s EXCEPT !.step = "finish"])
           /\ Onward(s, [s EXCEPT !.step = "broken"])
           /\ Onward(s, [s EXCEPT !.wrapped = TRUE, !.last = 0])
           /\ Onward(s, [s EXCEPT !.step = "finish", !.completed = TRUE])
           /\ Onward(s, [s EXCEPT !.step = "finish", !.completed = TRUE,
                                  !.last = s.from])
           /\ Onward(s, AfterStall(s))
           /\ \A failed, down : Onward(s, Passed(s, failed, down))
<1> USE DEF Onward, SweepType, OnARow, Walking
<1>1. /\ Onward(s, [s EXCEPT !.step = "finish"])
      /\ Onward(s, [s EXCEPT !.step = "broken"])
      /\ Onward(s, [s EXCEPT !.wrapped = TRUE, !.last = 0])
  OBVIOUS
<1>2. /\ Onward(s, [s EXCEPT !.step = "finish", !.completed = TRUE])
      /\ Onward(s, [s EXCEPT !.step = "finish", !.completed = TRUE,
                             !.last = s.from])
  OBVIOUS
<1>3. Onward(s, AfterStall(s))
  BY DEF AfterStall
<1>4. ASSUME NEW failed, NEW down PROVE Onward(s, Passed(s, failed, down))
  BY DEF Passed
<1> QED BY <1>1, <1>2, <1>3, <1>4

\* A step keeps the rows' part of the invariant.
LEMMA RowStep ==
    ASSUME TypeOK, CallInv, QueueInv, RowInv, Next
    PROVE  RowGoal
<1>1. sweep \in [Workers -> SweepType]
  BY DEF TypeOK
<1>2. ASSUME NEW w \in Workers, NEW new, RowOK(new), CompletedLater,
             sweep' = [sweep EXCEPT ![w] = new], rows' = rows,
             lapsed \subseteq lapsed'
      PROVE  RowGoal
  <2>1. \A k : RunsOf(k)' \subseteq RunsOf(k)
    BY <1>2 DEF RunsOf
  <2>2. CompletedJobsCloseTheirRuns'
    BY <1>2, <2>1, StillClosed
  <2> QED BY <1>2, <2>2, RowsKept
<1>3. ASSUME rows' = rows, sweep' = sweep, CompletedLater, lapsed \subseteq lapsed'
      PROVE  RowGoal
  <2>1. PICK w \in Workers : TRUE
    BY SweepAssumption
  <2>2. sweep' = [sweep EXCEPT ![w] = sweep[w]] /\ RowOK(sweep[w])
    BY <1>1, <1>3, <2>1 DEF RowInv
  <2> QED BY <1>2, <1>3, <2>2
<1>4. ASSUME Enqueue \/ AddCard PROVE RowGoal
  BY <1>3, <1>4 DEF Enqueue, AddCard, CompletedLater
<1>5. ASSUME NEW w \in Workers, FailsToStart(w) PROVE RowGoal
  <2>1. CompletedLater
    BY <1>5 DEF FailsToStart, CompletedLater, TypeOK
  <2> QED BY <1>3, <1>5, <2>1 DEF FailsToStart
<1>6. ASSUME NEW w \in Workers, LockLapses(w) PROVE RowGoal
  <2>1. CompletedLater
    BY <1>6 DEF LockLapses, Stalled, CompletedLater, TypeOK
  <2> QED BY <1>3, <1>6, <2>1 DEF LockLapses
<1>7. ASSUME NEW w \in Workers, NEW new, Advance(w, new), Onward(sweep[w], new)
      PROVE  RowGoal
  <2>1. sweep[w].step \in OnARow /\ RowOK(sweep[w])
    BY <1>7 DEF Advance, OnARow, Walking, RowInv
  <2>2. RowOK(new)
    BY <1>7, <2>1 DEF RowOK, Onward, OnARow, Walking
  <2> QED BY <1>2, <1>7, <2>2 DEF Advance, CompletedLater
<1>8. ASSUME NEW w \in Workers,
             \/ StopForBudget(w) \/ Wrap(w) \/ EndOfCatalog(w)
             \/ BackAtTheStart(w) \/ ContractBroken(w) \/ RateLimited(w)
             \/ Answered(w) \/ BatchFailed(w)
      PROVE  RowGoal
  <2>1. sweep[w] \in SweepType /\ sweep[w].step = "loop"
    BY <1>1, <1>8 DEF StopForBudget, Wrap, EndOfCatalog, BackAtTheStart,
          ContractBroken, RateLimited, Answered, BatchFailed, Ask, Advance
  <2>2. PICK new : Advance(w, new) /\ Onward(sweep[w], new)
    BY <1>8, <2>1, WalkIsOnward
       DEF StopForBudget, Wrap, EndOfCatalog, BackAtTheStart, ContractBroken,
           RateLimited, Answered, BatchFailed, Ask
  <2> QED BY <1>7, <2>2
<1>10. ASSUME NEW w \in Workers, RecordProgress(w) \/ RecordFinally(w)
       PROVE  RowGoal
  <2>1. PICK next \in OnARow :
           /\ sweep' = [sweep EXCEPT ![w] = [sweep[w] EXCEPT !.step = next]]
           /\ sweep[w].step \in OnARow /\ Write(w)
    BY <1>1, <1>10 DEF RecordProgress, RecordFinally, SweepType, OnARow, Walking
  <2> QED BY <2>1, WriteRows DEF Write
<1>11. ASSUME NEW w \in Workers, CloseRun(w) PROVE RowGoal
  <2> DEFINE new == [NoSweep EXCEPT !.step = "done", !.job = sweep[w].job]
  <2>1. /\ sweep[w].step \in OnARow /\ UNCHANGED <<job, lapsed>>
        /\ rows' = [rows EXCEPT ![sweep[w].run].status = Verdict(sweep[w])]
        /\ sweep' = [sweep EXCEPT ![w] = new]
        /\ Verdict(sweep[w]) \in {"SUCCEEDED", "PARTIAL", "FAILED"}
    BY <1>11 DEF CloseRun, OnARow, Walking, Verdict
  <2>2. new.step = "done" /\ new.job = sweep[w].job
    BY DEF NoSweep
  <2> HIDE DEF new
  <2> QED BY <2>1, <2>2, OwnRowClosed DEF CompletedLater
<1>12. ASSUME NEW w \in Workers, CloseBroken(w) PROVE RowGoal
  <2>1. /\ sweep[w].step \in OnARow /\ lapsed' = lapsed
        /\ rows' = [rows EXCEPT ![sweep[w].run].status = "FAILED"]
        /\ sweep' = [sweep EXCEPT ![w] = NoSweep] /\ NoSweep.step = "idle"
    BY <1>12 DEF CloseBroken, OnARow, NoSweep
  <2>2. CompletedLater
    BY <1>12 DEF CloseBroken, Threw, CompletedLater, TypeOK
  <2> QED BY <2>1, <2>2, OwnRowClosed
<1>13. ASSUME NEW w \in Workers, Crash(w) \/ AttemptFails(w) PROVE RowGoal
  <2>1. CompletedLater
    BY <1>13 DEF Crash, AttemptFails, Threw, Stalled, CompletedLater, TypeOK
  <2> QED BY <1>2, <1>13, <2>1, NoRow DEF Crash, AttemptFails
<1>14. ASSUME NEW w \in Workers, Return(w) PROVE RowGoal
  <2>1. /\ rows' = rows /\ lapsed' = lapsed /\ job' = Returned(w)
        /\ sweep' = [sweep EXCEPT ![w] = NoSweep] /\ sweep[w].step = "done"
    BY <1>14 DEF Return
  <2>2. CASE ~Holds(w)
    <3>1. CompletedLater
      BY <2>1, <2>2 DEF Returned, CompletedLater
    <3> QED BY <1>2, <2>1, <3>1, NoRow
  <2>3. CASE Holds(w)
    <3>1. job'.id = job.id /\ job.id = sweep[w].job
      BY <2>1, <2>3 DEF Returned, Holds, TypeOK
    <3>2. job.id \notin lapsed => RunsOf(job.id) = {}
      BY <2>1, <3>1 DEF RowInv, RowOK
    <3>3. RunsOf(job.id)' = RunsOf(job.id)
      BY <2>1, <3>1 DEF RunsOf
    <3>4. CompletedJobsCloseTheirRuns'
      BY <2>1, <3>1, <3>2, <3>3 DEF CompletedJobsCloseTheirRuns
    <3> QED BY <2>1, <3>4, NoRow, RowsKept
  <2> QED BY <2>2, <2>3
<1> QED BY <1>4, <1>5, <1>6, <1>8, <1>10, <1>11, <1>12, <1>13, <1>14,
           ChooseRows, AbandonRows, StartRows, CloseIfFinallyFailedRows
        DEF Next, Work

-----------------------------------------------------------------------------
(* What the rows tell: SucceededMeansSwept and OneProviderPerRun.          *)

StoryInv == SucceededMeansSwept /\ OneProviderPerRun
StoryGoal ==
    /\ story' \in Seq(StoryType) /\ Len(story') = Len(rows')
    /\ StoryInv'

\* Rows that name the providers they named and succeeded no more than they
\* had, over a story that stays.
LEMMA StoryKept ==
    ASSUME TypeOK, StoryInv, story' = story, Len(rows') = Len(rows),
           lapsed \subseteq lapsed',
           \A i \in 1 .. Len(rows) :
              /\ rows'[i].job = rows[i].job /\ rows'[i].provider = rows[i].provider
              /\ rows'[i].status = "SUCCEEDED" => rows[i].status = "SUCCEEDED"
    PROVE  StoryGoal
<1>1. story' \in Seq(StoryType) /\ Len(story') = Len(rows')
  BY DEF TypeOK
<1>2. SucceededMeansSwept' /\ OneProviderPerRun'
  BY DEF StoryInv, SucceededMeansSwept, OneProviderPerRun
<1> QED BY <1>1, <1>2 DEF StoryGoal, StoryInv

\* One row and its story are written.
LEMMA StoryWritten ==
    ASSUME TypeOK, StoryInv, UNCHANGED lapsed, NEW i \in 1 .. Len(rows),
           NEW r \in RowType, r.job = rows[i].job, r.provider = rows[i].provider,
           rows' = [rows EXCEPT ![i] = r], NEW t \in StoryType,
           story' = [story EXCEPT ![i] = t],
           r.status = "SUCCEEDED" =>
              t.swept /\ (r.job \notin lapsed => r.provider = Primary),
           r.job \notin lapsed => t.asked \subseteq {r.provider}
    PROVE  StoryGoal
<1>1. /\ Len(rows') = Len(rows)
      /\ \A k \in 1 .. Len(rows) : rows'[k] = IF k = i THEN r ELSE rows[k]
  BY RowRewritten
<1>2. story \in Seq(StoryType) /\ Len(story) = Len(rows)
  BY DEF TypeOK
<1>3. /\ story' \in Seq(StoryType) /\ Len(story') = Len(story)
      /\ \A k \in 1 .. Len(story) : story'[k] = IF k = i THEN t ELSE story[k]
  BY <1>2, ExceptSeq
<1>4. ASSUME NEW k \in 1 .. Len(rows')
      PROVE  /\ rows'[k].status = "SUCCEEDED" =>
                   story'[k].swept
                   /\ (rows'[k].job \notin lapsed' => rows'[k].provider = Primary)
             /\ rows'[k].job \notin lapsed' =>
                   story'[k].asked \subseteq {rows'[k].provider}
  <2>1. CASE k = i
    BY <1>1, <1>2, <1>3, <2>1
  <2>2. CASE k # i
    <3>1. rows'[k] = rows[k] /\ story'[k] = story[k] /\ k \in 1 .. Len(rows)
      BY <1>1, <1>2, <1>3, <2>2
    <3> QED BY <3>1 DEF StoryInv, SucceededMeansSwept, OneProviderPerRun
  <2> QED BY <2>1, <2>2
<1> QED BY <1>1, <1>2, <1>3, <1>4
        DEF StoryGoal, StoryInv, SucceededMeansSwept, OneProviderPerRun

\* A request goes to the provider the run's row names.
LEMMA AskStory ==
    ASSUME TypeOK, RowInv, StoryInv, NEW w \in Workers, NEW new, Ask(w, new)
    PROVE  StoryGoal
<1> DEFINE s == sweep[w]
           t == [story[s.run] EXCEPT !.asked = story[s.run].asked \cup {s.provider}]
<1>1. /\ s \in SweepType /\ s.run \in 1 .. Len(rows) /\ rows[s.run].job = s.job
      /\ s.job \notin lapsed => rows[s.run].provider = s.provider
  BY DEF Ask, Advance, TypeOK, RowInv, RowOK, OnARow, Walking
<1>2. rows[s.run] \in RowType /\ story[s.run] \in StoryType
  BY <1>1, ElementOfSeq DEF TypeOK
<1>3. /\ t \in StoryType /\ t.swept = story[s.run].swept
      /\ t.asked = story[s.run].asked \cup {s.provider}
  BY <1>1, <1>2 DEF StoryType, SweepType
<1>4. /\ lapsed' = lapsed /\ rows' = [rows EXCEPT ![s.run] = rows[s.run]]
      /\ story' = [story EXCEPT ![s.run] = t]
  <2>1. rows' = rows /\ lapsed' = lapsed
    BY DEF Ask, Advance
  <2>2. story' = [story EXCEPT ![s.run] = t]
    BY DEF Ask
  <2>3. rows = [rows EXCEPT ![s.run] = rows[s.run]]
    BY <1>1, LenProperties DEF TypeOK
  <2> QED BY <2>1, <2>2, <2>3
<1> HIDE DEF t
<1>5. /\ rows[s.run].status = "SUCCEEDED" =>
            t.swept /\ (rows[s.run].job \notin lapsed => rows[s.run].provider = Primary)
      /\ rows[s.run].job \notin lapsed => t.asked \subseteq {rows[s.run].provider}
  BY <1>1, <1>3 DEF StoryInv, SucceededMeansSwept, OneProviderPerRun
<1> QED BY <1>1, <1>2, <1>3, <1>4, <1>5, StoryWritten

\* A run's progress: its status stands, so does what it is judged by.
LEMMA WriteStory ==
    ASSUME TypeOK, RowInv, StoryInv, NEW w \in Workers,
           sweep[w].step \in OnARow, Write(w)
    PROVE  StoryGoal
<1> DEFINE s == sweep[w]
           r == [rows[s.run] EXCEPT !.cursor = s.last, !.failed = s.failed]
           t == [story[s.run] EXCEPT !.stopped = s.last]
<1>1. s \in SweepType /\ s.run \in 1 .. Len(rows)
  BY DEF TypeOK, RowInv, RowOK
<1>2. rows[s.run] \in RowType /\ story[s.run] \in StoryType
  BY <1>1, ElementOfSeq DEF TypeOK
<1>3. /\ r \in RowType /\ r.job = rows[s.run].job
      /\ r.provider = rows[s.run].provider /\ r.status = rows[s.run].status
  BY <1>1, <1>2 DEF RowType, SweepType
<1>4. /\ t \in StoryType /\ t.swept = story[s.run].swept
      /\ t.asked = story[s.run].asked
  BY <1>1, <1>2 DEF StoryType, SweepType
<1>5. /\ rows' = [rows EXCEPT ![s.run] = r] /\ lapsed' = lapsed
      /\ story' = [story EXCEPT ![s.run] = t]
  BY <1>1, <1>2 DEF Write, TypeOK
<1> HIDE DEF r, t
<1>6. /\ r.status = "SUCCEEDED" =>
            t.swept /\ (r.job \notin lapsed => r.provider = Primary)
      /\ r.job \notin lapsed => t.asked \subseteq {r.provider}
  BY <1>1, <1>3, <1>4 DEF StoryInv, SucceededMeansSwept, OneProviderPerRun
<1> QED BY <1>1, <1>3, <1>4, <1>5, <1>6, StoryWritten

\* A run that closes as SUCCEEDED came round, failed at nothing and asked the
\* primary.
LEMMA CloseStory ==
    ASSUME TypeOK, CallInv, RowInv, StoryInv, NEW w \in Workers, CloseRun(w)
    PROVE  StoryGoal
<1> DEFINE s == sweep[w]
           r == [rows[s.run] EXCEPT !.status = Verdict(s)]
           t == [story[s.run] EXCEPT !.swept = s.there \subseteq s.priced]
<1>1. /\ s \in SweepType /\ s.run \in 1 .. Len(rows) /\ rows[s.run].job = s.job
      /\ s.job \notin lapsed => rows[s.run].provider = s.provider
      /\ s.step = "close" /\ CallOK(s, mirror)
  BY DEF CloseRun, TypeOK, CallInv, RowInv, RowOK, OnARow, Walking
<1>2. rows[s.run] \in RowType /\ story[s.run] \in StoryType
  BY <1>1, ElementOfSeq DEF TypeOK
<1>3. /\ r \in RowType /\ r.job = rows[s.run].job
      /\ r.provider = rows[s.run].provider /\ r.status = Verdict(s)
  BY <1>1, <1>2 DEF RowType, Verdict
<1>4. /\ t \in StoryType /\ t.swept = (s.there \subseteq s.priced)
      /\ t.asked = story[s.run].asked
  BY <1>1, <1>2 DEF StoryType
<1>5. /\ rows' = [rows EXCEPT ![s.run] = r] /\ lapsed' = lapsed
      /\ story' = [story EXCEPT ![s.run] = t]
  BY <1>1, <1>2 DEF CloseRun, TypeOK
<1> HIDE DEF r, t
<1>6. Verdict(s) = "SUCCEEDED" => s.there \subseteq s.priced /\ s.provider = Primary
  BY <1>1 DEF Verdict, CallOK, Walking
<1>7. /\ r.status = "SUCCEEDED" =>
            t.swept /\ (r.job \notin lapsed => r.provider = Primary)
      /\ r.job \notin lapsed => t.asked \subseteq {r.provider}
  BY <1>1, <1>3, <1>4, <1>6 DEF StoryInv, OneProviderPerRun
<1> QED BY <1>1, <1>3, <1>4, <1>5, <1>7, StoryWritten

\* A new run has been asked for nothing and has not succeeded.
LEMMA StartStory ==
    ASSUME TypeOK, RowInv, StoryInv, NEW w \in Workers, StartOrResume(w)
    PROVE  StoryGoal
<1>1. PICK i \in 1 .. Len(rows'), from \in Positions :
         OldRun(w, i) \/ NewRun(w, i, from)
  BY Started
<1>2. lapsed' = lapsed
  BY DEF StartOrResume
<1>3. CASE OldRun(w, i)
  BY <1>2, <1>3, StoryKept DEF OldRun
<1>4. CASE NewRun(w, i, from)
  <2> DEFINE r == NewRow(sweep[w])
             t == [asked |-> {}, swept |-> FALSE, stopped |-> from]
  <2>1. /\ rows \in Seq(RowType) /\ story \in Seq(StoryType)
        /\ Len(story) = Len(rows) /\ Len(rows) \in Nat
        /\ rows' = Append(rows, r) /\ story' = Append(story, t)
    BY <1>4, LenProperties DEF NewRun, TypeOK
  <2>2. r \in RowType /\ r.status = "RUNNING"
    BY SweepAssumption DEF NewRow, RowType, TypeOK, SweepType
  <2>3. t \in StoryType /\ t.asked = {}
    BY DEF StoryType
  <2> HIDE DEF r, t
  <2>4. /\ Len(rows') = Len(rows) + 1 /\ rows'[Len(rows) + 1] = r
        /\ \A k \in 1 .. Len(rows) : rows'[k] = rows[k]
    BY <2>1, <2>2, AppendProperties
  <2>5. /\ story' \in Seq(StoryType) /\ Len(story') = Len(rows) + 1
        /\ story'[Len(rows) + 1] = t
        /\ \A k \in 1 .. Len(rows) : story'[k] = story[k]
    BY <2>1, <2>3, AppendProperties
  <2>6. ASSUME NEW k \in 1 .. Len(rows')
        PROVE  /\ rows'[k].status = "SUCCEEDED" =>
                     story'[k].swept
                     /\ (rows'[k].job \notin lapsed' => rows'[k].provider = Primary)
               /\ rows'[k].job \notin lapsed' =>
                     story'[k].asked \subseteq {rows'[k].provider}
    <3>1. CASE k = Len(rows) + 1
      BY <2>2, <2>3, <2>4, <2>5, <3>1
    <3>2. CASE k # Len(rows) + 1
      <4>1. k \in 1 .. Len(rows) /\ rows'[k] = rows[k] /\ story'[k] = story[k]
        BY <2>1, <2>4, <2>5, <3>2
      <4> QED BY <1>2, <4>1 DEF StoryInv, SucceededMeansSwept, OneProviderPerRun
    <3> QED BY <3>1, <3>2
  <2> QED BY <2>4, <2>5, <2>6
          DEF StoryGoal, StoryInv, SucceededMeansSwept, OneProviderPerRun
<1> QED BY <1>1, <1>3, <1>4

\* Who moves a row: a call on it, a call that abandons it, or the handler of
\* its job's final failure; a row's job and provider never change, and it
\* succeeds only by the call on it.
Mover(i) ==
    \/ \E w \in Workers : sweep[w].step \in OnARow /\ i = sweep[w].run
    \/ i \in RunsOf(job.id) /\ job.state = "waiting"
    \/ \E w \in Workers : \E j \in 1 .. MaxJobs :
          <<w, j>> \in failures /\ i \in RunsOf(j)

LEMMA RowsMove ==
    ASSUME TypeOK, RowInv, Next, NEW i \in 1 .. Len(rows)
    PROVE  /\ rows'[i] # rows[i] => Mover(i)
           /\ rows'[i].job = rows[i].job /\ rows'[i].provider = rows[i].provider
           /\ rows'[i].status = "SUCCEEDED" =>
                 rows[i].status = "SUCCEEDED" \/ \E w \in Workers : CloseRun(w)
<1> DEFINE Goal == /\ rows'[i] # rows[i] => Mover(i)
                   /\ rows'[i].job = rows[i].job
                   /\ rows'[i].provider = rows[i].provider
                   /\ rows'[i].status = "SUCCEEDED" =>
                         rows[i].status = "SUCCEEDED"
                            \/ \E w \in Workers : CloseRun(w)
<1>1. CASE rows' = rows
  BY <1>1
<1>2. rows[i] \in RowType
  BY ElementOfSeq DEF TypeOK
<1>3. ASSUME NEW k \in 1 .. Len(rows), NEW r \in RowType,
             rows' = [rows EXCEPT ![k] = r], r.job = rows[k].job,
             r.provider = rows[k].provider, k = i => Mover(i),
             r.status = "SUCCEEDED" => rows[k].status = "SUCCEEDED"
                                          \/ \E w \in Workers : CloseRun(w)
      PROVE  Goal
  <2>1. rows'[i] = IF i = k THEN r ELSE rows[i]
    BY <1>3, RowRewritten
  <2> QED BY <1>3, <2>1
<1>4. ASSUME NEW w \in Workers, sweep[w].step \in OnARow,
             NEW status \in {"SUCCEEDED", "PARTIAL", "FAILED"},
             rows' = [rows EXCEPT ![sweep[w].run].status = status],
             status = "SUCCEEDED" => CloseRun(w)
      PROVE  Goal
  <2> DEFINE k == sweep[w].run
             r == [rows[k] EXCEPT !.status = status]
  <2>1. k \in 1 .. Len(rows) /\ (k = i => Mover(i))
    BY <1>4 DEF RowInv, RowOK, Mover
  <2>2. rows[k] \in RowType
    BY <2>1, ElementOfSeq DEF TypeOK
  <2>3. /\ r \in RowType /\ r.job = rows[k].job /\ r.status = status
        /\ r.provider = rows[k].provider /\ rows' = [rows EXCEPT ![k] = r]
    BY <1>4, <2>2 DEF RowType
  <2> QED BY <1>3, <1>4, <2>1, <2>3
<1>5. ASSUME NEW w \in Workers, RecordProgress(w) \/ RecordFinally(w) PROVE Goal
  <2> DEFINE s == sweep[w]
             r == [rows[s.run] EXCEPT !.cursor = s.last, !.failed = s.failed]
  <2>1. /\ s \in SweepType /\ s.run \in 1 .. Len(rows) /\ (s.run = i => Mover(i))
        /\ Write(w)
    BY <1>5 DEF RecordProgress, RecordFinally, TypeOK, RowInv, RowOK, OnARow,
                Walking, Mover
  <2>2. rows[s.run] \in RowType
    BY <2>1, ElementOfSeq DEF TypeOK
  <2>3. /\ r \in RowType /\ r.job = rows[s.run].job
        /\ r.provider = rows[s.run].provider /\ r.status = rows[s.run].status
    BY <2>1, <2>2 DEF RowType, SweepType
  <2>4. rows' = [rows EXCEPT ![s.run] = r]
    BY <2>1, <2>2 DEF Write, TypeOK
  <2> HIDE DEF r
  <2> QED BY <1>3, <2>1, <2>3, <2>4
<1>6. ASSUME NEW w \in Workers, CloseRun(w) PROVE Goal
  BY <1>4, <1>6 DEF CloseRun, OnARow, Walking, Verdict
<1>7. ASSUME NEW w \in Workers, CloseBroken(w) PROVE Goal
  BY <1>4, <1>7 DEF CloseBroken, OnARow
<1>8. ASSUME NEW w \in Workers, Abandon(w) PROVE Goal
  <2> DEFINE k == Newest(RunsOf(job.id))
             r == [rows[k] EXCEPT !.status = "PARTIAL"]
  <2>1. k \in RunsOf(job.id)
    BY <1>8, NewestRow DEF Abandon, RunsOf
  <2>2. k \in 1 .. Len(rows) /\ (k = i => Mover(i))
    BY <1>8, <2>1 DEF Abandon, RunsOf, Mover
  <2>3. rows[k] \in RowType
    BY <2>2, ElementOfSeq DEF TypeOK
  <2>4. /\ r \in RowType /\ r.job = rows[k].job /\ r.status = "PARTIAL"
        /\ r.provider = rows[k].provider /\ rows' = [rows EXCEPT ![k] = r]
    BY <1>8, <2>3 DEF Abandon, RowType
  <2> HIDE DEF r, k
  <2> QED BY <1>3, <2>2, <2>4
<1>9. ASSUME NEW w \in Workers, NEW j \in 1 .. MaxJobs, CloseIfFinallyFailed(w, j)
      PROVE  Goal
  BY <1>1, <1>2, <1>9 DEF CloseIfFinallyFailed, Mover, RowType
<1>10. ASSUME NEW w \in Workers, StartOrResume(w) PROVE Goal
  <2>1. PICK k \in 1 .. Len(rows'), from \in Positions :
           OldRun(w, k) \/ NewRun(w, k, from)
    BY <1>10, Started
  <2>2. CASE OldRun(w, k)
    BY <1>1, <2>2 DEF OldRun
  <2>3. CASE NewRun(w, k, from)
    <3>1. NewRow(sweep[w]) \in RowType
      BY SweepAssumption DEF NewRow, RowType, TypeOK, SweepType
    <3>2. rows'[i] = rows[i]
      BY <2>3, <3>1, AppendProperties DEF NewRun, TypeOK
    <3> QED BY <3>2
  <2> QED BY <2>1, <2>2, <2>3
<1>11. ASSUME NEW w \in Workers,
              \/ StopForBudget(w) \/ Wrap(w) \/ EndOfCatalog(w)
              \/ BackAtTheStart(w) \/ ContractBroken(w) \/ RateLimited(w)
              \/ Answered(w) \/ BatchFailed(w)
       PROVE  Goal
  BY <1>1, <1>11 DEF StopForBudget, Wrap, EndOfCatalog, BackAtTheStart,
        ContractBroken, RateLimited, Answered, BatchFailed, Ask, Advance
<1>12. ASSUME \/ Enqueue \/ AddCard
              \/ \E w \in Workers :
                    \/ Choose(w) \/ FailsToStart(w) \/ Return(w)
                    \/ AttemptFails(w) \/ Crash(w) \/ LockLapses(w)
       PROVE  Goal
  BY <1>1, <1>12 DEF Enqueue, AddCard, Choose, FailsToStart, Return,
                     AttemptFails, Crash, LockLapses
<1> QED BY <1>5, <1>6, <1>7, <1>8, <1>9, <1>10, <1>11, <1>12 DEF Next, Work

\* A step keeps what the rows tell.
LEMMA StoryStep ==
    ASSUME SweepInv, StoryInv, Next, lapsed \subseteq lapsed'
    PROVE  StoryGoal
<1> USE DEF SweepInv
<1>1. ASSUME story' = story, Len(rows') = Len(rows) PROVE StoryGoal
  <2>1. CASE \E w \in Workers : CloseRun(w)
    BY <2>1, CloseStory
  <2>2. CASE ~ \E w \in Workers : CloseRun(w)
    <3>1. \A i \in 1 .. Len(rows) :
             /\ rows'[i].job = rows[i].job /\ rows'[i].provider = rows[i].provider
             /\ rows'[i].status = "SUCCEEDED" => rows[i].status = "SUCCEEDED"
      BY <2>2, RowsMove
    <3> QED BY <1>1, <3>1, StoryKept
  <2> QED BY <2>1, <2>2
<1>2. ASSUME NEW w \in Workers,
             Answered(w) \/ BatchFailed(w) \/ RateLimited(w) \/ ContractBroken(w)
      PROVE  StoryGoal
  BY <1>2, AskStory DEF Answered, BatchFailed, RateLimited, ContractBroken
<1>3. ASSUME NEW w \in Workers, RecordProgress(w) \/ RecordFinally(w)
      PROVE  StoryGoal
  BY <1>3, WriteStory DEF RecordProgress, RecordFinally, OnARow, Walking
<1>4. ASSUME NEW w \in Workers, CloseRun(w) \/ StartOrResume(w) PROVE StoryGoal
  BY <1>4, CloseStory, StartStory
<1>5. ASSUME NEW w \in Workers, CloseBroken(w) \/ Abandon(w) PROVE StoryGoal
  <2>1. PICK i, status :
           story' = story /\ rows' = [rows EXCEPT ![i].status = status]
    BY <1>5 DEF CloseBroken, Abandon
  <2>2. Len(rows') = Len(rows)
    BY <2>1, LenProperties DEF TypeOK
  <2> QED BY <1>1, <2>1, <2>2
<1>6. ASSUME NEW w \in Workers, NEW j \in 1 .. MaxJobs, CloseIfFinallyFailed(w, j)
      PROVE  StoryGoal
  <2>1. Len(rows') = Len(rows)
    BY <1>6, LenProperties DEF CloseIfFinallyFailed, TypeOK
  <2> QED BY <1>1, <1>6, <2>1 DEF CloseIfFinallyFailed
<1>7. ASSUME \/ Enqueue \/ AddCard
             \/ \E w \in Workers :
                   \/ Choose(w) \/ FailsToStart(w) \/ Return(w)
                   \/ AttemptFails(w) \/ Crash(w) \/ LockLapses(w)
                   \/ StopForBudget(w) \/ Wrap(w) \/ EndOfCatalog(w)
                   \/ BackAtTheStart(w)
      PROVE  StoryGoal
  BY <1>1, <1>7 DEF Enqueue, AddCard, Choose, FailsToStart, Return, Crash,
        AttemptFails, LockLapses, StopForBudget, Wrap, EndOfCatalog,
        BackAtTheStart, Advance
<1> QED BY <1>2, <1>3, <1>4, <1>5, <1>6, <1>7 DEF Next, Work

-----------------------------------------------------------------------------
(* The theorems.                                                           *)

LEMMA InitInv == Init => SweepInv /\ StoryInv
<1> USE SweepAssumption
<1> SUFFICES ASSUME Init PROVE SweepInv /\ StoryInv
  OBVIOUS
<1>1. /\ rows \in EarlierRuns /\ rows \in Seq(RowType) /\ Len(rows) \in Nat
      /\ \A i \in 1 .. Len(rows) :
            /\ rows[i].job = 0
            /\ rows[i].status = "SUCCEEDED" => rows[i].provider = Primary
  BY EarlierRunsAssumption, LenProperties DEF Init
<1>2. \A i \in 1 .. Len(rows) : rows[i] \in RowType
  BY <1>1, ElementOfSeq
<1>3. \A i \in 1 .. Len(rows) :
         [asked |-> {rows[i].provider}, swept |-> TRUE,
          stopped |-> ReadPriceCursor(rows[i].cursor)] \in StoryType
  BY <1>2 DEF StoryType, RowType, ReadPriceCursor, NoCursor, Positions
<1>4. story \in [1 .. Len(rows) -> StoryType]
  BY <1>3 DEF Init
<1>5. /\ story \in Seq(StoryType) /\ Len(story) = Len(rows)
      /\ \A i \in 1 .. Len(rows) :
            story[i].asked = {rows[i].provider} /\ story[i].swept
  BY <1>1, <1>4 DEF Init
<1>6. TypeOK
  BY <1>1, <1>5, NoSweepOK DEF Init, TypeOK, MaxStalledCount
<1>7. CallInv
  BY NoSweepOK DEF Init, CallInv
<1>8. QueueInv
  BY DEF Init, QueueInv, Unfinished, NoSweep
<1>9. RowInv
  BY <1>1, NoRow DEF Init, RowInv, OneOpenRun, CompletedJobsCloseTheirRuns
<1>10. StoryInv
  BY <1>1, <1>5 DEF StoryInv, SucceededMeansSwept, OneProviderPerRun
<1> QED BY <1>6, <1>7, <1>8, <1>9, <1>10 DEF SweepInv

LEMMA StepInv ==
    SweepInv /\ StoryInv /\ [Next]_vars => SweepInv' /\ StoryInv'
<1> SUFFICES ASSUME SweepInv, StoryInv, [Next]_vars PROVE SweepInv' /\ StoryInv'
  OBVIOUS
<1>1. CASE UNCHANGED vars
  BY <1>1 DEF vars, SweepInv, TypeOK, CallInv, QueueInv, RowInv, StoryInv,
        Unfinished, Holds, RowOK, RunsOf, OneOpenRun, SucceededMeansSwept,
        CompletedJobsCloseTheirRuns, OneProviderPerRun
<1>2. CASE Next
  <2>1. sweep' \in [Workers -> SweepType] /\ CallInv'
    BY <1>2, CallStep DEF SweepInv
  <2>2. QueueGoal
    BY <1>2, QueueStep DEF SweepInv
  <2>3. RowGoal
    BY <1>2, RowStep DEF SweepInv
  <2>4. lapsed \subseteq lapsed'
    BY <1>2 DEF Next, Work, Enqueue, AddCard, Choose, Abandon, FailsToStart,
          StartOrResume, StopForBudget, Wrap, EndOfCatalog, BackAtTheStart,
          Answered, BatchFailed, RateLimited, ContractBroken, Ask, Advance,
          RecordProgress, RecordFinally, Write, CloseRun, CloseBroken, Return,
          AttemptFails, Crash, LockLapses, CloseIfFinallyFailed
  <2>5. StoryGoal
    BY <1>2, <2>4, StoryStep
  <2>6. mirror' \subseteq 1 .. Catalog
    <3>1. CASE AddCard
      BY <3>1, SweepAssumption DEF AddCard, SweepInv, TypeOK
    <3>2. CASE ~AddCard
      <4>1. mirror' = mirror
        BY <1>2, <3>2
           DEF Next, Work, Enqueue, Choose, Abandon, FailsToStart, StartOrResume,
               StopForBudget, Wrap, EndOfCatalog, BackAtTheStart, Answered,
               BatchFailed, RateLimited, ContractBroken, Ask, Advance,
               RecordProgress, RecordFinally, Write, CloseRun, CloseBroken,
               Return, AttemptFails, Crash, LockLapses, CloseIfFinallyFailed
      <4> QED BY <4>1 DEF SweepInv, TypeOK
    <3> QED BY <3>1, <3>2
  <2>7. TypeOK'
    BY <2>1, <2>2, <2>3, <2>5, <2>6 DEF TypeOK, QueueGoal, JobType, RowGoal, StoryGoal
  <2> QED BY <2>1, <2>2, <2>3, <2>5, <2>7 DEF SweepInv, QueueGoal, RowGoal, StoryGoal
<1> QED BY <1>1, <1>2

THEOREM InvariantHolds == Spec => [](SweepInv /\ StoryInv)
BY InitInv, StepInv, PTL DEF Spec

\* The job, the run rows and the calls keep their shape: nothing is counted
\* past its limit, and no walk leaves the catalog.
THEOREM TypeCorrect == Spec => []TypeOK
<1>1. SweepInv => TypeOK
  BY DEF SweepInv
<1> QED BY <1>1, InvariantHolds, PTL

\* A run reports SUCCEEDED only when its last call priced, from the primary,
\* every card the catalog held when the call began.
THEOREM SweepsAreHonest == Spec => []SucceededMeansSwept
<1>1. StoryInv => SucceededMeansSwept
  BY DEF StoryInv
<1> QED BY <1>1, InvariantHolds, PTL

\* The walk leaves no card behind it that was not asked for, and none unpriced
\* that is not in its count of failures.
THEOREM WalkIsComplete == Spec => []NothingIsSkipped
<1>1. SweepInv => NothingIsSkipped
  BY DEF SweepInv, CallInv, CallOK, NothingIsSkipped, Behind, Walking
<1> QED BY <1>1, InvariantHolds, PTL

\* Every request of a run goes to the provider its row names, in every attempt
\* of its job, while the job keeps its lock.
THEOREM ProviderIsKept == Spec => []OneProviderPerRun
<1>1. StoryInv => OneProviderPerRun
  BY DEF StoryInv
<1> QED BY <1>1, InvariantHolds, PTL

\* A job that completed left no run of its own open, while it kept its lock.
THEOREM CompletionClosesRuns == Spec => []CompletedJobsCloseTheirRuns
<1>1. SweepInv => CompletedJobsCloseTheirRuns
  BY DEF SweepInv, RowInv
<1> QED BY <1>1, InvariantHolds, PTL

\* A row changes only by a call of its own job, or by its own job's failure.
THEOREM NoAdoption == Spec => RunsAreNotAdopted
<1> DEFINE Kept == \A i \in 1 .. Len(rows) : rows'[i] # rows[i] =>
              \/ rows[i].job = job.id
              \/ \E w \in Workers : \/ /\ sweep[w].step # "idle"
                                       /\ sweep[w].job = rows[i].job
                                    \/ <<w, rows[i].job>> \in failures
<1>1. SweepInv /\ StoryInv /\ [Next]_vars => Kept
  <2> SUFFICES ASSUME SweepInv, [Next]_vars, NEW i \in 1 .. Len(rows),
                      rows'[i] # rows[i]
               PROVE  \/ rows[i].job = job.id
                      \/ \E w \in Workers : \/ /\ sweep[w].step # "idle"
                                               /\ sweep[w].job = rows[i].job
                                            \/ <<w, rows[i].job>> \in failures
    OBVIOUS
  <2>1. Mover(i)
    BY RowsMove DEF SweepInv, vars
  <2> QED BY <2>1 DEF Mover, RunsOf, SweepInv, RowInv, RowOK, OnARow, Walking
<1>2. Spec => [][Kept]_vars
  BY <1>1, InvariantHolds, PTL DEF Spec
<1> QED BY <1>2 DEF RunsAreNotAdopted

\* A closed run is never reopened or rewritten while its job keeps its lock.
THEOREM ClosedStaysClosed == Spec => ClosedRunsStayClosed
<1> DEFINE Kept == \A i \in 1 .. Len(rows) :
              rows[i].status # "RUNNING" /\ rows[i].job \notin lapsed =>
                 rows'[i] = rows[i]
<1>1. SweepInv /\ StoryInv /\ [Next]_vars => Kept
  <2> SUFFICES ASSUME SweepInv, [Next]_vars, NEW i \in 1 .. Len(rows),
                      rows[i].status # "RUNNING", rows[i].job \notin lapsed,
                      rows'[i] # rows[i]
               PROVE  FALSE
    OBVIOUS
  <2>1. Mover(i)
    BY RowsMove DEF SweepInv, vars
  <2>2. PICK w \in Workers : sweep[w].step \in OnARow /\ i = sweep[w].run
    BY <2>1 DEF Mover, RunsOf
  <2>3. i \in RunsOf(sweep[w].job)
    BY <2>2 DEF SweepInv, RowInv, RowOK
  <2> QED BY <2>3 DEF RunsOf
<1>2. Spec => [][Kept]_vars
  BY <1>1, InvariantHolds, PTL DEF Spec
<1> QED BY <1>2 DEF ClosedRunsStayClosed
=============================================================================
