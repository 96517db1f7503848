----------------------------- MODULE ReadCache -----------------------------
(***************************************************************************)
(* The read cache in Redis, between the endpoints that load an answer from *)
(* the database and the writers that make it stale.  A load is shared by   *)
(* the requests of one process that miss while it runs; a writer commits   *)
(* first and deletes the keys afterwards, one call at a time.  Nothing     *)
(* orders a load against a deletion, so what bounds staleness is the TTL.  *)
(* An answer is reduced to the versions of what it was computed from.      *)
(***************************************************************************)
EXTENDS Integers, FiniteSets

CONSTANTS
    Processes,  \* API processes; each has its own map of loads
    Served,     \* the keys that are asked for
    MaxWrites   \* bound: how often each part of the database is written

\* What the answers are computed from.
Parts == {"catalog", "price", "holding"}

\* The cached answers, and what each is loaded from.
GetCard    == [key |-> "card",      from |-> {"catalog", "price"}]
ListSets   == [key |-> "sets",      from |-> {"catalog"}]
LoadSet    == [key |-> "set",       from |-> {"catalog"}]
LoadFacets == [key |-> "facets",    from |-> {"catalog"}]
GetLatest  == [key |-> "cardPrice", from |-> {"price"}]
Summary    == [key |-> "summary",   from |-> {"catalog", "price", "holding"}]
Metrics    == [key |-> "metrics",   from |-> {"price", "holding"}]

Answers == {GetCard, ListSets, LoadSet, LoadFacets, GetLatest, Summary, Metrics}
Keys == {a.key : a \in Answers}
From(k) == (CHOOSE a \in Answers : a.key = k).from

\* Mutant of PriceBatchClears: the card detail, which shows the price, is forgotten.
PriceOnly == {"cardPrice"}
\* The keys each writer deletes after its commit.
PriceBatchClears == {"cardPrice", "card"}
CatalogSyncClears == {"sets", "set", "card", "facets"}
SettlementClears == {"summary"}
Clears(part) == CASE part = "price" -> PriceBatchClears
                  [] part = "catalog" -> CatalogSyncClears
                  [] part = "holding" -> SettlementClears

\* What nobody deletes when a part changes, and only the TTL renews.
LeftToTheTTL == ({"price", "catalog"} \X {"summary"}) \cup (Parts \X {"metrics"})

VARIABLES
    truth,     \* truth[p]: the version of p the database holds
    cached,    \* cached[k]: {}, or {v} for an answer v
    load,      \* load[p][k]: {}, or {v} for a load that has read v
    missed,    \* <<p, k>>: a request that found nothing in Redis, and goes on
    due,       \* <<part, k>>: deletions a writer still has to make
    lost,      \* ghost: keys whose deletion failed, or was never sent
    overtaken  \* ghost: keys deleted while a load was in flight

cvars == <<truth, cached, load, missed, due, lost, overtaken>>

Versions(k) == [From(k) -> 0 .. MaxWrites]
Now(k) == [p \in From(k) |-> truth[p]]
Stale(k) == cached[k] # {} /\ cached[k] # {Now(k)}
Maybe(S) == {{}} \cup {{v} : v \in S}

\* At most one answer per key, and one load per key and process.
TypeOK ==
    /\ truth \in [Parts -> 0 .. MaxWrites]
    /\ \A k \in Served : /\ cached[k] \in Maybe(Versions(k))
                         /\ \A p \in Processes : load[p][k] \in Maybe(Versions(k))
    /\ missed \subseteq Processes \X Served
    /\ due \subseteq Parts \X Served
    /\ lost \subseteq Served /\ overtaken \subseteq Served

Init == /\ truth = [p \in Parts |-> 0]
        /\ cached = [k \in Served |-> {}]
        /\ load = [p \in Processes |-> [k \in Served |-> {}]]
        /\ missed = {} /\ due = {} /\ lost = {} /\ overtaken = {}

\* get() found nothing, failed, or dropped what it could not read.
Miss(p, k) ==
    /\ <<p, k>> \notin missed
    /\ missed' = missed \cup {<<p, k>>}
    /\ cached' \in {cached, [cached EXCEPT ![k] = {}]}
    /\ UNCHANGED <<truth, load, due, lost, overtaken>>

\* getOrSet goes on: it joins the load that is there, or starts one.  The metrics
\* use get and set, and compute anew; a load more or less makes no difference.
LoadOrJoin(p, k) ==
    /\ <<p, k>> \in missed
    /\ missed' = missed \ {<<p, k>>}
    /\ load' = IF load[p][k] # {} THEN load ELSE [load EXCEPT ![p][k] = {Now(k)}]
    /\ UNCHANGED <<truth, cached, due, lost, overtaken>>

\* The load resolves: its answer is stored, if Redis takes it.
Store(p, k) ==
    /\ load[p][k] # {}
    /\ cached' \in {cached, [cached EXCEPT ![k] = load[p][k]]}
    /\ load' = [load EXCEPT ![p][k] = {}]
    /\ UNCHANGED <<truth, missed, due, lost, overtaken>>

\* The load rejects: nothing is stored, and the next request loads again.
Reject(p, k) ==
    /\ load[p][k] # {}
    /\ load' = [load EXCEPT ![p][k] = {}]
    /\ UNCHANGED <<truth, cached, missed, due, lost, overtaken>>

\* A price batch, a page of the catalog sync, an opening or a settled trade commits.
Commit(part) ==
    /\ truth[part] < MaxWrites
    /\ truth' = [truth EXCEPT ![part] = truth[part] + 1]
    /\ due' = due \cup ({part} \X (Clears(part) \cap Served))
    /\ UNCHANGED <<cached, load, missed, lost, overtaken>>

\* The UNLINK that follows the commit, by name or found by SCAN.
Delete(part, k) ==
    /\ <<part, k>> \in due
    /\ due' = due \ {<<part, k>>}
    /\ cached' = [cached EXCEPT ![k] = {}]
    /\ overtaken' = IF \E p \in Processes : load[p][k] # {}
                    THEN overtaken \cup {k} ELSE overtaken
    /\ UNCHANGED <<truth, load, missed, lost>>

\* It fails, or the writer dies before it: a warning at most.
DeleteLost(part, k) ==
    /\ <<part, k>> \in due
    /\ due' = due \ {<<part, k>>}
    /\ lost' = lost \cup {k}
    /\ UNCHANGED <<truth, cached, load, missed, overtaken>>

\* Mutant of Expire: an answer is stored without EX.
NeverExpires(k) == FALSE /\ UNCHANGED cvars
\* The TTL; a key that is gone, and that nobody loads, has lost its history.
Expire(k) ==
    /\ cached[k] # {} \/ k \in lost \cup overtaken
    /\ cached' = [cached EXCEPT ![k] = {}]
    /\ LET quiet == \A p \in Processes : load[p][k] = {} IN
       /\ lost' = IF quiet THEN lost \ {k} ELSE lost
       /\ overtaken' = IF quiet THEN overtaken \ {k} ELSE overtaken
    /\ UNCHANGED <<truth, load, missed, due>>

\* A process restarts: its loads and its requests are gone.
Restart(p) ==
    /\ load' = [load EXCEPT ![p] = [k \in Served |-> {}]]
    /\ missed' = {m \in missed : m[1] # p}
    /\ UNCHANGED <<truth, cached, due, lost, overtaken>>

Resolve(p, k) == Store(p, k) \/ Reject(p, k)

Next ==
    \/ \E p \in Processes, k \in Served : Miss(p, k) \/ LoadOrJoin(p, k) \/ Resolve(p, k)
    \/ \E part \in Parts : Commit(part)
    \/ \E part \in Parts, k \in Served : Delete(part, k) \/ DeleteLost(part, k)
    \/ \E k \in Served : Expire(k)
    \/ \E p \in Processes : Restart(p)

\* A load ends, one way or the other; Redis keeps its TTLs.
Fairness ==
    /\ \A p \in Processes, k \in Served : WF_cvars(Resolve(p, k))
    /\ \A k \in Served : WF_cvars(Expire(k))

Spec == Init /\ [][Next]_cvars

-----------------------------------------------------------------------------

\* A warm answer that is stale in a part which is not left to the TTL was overtaken: the
\* deletion is still to come, was lost, or came while a load that had read before the
\* commit was in flight (CacheService.getOrSet, :141-144).
StalenessIsExplained ==
    \A k \in Served : \A v \in cached[k] : \A part \in From(k) :
        v[part] # truth[part] /\ <<part, k>> \notin LeftToTheTTL =>
            <<part, k>> \in due \/ k \in lost \cup overtaken

\* However the loads, the commits and the deletions crossed, once the writers are
\* done every answer is fresh in the end, and stays so (CacheService.set, :101).
AllFresh == \A k \in Served : ~Stale(k)
EventuallyFresh == <>[]AllFresh
=============================================================================
