------------------------------- MODULE MCSync -------------------------------
(* The background jobs in one instance for TLC.  The components share no      *)
(* state beyond what each module has of the others', so their product would   *)
(* only multiply their states: a behaviour is a behaviour of one of them,     *)
(* chosen at first, while the others stand still.                             *)
EXTENDS PriceSweep, TLC

VARIABLES
    component, \* the one that runs
    listed, index, catalogMirror, sets, catalogJob,
    catalogRows, call, catalogFailures, catalogStory,            \* CatalogSync
    holder, breaker, asked, sent, landed, audit,                  \* AdminSync
    briefs, fetches, fetched, redis, counted, synced    \* CardSources

CONSTANTS t1, z1, none, cron

\* The catalog sync may add a card in the middle of the sweep's walk.
MiddleCard == {2}
NoCard == {}

Row(status, cursor) == [job |-> 0, provider |-> Primary, status |-> status,
                        cursor |-> cursor, failed |-> FALSE]

\* The first sweep ever; and a night the budget cut short, followed by a run
\* that a killed process left RUNNING.
TwoPasts == {<<>>, <<Row("PARTIAL", 2), Row("RUNNING", 1)>>}

Cat == INSTANCE CatalogSync WITH
    SetOf <- <<"s", "s", "s">>, Listed <- {1}, Arriving <- {2},
    Leaving <- {1}, ListedByFallback <- {1, 3}, PageSize <- 1, MaxPage <- 1,
    mirror <- catalogMirror, job <- catalogJob, rows <- catalogRows,
    failures <- catalogFailures, story <- catalogStory

Adm == INSTANCE AdminSync WITH
    Triggers <- {t1}, Resets <- {z1}, Free <- none, Cron <- cron, req <- asked

\* A full page and the rest of one, with a card of every kind for each client.
FourCards == 1 .. 4
Listings == {FourCards, {1, 3, 4}}
Payloads == [pokemontcg |-> <<"good", "misfit", "good", "unreadable">>,
             tcgdex |-> <<"misfit", "good", "gone", "imageless">>]
PricedCards == {2, 4}

Src == INSTANCE CardSources WITH
    Items <- FourCards, Lists <- Listings, Quality <- Payloads, PriceBatch <- PricedCards,
    Pooled <- 2, PageSize <- 3, MAX_ATTEMPTS <- 2, Limit <- 2, Reserve <- 1, MaxCalls <- 2,
    index <- briefs, calls <- fetches, made <- fetched, spent <- counted

catVars == <<listed, index, catalogMirror, sets, catalogJob,
             catalogRows, call, catalogFailures, catalogStory>>
admVars == <<holder, breaker, asked, sent, landed, audit>>
sourceVars == <<briefs, fetches, fetched, redis, counted, synced>>
everything == <<vars, component, catVars, admVars, sourceVars>>

AllInit ==
    /\ component \in {"sweep", "catalog", "admin", "sources"}
    /\ Init /\ Cat!Init /\ Adm!Init
    /\ Src!Init /\ (component # "sources" => redis)
    /\ component # "sweep" => rows = <<>>
    /\ component # "admin" => ~breaker /\ \A r \in {t1, z1} : asked[r].queue = "catalog"

AllNext ==
    /\ component' = component
    /\ IF component = "sweep" THEN Next ELSE UNCHANGED vars
    /\ IF component = "catalog" THEN Cat!Next ELSE UNCHANGED catVars
    /\ IF component = "admin" THEN Adm!Next ELSE UNCHANGED admVars
    /\ IF component = "sources" THEN Src!Next ELSE UNCHANGED sourceVars

\* Each component under its own fairness.
AllFair ==
    /\ \A w \in Workers : WF_vars(component = "sweep" /\ Work(w))
    /\ WF_catVars(component = "catalog" /\ Cat!Process)
    /\ WF_catVars(component = "catalog" /\ Cat!CloseIfFinallyFailed)
    /\ WF_sourceVars(component = "sources" /\ Src!Requests)

AllSpec == AllInit /\ [][AllNext]_everything /\ AllFair

\* Type invariant of whichever component runs.
TypesOK ==
    /\ component = "sweep" => TypeOK
    /\ component = "catalog" => Cat!TypeOK
    /\ component = "admin" => Adm!TypeOK
    /\ component = "sources" => Src!TypeOK

\* A catalog run that says SUCCEEDED mirrored every card of the primary's list it began with, and
\* no fallback run brings in an id that the primary never listed; and a page that a source's client
\* answers leaves out only what the card itself is the reason of, its requests counted.
SyncedCatalogsAreWhole ==
    /\ component = "catalog" => Cat!SucceededMeansMirrored /\ Cat!FallbackNeverForks
    /\ component = "sources" =>
          Src!AnswersAreWhole /\ Src!OneCardCostsOneCard /\ Src!BudgetIsTrue


\* An administrator's audit row says what became of the job or of the breaker.
AuditRowsAreTrue == component = "admin" => Adm!AuditRowsAreTrue
=============================================================================
