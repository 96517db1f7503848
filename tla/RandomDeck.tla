----------------------------- MODULE RandomDeck -----------------------------
(* POST /decks/random: RandomDeckService and the generator.  One run of a      *)
(* sequential program whose choices - the order of every shuffle, the sizes    *)
(* and shapes it draws - are the next-state relation, while the catalog sync   *)
(* may take the format's legality from a card between its three reads.  The    *)
(* code's numbers (60 cards, 16-18 Pokemon, 12-14 Trainers ...) are constants. *)
EXTENDS Integers, Sequences, SequencesExt, FiniteSetsExt, Functions

CONSTANTS
    Card,           \* Card[c]: [name, key, kind, type, from, basic, only]
    Stocks,         \* the collections that ask; "any card" has more than a deck holds
    Requests,       \* the types a member may ask for, in order; <<>> is "surprise me"
    DeckSize, MaxCopies,
    PokemonLow, PokemonHigh, PokemonMin, MaxLines, MaxLineCopies, Attempts,
    Shapes,         \* Shapes[n]: the lists of shapes drawn for a line of n stages
    TrainerLow, TrainerHigh, TrainerMin, TrainerFill,
    SupporterLow, SupporterHigh, StadiumMax,
    Verdicts,       \* how often a deck that fails validation is generated again
    Bannable        \* bound: the cards that may lose their legality meanwhile

VARIABLES
    stock,    \* the collection
    banned,   \* cards the format does not allow now
    pool,     \* the cards loadPool answered
    types,    \* the basic Energy types of this build
    todo,     \* the type sets still to try, and the types behind them
    counts,   \* the draft: copies of each card
    at,       \* where the program stands; see At
    short,    \* the most informative shortfall so far, or {}
    tries     \* generated decks that failed validation

rvars == <<stock, banned, pool, types, todo, counts, at, short, tries>>

Cards == DOMAIN Card
Kind(kinds) == {c \in Cards : Card[c].kind \in kinds}
Pokemon == Kind({"pokemon"})
Supporters == Kind({"supporter"})
OtherTrainers == Kind({"item", "stadium"})
Trainers == Supporters \cup OtherTrainers
Energy == Kind({"energy"})
Types == {Card[c].type : c \in Pokemon \cup Energy}
Singletons == {"Radiant", "Star", "ACE SPEC"}
Stages == 3

Smaller(a, b) == IF a < b THEN a ELSE b
Total(in, S) == SumFunctionOnSet(in, S)

\* The copy limit counts a name over its printings; basic Energy has none.
CopiesOf(in, key) == Total(in, {c \in Cards \ Energy : Card[c].key = key})
OnlyOnes(in, kind) == Total(in, {c \in Cards \ Energy : kind \in Card[c].only})

\* A draft that forgot what the other cards of a name, or a kind, have used.
RoomByCard(in, c) ==
    Max({0, IF c \in Energy THEN stock[c] - in[c]
            ELSE Smaller(stock[c], MaxCopies) - in[c]})

\* Draft.room: what is left of the collection, of the name's limit, and of the
\* one Radiant, the one Star card and the one ACE SPEC.
Room(in, c) ==
    LET left == stock[c] - in[c]
        max == IF "Prism Star" \in Card[c].only THEN 1 ELSE MaxCopies
        caps == {left, max - CopiesOf(in, Card[c].key)}
                \cup {1 - OnlyOnes(in, k) : k \in Singletons \cap Card[c].only}
    IN Max({0, IF c \in Energy THEN left ELSE Min(caps)})

Empty == [c \in Cards |-> 0]
Add(c, n) == counts' = [counts EXCEPT ![c] = @ + n]

\* The step, and the locals of the functions it is in: drawLines' attempt, pass,
\* shuffled tops and number of lines; placeLine's line, shapes and place in it;
\* what was marked to roll back to; the best attempt; the targets; addTrainers'
\* call and the cards it has still to visit; addEnergy's type and share.
At == [step |-> "ask", attempt |-> 0, strict |-> TRUE, order |-> <<>>, tops |-> <<>>,
       lines |-> 0, target |-> 0, line |-> <<>>, shapes |-> <<>>, stage |-> 0,
       want |-> 0, got |-> 0, mark |-> Empty, best |-> Empty,
       trainers |-> 0, supporters |-> 0, call |-> 0, left |-> {}, share |-> 0,
       played |-> <<>>, code |-> "none", have |-> 0, need |-> 0]

TypeOK ==
    /\ stock \in Stocks /\ banned \subseteq Cards /\ pool \subseteq Cards
    /\ types \in Seq(Types) /\ todo.sets \in Seq(Seq(Types)) /\ todo.types \subseteq Types
    /\ counts \in [Cards -> 0 .. DeckSize] /\ tries \in 0 .. Verdicts
    /\ DOMAIN at = DOMAIN At /\ Cardinality(short) <= 1

Init ==
    /\ stock \in Stocks /\ banned = {} /\ pool = {}
    /\ types = <<>> /\ todo \in {[asked |-> r, sets |-> <<>>, types |-> {}, all |-> {}] : r \in Requests}
    /\ counts = Empty /\ at = At /\ short = {} /\ tries = 0

Goes(changes) == at' = [k \in DOMAIN at |-> IF k \in DOMAIN changes THEN changes[k] ELSE at[k]]
Starts(changes) == at' = [k \in DOMAIN at |-> IF k \in DOMAIN changes THEN changes[k] ELSE At[k]]
Step(s) == [step |-> s]

\* The catalog sync writes a card's legalities.
Ban ==
    /\ at.step \in {"ask", "load", "verify"}
    /\ \E c \in Bannable \ banned : banned' = banned \cup {c}
    /\ UNCHANGED <<stock, pool, types, todo, counts, at, short, tries>>

-----------------------------------------------------------------------------
(* generate, candidateTypeSets.                                            *)

EnergyTypes(S) == {Card[c].type : c \in Energy \cap S}

\* A type that no basic Energy is legal for is refused.
Ask ==
    /\ at.step = "ask"
    /\ Goes(Step(IF Range(todo.asked) \subseteq EnergyTypes(Cards \ banned)
                 THEN "load" ELSE "refused"))
    /\ UNCHANGED <<stock, banned, pool, types, todo, counts, short, tries>>

LoadPool ==
    /\ at.step = "load"
    /\ pool' = {c \in Cards \ banned : stock[c] > 0}
    /\ Goes(Step("sets"))
    /\ UNCHANGED <<stock, banned, types, todo, counts, short, tries>>

\* What was asked for; or, in turn, the types with Energy in the pool, else those
\* with Pokemon, else all.
TypeSets ==
    /\ at.step = "sets" /\ Goes(Step("types")) /\ short' = {}
    /\ LET ofPokemon == {Card[c].type : c \in Pokemon \cap pool}
           try == IF EnergyTypes(pool) # {} THEN EnergyTypes(pool)
                  ELSE IF ofPokemon # {} THEN ofPokemon ELSE Types
       IN todo' = IF todo.asked = <<>> THEN [todo EXCEPT !.types = try, !.all = try]
                  ELSE [todo EXCEPT !.sets = <<todo.asked>>]
    /\ UNCHANGED <<stock, banned, pool, types, counts, tries>>

\* The next type in a shuffled order: perhaps a pair with it first, then itself.
DrawTypes ==
    /\ at.step = "types" /\ todo.sets = <<>>
    /\ \E t \in todo.types :
          \E sets \in {<<<<t>>>>} \cup {<<<<t, u>>, <<t>>>> : u \in todo.all \ {t}} :
             todo' = [todo EXCEPT !.sets = sets, !.types = @ \ {t}]
    /\ UNCHANGED <<stock, banned, pool, types, counts, at, short, tries>>

\* build begins, with an empty draft.
Build ==
    /\ at.step = "types" /\ todo.sets # <<>>
    /\ types' = Head(todo.sets) /\ todo' = [todo EXCEPT !.sets = Tail(@)]
    /\ counts' = Empty
    /\ \E target \in PokemonLow .. PokemonHigh :
          Starts([step |-> "attempt", target |-> target])
    /\ UNCHANGED <<stock, banned, pool, short, tries>>

-----------------------------------------------------------------------------
(* buildPokemon, drawLines, resolveLine, placeLine.                        *)

OfTypes(c) == Card[c].type \in Range(types)
Tops == {c \in Pokemon \cap pool : OfTypes(c)}

\* interleave: each type's tops shuffled, and taken in turns.
Turn(order, i) ==
    <<Cardinality({j \in 1 .. i - 1 : Card[order[j]].type = Card[order[i]].type}),
      CHOOSE k \in DOMAIN types : types[k] = Card[order[i]].type>>
Earlier(a, b) == a[1] < b[1] \/ (a[1] = b[1] /\ a[2] < b[2])
Interleaved(order) == \A i, j \in DOMAIN order : i < j => Earlier(Turn(order, i), Turn(order, j))

Draw ==
    /\ at.step = "attempt"
    /\ \E order \in {o \in SetToSeqs(Tops) : Interleaved(o)} :
          Goes([step |-> "top", strict |-> TRUE, order |-> order, tops |-> order, lines |-> 0])
    /\ UNCHANGED <<stock, banned, pool, types, todo, counts, short, tries>>

\* resolveLine: from a top down evolvesFrom to a Basic, every stage with room;
\* a lower stage is Basic when it can be, else what its first printing is.
\* A line that cannot be played is <<>>.
AllPrintings(S, from) == S
EvolvesFrom(S, from) == {c \in S : Card[c].from = from /\ (from = "" => Card[c].basic)}

RECURSIVE Down(_, _, _)
Down(line, from, seen) ==
    LET lower == {c \in Pokemon \cap pool : Card[c].name = from /\ Room(counts, c) > 0}
        basic == \E c \in lower : Card[c].from = "" /\ Card[c].basic
        evolved == {c \in lower : Card[c].from # ""}
        next == IF basic THEN "" ELSE Card[Min(evolved)].from
    IN IF from = "" THEN IF Len(line) <= Stages THEN line ELSE <<>>
       ELSE IF from \in seen \/ (~basic /\ evolved = {}) THEN <<>>
       ELSE Down(<<EvolvesFrom(lower, next)>> \o line, next, seen \cup {from})

Line(top) ==
    LET from == Card[top].from
        printings == EvolvesFrom({c \in Tops : Card[c].name = Card[top].name
                                               /\ Room(counts, c) > 0}, from)
    IN IF printings = {} THEN <<>> ELSE Down(<<printings>>, from, {Card[top].name})

\* Stages whose name the draft has already used; the first pass leaves them out.
Used(stage) == CopiesOf(counts, Card[Min(stage)].key) > 0

PokemonTotal == Total(counts, Pokemon)
Full == PokemonTotal >= at.target \/ at.lines = MaxLines

\* The next top: skipped, or its line is tried in the shapes drawn for it.
TakeTop ==
    /\ at.step = "top" /\ at.tops # <<>> /\ ~Full
    /\ LET line == Line(Head(at.tops))
           skipped == line = <<>> \/ (at.strict /\ \E i \in DOMAIN line : Used(line[i]))
       IN IF skipped
          THEN Goes([tops |-> Tail(at.tops)])
          ELSE \E shapes \in Shapes[Len(line)] :
                  Goes([step |-> "place", tops |-> Tail(at.tops), line |-> line,
                        shapes |-> shapes, mark |-> counts, stage |-> 1,
                        want |-> shapes[1][1], got |-> 0])
    /\ UNCHANGED <<stock, banned, pool, types, todo, counts, short, tries>>

Open == {c \in at.line[at.stage] : Room(counts, c) > 0}

\* One printing of the stage, as many copies as it has room for.
PlacePrinting ==
    /\ at.step = "place" /\ at.want > 0
    /\ \E c \in Open :
          LET n == Smaller(at.want, Room(counts, c))
          IN Add(c, n) /\ Goes([want |-> at.want - n, got |-> at.got + n])
    /\ UNCHANGED <<stock, banned, pool, types, todo, short, tries>>

StageDone == at.step = "place" /\ (at.want = 0 \/ Open = {})

NextStage ==
    /\ StageDone /\ at.got > 0 /\ at.stage < Len(at.line)
    /\ Goes([stage |-> at.stage + 1, want |-> at.shapes[1][at.stage + 1], got |-> 0])
    /\ UNCHANGED <<stock, banned, pool, types, todo, counts, short, tries>>

\* A line stands when every stage got a card, it does not go past the most a deck
\* has, and, in the first pass, the lines still to come can reach the least.
Stands ==
    /\ at.got > 0
    /\ PokemonTotal <= PokemonHigh
    /\ at.strict => PokemonTotal + (MaxLines - at.lines - 1) * MaxLineCopies >= PokemonLow

LineStands ==
    /\ StageDone /\ at.stage = Len(at.line) /\ Stands
    /\ Goes([step |-> "top", lines |-> at.lines + 1, line |-> <<>>, shapes |-> <<>>, mark |-> Empty])
    /\ UNCHANGED <<stock, banned, pool, types, todo, counts, short, tries>>

\* Otherwise the draft is rolled back, and the next shape tried.
RollBack ==
    /\ StageDone /\ (at.got = 0 \/ (at.stage = Len(at.line) /\ ~Stands))
    /\ counts' = at.mark
    /\ IF Len(at.shapes) > 1
       THEN Goes([shapes |-> Tail(at.shapes), stage |-> 1, want |-> at.shapes[2][1], got |-> 0])
       ELSE Goes([step |-> "top", line |-> <<>>, shapes |-> <<>>, mark |-> Empty])
    /\ UNCHANGED <<stock, banned, pool, types, todo, short, tries>>

\* The second pass lets lines share names.
SecondPass ==
    /\ at.step = "top" /\ at.tops = <<>> /\ ~Full /\ at.strict
    /\ Goes([strict |-> FALSE, tops |-> at.order])
    /\ UNCHANGED <<stock, banned, pool, types, todo, counts, short, tries>>

\* An attempt ends.  One that reached the least stands; else the best is kept,
\* and played when the attempts are used up.
EndAttempt ==
    /\ at.step = "top" /\ (Full \/ (at.tops = <<>> /\ ~at.strict))
    /\ LET best == IF PokemonTotal > Total(at.best, Cards) THEN counts ELSE at.best
       IN IF PokemonTotal >= PokemonLow
          THEN Starts(Step("pokemon")) /\ UNCHANGED counts
          ELSE IF at.attempt + 1 < Attempts
          THEN /\ Starts([step |-> "attempt", target |-> at.target,
                          attempt |-> at.attempt + 1, best |-> best])
               /\ counts' = Empty
          ELSE Starts(Step("pokemon")) /\ counts' = best
    /\ UNCHANGED <<stock, banned, pool, types, todo, short, tries>>

-----------------------------------------------------------------------------
(* build: Trainers.                                                        *)

\* A build that fails says what there is and what a deck needs.
Fails(code, have, need) ==
    /\ Goes([step |-> "short", code |-> code, have |-> have, need |-> need])
    /\ UNCHANGED counts

\* One call of addTrainers: its cards, its caps as pairs of predicate and most,
\* the first one ending it, and whether it takes all a card has room for.
Call(cards, caps, fill) == [cards |-> cards \cap pool, caps |-> caps, fill |-> fill]
CallOf(i) ==
    LET all(most) == <<Trainers, most>>
        supporters(most) == <<Supporters, most>>
    IN CASE i = 1 -> Call(Supporters, <<supporters(at.supporters), all(at.trainers)>>, FALSE)
         [] i = 2 -> Call(OtherTrainers, <<all(at.trainers)>>, FALSE)
         [] i = 3 -> Call(OtherTrainers, <<all(at.trainers)>>, TRUE)
         [] i = 4 -> Call(Supporters, <<supporters(SupporterHigh), all(at.trainers)>>, TRUE)
         [] i = 5 -> Call(Supporters, <<all(TrainerMin)>>, TRUE)
         [] i = 6 -> Call(OtherTrainers, <<all(TrainerFill)>>, FALSE)
         [] i = 7 -> Call(Supporters, <<supporters(SupporterHigh), all(TrainerFill)>>, FALSE)

TrainerTotal == Total(counts, Trainers)
Calls(i) == Goes([step |-> "trainers", call |-> i, left |-> CallOf(i).cards])

\* Too few Pokemon end the build; else the Trainers' targets are drawn.
CountPokemon ==
    /\ at.step = "pokemon"
    /\ IF PokemonTotal < PokemonMin
       THEN Fails("POKEMON", PokemonTotal, PokemonMin)
       ELSE /\ \E t \in TrainerLow .. TrainerHigh, s \in SupporterLow .. SupporterHigh :
                  Goes([step |-> "trainers", trainers |-> t, supporters |-> s,
                        call |-> 1, left |-> Supporters \cap pool])
            /\ UNCHANGED counts
    /\ UNCHANGED <<stock, banned, pool, types, todo, short, tries>>

Capped == LET first == CallOf(at.call).caps[1] IN Total(counts, first[1]) >= first[2]

\* The next card of the shuffle.
AddTrainer ==
    /\ at.step = "trainers" /\ at.left # {} /\ ~Capped
    /\ \E c \in at.left, drawn \in 1 .. MaxCopies :
          LET call == CallOf(at.call)
              within == {cap[2] - Total(counts, cap[1]) : cap \in {p \in Range(call.caps) : c \in p[1]}}
              stadiums == IF Card[c].kind = "stadium"
                          THEN {StadiumMax - Total(counts, Kind({"stadium"}))} ELSE {}
              n == Min({drawn, Room(counts, c)} \cup within \cup stadiums)
          IN /\ call.fill => drawn = MaxCopies
             /\ IF n > 0 THEN Add(c, n) ELSE UNCHANGED counts
             /\ Goes([left |-> at.left \ {c}])
    /\ UNCHANGED <<stock, banned, pool, types, todo, short, tries>>

EnergyRoom == MapThenSumSet(LAMBDA c : Room(counts, c),
                            {c \in Energy \cap pool : Card[c].type \in Range(types)})

\* Were Supporters never taken past their six.
AfterCallNoMore(i) ==
    CASE i \in {1, 3, 6} -> i + 1
      [] i = 2 /\ TrainerTotal < at.trainers -> 3
      [] i \in {2, 4} /\ TrainerTotal >= TrainerMin
            /\ DeckSize - Total(counts, Cards) > EnergyRoom -> 6
      [] OTHER -> 8

\* After the second call a build short of its target fills up; after the fourth,
\* and after Supporters past their six, one short of the least fails.  Trainers
\* make up for Energy that the types do not have.
AfterCall(i) ==
    CASE i \in {1, 3, 6} -> i + 1
      [] i = 2 /\ TrainerTotal < at.trainers -> 3
      [] i = 4 /\ TrainerTotal < TrainerMin -> 5
      [] i \in {2, 4, 5} /\ TrainerTotal >= TrainerMin
            /\ DeckSize - Total(counts, Cards) > EnergyRoom -> 6
      [] OTHER -> 8

\* The types the Pokemon in the deck have, or all that were asked for.
Played ==
    LET used == SelectSeq(types, LAMBDA t : \E c \in Pokemon : counts[c] > 0 /\ Card[c].type = t)
    IN IF used = <<>> THEN types ELSE used

EndCall ==
    /\ at.step = "trainers" /\ (at.left = {} \/ Capped)
    /\ LET next == AfterCall(at.call)
       IN IF next < 8 THEN Calls(next) /\ UNCHANGED counts
          ELSE IF TrainerTotal < TrainerMin THEN Fails("TRAINERS", TrainerTotal, TrainerMin)
          ELSE Starts([step |-> "energy", call |-> at.call, played |-> Played, stage |-> 1, want |-> DeckSize - Total(counts, Cards)])
               /\ UNCHANGED counts
    /\ UNCHANGED <<stock, banned, pool, types, todo, short, tries>>

-----------------------------------------------------------------------------
(* addEnergy, and the end of a build.                                      *)

EnergyOf(t) == {c \in Energy \cap pool : Card[c].type = t}

\* The first type's share is rounded up, the others' down.
Share(i) == LET n == Len(at.played) IN IF i = 1 THEN (at.want + n - 1) \div n ELSE at.want \div n

\* The printings of a type in a shuffled order, each as far as it goes: one of
\* them may be left in part.
Payments(t, share) ==
    {paid \in [EnergyOf(t) -> 0 .. share] :
        /\ SumFunction(paid) = share
        /\ \A c \in EnergyOf(t) : paid[c] <= Room(counts, c)
        /\ Cardinality({c \in EnergyOf(t) : paid[c] \in 1 .. Room(counts, c) - 1}) <= 1}

AddEnergy ==
    /\ at.step = "energy" /\ at.stage <= Len(at.played)
    /\ LET t == at.played[at.stage]
           have == MapThenSumSet(LAMBDA c : Room(counts, c), EnergyOf(t))
       IN IF have < Share(at.stage)
          THEN Fails("ENERGY", have, Share(at.stage))
          ELSE \E paid \in Payments(t, Share(at.stage)) :
                  /\ counts' = [c \in Cards |-> IF c \in EnergyOf(t) THEN paid[c] ELSE counts[c]]
                  /\ Goes([stage |-> at.stage + 1])
    /\ UNCHANGED <<stock, banned, pool, types, todo, short, tries>>

Finish ==
    /\ at.step = "energy" /\ at.stage > Len(at.played)
    /\ Starts(Step("verify"))
    /\ UNCHANGED <<stock, banned, pool, types, todo, counts, short, tries>>

\* informative: the shortfall that got furthest, by code, by what it has of what
\* it needs, and of one type rather than two.
Rank == [none |-> 0, POKEMON |-> 1, TRAINERS |-> 2, ENERGY |-> 3]
MoreInformative(a, b) ==
    LET score(s, other) == 2 * Smaller(s.have, s.need) * other.need + s.single * s.need * other.need
    IN \/ Rank[a.code] > Rank[b.code]
       \/ Rank[a.code] = Rank[b.code] /\ score(a, b) > score(b, a)

\* The next types are tried, or the most informative shortfall is the answer.
NoteShortfall ==
    /\ at.step = "short"
    /\ LET new == [code |-> at.code, have |-> at.have, need |-> at.need,
                   single |-> IF Len(types) = 1 THEN 1 ELSE 0]
       IN short' = IF \A s \in short : MoreInformative(new, s) THEN {new} ELSE short
    /\ IF todo.sets = <<>> /\ todo.types = {}
       THEN Goes(Step("shortfall"))
       ELSE Starts(Step("types"))
    /\ UNCHANGED <<stock, banned, pool, types, todo, counts, tries>>

\* validateDeck, with the cards' legalities read again, and the pool's copies.
Valid ==
    /\ Total(counts, Cards) = DeckSize
    /\ \A c \in Cards \ Energy : CopiesOf(counts, Card[c].key) <= MaxCopies
    /\ \A c \in banned : counts[c] = 0
    /\ \A c \in Cards : counts[c] <= stock[c]

\* A deck that fails is generated again from the same pool, up to five times.
Verify ==
    /\ at.step = "verify"
    /\ IF Valid THEN Goes(Step("deck")) /\ UNCHANGED tries
       ELSE /\ tries' = tries + 1
            /\ Goes(Step(IF tries + 1 < Verdicts THEN "sets" ELSE "internal"))
    /\ UNCHANGED <<stock, banned, pool, types, todo, counts, short>>

Next ==
    \/ Ban \/ Ask \/ LoadPool \/ TypeSets \/ DrawTypes \/ Build
    \/ Draw \/ TakeTop \/ PlacePrinting \/ NextStage \/ LineStands \/ RollBack
    \/ SecondPass \/ EndAttempt \/ CountPokemon \/ AddTrainer \/ EndCall
    \/ AddEnergy \/ Finish \/ NoteShortfall \/ Verify

Spec == Init /\ [][Next]_rvars

-----------------------------------------------------------------------------

\* A generated deck keeps every rule of its format before anything verifies it
\* (docs/API.md, "Random decks"): the size, the copies of a name over its
\* printings, one Radiant, one Star, one ACE SPEC, one of a Prism Star name, the
\* Stadiums, the collection, the shares of Pokemon and Trainers, and Energy of
\* the types its Pokemon have.
DecksAreLegal ==
    at.step \in {"verify", "deck"} =>
        /\ Total(counts, Cards) = DeckSize
        /\ \A c \in Cards : counts[c] <= stock[c] /\ (counts[c] > 0 => c \in pool)
        /\ \A c \in Cards \ Energy : CopiesOf(counts, Card[c].key)
                <= IF "Prism Star" \in Card[c].only THEN 1 ELSE MaxCopies
        /\ \A kind \in Singletons : OnlyOnes(counts, kind) <= 1
        /\ Total(counts, Kind({"stadium"})) <= StadiumMax
        /\ PokemonTotal \in PokemonMin .. PokemonHigh
        /\ TrainerTotal \in TrainerMin .. TrainerFill
        /\ \A c \in Energy : counts[c] > 0 =>
                \E p \in Pokemon : counts[p] > 0 /\ Card[p].type = Card[c].type

\* Every card that evolves has a card it evolves from in the deck (the generator's
\* check G3), and no line's roll back leaves a part of it behind.
LinesAreWhole ==
    at.step \in {"pokemon", "verify", "deck"} =>
        \A c \in Pokemon : counts[c] > 0 /\ Card[c].from # "" =>
            \E lower \in Pokemon : counts[lower] > 0 /\ Card[lower].name = Card[c].from

\* A collection short of Trainers is used whole before it is refused: at that
\* answer no Trainer has room left, but for the Stadiums past their two
\* (docs/API.md, "Random decks").
TrainersAreUsedWhole ==
    at.step = "short" /\ at.code = "TRAINERS" =>
        \A c \in Trainers \cap pool :
            \/ Room(counts, c) = 0
            \/ Card[c].kind = "stadium" /\ Total(counts, Kind({"stadium"})) = StadiumMax
=============================================================================
