---------------------------- MODULE SumTheorems ----------------------------
(***************************************************************************)
(* What SumFunctionOnSet computes, for every function and every finite     *)
(* set, so that the invariants that add up rows can be proved.  The        *)
(* library's induction theorems take the induction formula as an operator; *)
(* here the formula is a set, and an ordinary instance of a lemma.         *)
(***************************************************************************)
EXTENDS FiniteSetsExt, FiniteSetTheorems, WellFoundedInduction, TLAPS

(***************************************************************************)
(* Induction, with the induction formula given as the set it defines.      *)
(***************************************************************************)

\* Every set of naturals that is not empty has a least element.
LEMMA Least ==
    ASSUME NEW T \in SUBSET Nat, T # {}
    PROVE  \E m \in T : \A x \in T : m <= x
<1>1. PICK m \in T : \A x \in T : ~(<<x, m>> \in OpToRel(<, Nat))
  <2>1. IsWellFoundedOn(OpToRel(<, Nat), Nat)
    BY NatLessThanWellFounded
  <2> QED BY <2>1, WFMin
<1>2. ASSUME NEW x \in T PROVE m <= x
  <2>1. x \in Nat /\ m \in Nat
    BY <1>2
  <2>2. ~(x < m)
    BY <1>1, <1>2, <2>1 DEF OpToRel
  <2> QED BY <2>1, <2>2
<1> QED BY <1>1, <1>2

\* A family of subsets of a finite S that has every set all of whose strict subsets it has, has S.
LEMMA StrictSubsetInduction ==
    ASSUME NEW S, IsFiniteSet(S), NEW P \in SUBSET SUBSET S,
           \A T \in SUBSET S : (\A U \in SUBSET T : U # T => U \in P) => T \in P
    PROVE  S \in P
<1> SUFFICES ASSUME S \notin P PROVE FALSE
    OBVIOUS
<1> DEFINE Missing == (SUBSET S) \ P
<1>1. FiniteSubsetsOf(S) = SUBSET S
    BY FS_FiniteSubsetsOfFinite
<1>2. PICK T \in Missing : \A U \in Missing : ~(<<U, T>> \in StrictSubsetOrdering(S))
  <2>1. IsWellFoundedOn(StrictSubsetOrdering(S), FiniteSubsetsOf(S))
    BY FS_StrictSubsetOrderingWellFounded
  <2>2. IsWellFoundedOn(StrictSubsetOrdering(S), SUBSET S)
    BY <1>1, <2>1
  <2>3. Missing \subseteq SUBSET S /\ Missing # {}
    OBVIOUS
  <2> HIDE DEF Missing
  <2> QED
    BY <2>2, <2>3, WFMin
<1>3. ASSUME NEW U \in SUBSET T, U # T PROVE U \in P
  <2>1. U \in SUBSET S
    BY <1>2
  <2>2. <<U, T>> \in StrictSubsetOrdering(S)
    BY <1>1, <1>2, <1>3, <2>1 DEF StrictSubsetOrdering
  <2> QED
    BY <1>2, <2>1, <2>2
<1> QED
    BY <1>2, <1>3

\* A family that has {} and that adding any one element does not leave, has S.
LEMMA FiniteInduction ==
    ASSUME NEW S, IsFiniteSet(S), NEW P \in SUBSET SUBSET S, {} \in P,
           \A T \in P, x \in S : x \notin T => T \cup {x} \in P
    PROVE  S \in P
<1>1. ASSUME NEW T \in SUBSET S, \A U \in SUBSET T : U # T => U \in P PROVE T \in P
  <2>1. CASE T = {}
    BY <2>1
  <2>2. CASE T # {}
    <3>1. PICK x \in T : TRUE
        BY <2>2
    <3>2. T \ {x} \in SUBSET T /\ T \ {x} # T
        BY <3>1
    <3>3. T \ {x} \in P
        BY <1>1, <3>2
    <3>4. (T \ {x}) \cup {x} = T /\ x \in S /\ x \notin T \ {x}
        BY <3>1
    <3>5. (T \ {x}) \cup {x} \in P
        BY <3>3, <3>4
    <3> QED
        BY <3>4, <3>5
  <2> QED
    BY <2>1, <2>2
<1> QED
    BY <1>1, StrictSubsetInduction

\* Of a strict order, given as the set of its pairs, a finite set has a least element.
LEMMA OrderHasLeast ==
    ASSUME NEW S, IsFiniteSet(S), S # {}, NEW R,
           \A a, b \in S : a = b \/ <<a, b>> \in R \/ <<b, a>> \in R,
           \A a, b, c \in S : <<a, b>> \in R /\ <<b, c>> \in R => <<a, c>> \in R
    PROVE  \E m \in S : \A s \in S : s = m \/ <<m, s>> \in R
<1> DEFINE P == {T \in SUBSET S : T # {} => \E m \in T : \A s \in T : s = m \/ <<m, s>> \in R}
<1>1. {} \in P
  OBVIOUS
<1>2. ASSUME NEW T \in P, NEW x \in S, x \notin T PROVE T \cup {x} \in P
  <2>1. CASE T = {}
    BY <2>1
  <2>2. CASE T # {}
    <3>1. PICK m \in T : \A s \in T : s = m \/ <<m, s>> \in R
      BY <2>2
    <3>2. m \in S /\ m # x
      BY <1>2
    <3>3. CASE <<m, x>> \in R
      BY <3>1, <3>3
    <3>4. CASE <<x, m>> \in R
      <4>1. \A s \in T : <<x, s>> \in R
        BY <3>1, <3>2, <3>4
      <4> QED BY <4>1
    <3> QED
      BY <3>2, <3>3, <3>4
  <2> QED BY <2>1, <2>2
<1>3. P \in SUBSET SUBSET S
  OBVIOUS
<1> HIDE DEF P
<1>4. S \in P
  BY <1>1, <1>2, <1>3, FiniteInduction
<1> QED
  BY <1>4 DEF P

(***************************************************************************)
(* The recursion behind SumFunctionOnSet.                                  *)
(***************************************************************************)

SumStep(f, g, s) == IF s = {} THEN 0
                 ELSE f[CHOOSE x \in s : TRUE] + g[s \ {CHOOSE x \in s : TRUE}]
IsSumOn(f, S, g) == g = [s \in SUBSET S |-> SumStep(f, g, s)]

LEMMA SumUnfolds ==
    ASSUME NEW f, NEW S
    PROVE  SumFunctionOnSet(f, S) = (CHOOSE g : IsSumOn(f, S, g))[S]
BY DEF SumFunctionOnSet, FoldFunctionOnSet, MapThenFoldSet, SumStep, IsSumOn

LEMMA IsSumOnStep ==
    ASSUME NEW f, NEW S, NEW g, IsSumOn(f, S, g), NEW s \in SUBSET S
    PROVE  g[s] = SumStep(f, g, s)
<1>1. g = [u \in SUBSET S |-> SumStep(f, g, u)]
    BY DEF IsSumOn
<1> QED
    BY <1>1

\* Two solutions, of whichever sets, agree on every finite set they share.
LEMMA SolutionsAgree ==
    ASSUME NEW f, NEW S, NEW T, NEW g, NEW h, IsSumOn(f, S, g), IsSumOn(f, T, h),
           NEW s \in SUBSET S, s \in SUBSET T, IsFiniteSet(s)
    PROVE  g[s] = h[s]
<1> DEFINE P == {u \in SUBSET s : g[u] = h[u]}
<1>1. ASSUME NEW u \in SUBSET s, \A v \in SUBSET u : v # u => v \in P PROVE u \in P
  <2>1. u \in SUBSET S /\ u \in SUBSET T
    OBVIOUS
  <2>2. g[u] = SumStep(f, g, u) /\ h[u] = SumStep(f, h, u)
    BY <2>1, IsSumOnStep
  <2>3. CASE u = {}
    BY <2>2, <2>3 DEF SumStep
  <2>4. CASE u # {}
    <3> DEFINE x == CHOOSE x \in u : TRUE
    <3>1. x \in u
        BY <2>4
    <3>2. u \ {x} \in SUBSET u /\ u \ {x} # u
        BY <3>1
    <3>3. u \ {x} \in P
        BY <1>1, <3>2
    <3>4. g[u \ {x}] = h[u \ {x}]
        BY <3>3
    <3>5. SumStep(f, g, u) = SumStep(f, h, u)
        BY <2>4, <3>4 DEF SumStep
    <3> QED
        BY <2>2, <3>5
  <2> QED
    BY <2>3, <2>4
<1>2. P \in SUBSET SUBSET s
    OBVIOUS
<1> HIDE DEF P
<1>3. s \in P
    BY <1>1, <1>2, StrictSubsetInduction
<1> QED
    BY <1>3 DEF P

LEMMA SumSolves ==
    ASSUME NEW f, NEW S, NEW g, IsSumOn(f, S, g), NEW s \in SUBSET S, IsFiniteSet(s),
           NEW h, IsSumOn(f, s, h)
    PROVE  SumFunctionOnSet(f, s) = g[s]
<1> DEFINE c == CHOOSE k : IsSumOn(f, s, k)
<1>1. IsSumOn(f, s, c)
    OBVIOUS
<1>2. SumFunctionOnSet(f, s) = c[s]
    BY SumUnfolds
<1> HIDE DEF c
<1>3. c[s] = g[s]
    BY <1>1, SolutionsAgree
<1> QED
    BY <1>2, <1>3

\* The sum is the solution of its own recursion on every subset of a finite set.
LEMMA SumExists ==
    ASSUME NEW f, NEW S, IsFiniteSet(S)
    PROVE  \E g : IsSumOn(f, S, g)
<1> DEFINE P == {T \in SUBSET S : \E g : IsSumOn(f, T, g)}
<1>1. ASSUME NEW T \in SUBSET S, \A U \in SUBSET T : U # T => U \in P PROVE T \in P
  <2> DEFINE sum(s) == SumFunctionOnSet(f, s)
             x == CHOOSE y \in T : TRUE
             top == IF T = {} THEN 0 ELSE f[x] + sum(T \ {x})
             h == [s \in SUBSET T |-> IF s = T THEN top ELSE sum(s)]
  <2>1. ASSUME NEW s \in SUBSET T, s # T, NEW g, IsSumOn(f, s, g)
        PROVE  sum(s) = IF s = {} THEN 0
                        ELSE f[CHOOSE y \in s : TRUE] + sum(s \ {CHOOSE y \in s : TRUE})
    <3>1. IsFiniteSet(s)
        BY FS_Subset
    <3>2. sum(s) = g[s]
        BY <2>1, <3>1, SumSolves
    <3>3. g[s] = SumStep(f, g, s)
        BY <2>1, IsSumOnStep
    <3>4. CASE s = {}
        BY <3>2, <3>3, <3>4 DEF SumStep
    <3>5. CASE s # {}
        <4> DEFINE y == CHOOSE y \in s : TRUE
                   t == s \ {y}
        <4>1. y \in s
            BY <3>5
        <4>2. t \in SUBSET s /\ t \in SUBSET T /\ t # T /\ IsFiniteSet(t)
            BY <2>1, <3>1, <4>1, FS_Subset
        <4>3. PICK k : IsSumOn(f, t, k)
            BY <1>1, <4>2
        <4> HIDE DEF t
        <4>4. sum(t) = g[t]
            BY <2>1, <4>2, <4>3, SumSolves
        <4>5. g[s] = f[y] + g[t]
            BY <3>3, <3>5 DEF SumStep, t
        <4> QED
            BY <3>2, <3>5, <4>4, <4>5 DEF t
    <3> QED
        BY <3>4, <3>5
  <2>2. ASSUME NEW s \in SUBSET T PROVE h[s] = SumStep(f, h, s)
    <3>1. CASE s = {}
        <4>1. h[s] = 0
          <5>1. CASE s = T
            BY <3>1, <5>1
          <5>2. CASE s # T
            <6>1. PICK g : IsSumOn(f, s, g)
                BY <1>1, <5>2
            <6>2. sum(s) = 0
                BY <2>1, <3>1, <5>2, <6>1
            <6> QED
                BY <5>2, <6>2
          <5> QED
            BY <5>1, <5>2
        <4> QED
            BY <3>1, <4>1 DEF SumStep
    <3>2. CASE s # {}
        <4> DEFINE y == CHOOSE y \in s : TRUE
        <4>1. y \in s
            BY <3>2
        <4>2. s \ {y} \in SUBSET T /\ s \ {y} # T
            BY <4>1
        <4>3. h[s \ {y}] = sum(s \ {y})
            BY <4>2
        <4>4. h[s] = f[y] + sum(s \ {y})
          <5>1. CASE s = T
            BY <3>2, <5>1
          <5>2. CASE s # T
            <6>1. PICK g : IsSumOn(f, s, g)
                BY <1>1, <5>2
            <6>2. sum(s) = f[y] + sum(s \ {y})
                BY <2>1, <3>2, <5>2, <6>1
            <6> QED
                BY <5>2, <6>2
          <5> QED
            BY <5>1, <5>2
        <4> QED
            BY <3>2, <4>3, <4>4 DEF SumStep
    <3> QED
        BY <3>1, <3>2
  <2>3. DOMAIN h = SUBSET T /\ h = [s \in DOMAIN h |-> h[s]]
    OBVIOUS
  <2> HIDE DEF h
  <2>4. h = [s \in SUBSET T |-> SumStep(f, h, s)]
    BY <2>2, <2>3
  <2> QED
    BY <2>4 DEF IsSumOn
<1>2. P \in SUBSET SUBSET S
    OBVIOUS
<1> HIDE DEF P
<1>3. S \in P
    BY <1>1, <1>2, StrictSubsetInduction
<1> QED
    BY <1>3 DEF P

(***************************************************************************)
(* What a sum is.                                                          *)
(***************************************************************************)

LEMMA SumEmpty == ASSUME NEW f PROVE SumFunctionOnSet(f, {}) = 0
<1>1. PICK g : IsSumOn(f, {}, g)
    BY SumExists, FS_EmptySet
<1>2. SumFunctionOnSet(f, {}) = g[{}]
    BY <1>1, SumSolves, FS_EmptySet
<1>3. g[{}] = SumStep(f, g, {})
    BY <1>1, IsSumOnStep
<1> QED
    BY <1>2, <1>3 DEF SumStep

\* The sum of a set that is not empty takes out the element the definition chooses.
LEMMA SumChosen ==
    ASSUME NEW f, NEW S, IsFiniteSet(S), S # {}
    PROVE  LET x == CHOOSE x \in S : TRUE
           IN  SumFunctionOnSet(f, S) = f[x] + SumFunctionOnSet(f, S \ {x})
<1> DEFINE x == CHOOSE x \in S : TRUE
           t == S \ {x}
<1>1. PICK g : IsSumOn(f, S, g)
    BY SumExists
<1>2. SumFunctionOnSet(f, S) = g[S]
    BY <1>1, SumSolves
<1>3. t \in SUBSET S /\ IsFiniteSet(t)
    BY FS_Subset
<1>4. g[S] = f[x] + g[t]
  <2>1. S \in SUBSET S
    OBVIOUS
  <2>2. g[S] = SumStep(f, g, S)
    BY <1>1, <2>1, IsSumOnStep
  <2> QED
    BY <2>2 DEF SumStep
<1> HIDE DEF t
<1>5. PICK k : IsSumOn(f, t, k)
    BY <1>3, SumExists
<1>6. SumFunctionOnSet(f, t) = g[t]
    BY <1>1, <1>3, <1>5, SumSolves
<1> QED
    BY <1>2, <1>4, <1>6 DEF t

LEMMA SumType ==
    ASSUME NEW f, NEW S, IsFiniteSet(S), \A x \in S : f[x] \in Int
    PROVE  SumFunctionOnSet(f, S) \in Int
<1> DEFINE P == {T \in SUBSET S : SumFunctionOnSet(f, T) \in Int}
<1>1. ASSUME NEW T \in SUBSET S, \A U \in SUBSET T : U # T => U \in P PROVE T \in P
  <2>1. CASE T = {}
    BY <2>1, SumEmpty
  <2>2. CASE T # {}
    <3> DEFINE x == CHOOSE x \in T : TRUE
    <3>1. x \in T /\ IsFiniteSet(T)
        BY <2>2, FS_Subset
    <3>2. T \ {x} \in P
        BY <1>1, <3>1
    <3>3. SumFunctionOnSet(f, T) = f[x] + SumFunctionOnSet(f, T \ {x})
        BY <2>2, <3>1, SumChosen
    <3>4. SumFunctionOnSet(f, T \ {x}) \in Int /\ f[x] \in Int
        BY <3>1, <3>2
    <3> QED
        BY <3>3, <3>4
  <2> QED
    BY <2>1, <2>2
<1>2. P \in SUBSET SUBSET S
    OBVIOUS
<1> HIDE DEF P
<1>3. S \in P
    BY <1>1, <1>2, StrictSubsetInduction
<1> QED
    BY <1>3 DEF P

\* Any element may be taken out of a sum, whichever one the definition chooses.
LEMMA SumRemove ==
    ASSUME NEW f, NEW S, IsFiniteSet(S), \A x \in S : f[x] \in Int, NEW a \in S
    PROVE  SumFunctionOnSet(f, S) = f[a] + SumFunctionOnSet(f, S \ {a})
<1> DEFINE sum(T) == SumFunctionOnSet(f, T)
           P == {T \in SUBSET S : \A b \in T : sum(T) = f[b] + sum(T \ {b})}
<1>1. ASSUME NEW T \in SUBSET S, \A U \in SUBSET T : U # T => U \in P,
             NEW b \in T
      PROVE  sum(T) = f[b] + sum(T \ {b})
  <2> DEFINE x == CHOOSE x \in T : TRUE
  <2>1. x \in T /\ IsFiniteSet(T)
    BY FS_Subset
  <2>2. sum(T) = f[x] + sum(T \ {x})
    BY <2>1, SumChosen
  <2>3. CASE x = b
    BY <2>2, <2>3
  <2>4. CASE x # b
    <3>1. T \ {x} \in P /\ T \ {b} \in P
        BY <1>1, <2>1
    <3>2. b \in T \ {x} /\ x \in T \ {b}
        BY <1>1, <2>1, <2>4
    <3>3. sum(T \ {x}) = f[b] + sum((T \ {x}) \ {b})
        BY <3>1, <3>2
    <3>4. sum(T \ {b}) = f[x] + sum((T \ {b}) \ {x})
        BY <3>1, <3>2
    <3>5. (T \ {x}) \ {b} = (T \ {b}) \ {x}
        OBVIOUS
    <3>6. IsFiniteSet((T \ {b}) \ {x}) /\ (T \ {b}) \ {x} \in SUBSET S
        BY <2>1, FS_Subset
    <3>7. sum((T \ {b}) \ {x}) \in Int
        BY <3>6, SumType
    <3>8. f[x] \in Int /\ f[b] \in Int
        BY <1>1, <2>1
    <3>9. sum((T \ {x}) \ {b}) = sum((T \ {b}) \ {x})
        BY <3>5
    <3> QED
        BY <2>2, <3>3, <3>4, <3>7, <3>8, <3>9
  <2> QED
    BY <2>3, <2>4
<1>2. P \in SUBSET SUBSET S
    OBVIOUS
<1>3. \A T \in SUBSET S : (\A U \in SUBSET T : U # T => U \in P) => T \in P
    BY <1>1
<1> HIDE DEF P
<1>4. S \in P
    BY <1>2, <1>3, StrictSubsetInduction
<1> QED
    BY <1>4 DEF P

\* Adding an element to the set adds its value to the sum.
LEMMA SumAdd ==
    ASSUME NEW f, NEW S, NEW a, IsFiniteSet(S), a \notin S, \A x \in S \cup {a} : f[x] \in Int
    PROVE  SumFunctionOnSet(f, S \cup {a}) = SumFunctionOnSet(f, S) + f[a]
<1>1. IsFiniteSet(S \cup {a}) /\ (S \cup {a}) \ {a} = S /\ a \in S \cup {a}
    BY FS_AddElement
<1>2. SumFunctionOnSet(f, S \cup {a}) = f[a] + SumFunctionOnSet(f, S)
    BY <1>1, SumRemove
<1>3. SumFunctionOnSet(f, S) \in Int /\ f[a] \in Int
    BY SumType
<1> QED
    BY <1>2, <1>3

\* Functions that agree on the set have the same sum over it.
LEMMA SumSame ==
    ASSUME NEW f, NEW g, NEW S, IsFiniteSet(S),
           \A x \in S : f[x] \in Int /\ g[x] = f[x]
    PROVE  SumFunctionOnSet(g, S) = SumFunctionOnSet(f, S)
<1> DEFINE P == {T \in SUBSET S : SumFunctionOnSet(g, T) = SumFunctionOnSet(f, T)}
<1>1. {} \in P
    BY SumEmpty
<1>2. ASSUME NEW T \in P, NEW x \in S, x \notin T PROVE T \cup {x} \in P
  <2>1. T \in SUBSET S /\ IsFiniteSet(T)
    BY FS_Subset
  <2>2. SumFunctionOnSet(f, T \cup {x}) = SumFunctionOnSet(f, T) + f[x]
    BY <1>2, <2>1, SumAdd
  <2>3. SumFunctionOnSet(g, T \cup {x}) = SumFunctionOnSet(g, T) + g[x]
    BY <1>2, <2>1, SumAdd
  <2> QED
    BY <2>1, <2>2, <2>3
<1>3. P \in SUBSET SUBSET S
    OBVIOUS
<1> HIDE DEF P
<1>4. S \in P
    BY <1>1, <1>2, <1>3, FiniteInduction
<1> QED
    BY <1>4 DEF P

\* Functions that agree everywhere but at one element differ by what they differ there.
LEMMA SumChange ==
    ASSUME NEW f, NEW g, NEW S, NEW a \in S, IsFiniteSet(S),
           \A x \in S : f[x] \in Int /\ g[x] \in Int,
           \A x \in S : x # a => g[x] = f[x]
    PROVE  SumFunctionOnSet(g, S) = SumFunctionOnSet(f, S) + g[a] - f[a]
<1>1. IsFiniteSet(S \ {a})
    BY FS_RemoveElement
<1>2. SumFunctionOnSet(g, S \ {a}) = SumFunctionOnSet(f, S \ {a})
    BY <1>1, SumSame
<1>3. SumFunctionOnSet(f, S) = f[a] + SumFunctionOnSet(f, S \ {a})
    BY SumRemove
<1>4. SumFunctionOnSet(g, S) = g[a] + SumFunctionOnSet(g, S \ {a})
    BY SumRemove
<1>5. SumFunctionOnSet(f, S \ {a}) \in Int /\ f[a] \in Int /\ g[a] \in Int
    BY <1>1, SumType
<1> QED
    BY <1>2, <1>3, <1>4, <1>5

\* The sum of two functions is the sum of their sums.
LEMMA SumPlus ==
    ASSUME NEW f, NEW g, NEW h, NEW S, IsFiniteSet(S),
           \A x \in S : f[x] \in Int /\ g[x] \in Int /\ h[x] = f[x] + g[x]
    PROVE  SumFunctionOnSet(h, S) = SumFunctionOnSet(f, S) + SumFunctionOnSet(g, S)
<1> DEFINE P == {T \in SUBSET S : SumFunctionOnSet(h, T)
                                    = SumFunctionOnSet(f, T) + SumFunctionOnSet(g, T)}
<1>1. {} \in P
    BY SumEmpty
<1>2. ASSUME NEW T \in P, NEW x \in S, x \notin T PROVE T \cup {x} \in P
  <2>1. T \in SUBSET S /\ IsFiniteSet(T)
    BY FS_Subset
  <2>2. SumFunctionOnSet(f, T \cup {x}) = SumFunctionOnSet(f, T) + f[x]
    BY <1>2, <2>1, SumAdd
  <2>3. SumFunctionOnSet(g, T \cup {x}) = SumFunctionOnSet(g, T) + g[x]
    BY <1>2, <2>1, SumAdd
  <2>4. SumFunctionOnSet(h, T \cup {x}) = SumFunctionOnSet(h, T) + h[x]
    <3>1. \A y \in T \cup {x} : h[y] \in Int
        BY <2>1
    <3> QED
        BY <1>2, <2>1, <3>1, SumAdd
  <2>5. SumFunctionOnSet(f, T) \in Int /\ SumFunctionOnSet(g, T) \in Int
    BY <2>1, SumType
  <2>6. SumFunctionOnSet(h, T) = SumFunctionOnSet(f, T) + SumFunctionOnSet(g, T)
    OBVIOUS
  <2>7. f[x] \in Int /\ g[x] \in Int /\ h[x] = f[x] + g[x]
    OBVIOUS
  <2>8. SumFunctionOnSet(h, T \cup {x})
          = SumFunctionOnSet(f, T \cup {x}) + SumFunctionOnSet(g, T \cup {x})
    BY <2>2, <2>3, <2>4, <2>5, <2>6, <2>7
  <2> QED
    BY <2>1, <2>8
<1>3. P \in SUBSET SUBSET S
    OBVIOUS
<1> HIDE DEF P
<1>4. S \in P
    BY <1>1, <1>2, <1>3, FiniteInduction
<1> QED
    BY <1>4 DEF P

\* Nothing adds up to nothing.
LEMMA SumZero ==
    ASSUME NEW f, NEW S, IsFiniteSet(S), \A x \in S : f[x] = 0
    PROVE  SumFunctionOnSet(f, S) = 0
<1> DEFINE P == {T \in SUBSET S : SumFunctionOnSet(f, T) = 0}
<1>1. {} \in P
    BY SumEmpty
<1>2. ASSUME NEW T \in P, NEW x \in S, x \notin T PROVE T \cup {x} \in P
  <2>1. T \in SUBSET S /\ IsFiniteSet(T)
    BY FS_Subset
  <2>2. \A y \in T \cup {x} : f[y] \in Int
    BY <2>1
  <2>3. SumFunctionOnSet(f, T \cup {x}) = SumFunctionOnSet(f, T) + f[x]
    BY <1>2, <2>1, <2>2, SumAdd
  <2> QED
    BY <2>1, <2>3
<1>3. P \in SUBSET SUBSET S
    OBVIOUS
<1> HIDE DEF P
<1>4. S \in P
    BY <1>1, <1>2, <1>3, FiniteInduction
<1> QED
    BY <1>4 DEF P

\* A sum of numbers that are not negative is not negative.
LEMMA SumNat ==
    ASSUME NEW f, NEW S, IsFiniteSet(S), \A x \in S : f[x] \in Nat
    PROVE  SumFunctionOnSet(f, S) \in Nat
<1> DEFINE P == {T \in SUBSET S : SumFunctionOnSet(f, T) \in Nat}
<1>1. {} \in P
    BY SumEmpty
<1>2. ASSUME NEW T \in P, NEW x \in S, x \notin T PROVE T \cup {x} \in P
  <2>1. T \in SUBSET S /\ IsFiniteSet(T)
    BY FS_Subset
  <2>2. \A y \in T \cup {x} : f[y] \in Int
    BY <2>1
  <2>3. SumFunctionOnSet(f, T \cup {x}) = SumFunctionOnSet(f, T) + f[x]
    BY <1>2, <2>1, <2>2, SumAdd
  <2> QED
    BY <2>1, <2>3
<1>3. P \in SUBSET SUBSET S
    OBVIOUS
<1> HIDE DEF P
<1>4. S \in P
    BY <1>1, <1>2, <1>3, FiniteInduction
<1> QED
    BY <1>4 DEF P

\* A part of a sum of numbers that are not negative is at most the whole.
LEMMA SumPart ==
    ASSUME NEW f, NEW S, IsFiniteSet(S), \A x \in S : f[x] \in Nat, NEW a \in S
    PROVE  f[a] <= SumFunctionOnSet(f, S)
<1>1. SumFunctionOnSet(f, S) = f[a] + SumFunctionOnSet(f, S \ {a})
    BY SumRemove
<1>2. SumFunctionOnSet(f, S \ {a}) \in Nat
    BY FS_RemoveElement, SumNat
<1> QED
    BY <1>1, <1>2

\* The sum over two sets that share nothing is the sum over each.
LEMMA SumUnion ==
    ASSUME NEW f, NEW S, NEW T, IsFiniteSet(S), IsFiniteSet(T), S \cap T = {},
           \A x \in S \cup T : f[x] \in Int
    PROVE  SumFunctionOnSet(f, S \cup T) = SumFunctionOnSet(f, S) + SumFunctionOnSet(f, T)
<1> DEFINE P == {U \in SUBSET T : SumFunctionOnSet(f, S \cup U)
                                    = SumFunctionOnSet(f, S) + SumFunctionOnSet(f, U)}
<1>1. {} \in P
  <2>1. SumFunctionOnSet(f, S) \in Int /\ S \cup {} = S
    BY SumType
  <2> QED
    BY <2>1, SumEmpty
<1>2. ASSUME NEW U \in P, NEW x \in T, x \notin U PROVE U \cup {x} \in P
  <2>1. U \in SUBSET T /\ IsFiniteSet(U) /\ IsFiniteSet(S \cup U)
    BY FS_Subset, FS_Union
  <2>2. SumFunctionOnSet(f, U \cup {x}) = SumFunctionOnSet(f, U) + f[x]
    <3>1. \A y \in U \cup {x} : f[y] \in Int
        BY <2>1
    <3> QED
        BY <1>2, <2>1, <3>1, SumAdd
  <2>3. SumFunctionOnSet(f, (S \cup U) \cup {x}) = SumFunctionOnSet(f, S \cup U) + f[x]
    <3> DEFINE W == S \cup U
    <3>1. IsFiniteSet(W) /\ x \notin W /\ \A y \in W \cup {x} : f[y] \in Int
        BY <1>2, <2>1
    <3> HIDE DEF W
    <3>2. SumFunctionOnSet(f, W \cup {x}) = SumFunctionOnSet(f, W) + f[x]
        BY <3>1, SumAdd
    <3> QED
        BY <3>2 DEF W
  <2>4. S \cup (U \cup {x}) = (S \cup U) \cup {x}
    OBVIOUS
  <2>5. /\ SumFunctionOnSet(f, S) \in Int /\ SumFunctionOnSet(f, U) \in Int /\ f[x] \in Int
        /\ SumFunctionOnSet(f, S \cup U) = SumFunctionOnSet(f, S) + SumFunctionOnSet(f, U)
    <3>1. \A y \in U : f[y] \in Int
        BY <2>1
    <3> QED
        BY <2>1, <3>1, SumType
  <2>6. SumFunctionOnSet(f, S \cup (U \cup {x}))
          = SumFunctionOnSet(f, S) + SumFunctionOnSet(f, U \cup {x})
    <3>1. SumFunctionOnSet(f, S \cup (U \cup {x})) = SumFunctionOnSet(f, (S \cup U) \cup {x})
        BY <2>4
    <3> HIDE DEF P
    <3> QED
        BY <2>2, <2>3, <2>5, <3>1
  <2> QED
    BY <2>1, <2>6
<1>3. P \in SUBSET SUBSET T
    OBVIOUS
<1> HIDE DEF P
<1>4. T \in P
    BY <1>1, <1>2, <1>3, FiniteInduction
<1> QED
    BY <1>4 DEF P

=============================================================================
