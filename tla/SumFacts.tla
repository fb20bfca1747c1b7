------------------------------ MODULE SumFacts ------------------------------
(***************************************************************************)
(* Sums of the integers that a function takes on a finite set.  The folds  *)
(* of the library are recursive functions; what they compute is shown here *)
(* once, by induction over the subsets of the set, and cited elsewhere.    *)
(***************************************************************************)
EXTENDS Integers, FiniteSets, Functions, FiniteSetTheorems, WellFoundedInduction, TLAPS

\* Induction over the subsets of a finite set, with the set of those for which the claim
\* holds in place of the claim.
LEMMA SubsetInduction ==
  ASSUME NEW S, IsFiniteSet(S), NEW Good,
         \A T \in SUBSET S : (\A U \in SUBSET T : U # T => U \in Good) => T \in Good
  PROVE  S \in Good
<1> DEFINE Bad == {T \in SUBSET S : T \notin Good}
           Less == StrictSubsetOrdering(S)
<1>1. IsWellFoundedOn(Less, SUBSET S)
  BY FS_StrictSubsetOrderingWellFounded, FS_FiniteSubsetsOfFinite
<1>2. ASSUME Bad # {}
      PROVE  FALSE
  <2>1. PICK T \in Bad : \A U \in Bad : <<U, T>> \notin Less
    <3>1. Bad \subseteq SUBSET S
      OBVIOUS
    <3> HIDE DEF Less, Bad
    <3> QED
      BY <1>1, <1>2, <3>1, WFMin
  <2>2. \A U \in SUBSET T : U # T => U \in Good
    BY <2>1 DEF StrictSubsetOrdering
  <2> QED
    BY <2>1, <2>2
<1> QED
  BY <1>2

\* The equation that the recursive function of a sum over S is chosen to satisfy.
IsSum(iter, fun, S) ==
  iter = [s \in SUBSET S |->
            IF s = {} THEN 0 ELSE fun[CHOOSE x \in s : TRUE] + iter[s \ {CHOOSE x \in s : TRUE}]]

\* The sum of the library is the value of the function chosen by that equation.
LEMMA SumIsChosen ==
  ASSUME NEW fun, NEW S
  PROVE  SumFunctionOnSet(fun, S) = (CHOOSE iter : IsSum(iter, fun, S))[S]
BY DEF SumFunctionOnSet, FoldFunctionOnSet, MapThenFoldSet, IsSum

\* What the equation says of one subset.
LEMMA SumStep ==
  ASSUME NEW iter, NEW fun, NEW S, IsSum(iter, fun, S), NEW s \in SUBSET S
  PROVE  iter[s] = IF s = {} THEN 0
                   ELSE fun[CHOOSE x \in s : TRUE] + iter[s \ {CHOOSE x \in s : TRUE}]
<1> DEFINE made == [u \in SUBSET S |->
                      IF u = {} THEN 0 ELSE fun[CHOOSE x \in u : TRUE] + iter[u \ {CHOOSE x \in u : TRUE}]]
<1>1. iter = made
  BY DEF IsSum
<1>2. made[s] = IF s = {} THEN 0
                ELSE fun[CHOOSE x \in s : TRUE] + iter[s \ {CHOOSE x \in s : TRUE}]
  OBVIOUS
<1> HIDE DEF made
<1> QED
  BY <1>1, <1>2, Zenon

\* At most one function satisfies it.
LEMMA SumIsUnique ==
  ASSUME NEW fun, NEW S, IsFiniteSet(S), NEW g, NEW h, IsSum(g, fun, S), IsSum(h, fun, S)
  PROVE  g[S] = h[S]
<1> DEFINE Good == {T \in SUBSET S : g[T] = h[T]}
<1>1. ASSUME NEW T \in SUBSET S, \A U \in SUBSET T : U # T => U \in Good
      PROVE  T \in Good
  <2>1. CASE T = {}
    BY <2>1, SumStep
  <2>2. CASE T # {}
    <3> DEFINE c == CHOOSE x \in T : TRUE
    <3>1. c \in T /\ T \ {c} \in SUBSET T /\ T \ {c} # T /\ T \ {c} \in SUBSET S
      BY <2>2
    <3>2. g[T] = fun[c] + g[T \ {c}] /\ h[T] = fun[c] + h[T \ {c}]
      BY <2>2, SumStep
    <3>3. g[T \ {c}] = h[T \ {c}]
      BY <1>1, <3>1
    <3> QED
      BY <3>2, <3>3
  <2> QED
    BY <2>1, <2>2
<1> HIDE DEF Good
<1>2. S \in Good
  BY <1>1, SubsetInduction
<1> QED
  BY <1>2 DEF Good

\* The sum satisfies its equation.
LEMMA SumUnfolds ==
  ASSUME NEW fun, NEW S, IsFiniteSet(S)
  PROVE  SumFunctionOnSet(fun, S) =
           IF S = {} THEN 0
           ELSE fun[CHOOSE x \in S : TRUE] + SumFunctionOnSet(fun, S \ {CHOOSE x \in S : TRUE})
<1> DEFINE c(T) == CHOOSE x \in T : TRUE
           Total(T) == SumFunctionOnSet(fun, T)
           Right(T) == IF T = {} THEN 0 ELSE fun[c(T)] + Total(T \ {c(T)})
           Good == {T \in SUBSET S : Total(T) = Right(T)}
<1>1. ASSUME NEW T \in SUBSET S, \A U \in SUBSET T : U # T => U \in Good
      PROVE  T \in Good
  <2> DEFINE g == [U \in SUBSET T |-> IF U = T THEN Right(T) ELSE Total(U)]
  <2>1. \A U \in SUBSET T : g[U] = IF U = {} THEN 0 ELSE fun[c(U)] + g[U \ {c(U)}]
    <3> TAKE U \in SUBSET T
    <3>1. g[U] = Right(U)
      <4>1. U # T => Total(U) = Right(U)
        BY <1>1
      <4> HIDE DEF Right, Total
      <4> QED
        BY <4>1
    <3>2. U # {} => U \ {c(U)} \in SUBSET T /\ U \ {c(U)} # T
      OBVIOUS
    <3>3. U # {} => g[U \ {c(U)}] = Total(U \ {c(U)})
      BY <3>2
    <3> QED
      BY <3>1, <3>3
  <2>2. IsSum(g, fun, T)
    <3> DEFINE made == [U \in SUBSET T |-> IF U = {} THEN 0 ELSE fun[c(U)] + g[U \ {c(U)}]]
    <3>1. g = made
      BY <2>1
    <3> QED
      BY <3>1, Zenon DEF IsSum
  <2>3. IsSum(CHOOSE iter : IsSum(iter, fun, T), fun, T)
    BY <2>2, Zenon
  <2>4. IsFiniteSet(T)
    BY FS_Subset
  <2>5. (CHOOSE iter : IsSum(iter, fun, T))[T] = g[T]
    <3> HIDE DEF g
    <3> QED
      BY <2>2, <2>3, <2>4, SumIsUnique, Zenon
  <2>6. Total(T) = Right(T)
    BY <2>5, SumIsChosen
  <2> QED
    BY <2>6
<1> HIDE DEF Good
<1>2. S \in Good
  BY <1>1, SubsetInduction
<1> QED
  BY <1>2 DEF Good

\* A sum over nothing.
LEMMA SumOfNone ==
  ASSUME NEW fun
  PROVE  SumFunctionOnSet(fun, {}) = 0
BY SumUnfolds, FS_EmptySet

\* A sum of integers is one, and any of them can be taken out of it.
LEMMA SumTakesOut ==
  ASSUME NEW S, IsFiniteSet(S), NEW fun, \A x \in S : fun[x] \in Int
  PROVE  /\ SumFunctionOnSet(fun, S) \in Int
         /\ \A x \in S : SumFunctionOnSet(fun, S) = fun[x] + SumFunctionOnSet(fun, S \ {x})
<1> DEFINE Total(T) == SumFunctionOnSet(fun, T)
           Good == {T \in SUBSET S : Total(T) \in Int /\ \A x \in T : Total(T) = fun[x] + Total(T \ {x})}
<1>1. ASSUME NEW T \in SUBSET S, \A U \in SUBSET T : U # T => U \in Good
      PROVE  T \in Good
  <2> HIDE DEF Total
  <2>1. CASE T = {}
    BY <2>1, SumOfNone DEF Total
  <2>2. CASE T # {}
    <3> DEFINE c == CHOOSE y \in T : TRUE
    <3>1. c \in T
      BY <2>2
    <3>2. Total(T) = fun[c] + Total(T \ {c})
      BY <2>2, SumUnfolds, FS_Subset DEF Total
    <3> HIDE DEF c
    <3>3. T \ {c} \in Good
      BY <1>1, <3>1
    <3>4. Total(T) \in Int
      BY <3>1, <3>2, <3>3
    <3>5. ASSUME NEW x \in T
          PROVE  Total(T) = fun[x] + Total(T \ {x})
      <4>1. CASE x = c
        BY <3>2, <4>1
      <4>2. CASE x # c
        <5>1. x \in T \ {c} /\ c \in T \ {x}
          BY <3>1, <4>2
        <5>2. T \ {x} \in Good
          BY <1>1
        <5>3. Total(T \ {c}) = fun[x] + Total((T \ {c}) \ {x})
          BY <3>3, <5>1
        <5>4. Total(T \ {x}) = fun[c] + Total((T \ {x}) \ {c})
          BY <5>1, <5>2
        <5>5. (T \ {c}) \ {x} = (T \ {x}) \ {c}
          OBVIOUS
        <5>6. (T \ {c}) \ {x} \in Good
          BY <1>1, <3>1
        <5>7. fun[x] \in Int /\ fun[c] \in Int /\ Total((T \ {c}) \ {x}) \in Int
          BY <3>1, <5>6
        <5>8. Total(T \ {x}) = fun[c] + Total((T \ {c}) \ {x})
          BY <5>4, <5>5
        <5> HIDE DEF Good
        <5> DEFINE rest == Total((T \ {c}) \ {x})
        <5>9. rest \in Int /\ Total(T) = fun[c] + (fun[x] + rest)
          BY <3>2, <5>3, <5>7
        <5>10. Total(T \ {x}) = fun[c] + rest
          BY <5>8
        <5> HIDE DEF rest
        <5> QED
          BY <5>7, <5>9, <5>10
      <4> QED
        BY <4>1, <4>2
    <3> QED
      BY <3>4, <3>5
  <2> QED
    BY <2>1, <2>2
<1> HIDE DEF Good
<1>2. S \in Good
  BY <1>1, SubsetInduction
<1> QED
  BY <1>2 DEF Good

\* One element more.
LEMMA SumAddsOne ==
  ASSUME NEW S, IsFiniteSet(S), NEW x, x \notin S, NEW fun, \A y \in S \cup {x} : fun[y] \in Int
  PROVE  SumFunctionOnSet(fun, S \cup {x}) = fun[x] + SumFunctionOnSet(fun, S)
<1>1. IsFiniteSet(S \cup {x})
  BY FS_AddElement
<1>2. (S \cup {x}) \ {x} = S
  OBVIOUS
<1> QED
  BY <1>1, <1>2, SumTakesOut

\* The sum depends on the values at the elements of the set alone.
LEMMA SumOfEqual ==
  ASSUME NEW S, IsFiniteSet(S), NEW f, NEW g, \A x \in S : f[x] \in Int /\ g[x] = f[x]
  PROVE  SumFunctionOnSet(g, S) = SumFunctionOnSet(f, S)
<1> DEFINE Good == {T \in SUBSET S : SumFunctionOnSet(g, T) = SumFunctionOnSet(f, T)}
<1>1. ASSUME NEW T \in SUBSET S, \A U \in SUBSET T : U # T => U \in Good
      PROVE  T \in Good
  <2>1. CASE T = {}
    BY <2>1, SumOfNone
  <2>2. CASE T # {}
    <3>1. PICK x \in T : TRUE
      BY <2>2
    <3>2. IsFiniteSet(T)
      BY FS_Subset
    <3>3. SumFunctionOnSet(g, T) = g[x] + SumFunctionOnSet(g, T \ {x})
      BY <3>2, SumTakesOut
    <3>4. SumFunctionOnSet(f, T) = f[x] + SumFunctionOnSet(f, T \ {x})
      BY <3>2, SumTakesOut
    <3>5. T \ {x} \in Good
      BY <1>1
    <3> QED
      BY <3>3, <3>4, <3>5
  <2> QED
    BY <2>1, <2>2
<1> HIDE DEF Good
<1>2. S \in Good
  BY <1>1, SubsetInduction
<1> QED
  BY <1>2 DEF Good
=============================================================================
