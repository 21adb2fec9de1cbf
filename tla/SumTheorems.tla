---------------------------- MODULE SumTheorems ----------------------------
(***************************************************************************)
(* What the sums of the models are, whatever the order in which the fold   *)
(* of the community modules takes the elements of a finite set.  The       *)
(* induction theorems of the library have an operator as a parameter, so   *)
(* that no prover instantiates them; SubsetInduction says the same of a    *)
(* set of subsets, from the well-foundedness of strict inclusion.          *)
(***************************************************************************)
EXTENDS Integers, FiniteSets, Functions, FiniteSetTheorems, TLAPS

-----------------------------------------------------------------------------
(* Induction over the subsets of a finite set *)

\* What holds of the empty set, and of a set whenever it holds of the set
\* without any one of its elements, holds of every subset of a finite set.
LEMMA SubsetInduction ==
  ASSUME NEW S, IsFiniteSet(S), NEW A,
         {} \in A,
         \A T \in SUBSET S : T # {} /\ (\A x \in T : T \ {x} \in A) => T \in A
  PROVE  \A T \in SUBSET S : T \in A
  <1> DEFINE R == StrictSubsetOrdering(S)
             Bad == (SUBSET S) \ A
  <1>1. IsWellFoundedOn(R, SUBSET S)
    BY FS_StrictSubsetOrderingWellFounded, FS_FiniteSubsetsOfFinite
  <1>2. SUFFICES ASSUME Bad # {} PROVE FALSE
    OBVIOUS
  <1>3. PICK T \in Bad : \A U \in Bad : <<U, T>> \notin R
    <2> HIDE DEF R, Bad
    <2>1. Bad \subseteq SUBSET S
      BY DEF Bad
    <2>2. QED
      BY <1>1, <1>2, <2>1, WFMin
  <1>4. T # {}
    BY <1>3
  <1>5. PICK x \in T : T \ {x} \notin A
    BY <1>3, <1>4
  <1>6. T \ {x} \in Bad
    BY <1>3, <1>5
  <1>7. <<T \ {x}, T>> \in R
    BY <1>3, <1>5, <1>6 DEF StrictSubsetOrdering
  <1>8. QED
    BY <1>3, <1>6, <1>7

-----------------------------------------------------------------------------
(* Extremes *)

LEMMA LeastExists ==
  ASSUME NEW f, NEW S, IsFiniteSet(S), S # {}, \A x \in S : f[x] \in Int
  PROVE  \E m \in S : \A x \in S : f[m] <= f[x]
  <1> DEFINE Least(T, m) == \A x \in T : f[m] <= f[x]
             A == {T \in SUBSET S : T # {} => \E m \in T : Least(T, m)}
  <1>1. {} \in A
    OBVIOUS
  <1>2. ASSUME NEW T \in SUBSET S, T # {}, \A x \in T : T \ {x} \in A
        PROVE  T \in A
    <2>1. PICK x \in T : TRUE
      BY <1>2
    <2>2. CASE T \ {x} = {}
      <3>1. Least(T, x)
        BY <2>2
      <3>2. QED
        BY <2>1, <3>1
    <2>3. CASE T \ {x} # {}
      <3>1. PICK m \in T \ {x} : Least(T \ {x}, m)
        BY <1>2, <2>1, <2>3
      <3>2. CASE f[m] <= f[x]
        <4>1. Least(T, m)
          BY <3>1, <3>2
        <4>2. QED
          BY <3>1, <4>1
      <3>3. CASE f[x] <= f[m]
        <4>1. Least(T, x)
          BY <2>1, <3>1, <3>3
        <4>2. QED
          BY <2>1, <4>1
      <3>4. QED
        BY <2>1, <3>1, <3>2, <3>3
    <2>4. QED
      BY <2>2, <2>3
  <1>3. \A T \in SUBSET S : T \in A
    <2> HIDE DEF A
    <2>1. QED
      BY <1>1, <1>2, SubsetInduction
  <1>4. QED
    BY <1>3

LEMMA GreatestExists ==
  ASSUME NEW f, NEW S, IsFiniteSet(S), S # {}, \A x \in S : f[x] \in Int
  PROVE  \E m \in S : \A x \in S : f[x] <= f[m]
  <1> DEFINE g == [x \in S |-> 0 - f[x]]
  <1>1. \A x \in S : g[x] = 0 - f[x] /\ g[x] \in Int
    OBVIOUS
  <1>2. PICK m \in S : \A x \in S : g[m] <= g[x]
    <2> HIDE DEF g
    <2>1. QED
      BY <1>1, LeastExists
  <1>3. \A x \in S : f[x] <= f[m]
    BY <1>2
  <1>4. QED
    BY <1>3

-----------------------------------------------------------------------------
(* The fold is well defined *)

\* The element the fold takes first.
Pick(s) == CHOOSE x \in s : TRUE

\* The function g adds up f over the subsets of T.
AddsUp(g, f, T) ==
  g = [s \in SUBSET T |-> IF s = {} THEN 0 ELSE f[Pick(s)] + g[s \ {Pick(s)}]]

LEMMA PickIsIn == \A s : s # {} => Pick(s) \in s
  BY DEF Pick

\* Two functions that add up f agree where both are defined.
LEMMA AddsUpUnique ==
  ASSUME NEW f, NEW S, IsFiniteSet(S), NEW T, NEW g, NEW h,
         AddsUp(g, f, S), AddsUp(h, f, T)
  PROVE  \A s \in (SUBSET S) \cap (SUBSET T) : g[s] = h[s]
  <1> DEFINE A == {s \in SUBSET S : s \in SUBSET T => g[s] = h[s]}
  <1>1. \A s \in SUBSET S : g[s] = IF s = {} THEN 0 ELSE f[Pick(s)] + g[s \ {Pick(s)}]
    BY DEF AddsUp
  <1>2. \A s \in SUBSET T : h[s] = IF s = {} THEN 0 ELSE f[Pick(s)] + h[s \ {Pick(s)}]
    BY DEF AddsUp
  <1>3. {} \in A
    BY <1>1, <1>2
  <1>4. ASSUME NEW s \in SUBSET S, s # {}, \A x \in s : s \ {x} \in A
        PROVE  s \in A
    <2>1. Pick(s) \in s
      BY <1>4, PickIsIn
    <2>2. s \ {Pick(s)} \in A
      BY <1>4, <2>1
    <2>3. ASSUME s \in SUBSET T PROVE g[s] = h[s]
      <3>1. s \ {Pick(s)} \in SUBSET T
        BY <2>3
      <3>2. g[s \ {Pick(s)}] = h[s \ {Pick(s)}]
        BY <2>2, <3>1
      <3>3. QED
        BY <1>1, <1>2, <1>4, <2>3, <3>2
    <2>4. QED
      BY <2>3
  <1>5. \A s \in SUBSET S : s \in A
    <2> HIDE DEF A
    <2>1. QED
      BY <1>3, <1>4, SubsetInduction
  <1>6. QED
    BY <1>5

\* Such a function exists over every finite set.
LEMMA AddsUpExists ==
  ASSUME NEW f, NEW S, IsFiniteSet(S)
  PROVE  \E g : AddsUp(g, f, S)
  <1> DEFINE A == {T \in SUBSET S : \A U \in SUBSET T : \E g : AddsUp(g, f, U)}
  <1>1. {} \in A
    <2>1. AddsUp([s \in SUBSET {} |-> 0], f, {})
      BY DEF AddsUp
    <2>2. QED
      BY <2>1
  <1>2. ASSUME NEW T \in SUBSET S, T # {}, \A x \in T : T \ {x} \in A
        PROVE  T \in A
    <2>1. \A U \in SUBSET T : U # T => \E g : AddsUp(g, f, U)
      <3> SUFFICES ASSUME NEW U \in SUBSET T, U # T PROVE \E g : AddsUp(g, f, U)
        OBVIOUS
      <3>1. PICK x \in T : x \notin U
        OBVIOUS
      <3>2. U \in SUBSET (T \ {x}) /\ T \ {x} \in A
        BY <1>2, <3>1
      <3>3. QED
        BY <3>2
    <2> DEFINE H == [U \in SUBSET T |-> CHOOSE g : AddsUp(g, f, U)]
               part(s) == H[s][s]
               g == [s \in SUBSET T |->
                      IF s # T THEN part(s)
                      ELSE f[Pick(T)] + part(T \ {Pick(T)})]
    <2>2. \A U \in SUBSET T : U # T => AddsUp(H[U], f, U)
      BY <2>1
    <2>3. Pick(T) \in T
      BY <1>2, PickIsIn
    <2>4. ASSUME NEW s \in SUBSET T
          PROVE  g[s] = IF s = {} THEN 0 ELSE f[Pick(s)] + g[s \ {Pick(s)}]
      <3>1. CASE s = T
        BY <1>2, <2>3, <3>1
      <3>2. CASE s # T
        <4>1. AddsUp(H[s], f, s)
          BY <2>2, <3>2
        <4>2. H[s][s] = IF s = {} THEN 0 ELSE f[Pick(s)] + H[s][s \ {Pick(s)}]
          <5> HIDE DEF H
          <5>1. QED
            BY <4>1 DEF AddsUp
        <4>3. CASE s = {}
          BY <3>2, <4>2, <4>3
        <4>4. CASE s # {}
          <5> DEFINE u == s \ {Pick(s)}
          <5>1. Pick(s) \in s
            BY <4>4, PickIsIn
          <5>2. u \in SUBSET T /\ u # T /\ u \in SUBSET s
            BY <5>1
          <5>3. AddsUp(H[u], f, u)
            BY <2>2, <5>2
          <5>4. IsFiniteSet(s)
            BY FS_Subset
          <5>5. H[s][u] = H[u][u]
            <6> HIDE DEF H, u
            <6>1. \A v \in (SUBSET s) \cap (SUBSET u) : H[s][v] = H[u][v]
              BY <4>1, <5>3, <5>4, AddsUpUnique
            <6>2. QED
              BY <5>2, <6>1
          <5>6. g[s] = H[s][s] /\ g[u] = H[u][u]
            BY <3>2, <5>2
          <5>7. QED
            BY <4>2, <4>4, <5>5, <5>6
        <4>5. QED
          BY <4>3, <4>4
      <3>3. QED
        BY <3>1, <3>2
    <2>5. AddsUp(g, f, T)
      <3>1. g = [s \in SUBSET T |-> g[s]]
        OBVIOUS
      <3> HIDE DEF g
      <3>2. [s \in SUBSET T |-> g[s]]
              = [s \in SUBSET T |-> IF s = {} THEN 0 ELSE f[Pick(s)] + g[s \ {Pick(s)}]]
        BY <2>4
      <3>3. QED
        BY <3>1, <3>2 DEF AddsUp
    <2>6. QED
      BY <2>1, <2>5
  <1>3. \A T \in SUBSET S : T \in A
    <2> HIDE DEF A
    <2>1. QED
      BY <1>1, <1>2, SubsetInduction
  <1>4. QED
    BY <1>3

\* The sum of the community modules is the value of such a function.
LEMMA SumAddsUp ==
  ASSUME NEW f, NEW S, IsFiniteSet(S)
  PROVE  \E g : AddsUp(g, f, S) /\ SumFunctionOnSet(f, S) = g[S]
  <1> DEFINE iter == CHOOSE g : AddsUp(g, f, S)
  <1>1. AddsUp(iter, f, S)
    BY AddsUpExists
  <1>2. SumFunctionOnSet(f, S) = iter[S]
    BY DEF SumFunctionOnSet, FoldFunctionOnSet, MapThenFoldSet, AddsUp, Pick
  <1>3. QED
    BY <1>1, <1>2

-----------------------------------------------------------------------------
(* Sums *)

LEMMA SumEmpty == \A f : SumFunctionOnSet(f, {}) = 0
  <1> SUFFICES ASSUME NEW f PROVE SumFunctionOnSet(f, {}) = 0
    OBVIOUS
  <1>1. PICK g : AddsUp(g, f, {}) /\ SumFunctionOnSet(f, {}) = g[{}]
    BY SumAddsUp, FS_EmptySet
  <1>2. QED
    BY <1>1 DEF AddsUp

LEMMA SumPick ==
  ASSUME NEW f, NEW S, IsFiniteSet(S), S # {}
  PROVE  SumFunctionOnSet(f, S) = f[Pick(S)] + SumFunctionOnSet(f, S \ {Pick(S)})
  <1> DEFINE U == S \ {Pick(S)}
  <1>1. IsFiniteSet(U)
    BY FS_Subset
  <1>2. PICK g : AddsUp(g, f, S) /\ SumFunctionOnSet(f, S) = g[S]
    BY SumAddsUp
  <1>3. PICK h : AddsUp(h, f, U) /\ SumFunctionOnSet(f, U) = h[U]
    BY <1>1, SumAddsUp
  <1>4. g[S] = f[Pick(S)] + g[U]
    BY <1>2 DEF AddsUp
  <1>5. \A s \in (SUBSET S) \cap (SUBSET U) : g[s] = h[s]
    <2> HIDE DEF U
    <2>1. QED
      BY <1>2, <1>3, AddsUpUnique
  <1>6. g[U] = h[U]
    BY <1>5
  <1>7. QED
    BY <1>2, <1>3, <1>4, <1>6

\* A sum of integers is one, and of naturals too.
LEMMA SumType ==
  ASSUME NEW f, NEW S, IsFiniteSet(S), NEW N, N \in {Int, Nat}, \A x \in S : f[x] \in N
  PROVE  SumFunctionOnSet(f, S) \in N
  <1> DEFINE A == {T \in SUBSET S : SumFunctionOnSet(f, T) \in N}
  <1>1. {} \in A
    BY SumEmpty
  <1>2. ASSUME NEW T \in SUBSET S, T # {}, \A x \in T : T \ {x} \in A
        PROVE  T \in A
    <2>1. Pick(T) \in T
      BY <1>2, PickIsIn
    <2>2. SumFunctionOnSet(f, T \ {Pick(T)}) \in N
      BY <1>2, <2>1
    <2>3. IsFiniteSet(T)
      BY FS_Subset
    <2>4. SumFunctionOnSet(f, T) = f[Pick(T)] + SumFunctionOnSet(f, T \ {Pick(T)})
      BY <1>2, <2>3, SumPick
    <2>5. f[Pick(T)] \in N
      BY <2>1
    <2>6. \A a, b \in N : a + b \in N
      OBVIOUS
    <2>7. QED
      BY <2>2, <2>4, <2>5, <2>6
  <1>3. \A T \in SUBSET S : T \in A
    <2> HIDE DEF A
    <2>1. QED
      BY <1>1, <1>2, SubsetInduction
  <1>4. QED
    BY <1>3

\* The sum does not depend on the element that is taken first.
LEMMA SumRemove ==
  ASSUME NEW f, NEW S, IsFiniteSet(S), \A x \in S : f[x] \in Int, NEW x \in S
  PROVE  SumFunctionOnSet(f, S) = f[x] + SumFunctionOnSet(f, S \ {x})
  <1> DEFINE sum(T) == SumFunctionOnSet(f, T)
             A == {T \in SUBSET S : \A y \in T : sum(T) = f[y] + sum(T \ {y})}
  <1>0. \A T \in SUBSET S : IsFiniteSet(T) /\ sum(T) \in Int
    BY FS_Subset, SumType
  <1>1. {} \in A
    OBVIOUS
  <1>2. ASSUME NEW T \in SUBSET S, T # {}, \A y \in T : T \ {y} \in A
        PROVE  T \in A
    <2> SUFFICES ASSUME NEW y \in T PROVE sum(T) = f[y] + sum(T \ {y})
      OBVIOUS
    <2> DEFINE p == Pick(T)
    <2>1. p \in T /\ sum(T) = f[p] + sum(T \ {p})
      BY <1>0, <1>2, PickIsIn, SumPick
    <2>2. CASE y = p
      BY <2>1, <2>2
    <2>3. CASE y # p
      <3> HIDE DEF p
      <3>1. sum(T \ {p}) = f[y] + sum((T \ {p}) \ {y})
        BY <1>2, <2>1, <2>3
      <3>2. sum(T \ {y}) = f[p] + sum((T \ {y}) \ {p})
        BY <1>2, <2>1, <2>3
      <3>3. sum((T \ {p}) \ {y}) = sum((T \ {y}) \ {p})
        <4>1. (T \ {p}) \ {y} = (T \ {y}) \ {p}
          OBVIOUS
        <4>2. QED
          BY <4>1
      <3>4. sum((T \ {y}) \ {p}) \in Int /\ f[y] \in Int /\ f[p] \in Int
        BY <1>0, <2>1
      <3>5. QED
        <4> HIDE DEF sum
        <4>1. QED
          BY <2>1, <3>1, <3>2, <3>3, <3>4
    <2>4. QED
      BY <2>2, <2>3
  <1>3. \A T \in SUBSET S : T \in A
    <2> HIDE DEF A
    <2>1. QED
      BY <1>1, <1>2, SubsetInduction
  <1>4. QED
    BY <1>3

LEMMA SumAdd ==
  ASSUME NEW f, NEW S, IsFiniteSet(S), NEW x, x \notin S,
         \A y \in S \cup {x} : f[y] \in Int
  PROVE  SumFunctionOnSet(f, S \cup {x}) = f[x] + SumFunctionOnSet(f, S)
  <1>1. IsFiniteSet(S \cup {x})
    BY FS_AddElement
  <1>2. (S \cup {x}) \ {x} = S
    OBVIOUS
  <1> DEFINE U == S \cup {x}
  <1>3. SumFunctionOnSet(f, U) = f[x] + SumFunctionOnSet(f, U \ {x})
    <2>1. x \in U /\ \A y \in U : f[y] \in Int
      OBVIOUS
    <2> HIDE DEF U
    <2>2. QED
      BY <1>1, <2>1, SumRemove DEF U
  <1>4. QED
    BY <1>2, <1>3

\* Only the values summed count.
LEMMA SumSame ==
  ASSUME NEW f, NEW g, NEW S, IsFiniteSet(S), \A x \in S : f[x] = g[x]
  PROVE  SumFunctionOnSet(f, S) = SumFunctionOnSet(g, S)
  <1> DEFINE A == {T \in SUBSET S : SumFunctionOnSet(f, T) = SumFunctionOnSet(g, T)}
  <1>1. {} \in A
    BY SumEmpty
  <1>2. ASSUME NEW T \in SUBSET S, T # {}, \A x \in T : T \ {x} \in A
        PROVE  T \in A
    <2>1. Pick(T) \in T
      BY <1>2, PickIsIn
    <2>2. SumFunctionOnSet(f, T \ {Pick(T)}) = SumFunctionOnSet(g, T \ {Pick(T)})
      BY <1>2, <2>1
    <2>3. IsFiniteSet(T)
      BY FS_Subset
    <2>4. SumFunctionOnSet(f, T) = f[Pick(T)] + SumFunctionOnSet(f, T \ {Pick(T)})
      BY <1>2, <2>3, SumPick
    <2>5. SumFunctionOnSet(g, T) = g[Pick(T)] + SumFunctionOnSet(g, T \ {Pick(T)})
      BY <1>2, <2>3, SumPick
    <2>6. QED
      BY <2>1, <2>2, <2>4, <2>5
  <1>3. \A T \in SUBSET S : T \in A
    <2> HIDE DEF A
    <2>1. QED
      BY <1>1, <1>2, SubsetInduction
  <1>4. QED
    BY <1>3

\* The sum of a function is that of any function with the same values.
LEMMA SumOfFunction ==
  ASSUME NEW f, NEW g, IsFiniteSet(DOMAIN g), \A x \in DOMAIN g : g[x] = f[x]
  PROVE  SumFunction(g) = SumFunctionOnSet(f, DOMAIN g)
  BY SumSame DEF SumFunction

\* Fewer naturals add up to no more.
LEMMA SumSubset ==
  ASSUME NEW f, NEW S, IsFiniteSet(S), \A x \in S : f[x] \in Nat, NEW T \in SUBSET S
  PROVE  SumFunctionOnSet(f, T) <= SumFunctionOnSet(f, S)
  <1> DEFINE sum(U) == SumFunctionOnSet(f, U)
             A == {U \in SUBSET S : sum(U \cap T) <= sum(U)}
  <1>0. \A U \in SUBSET S : IsFiniteSet(U) /\ sum(U) \in Nat /\ \A x \in U : f[x] \in Int
    <2> SUFFICES ASSUME NEW U \in SUBSET S
                 PROVE  IsFiniteSet(U) /\ sum(U) \in Nat /\ \A x \in U : f[x] \in Int
      OBVIOUS
    <2>1. IsFiniteSet(U)
      BY FS_Subset
    <2>2. sum(U) \in Nat
      BY <2>1, SumType
    <2>3. QED
      BY <2>1, <2>2
  <1>1. {} \in A
    <2>1. {} \cap T = {} /\ sum({}) = 0
      BY SumEmpty
    <2>2. QED
      BY <2>1
  <1>2. ASSUME NEW U \in SUBSET S, U # {}, \A x \in U : U \ {x} \in A
        PROVE  U \in A
    <2>1. PICK x \in U : TRUE
      BY <1>2
    <2>2. sum((U \ {x}) \cap T) <= sum(U \ {x})
      BY <1>2, <2>1
    <2>3. sum(U) = f[x] + sum(U \ {x})
      BY <1>0, <2>1, SumRemove
    <2>4. sum(U \ {x}) \in Nat /\ sum(U) \in Nat /\ f[x] \in Nat
          /\ sum((U \ {x}) \cap T) \in Nat /\ sum(U \cap T) \in Nat
      BY <1>0, <2>1
    <2>5. CASE x \in T
      <3>1. sum(U \cap T) = f[x] + sum((U \cap T) \ {x})
        <4>1. x \in U \cap T /\ U \cap T \in SUBSET S
          BY <2>1, <2>5
        <4>2. QED
          BY <1>0, <4>1, SumRemove
      <3>2. (U \cap T) \ {x} = (U \ {x}) \cap T
        OBVIOUS
      <3>3. sum(U \cap T) = f[x] + sum((U \ {x}) \cap T)
        BY <3>1, <3>2
      <3>4. sum(U \cap T) <= sum(U)
        <4> HIDE DEF sum
        <4>1. QED
          BY <2>2, <2>3, <2>4, <3>3
      <3>5. QED
        BY <3>4
    <2>6. CASE x \notin T
      <3>1. U \cap T = (U \ {x}) \cap T
        BY <2>6
      <3>2. sum(U \cap T) <= sum(U \ {x})
        BY <2>2, <3>1
      <3>3. sum(U \cap T) <= sum(U)
        <4> HIDE DEF sum
        <4>1. QED
          BY <2>3, <2>4, <3>2
      <3>4. QED
        BY <3>3
    <2>7. QED
      BY <2>5, <2>6
  <1>3. \A U \in SUBSET S : U \in A
    <2> HIDE DEF A
    <2>1. QED
      BY <1>1, <1>2, SubsetInduction
  <1>4. S \cap T = T /\ S \in A
    BY <1>3
  <1>5. QED
    BY <1>4

\* A sum is as large as its least value each time, and no larger than its
\* greatest.
LEMMA SumBounds ==
  ASSUME NEW f, NEW S, IsFiniteSet(S), NEW a \in Int, NEW b \in Int,
         \A x \in S : f[x] \in Int /\ a <= f[x] /\ f[x] <= b
  PROVE  /\ a * Cardinality(S) <= SumFunctionOnSet(f, S)
         /\ SumFunctionOnSet(f, S) <= b * Cardinality(S)
  <1> DEFINE sum(T) == SumFunctionOnSet(f, T)
             n(T) == Cardinality(T)
             A == {T \in SUBSET S : a * n(T) <= sum(T) /\ sum(T) <= b * n(T)}
  <1>0. \A T \in SUBSET S : IsFiniteSet(T) /\ sum(T) \in Int /\ n(T) \in Nat
    BY FS_Subset, SumType, FS_CardinalityType
  <1>1. {} \in A
    <2>1. sum({}) = 0 /\ n({}) = 0
      BY SumEmpty, FS_EmptySet
    <2>2. QED
      BY <2>1
  <1>2. ASSUME NEW T \in SUBSET S, T # {}, \A x \in T : T \ {x} \in A
        PROVE  T \in A
    <2>1. PICK x \in T : TRUE
      BY <1>2
    <2> DEFINE U == T \ {x}
    <2>2. a * n(U) <= sum(U) /\ sum(U) <= b * n(U)
      BY <1>2, <2>1
    <2>3. sum(T) = f[x] + sum(U)
      BY <1>0, <2>1, SumRemove
    <2>4. n(U) = n(T) - 1
      BY <1>0, <2>1, FS_RemoveElement
    <2>5. sum(T) \in Int /\ sum(U) \in Int /\ n(T) \in Nat /\ n(U) \in Nat
          /\ f[x] \in Int /\ a <= f[x] /\ f[x] <= b
      BY <1>0, <2>1
    <2>6. a * n(T) <= sum(T) /\ sum(T) <= b * n(T)
      <3> HIDE DEF sum, n, U
      <3>1. n(T) = n(U) + 1
        BY <2>4, <2>5
      <3>2. a * n(T) = a * n(U) + a /\ b * n(T) = b * n(U) + b
        <4>1. \A c, d \in Int : c * (d + 1) = c * d + c
          OBVIOUS
        <4>2. a * (n(U) + 1) = a * n(U) + a /\ b * (n(U) + 1) = b * n(U) + b
          BY <2>5, <4>1
        <4>3. QED
          BY <3>1, <4>2, Zenon
      <3>3. a * n(U) \in Int /\ b * n(U) \in Int
        BY <2>5
      <3>4. QED
        BY <2>2, <2>3, <2>5, <3>2, <3>3
    <2>7. QED
      BY <2>6
  <1>3. \A T \in SUBSET S : T \in A
    <2> HIDE DEF A
    <2>1. QED
      BY <1>1, <1>2, SubsetInduction
  <1>4. QED
    BY <1>3

\* The sum of two functions adds up to the sum of their sums.
LEMMA SumOfTwo ==
  ASSUME NEW f, NEW g, NEW h, NEW S, IsFiniteSet(S),
         \A x \in S : f[x] \in Int /\ g[x] \in Int /\ h[x] = f[x] + g[x]
  PROVE  SumFunctionOnSet(h, S) = SumFunctionOnSet(f, S) + SumFunctionOnSet(g, S)
  <1> DEFINE F(T) == SumFunctionOnSet(f, T)
             G(T) == SumFunctionOnSet(g, T)
             H(T) == SumFunctionOnSet(h, T)
             A == {T \in SUBSET S : H(T) = F(T) + G(T)}
  <1>0. \A T \in SUBSET S : IsFiniteSet(T) /\ F(T) \in Int /\ G(T) \in Int
    BY FS_Subset, SumType
  <1>1. {} \in A
    BY SumEmpty
  <1>2. ASSUME NEW T \in SUBSET S, T # {}, \A x \in T : T \ {x} \in A
        PROVE  T \in A
    <2>1. PICK x \in T : TRUE
      BY <1>2
    <2> DEFINE U == T \ {x}
    <2>2. H(U) = F(U) + G(U)
      BY <1>2, <2>1
    <2>3. F(T) = f[x] + F(U) /\ G(T) = g[x] + G(U) /\ H(T) = h[x] + H(U)
      <3>1. IsFiniteSet(T) /\ \A y \in T : f[y] \in Int /\ g[y] \in Int /\ h[y] \in Int
        BY <1>0
      <3>2. QED
        BY <2>1, <3>1, SumRemove
    <2>4. F(U) \in Int /\ G(U) \in Int /\ f[x] \in Int /\ g[x] \in Int /\ h[x] = f[x] + g[x]
      BY <1>0, <2>1
    <2>5. H(T) = F(T) + G(T)
      <3> HIDE DEF F, G, H, U
      <3>1. QED
        BY <2>2, <2>3, <2>4
    <2>6. QED
      BY <2>5
  <1>3. \A T \in SUBSET S : T \in A
    <2> HIDE DEF A
    <2>1. QED
      BY <1>1, <1>2, SubsetInduction
  <1>4. QED
    BY <1>3

\* A common factor comes out of a sum.
LEMMA SumScaled ==
  ASSUME NEW f, NEW h, NEW c \in Int, NEW S, IsFiniteSet(S),
         \A x \in S : f[x] \in Int /\ h[x] = c * f[x]
  PROVE  SumFunctionOnSet(h, S) = c * SumFunctionOnSet(f, S)
  <1> DEFINE F(T) == SumFunctionOnSet(f, T)
             H(T) == SumFunctionOnSet(h, T)
             A == {T \in SUBSET S : H(T) = c * F(T)}
  <1>0. \A T \in SUBSET S : IsFiniteSet(T) /\ F(T) \in Int
    BY FS_Subset, SumType
  <1>1. {} \in A
    BY SumEmpty
  <1>2. ASSUME NEW T \in SUBSET S, T # {}, \A x \in T : T \ {x} \in A
        PROVE  T \in A
    <2>1. PICK x \in T : TRUE
      BY <1>2
    <2> DEFINE U == T \ {x}
    <2>2. H(U) = c * F(U)
      BY <1>2, <2>1
    <2>3. F(T) = f[x] + F(U) /\ H(T) = h[x] + H(U)
      <3>1. IsFiniteSet(T) /\ \A y \in T : f[y] \in Int
        BY <1>0
      <3>2. \A y \in T : h[y] \in Int
        <4>1. \A a, b \in Int : a * b \in Int
          OBVIOUS
        <4>2. QED
          BY <3>1, <4>1
      <3>3. QED
        BY <2>1, <3>1, <3>2, SumRemove
    <2>4. F(U) \in Int /\ f[x] \in Int /\ h[x] = c * f[x]
      BY <1>0, <2>1
    <2>5. H(T) = c * F(T)
      <3>1. \A a, b \in Int : c * (a + b) = c * a + c * b
        OBVIOUS
      <3> HIDE DEF F, H, U
      <3>2. c * (f[x] + F(U)) = c * f[x] + c * F(U)
        BY <2>4, <3>1
      <3>3. QED
        BY <2>2, <2>3, <2>4, <3>2, Zenon
    <2>6. QED
      BY <2>5
  <1>3. \A T \in SUBSET S : T \in A
    <2> HIDE DEF A
    <2>1. QED
      BY <1>1, <1>2, SubsetInduction
  <1>4. QED
    BY <1>3

\* One for each element of B: how many elements of B there are.
LEMMA SumOfOnes ==
  ASSUME NEW h, NEW B, NEW S, IsFiniteSet(S), \A x \in S : h[x] = IF x \in B THEN 1 ELSE 0
  PROVE  SumFunctionOnSet(h, S) = Cardinality(S \cap B)
  <1> DEFINE H(T) == SumFunctionOnSet(h, T)
             n(T) == Cardinality(T \cap B)
             A == {T \in SUBSET S : H(T) = n(T)}
  <1>0. \A T \in SUBSET S : IsFiniteSet(T) /\ IsFiniteSet(T \cap B) /\ n(T) \in Nat
    <2>1. ASSUME NEW T \in SUBSET S PROVE IsFiniteSet(T) /\ IsFiniteSet(T \cap B)
      <3>1. T \cap B \in SUBSET S
        OBVIOUS
      <3>2. QED
        BY <3>1, FS_Subset
    <2>2. QED
      BY <2>1, FS_CardinalityType
  <1>1. {} \in A
    <2>1. {} \cap B = {}
      OBVIOUS
    <2>2. QED
      BY <2>1, SumEmpty, FS_EmptySet
  <1>2. ASSUME NEW T \in SUBSET S, T # {}, \A x \in T : T \ {x} \in A
        PROVE  T \in A
    <2>1. PICK x \in T : TRUE
      BY <1>2
    <2> DEFINE U == T \ {x}
    <2>2. H(U) = n(U)
      BY <1>2, <2>1
    <2>3. H(T) = h[x] + H(U)
      <3>1. IsFiniteSet(T)
        BY <1>0
      <3>2. \A y \in T : h[y] \in Int
        OBVIOUS
      <3>3. QED
        BY <2>1, <3>1, <3>2, SumRemove
    <2>4. CASE x \in B
      <3>1. U \cap B = (T \cap B) \ {x} /\ x \in T \cap B
        BY <2>1, <2>4
      <3>2. n(U) = n(T) - 1
        <4>1. IsFiniteSet(T \cap B)
          BY <1>0
        <4>2. Cardinality((T \cap B) \ {x}) = Cardinality(T \cap B) - 1
          BY <3>1, <4>1, FS_RemoveElement
        <4>3. QED
          BY <3>1, <4>2
      <3>3. h[x] = 1
        BY <2>1, <2>4
      <3>4. H(T) = n(T)
        <4>1. n(T) \in Nat
          BY <1>0
        <4> HIDE DEF H, n, U
        <4>2. QED
          BY <2>2, <2>3, <3>2, <3>3, <4>1
      <3>5. QED
        BY <3>4
    <2>5. CASE x \notin B
      <3>1. U \cap B = T \cap B
        BY <2>5
      <3>2. n(U) = n(T) /\ n(T) \in Nat
        BY <1>0, <3>1
      <3>3. h[x] = 0
        BY <2>1, <2>5
      <3>4. H(T) = n(T)
        <4> HIDE DEF H, n, U
        <4>1. QED
          BY <2>2, <2>3, <3>2, <3>3
      <3>5. QED
        BY <3>4
    <2>6. QED
      BY <2>4, <2>5
  <1>3. \A T \in SUBSET S : T \in A
    <2> HIDE DEF A
    <2>1. QED
      BY <1>1, <1>2, SubsetInduction
  <1>4. QED
    BY <1>3
=============================================================================
