----------------------------- MODULE FiniteSums ------------------------------
(***************************************************************************)
(* Facts the proofs about several components share: induction over the     *)
(* natural numbers stated for a set of numbers, and sums over finite sets  *)
(* (SumFunctionOnSet of the module Functions).                             *)
(***************************************************************************)
EXTENDS Integers, FiniteSets, Functions, FiniteSetTheorems, WellFoundedInduction, TLAPS

------------------------------------------------------------------------------
(* Induction.                                                               *)

\* A nonempty set of natural numbers has a least element.
LEMMA Least ==
  ASSUME NEW S, S \subseteq Nat, S # {}
  PROVE  \E m \in S : \A k \in S : m <= k
<1> DEFINE R == {ss \in Nat \X Nat : ss[1] < ss[2]}
<1>1. R = OpToRel(<, Nat)
  BY Zenon DEF OpToRel
<1>2. IsWellFoundedOn(R, Nat)
  BY <1>1, NatLessThanWellFounded, Zenon
<1> HIDE DEF R
<1>3. \E x \in S : \A y \in S : ~ (<<y, x>> \in R)
  BY <1>2, WFMin
<1>4. PICK x \in S : \A y \in S : ~ (<<y, x>> \in R)
  BY <1>3
<1>5. ASSUME NEW y \in S
      PROVE  x <= y
  <2>1. x \in Nat /\ y \in Nat
    OBVIOUS
  <2>2. y < x => <<y, x>> \in R
    BY <2>1 DEF R
  <2> QED BY <1>4, <2>1, <2>2
<1> QED BY <1>5

\* A set that holds 0 and, with every number, the next one holds them all.
LEMMA Induction ==
  ASSUME NEW S, 0 \in S, \A n \in Nat : n \in S => n + 1 \in S
  PROVE  \A n \in Nat : n \in S
<1> SUFFICES ASSUME Nat \ S # {} PROVE FALSE
  OBVIOUS
<1>1. PICK m \in Nat \ S : \A k \in Nat \ S : m <= k
  BY Least
<1>2. m # 0 /\ m - 1 \in Nat /\ m - 1 \in S
  BY <1>1
<1> QED BY <1>1, <1>2

------------------------------------------------------------------------------
(* Sums.                                                                    *)

\* The recursion of the sum, for the parts of S that have at most n elements.
Small(S, n) == {s \in SUBSET S : Cardinality(s) <= n}

Sums(f, dom, g) ==
  g = [s \in dom |-> IF s = {} THEN 0
                     ELSE f[CHOOSE x \in s : TRUE] + g[s \ {CHOOSE x \in s : TRUE}]]

\* The recursion has a solution.
LEMMA SumsExists ==
  ASSUME NEW f, NEW S, IsFiniteSet(S)
  PROVE  \E g : Sums(f, SUBSET S, g)
<1> DEFINE P == {n \in Nat : \E g : Sums(f, Small(S, n), g)}
<1>0. \A s \in SUBSET S : IsFiniteSet(s) /\ Cardinality(s) \in Nat
  BY FS_Subset, FS_CardinalityType
<1>1. 0 \in P
  <2>1. Small(S, 0) = {{}}
    BY <1>0, FS_EmptySet DEF Small
  <2>2. Sums(f, {{}}, [s \in {{}} |-> 0])
    BY DEF Sums
  <2> QED BY <2>1, <2>2
<1>2. ASSUME NEW n \in Nat, n \in P
      PROVE  n + 1 \in P
  <2>1. PICK g : Sums(f, Small(S, n), g)
    BY <1>2
  <2> DEFINE Pick(s) == CHOOSE x \in s : TRUE
             h == [s \in Small(S, n + 1) |-> IF s = {} THEN 0 ELSE f[Pick(s)] + g[s \ {Pick(s)}]]
  <2>2. \A s \in Small(S, n) : s \in Small(S, n + 1) /\ h[s] = g[s]
    <3> SUFFICES ASSUME NEW s \in Small(S, n)
                 PROVE  s \in Small(S, n + 1) /\ h[s] = g[s]
      OBVIOUS
    <3>1. s \in Small(S, n + 1)
      BY <1>0 DEF Small
    <3>2. g[s] = IF s = {} THEN 0 ELSE f[Pick(s)] + g[s \ {Pick(s)}]
      BY <2>1, Zenon DEF Sums
    <3> QED BY <3>1, <3>2
  <2>3. ASSUME NEW s \in Small(S, n + 1), s # {}
        PROVE  s \ {Pick(s)} \in Small(S, n)
    <3>1. Pick(s) \in s
      BY <2>3
    <3>2. Cardinality(s \ {Pick(s)}) = Cardinality(s) - 1
      BY <1>0, <3>1, FS_RemoveElement DEF Small
    <3> QED BY <1>0, <2>3, <3>2 DEF Small
  <2>4. Sums(f, Small(S, n + 1), h)
    <3>1. ASSUME NEW s \in Small(S, n + 1)
          PROVE  h[s] = IF s = {} THEN 0 ELSE f[Pick(s)] + h[s \ {Pick(s)}]
      <4>1. h[s] = IF s = {} THEN 0 ELSE f[Pick(s)] + g[s \ {Pick(s)}]
        OBVIOUS
      <4>2. s # {} => h[s \ {Pick(s)}] = g[s \ {Pick(s)}]
        BY <2>2, <2>3, Zenon
      <4> HIDE DEF h, Pick
      <4> QED BY <4>1, <4>2
    <3> HIDE DEF Pick
    <3>2. h = [s \in Small(S, n + 1) |-> IF s = {} THEN 0 ELSE f[Pick(s)] + h[s \ {Pick(s)}]]
      BY <3>1
    <3> QED BY <3>2 DEF Sums, Pick
  <2> QED BY <2>4
<1> HIDE DEF P
<1>3. Cardinality(S) \in P
  BY <1>0, <1>1, <1>2, Induction
<1>4. Small(S, Cardinality(S)) = SUBSET S
  BY FS_Subset, <1>0 DEF Small
<1> QED BY <1>3, <1>4 DEF P

\* Two solutions agree where both are defined.
LEMMA SumsUnique ==
  ASSUME NEW f, NEW S, IsFiniteSet(S), NEW T, T \subseteq S
  PROVE  \A g, h : Sums(f, SUBSET S, g) /\ Sums(f, SUBSET T, h) => g[T] = h[T]
<1> SUFFICES ASSUME NEW g, NEW h, Sums(f, SUBSET S, g), Sums(f, SUBSET T, h)
             PROVE  g[T] = h[T]
  OBVIOUS
<1> DEFINE P == {n \in Nat : \A s \in SUBSET T : Cardinality(s) = n => g[s] = h[s]}
           Pick(s) == CHOOSE x \in s : TRUE
<1>0. \A s \in SUBSET T : IsFiniteSet(s) /\ Cardinality(s) \in Nat
  BY FS_Subset, FS_CardinalityType
<1>1. \A s \in SUBSET T : /\ g[s] = IF s = {} THEN 0 ELSE f[Pick(s)] + g[s \ {Pick(s)}]
                          /\ h[s] = IF s = {} THEN 0 ELSE f[Pick(s)] + h[s \ {Pick(s)}]
  BY Zenon DEF Sums
<1>2. 0 \in P
  BY <1>0, <1>1, FS_EmptySet
<1>3. ASSUME NEW n \in Nat, n \in P
      PROVE  n + 1 \in P
  <2> SUFFICES ASSUME NEW s \in SUBSET T, Cardinality(s) = n + 1
               PROVE  g[s] = h[s]
    OBVIOUS
  <2>1. s # {}
    BY FS_EmptySet
  <2>2. Pick(s) \in s
    BY <2>1
  <2>3. Cardinality(s \ {Pick(s)}) = n
    <3> HIDE DEF Pick
    <3>1. Cardinality(s \ {Pick(s)}) = Cardinality(s) - 1
      BY <1>0, <2>2, FS_RemoveElement
    <3> QED BY <3>1
  <2>4. g[s \ {Pick(s)}] = h[s \ {Pick(s)}]
    BY <1>3, <2>3
  <2> HIDE DEF Pick
  <2> QED BY <1>1, <2>1, <2>4
<1> HIDE DEF P
<1>4. Cardinality(T) \in P
  BY <1>0, <1>2, <1>3, Induction
<1> QED BY <1>4 DEF P

\* The sum over a finite set is the value of the recursion.
LEMMA SumIsSums ==
  ASSUME NEW f, NEW S, IsFiniteSet(S)
  PROVE  \E g : Sums(f, SUBSET S, g) /\ SumFunctionOnSet(f, S) = g[S]
<1> DEFINE g == CHOOSE iter : iter = [s \in SUBSET S |-> IF s = {} THEN 0
                     ELSE f[CHOOSE x \in s : TRUE] + iter[s \ {CHOOSE x \in s : TRUE}]]
<1>1. \E h : h = [s \in SUBSET S |-> IF s = {} THEN 0
                     ELSE f[CHOOSE x \in s : TRUE] + h[s \ {CHOOSE x \in s : TRUE}]]
  <2>1. PICK h : Sums(f, SUBSET S, h)
    BY SumsExists
  <2>2. h = [s \in SUBSET S |-> IF s = {} THEN 0
                     ELSE f[CHOOSE x \in s : TRUE] + h[s \ {CHOOSE x \in s : TRUE}]]
    BY <2>1, Zenon DEF Sums
  <2> QED BY <2>2, Zenon
<1>2. Sums(f, SUBSET S, g)
  BY <1>1, Zenon DEF Sums
<1>3. SumFunctionOnSet(f, S) = g[S]
  BY Zenon DEF SumFunctionOnSet, FoldFunctionOnSet, MapThenFoldSet
<1> QED BY <1>2, <1>3

\* The sum over no elements.
LEMMA SumEmpty ==
  ASSUME NEW f
  PROVE  SumFunctionOnSet(f, {}) = 0
<1>1. PICK g : Sums(f, SUBSET {}, g) /\ SumFunctionOnSet(f, {}) = g[{}]
  BY FS_EmptySet, SumIsSums
<1> QED BY <1>1 DEF Sums

\* The recursion, for sums: the element that CHOOSE takes comes off.
LEMMA SumChosen ==
  ASSUME NEW f, NEW S, IsFiniteSet(S), S # {}
  PROVE  SumFunctionOnSet(f, S) =
           f[CHOOSE x \in S : TRUE] + SumFunctionOnSet(f, S \ {CHOOSE x \in S : TRUE})
<1> DEFINE c == CHOOSE x \in S : TRUE
<1>1. PICK g : Sums(f, SUBSET S, g) /\ SumFunctionOnSet(f, S) = g[S]
  BY SumIsSums
<1>2. IsFiniteSet(S \ {c})
  BY FS_Subset
<1>3. PICK h : Sums(f, SUBSET (S \ {c}), h) /\ SumFunctionOnSet(f, S \ {c}) = h[S \ {c}]
  BY <1>2, SumIsSums, Zenon
<1>4. g[S \ {c}] = h[S \ {c}]
  <2>1. \A T : T \subseteq S =>
          \A a, b : Sums(f, SUBSET S, a) /\ Sums(f, SUBSET T, b) => a[T] = b[T]
    BY SumsUnique
  <2>2. S \ {c} \subseteq S
    OBVIOUS
  <2> HIDE DEF c
  <2> QED BY <1>1, <1>3, <2>1, <2>2, Zenon
<1>5. g[S] = f[c] + g[S \ {c}]
  BY <1>1, Zenon DEF Sums
<1>6. SumFunctionOnSet(f, S) = f[c] + SumFunctionOnSet(f, S \ {c})
  <2> HIDE DEF c
  <2> QED BY <1>1, <1>3, <1>4, <1>5
<1> QED BY <1>6, Zenon

\* The sum of integers is an integer.
LEMMA SumType ==
  ASSUME NEW D, NEW f \in [D -> Int], NEW S \in SUBSET D, IsFiniteSet(S)
  PROVE  SumFunctionOnSet(f, S) \in Int
<1> DEFINE Sum(T) == SumFunctionOnSet(f, T)
           P == {n \in Nat : \A T \in SUBSET S : Cardinality(T) = n => Sum(T) \in Int}
<1>0. \A T \in SUBSET S : IsFiniteSet(T) /\ Cardinality(T) \in Nat
  BY FS_Subset, FS_CardinalityType
<1>1. 0 \in P
  <2> SUFFICES ASSUME NEW T \in SUBSET S, Cardinality(T) = 0
               PROVE  Sum(T) \in Int
    OBVIOUS
  <2>1. T = {}
    BY <1>0, FS_EmptySet
  <2> QED BY <2>1, SumEmpty
<1>2. ASSUME NEW n \in Nat, n \in P
      PROVE  n + 1 \in P
  <2> SUFFICES ASSUME NEW T \in SUBSET S, Cardinality(T) = n + 1
               PROVE  Sum(T) \in Int
    OBVIOUS
  <2> DEFINE c == CHOOSE x \in T : TRUE
  <2>1. T # {} /\ c \in T
    BY FS_EmptySet
  <2>2. Sum(T) = f[c] + Sum(T \ {c})
    BY <1>0, <2>1, SumChosen, Zenon
  <2> HIDE DEF c, Sum
  <2>3. Cardinality(T \ {c}) = Cardinality(T) - 1
    BY <1>0, <2>1, FS_RemoveElement
  <2>4. Sum(T \ {c}) \in Int
    BY <1>2, <2>3
  <2> QED BY <2>1, <2>2, <2>4
<1> HIDE DEF P
<1>3. Cardinality(S) \in P
  BY <1>0, <1>1, <1>2, Induction
<1> QED BY <1>3 DEF P

\* Any element comes off a sum of integers.
LEMMA SumPoint ==
  ASSUME NEW D, NEW f \in [D -> Int], NEW S \in SUBSET D, IsFiniteSet(S)
  PROVE  \A x \in S : SumFunctionOnSet(f, S) = f[x] + SumFunctionOnSet(f, S \ {x})
<1> DEFINE Sum(T) == SumFunctionOnSet(f, T)
           Fine(T) == \A x \in T : Sum(T) = f[x] + Sum(T \ {x})
           P == {n \in Nat : \A T \in SUBSET S : Cardinality(T) = n => Fine(T)}
<1>0. \A T \in SUBSET S : IsFiniteSet(T) /\ Cardinality(T) \in Nat /\ Sum(T) \in Int
  BY FS_Subset, FS_CardinalityType, SumType
<1>1. 0 \in P
  <2> SUFFICES ASSUME NEW T \in SUBSET S, Cardinality(T) = 0
               PROVE  Fine(T)
    OBVIOUS
  <2>1. T = {}
    BY <1>0, FS_EmptySet
  <2> QED BY <2>1
<1>2. ASSUME NEW n \in Nat, n \in P
      PROVE  n + 1 \in P
  <2> SUFFICES ASSUME NEW T \in SUBSET S, Cardinality(T) = n + 1, NEW x \in T
               PROVE  Sum(T) = f[x] + Sum(T \ {x})
    OBVIOUS
  <2> DEFINE c == CHOOSE y \in T : TRUE
  <2>1. T # {} /\ c \in T
    BY FS_EmptySet
  <2>2. Sum(T) = f[c] + Sum(T \ {c})
    BY <1>0, <2>1, SumChosen, Zenon
  <2> HIDE DEF c, Sum
  <2>3. ASSUME NEW y \in T
        PROVE  Fine(T \ {y})
    <3>1. Cardinality(T \ {y}) = Cardinality(T) - 1
      BY <1>0, FS_RemoveElement
    <3>2. Cardinality(T \ {y}) = n
      BY <3>1
    <3> QED BY <1>2, <3>2
  <2>4. CASE x # c
    <3>1. (T \ {c}) \ {x} = (T \ {x}) \ {c}
      OBVIOUS
    <3>2. Sum(T \ {c}) = f[x] + Sum((T \ {c}) \ {x})
      BY <2>1, <2>3, <2>4
    <3>3. Sum(T \ {x}) = f[c] + Sum((T \ {c}) \ {x})
      BY <2>1, <2>3, <2>4, <3>1
    <3>4. Sum(T \ {x}) \in Int /\ Sum((T \ {c}) \ {x}) \in Int /\ f[x] \in Int /\ f[c] \in Int
      BY <1>0, <2>1
    <3> QED BY <2>2, <3>2, <3>3, <3>4
  <2> QED BY <2>2, <2>4
<1> HIDE DEF P
<1>3. Cardinality(S) \in P
  BY <1>0, <1>1, <1>2, Induction
<1> QED BY <1>3 DEF P

\* The sum of numbers that are all at least b is at least b for each of them.
LEMMA SumAtLeast ==
  ASSUME NEW D, NEW f \in [D -> Int], NEW S \in SUBSET D, IsFiniteSet(S),
         NEW b \in Int, \A x \in S : f[x] >= b
  PROVE  SumFunctionOnSet(f, S) >= b * Cardinality(S)
<1> DEFINE Sum(T) == SumFunctionOnSet(f, T)
           P == {n \in Nat : \A T \in SUBSET S : Cardinality(T) = n => Sum(T) >= b * n}
<1>0. \A T \in SUBSET S : IsFiniteSet(T) /\ Cardinality(T) \in Nat /\ Sum(T) \in Int
  BY FS_Subset, FS_CardinalityType, SumType
<1>1. 0 \in P
  <2> SUFFICES ASSUME NEW T \in SUBSET S, Cardinality(T) = 0
               PROVE  Sum(T) >= b * 0
    OBVIOUS
  <2>1. T = {}
    BY <1>0, FS_EmptySet
  <2>2. Sum(T) = 0
    BY <2>1, SumEmpty
  <2> QED BY <2>2
<1>2. ASSUME NEW n \in Nat, n \in P
      PROVE  n + 1 \in P
  <2> SUFFICES ASSUME NEW T \in SUBSET S, Cardinality(T) = n + 1
               PROVE  Sum(T) >= b * (n + 1)
    OBVIOUS
  <2>1. PICK x \in T : TRUE
    BY FS_EmptySet
  <2>2. Sum(T) = f[x] + Sum(T \ {x})
    BY <1>0, <2>1, SumPoint
  <2> HIDE DEF Sum
  <2>3. Cardinality(T \ {x}) = Cardinality(T) - 1
    BY <1>0, <2>1, FS_RemoveElement
  <2>4. Sum(T \ {x}) >= b * n /\ Sum(T \ {x}) \in Int
    BY <1>0, <1>2, <2>3
  <2>5. b * (n + 1) = b * n + b /\ b * n \in Int
    OBVIOUS
  <2> QED BY <2>1, <2>2, <2>4, <2>5
<1> HIDE DEF P
<1>3. Cardinality(S) \in P
  BY <1>0, <1>1, <1>2, Induction
<1> QED BY <1>3 DEF P

\* A sum of natural numbers is one, and is 0 exactly if all of them are.
LEMMA SumOfNaturals ==
  ASSUME NEW D, NEW f \in [D -> Nat], NEW S \in SUBSET D, IsFiniteSet(S)
  PROVE  /\ SumFunctionOnSet(f, S) \in Nat
         /\ SumFunctionOnSet(f, S) = 0 <=> \A x \in S : f[x] = 0
<1> DEFINE Sum(T) == SumFunctionOnSet(f, T)
           P == {n \in Nat : \A T \in SUBSET S :
                               Cardinality(T) = n /\ (\A x \in T : f[x] = 0) => Sum(T) = 0}
<1>0. /\ f \in [D -> Int]
      /\ \A T \in SUBSET S : IsFiniteSet(T) /\ Cardinality(T) \in Nat
  BY FS_Subset, FS_CardinalityType
<1>1. ASSUME NEW T \in SUBSET S
      PROVE  Sum(T) \in Nat
  <2>1. \A x \in T : f[x] >= 0
    OBVIOUS
  <2>2. Sum(T) >= 0 * Cardinality(T)
    BY <1>0, <2>1, SumAtLeast
  <2>3. 0 * Cardinality(T) = 0
    BY <1>0
  <2>4. Sum(T) \in Int
    BY <1>0, SumType
  <2> QED BY <2>2, <2>3, <2>4
<1>2. ASSUME NEW x \in S, f[x] # 0
      PROVE  Sum(S) # 0
  <2>1. Sum(S) = f[x] + Sum(S \ {x})
    BY <1>0, SumPoint
  <2>2. Sum(S \ {x}) \in Nat /\ f[x] \in Nat
    BY <1>1
  <2> QED BY <1>2, <2>1, <2>2
<1>3. 0 \in P
  <2> SUFFICES ASSUME NEW T \in SUBSET S, Cardinality(T) = 0
               PROVE  Sum(T) = 0
    OBVIOUS
  <2>1. T = {}
    BY <1>0, FS_EmptySet
  <2> QED BY <2>1, SumEmpty
<1>4. ASSUME NEW n \in Nat, n \in P
      PROVE  n + 1 \in P
  <2> SUFFICES ASSUME NEW T \in SUBSET S, Cardinality(T) = n + 1, \A x \in T : f[x] = 0
               PROVE  Sum(T) = 0
    OBVIOUS
  <2>1. PICK x \in T : TRUE
    BY FS_EmptySet
  <2>2. Sum(T) = f[x] + Sum(T \ {x})
    BY <1>0, <2>1, SumPoint
  <2> HIDE DEF Sum
  <2>3. Cardinality(T \ {x}) = Cardinality(T) - 1
    BY <1>0, <2>1, FS_RemoveElement
  <2>4. Sum(T \ {x}) = 0
    BY <1>4, <2>3
  <2> QED BY <2>1, <2>2, <2>4
<1> HIDE DEF P
<1>5. Cardinality(S) \in P
  BY <1>0, <1>3, <1>4, Induction
<1>6. (\A x \in S : f[x] = 0) => Sum(S) = 0
  BY <1>5 DEF P
<1> QED BY <1>1, <1>2, <1>6

\* Some number of a nonempty set is at most their average, rounded down.
LEMMA SomeAtMostAverage ==
  ASSUME NEW D, NEW f \in [D -> Int], NEW S \in SUBSET D, IsFiniteSet(S), S # {}
  PROVE  \E x \in S : f[x] <= SumFunctionOnSet(f, S) \div Cardinality(S)
<1> DEFINE n == Cardinality(S)
           sum == SumFunctionOnSet(f, S)
           q == sum \div n
<1>1. n \in Nat /\ n > 0 /\ sum \in Int
  BY FS_CardinalityType, FS_EmptySet, SumType
<1> HIDE DEF n, sum
<1>2. q \in Int /\ sum < (q + 1) * n
  BY <1>1
<1> HIDE DEF q
<1> SUFFICES ASSUME \A x \in S : f[x] >= q + 1
             PROVE  FALSE
  BY <1>2 DEF q, n, sum
<1>3. sum >= (q + 1) * n
  BY <1>2, SumAtLeast DEF sum, n
<1>4. (q + 1) * n \in Int
  BY <1>1, <1>2
<1> QED BY <1>1, <1>2, <1>3, <1>4
==============================================================================
