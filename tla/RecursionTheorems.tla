-------------------------- MODULE RecursionTheorems --------------------------
(***************************************************************************)
(* Induction and recursion over the naturals and over the subsets of a     *)
(* finite set, with sets and functions where the library's theorems take   *)
(* operators: T is the set of what an induction has reached, step the      *)
(* function that a recursion repeats.  The folds that the modules use are  *)
(* such recursions.                                                        *)
(***************************************************************************)
EXTENDS Integers, FiniteSets, FiniteSetTheorems, WellFoundedInduction, TLAPS

-----------------------------------------------------------------------------
\* Induction over the naturals: the smallest number outside T cannot be.

LEMMA WellOrdered == ASSUME NEW T \in SUBSET Nat, T # {} PROVE \E m \in T : \A k \in T : ~ (k < m)
<1> DEFINE R == OpToRel(<, Nat)
<1>1. IsWellFoundedOn(R, Nat)
  BY NatLessThanWellFounded
<1>2. \A x, y \in Nat : x < y => <<x, y>> \in R
  BY DEF OpToRel
<1> HIDE DEF R
<1>3. \E m \in T : \A k \in T : ~ (<<k, m>> \in R)
  BY <1>1, WFMin
<1> QED
  BY <1>2, <1>3

LEMMA Induction ==
    ASSUME NEW T, 0 \in T, \A n \in Nat : n \in T => n + 1 \in T
    PROVE  \A n \in Nat : n \in T
<1> SUFFICES ASSUME ~(Nat \subseteq T) PROVE FALSE
  OBVIOUS
<1> DEFINE U == Nat \ T
<1>1. U \in SUBSET Nat /\ U # {}
  OBVIOUS
<1>2. PICK m \in U : \A k \in U : ~(k < m)
  BY <1>1, WellOrdered
<1>3. m \in Nat /\ m \notin T /\ m # 0
  BY <1>2
<1>4. m - 1 \in Nat /\ m - 1 < m /\ (m - 1) + 1 = m
  BY <1>3
<1>5. m - 1 \in T
  BY <1>2, <1>4
<1> QED
  BY <1>3, <1>4, <1>5

-----------------------------------------------------------------------------
\* Subsets of a finite set.

LEMMA Removed ==
    ASSUME NEW D, IsFiniteSet(D), NEW s \in SUBSET D
    PROVE  /\ IsFiniteSet(s) /\ Cardinality(s) \in Nat /\ Cardinality(s) <= Cardinality(D)
           /\ Cardinality(s) = 0 <=> s = {}
           /\ \A x \in s : s \ {x} \in SUBSET D /\ Cardinality(s \ {x}) = Cardinality(s) - 1
<1>1. IsFiniteSet(s) /\ Cardinality(s) <= Cardinality(D)
  BY FS_Subset
<1>2. Cardinality(s) \in Nat
  BY <1>1, FS_CardinalityType
<1>3. Cardinality(s) = 0 <=> s = {}
  BY <1>1, FS_EmptySet
<1>4. \A x \in s : Cardinality(s \ {x}) = Cardinality(s) - 1
  BY <1>1, FS_RemoveElement
<1> QED
  BY <1>1, <1>2, <1>3, <1>4

LEMMA SubsetInduction ==
    ASSUME NEW D, IsFiniteSet(D), NEW T, {} \in T,
           \A s \in SUBSET D : s # {} /\ (\A x \in s : s \ {x} \in T) => s \in T
    PROVE  \A s \in SUBSET D : s \in T
<1> DEFINE N == {n \in Nat : \A s \in SUBSET D : Cardinality(s) = n => s \in T}
<1>1. 0 \in N
  BY Removed
<1>2. ASSUME NEW n \in Nat, n \in N PROVE n + 1 \in N
  <2> SUFFICES ASSUME NEW s \in SUBSET D, Cardinality(s) = n + 1 PROVE s \in T
    OBVIOUS
  <2>1. s # {}
    BY Removed
  <2>2. \A x \in s : s \ {x} \in SUBSET D /\ Cardinality(s \ {x}) = n
    BY Removed
  <2> QED
    BY <1>2, <2>1, <2>2
<1> HIDE DEF N
<1>3. \A n \in Nat : n \in N
  BY <1>1, <1>2, Induction
<1> QED
  BY <1>3, Removed DEF N

\* What a fold computes: a value for every subset, the empty one's given, any
\* other's made by step from the one without the element that is first.
Repeats(f, D, V, base, first, step) ==
    /\ f \in [SUBSET D -> V]
    /\ \A s \in SUBSET D : f[s] = IF s = {} THEN base ELSE step[first[s]][f[s \ {first[s]}]]

LEMMA SubsetRecursion ==
    ASSUME NEW D, IsFiniteSet(D), NEW V, NEW base, base \in V,
           NEW first, \A s \in SUBSET D : s # {} => first[s] \in s,
           NEW step, step \in [D -> [V -> V]]
    PROVE  \E f : Repeats(f, D, V, base, first, step)
<1> DEFINE Small(n) == {s \in SUBSET D : Cardinality(s) <= n}
           Right(g, n) == /\ g \in [Small(n) -> V]
                          /\ \A s \in Small(n) :
                                 g[s] = IF s = {} THEN base ELSE step[first[s]][g[s \ {first[s]}]]
           T == {n \in Nat : \E g : Right(g, n)}
<1>1. 0 \in T
  <2>1. Small(0) = {{}}
    <3>1. \A s \in SUBSET D : Cardinality(s) \in Nat /\ (Cardinality(s) = 0 <=> s = {})
      BY Removed
    <3> QED
      BY <3>1
  <2> DEFINE g == [s \in Small(0) |-> base]
  <2>2. g \in [Small(0) -> V] /\ \A s \in Small(0) : g[s] = base
    OBVIOUS
  <2> HIDE DEF g
  <2>3. Right(g, 0)
    BY <2>1, <2>2
  <2> QED
    BY <2>3
<1>2. ASSUME NEW n \in Nat, n \in T PROVE n + 1 \in T
  <2>1. PICK g : Right(g, n)
    BY <1>2
  <2> DEFINE Next(s) == step[first[s]][g[s \ {first[s]}]]
             h == [s \in Small(n + 1) |-> IF s \in Small(n) THEN g[s] ELSE Next(s)]
  <2>2. ASSUME NEW s \in Small(n + 1), s # {}
        PROVE  /\ s \ {first[s]} \in Small(n)
               /\ s \in Small(n) => s \ {first[s]} \in Small(n)
               /\ Next(s) \in V
    <3>1. s \in SUBSET D /\ first[s] \in s /\ first[s] \in D
      BY <2>2
    <3>2. /\ Cardinality(s) \in Nat /\ Cardinality(s) <= n + 1
          /\ s \ {first[s]} \in SUBSET D /\ Cardinality(s \ {first[s]}) = Cardinality(s) - 1
      BY <2>2, <3>1, Removed
    <3>3. s \ {first[s]} \in Small(n)
      BY <3>2
    <3> HIDE DEF Small
    <3>4. g[s \ {first[s]}] \in V
      BY <2>1, <3>3
    <3> QED
      BY <3>1, <3>3, <3>4
  <2>3. {} \in Small(n) /\ Small(n) \subseteq Small(n + 1)
    <3>1. \A s \in SUBSET D : Cardinality(s) \in Nat
      BY Removed
    <3>2. Cardinality({}) = 0
      BY FS_EmptySet
    <3> QED
      BY <3>1, <3>2
  <2> HIDE DEF Small, Next
  <2>4. /\ \A s \in Small(n) : g[s] \in V
        /\ g[{}] = base
        /\ \A s \in Small(n) : s # {} => g[s] = Next(s)
    BY <2>1, <2>3 DEF Next
  <2>5. \A s \in Small(n + 1) : (IF s \in Small(n) THEN g[s] ELSE Next(s)) \in V
    BY <2>2, <2>3, <2>4
  <2>6. h \in [Small(n + 1) -> V] /\ \A s \in Small(n + 1) : h[s] = IF s \in Small(n) THEN g[s] ELSE Next(s)
    BY <2>5
  <2> HIDE DEF h
  <2>7. ASSUME NEW s \in Small(n + 1)
        PROVE  h[s] = IF s = {} THEN base ELSE step[first[s]][h[s \ {first[s]}]]
    <3>1. CASE s = {}
      BY <2>3, <2>4, <2>6, <3>1
    <3>2. CASE s # {}
      <4>1. h[s] = Next(s)
        BY <2>4, <2>6, <3>2
      <4>2. h[s \ {first[s]}] = g[s \ {first[s]}]
        BY <2>2, <2>3, <2>6, <3>2
      <4> QED
        BY <3>2, <4>1, <4>2 DEF Next
    <3> QED
      BY <3>1, <3>2
  <2>8. Right(h, n + 1)
    BY <2>6, <2>7
  <2> HIDE DEF Right
  <2> QED
    BY <2>8
<1>3. PICK f : Right(f, Cardinality(D))
  <2>1. Cardinality(D) \in Nat
    BY Removed
  <2>2. \A n \in Nat : n \in T
    <3> HIDE DEF T
    <3> QED
      BY <1>1, <1>2, Induction
  <2> QED
    BY <2>1, <2>2
<1>4. Small(Cardinality(D)) = SUBSET D
  BY Removed
<1> HIDE DEF Small
<1>5. Repeats(f, D, V, base, first, step)
  BY <1>3, <1>4 DEF Repeats
<1> QED
  BY <1>5

-----------------------------------------------------------------------------
\* Sequences, which a fold goes through as the sets of their positions.

LEMMA SomeLargest ==
    ASSUME NEW n \in Nat, NEW s \in SUBSET (1..n), s # {}
    PROVE  \E x \in s : \A y \in s : x >= y
<1> DEFINE U == {m \in Nat : \A y \in s : m >= y}
<1>1. U \in SUBSET Nat /\ U # {}
  <2>1. n \in U
    OBVIOUS
  <2> QED
    BY <2>1
<1>2. PICK m \in U : \A k \in U : ~(k < m)
  BY <1>1, WellOrdered
<1>3. m \in Nat /\ \A y \in s : y \in 1..n /\ m >= y
  BY <1>2
<1>4. m \in s
  <2> SUFFICES ASSUME m \notin s PROVE FALSE
    OBVIOUS
  <2>1. PICK y \in s : TRUE
    OBVIOUS
  <2>2. m - 1 \in U
    BY <1>3, <2>1
  <2> QED
    BY <1>2, <1>3, <2>2
<1> QED
  BY <1>3, <1>4

LEMMA Beginnings ==
    /\ 1..0 = {}
    /\ \A n \in Nat \ {0} : /\ 1..n # {} /\ n \in 1..n /\ (1..n) \ {n} = 1..(n - 1)
                            /\ \A x \in 1..n : (\A y \in 1..n : x >= y) => x = n
  OBVIOUS

\* What a recursion over the positions of a sequence computes.
Largest(s) == CHOOSE x \in s : \A y \in s : x >= y

LEMMA LargestIsLast ==
    ASSUME NEW k \in Nat \ {0}
    PROVE  1..k # {} /\ Largest(1..k) = k /\ (1..k) \ {Largest(1..k)} = 1..(k - 1)
<1>1. k \in 1..k /\ \A y \in 1..k : k >= y
  OBVIOUS
<1>2. Largest(1..k) \in 1..k /\ \A y \in 1..k : Largest(1..k) >= y
  BY <1>1 DEF Largest
<1>3. Largest(1..k) = k
  BY <1>1, <1>2
<1> QED
  BY <1>1, <1>3, Beginnings

RepeatsInOrder(f, n, V, base, step) ==
    /\ f \in [SUBSET (1..n) -> V]
    /\ \A s \in SUBSET (1..n) :
           /\ s # {} => Largest(s) \in s
           /\ f[s] = IF s = {} THEN base ELSE step[Largest(s)][f[s \ {Largest(s)}]]

LEMMA SequenceRecursion ==
    ASSUME NEW n \in Nat, NEW V, NEW base, base \in V, NEW step, step \in [1..n -> [V -> V]]
    PROVE  \E f : RepeatsInOrder(f, n, V, base, step)
<1> DEFINE D == 1..n
           first == [s \in SUBSET D |-> Largest(s)]
<1>1. \A s \in SUBSET D : s # {} => Largest(s) \in s
  BY SomeLargest DEF Largest
<1>2. IsFiniteSet(D)
  BY FS_Interval
<1>3. \A s \in SUBSET D : first[s] = Largest(s)
  OBVIOUS
<1>4. step \in [D -> [V -> V]]
  OBVIOUS
<1> HIDE DEF first, D
<1>5. \A s \in SUBSET D : s # {} => first[s] \in s
  BY <1>1, <1>3
<1>6. PICK f : Repeats(f, D, V, base, first, step)
  BY <1>2, <1>4, <1>5, SubsetRecursion
<1>7. /\ f \in [SUBSET D -> V]
      /\ \A s \in SUBSET D : f[s] = IF s = {} THEN base ELSE step[Largest(s)][f[s \ {Largest(s)}]]
  BY <1>3, <1>6 DEF Repeats
<1>8. RepeatsInOrder(f, n, V, base, step)
  BY <1>1, <1>7 DEF D, RepeatsInOrder
<1> QED
  BY <1>8

\* A recursion that takes the step of the largest position last goes through
\* the positions one after another.
TakesLargestLast(g, n, V, base, step) ==
    /\ g[{}] = base
    /\ \A s \in SUBSET (1..n) :
           s # {} /\ g[s \ {Largest(s)}] \in V => g[s] = step[Largest(s)][g[s \ {Largest(s)}]]

IsRun(run, n, V, base, step) ==
    /\ run[0] = base
    /\ \A k \in 0..n : run[k] \in V
    /\ \A k \in 1..n : run[k] = step[k][run[k - 1]]

LEMMA OneAfterAnother ==
    ASSUME NEW n \in Nat, NEW V, NEW base, base \in V, NEW step, step \in [1..n -> [V -> V]],
           NEW g, TakesLargestLast(g, n, V, base, step)
    PROVE  \E run : IsRun(run, n, V, base, step) /\ run[n] = g[1..n]
<1> DEFINE run == [k \in 0..n |-> g[1..k]]
<1>1. run[0] = base /\ run[n] = g[1..n]
  <2>1. 0 \in 0..n /\ n \in 0..n
    OBVIOUS
  <2> QED
    BY <2>1, Beginnings DEF TakesLargestLast
<1>2. ASSUME NEW k \in 1..n, run[k - 1] \in V PROVE run[k] = step[k][run[k - 1]]
  <2>1. k \in Nat \ {0} /\ 1..k \in SUBSET (1..n) /\ k - 1 \in 0..n /\ k \in 0..n
    OBVIOUS
  <2>2. 1..k # {} /\ Largest(1..k) = k /\ (1..k) \ {Largest(1..k)} = 1..(k - 1)
    BY <2>1, LargestIsLast
  <2>3. run[k] = g[1..k] /\ run[k - 1] = g[1..(k - 1)]
    BY <2>1
  <2> QED
    BY <1>2, <2>1, <2>2, <2>3 DEF TakesLargestLast
<1> HIDE DEF run
<1>3. \A k \in 0..n : run[k] \in V
  <2> DEFINE T == {k \in Nat : k <= n => run[k] \in V}
  <2>1. 0 \in T
    BY <1>1
  <2>2. ASSUME NEW k \in Nat, k \in T PROVE k + 1 \in T
    <3> SUFFICES ASSUME k + 1 <= n PROVE run[k + 1] \in V
      OBVIOUS
    <3>1. k <= n /\ k + 1 \in 1..n /\ (k + 1) - 1 = k
      OBVIOUS
    <3>2. run[k] \in V
      BY <2>2, <3>1
    <3> QED
      BY <1>2, <3>1, <3>2
  <2> HIDE DEF T
  <2>3. \A k \in Nat : k \in T
    BY <2>1, <2>2, Induction
  <2> QED
    BY <2>3 DEF T
<1>4. \A k \in 1..n : run[k] = step[k][run[k - 1]]
  <2>1. \A k \in 1..n : k - 1 \in 0..n
    OBVIOUS
  <2> QED
    BY <1>2, <1>3, <2>1
<1> QED
  BY <1>1, <1>3, <1>4 DEF IsRun

-----------------------------------------------------------------------------
\* Sums over a finite set, element by element in some order.

AnyOf(s) == CHOOSE x \in s : TRUE

IsSum(g, D, v) ==
    g = [s \in SUBSET D |-> IF s = {} THEN 0 ELSE v[AnyOf(s)] + g[s \ {AnyOf(s)}]]

SumOf(D, v) == LET g == CHOOSE f : IsSum(f, D, v) IN g[D]

LEMMA AnyOfIsOne == ASSUME NEW s, s # {} PROVE AnyOf(s) \in s
  BY DEF AnyOf

LEMMA SumExists ==
    ASSUME NEW D, IsFiniteSet(D), NEW v \in [D -> Nat]
    PROVE  \E g : IsSum(g, D, v)
<1> DEFINE first == [s \in SUBSET D |-> AnyOf(s)]
           step == [x \in D |-> [m \in Nat |-> v[x] + m]]
<1>1. \A s \in SUBSET D : first[s] = AnyOf(s) /\ (s # {} => first[s] \in s)
  BY AnyOfIsOne
<1>2. /\ step \in [D -> [Nat -> Nat]]
      /\ \A x \in D : \A m \in Nat : step[x][m] = v[x] + m
  OBVIOUS
<1> HIDE DEF first, step
<1>3. PICK g : Repeats(g, D, Nat, 0, first, step)
  BY <1>1, <1>2, SubsetRecursion
<1>4. /\ g \in [SUBSET D -> Nat]
      /\ \A s \in SUBSET D : g[s] = IF s = {} THEN 0 ELSE step[first[s]][g[s \ {first[s]}]]
  BY <1>3 DEF Repeats
<1>5. ASSUME NEW s \in SUBSET D
      PROVE  g[s] = IF s = {} THEN 0 ELSE v[AnyOf(s)] + g[s \ {AnyOf(s)}]
  <2>1. CASE s = {}
    BY <1>4, <2>1
  <2>2. CASE s # {}
    <3>1. first[s] = AnyOf(s) /\ AnyOf(s) \in D /\ g[s \ {AnyOf(s)}] \in Nat
      BY <1>1, <1>4, <2>2
    <3> QED
      BY <1>2, <1>4, <2>2, <3>1
  <2> QED
    BY <2>1, <2>2
<1>6. IsSum(g, D, v)
  BY <1>4, <1>5 DEF IsSum
<1> QED
  BY <1>6

LEMMA SumStep ==
    ASSUME NEW D, NEW v, NEW g, IsSum(g, D, v)
    PROVE  /\ g[{}] = 0
           /\ \A s \in SUBSET D : s # {} =>
                  /\ AnyOf(s) \in s /\ AnyOf(s) \in D
                  /\ g[s] = v[AnyOf(s)] + g[s \ {AnyOf(s)}]
<1>1. \A s \in SUBSET D : g[s] = IF s = {} THEN 0 ELSE v[AnyOf(s)] + g[s \ {AnyOf(s)}]
  BY DEF IsSum
<1>2. {} \in SUBSET D
  OBVIOUS
<1> QED
  BY <1>1, <1>2, AnyOfIsOne

LEMMA SumTyped ==
    ASSUME NEW D, IsFiniteSet(D), NEW v \in [D -> Nat], NEW g, IsSum(g, D, v)
    PROVE  \A s \in SUBSET D : g[s] \in Nat
<1>a. /\ g[{}] = 0
      /\ \A s \in SUBSET D : s # {} =>
             AnyOf(s) \in s /\ AnyOf(s) \in D /\ g[s] = v[AnyOf(s)] + g[s \ {AnyOf(s)}]
  BY SumStep
<1> DEFINE T == {s \in SUBSET D : g[s] \in Nat}
<1>1. {} \in T
  BY <1>a
<1>2. ASSUME NEW s \in SUBSET D, s # {}, \A x \in s : s \ {x} \in T PROVE s \in T
  <2>1. /\ AnyOf(s) \in s /\ AnyOf(s) \in D
        /\ g[s] = v[AnyOf(s)] + g[s \ {AnyOf(s)}]
    BY <1>2, <1>a
  <2>2. g[s \ {AnyOf(s)}] \in Nat
    BY <1>2, <2>1
  <2> QED
    BY <2>1, <2>2
<1> HIDE DEF T
<1>3. \A s \in SUBSET D : s \in T
  BY <1>1, <1>2, SubsetInduction
<1> QED
  BY <1>3 DEF T

LEMMA SumBound ==
    ASSUME NEW D, IsFiniteSet(D), NEW v \in [D -> Nat], NEW u \in [D -> Nat],
           NEW g, IsSum(g, D, v), NEW h, IsSum(h, D, u),
           \A x \in D : v[x] <= u[x]
    PROVE  g[D] <= h[D]
<1>a. /\ g[{}] = 0
      /\ \A s \in SUBSET D : s # {} =>
             AnyOf(s) \in s /\ AnyOf(s) \in D /\ g[s] = v[AnyOf(s)] + g[s \ {AnyOf(s)}]
  BY SumStep
<1>b. /\ h[{}] = 0
      /\ \A s \in SUBSET D : s # {} => h[s] = u[AnyOf(s)] + h[s \ {AnyOf(s)}]
  BY SumStep
<1> DEFINE T == {s \in SUBSET D : g[s] <= h[s]}
<1>1. {} \in T
  BY <1>a, <1>b
<1>2. ASSUME NEW s \in SUBSET D, s # {}, \A x \in s : s \ {x} \in T PROVE s \in T
  <2>1. /\ AnyOf(s) \in s /\ AnyOf(s) \in D
        /\ g[s] = v[AnyOf(s)] + g[s \ {AnyOf(s)}] /\ h[s] = u[AnyOf(s)] + h[s \ {AnyOf(s)}]
    BY <1>2, <1>a, <1>b
  <2>2. /\ g[s \ {AnyOf(s)}] \in Nat /\ h[s \ {AnyOf(s)}] \in Nat
        /\ g[s \ {AnyOf(s)}] <= h[s \ {AnyOf(s)}]
    BY <1>2, <2>1, SumTyped
  <2>3. v[AnyOf(s)] \in Nat /\ u[AnyOf(s)] \in Nat /\ v[AnyOf(s)] <= u[AnyOf(s)]
    BY <2>1
  <2> QED
    BY <2>1, <2>2, <2>3
<1> HIDE DEF T
<1>3. \A s \in SUBSET D : s \in T
  BY <1>1, <1>2, SubsetInduction
<1> QED
  BY <1>3 DEF T

LEMMA SumMore ==
    ASSUME NEW D, IsFiniteSet(D), NEW v \in [D -> Nat], NEW u \in [D -> Nat],
           NEW g, IsSum(g, D, v), NEW h, IsSum(h, D, u), NEW y \in D, NEW d \in Nat,
           u[y] = v[y] + d, \A x \in D : x # y => u[x] = v[x]
    PROVE  h[D] = g[D] + d
<1>a. /\ g[{}] = 0
      /\ \A s \in SUBSET D : s # {} =>
             AnyOf(s) \in s /\ AnyOf(s) \in D /\ g[s] = v[AnyOf(s)] + g[s \ {AnyOf(s)}]
  BY SumStep
<1>b. /\ h[{}] = 0
      /\ \A s \in SUBSET D : s # {} => h[s] = u[AnyOf(s)] + h[s \ {AnyOf(s)}]
  BY SumStep
<1> DEFINE T == {s \in SUBSET D : h[s] = IF y \in s THEN g[s] + d ELSE g[s]}
<1>1. {} \in T
  BY <1>a, <1>b
<1>2. ASSUME NEW s \in SUBSET D, s # {}, \A x \in s : s \ {x} \in T PROVE s \in T
  <2>1. /\ AnyOf(s) \in s /\ AnyOf(s) \in D
        /\ g[s] = v[AnyOf(s)] + g[s \ {AnyOf(s)}] /\ h[s] = u[AnyOf(s)] + h[s \ {AnyOf(s)}]
    BY <1>2, <1>a, <1>b
  <2>2. /\ g[s \ {AnyOf(s)}] \in Nat /\ h[s \ {AnyOf(s)}] \in Nat
        /\ h[s \ {AnyOf(s)}] = IF y \in s \ {AnyOf(s)} THEN g[s \ {AnyOf(s)}] + d ELSE g[s \ {AnyOf(s)}]
    BY <1>2, <2>1, SumTyped
  <2>3. v[AnyOf(s)] \in Nat /\ u[AnyOf(s)] \in Nat
    BY <2>1
  <2>4. CASE AnyOf(s) = y
    BY <2>1, <2>2, <2>3, <2>4
  <2>5. CASE AnyOf(s) # y
    BY <2>1, <2>2, <2>3, <2>5
  <2> QED
    BY <2>4, <2>5
<1> HIDE DEF T
<1>3. \A s \in SUBSET D : s \in T
  BY <1>1, <1>2, SubsetInduction
<1> QED
  BY <1>3 DEF T

LEMMA SumIs ==
    ASSUME NEW D, IsFiniteSet(D), NEW v \in [D -> Nat]
    PROVE  \E g : IsSum(g, D, v) /\ SumOf(D, v) = g[D]
<1> DEFINE g == CHOOSE f : IsSum(f, D, v)
<1>1. IsSum(g, D, v)
  BY SumExists
<1> QED
  BY <1>1 DEF SumOf

LEMMA SumOfBound ==
    ASSUME NEW D, IsFiniteSet(D), NEW v \in [D -> Nat], NEW u \in [D -> Nat],
           \A x \in D : v[x] <= u[x]
    PROVE  SumOf(D, v) <= SumOf(D, u)
<1>1. PICK g : IsSum(g, D, v) /\ SumOf(D, v) = g[D]
  BY SumIs
<1>2. PICK h : IsSum(h, D, u) /\ SumOf(D, u) = h[D]
  BY SumIs
<1>3. g[D] <= h[D]
  BY <1>1, <1>2, SumBound
<1> QED
  BY <1>1, <1>2, <1>3

LEMMA SumOfMore ==
    ASSUME NEW D, IsFiniteSet(D), NEW v \in [D -> Nat], NEW u \in [D -> Nat],
           NEW y \in D, NEW d \in Nat,
           u[y] = v[y] + d, \A x \in D : x # y => u[x] = v[x]
    PROVE  SumOf(D, u) = SumOf(D, v) + d
<1>1. PICK g : IsSum(g, D, v) /\ SumOf(D, v) = g[D]
  BY SumIs
<1>2. PICK h : IsSum(h, D, u) /\ SumOf(D, u) = h[D]
  BY SumIs
<1>3. h[D] = g[D] + d
  BY <1>1, <1>2, SumMore
<1> QED
  BY <1>1, <1>2, <1>3

LEMMA SumOfNothing ==
    ASSUME NEW D, IsFiniteSet(D), NEW v \in [D -> Nat], \A x \in D : v[x] = 0
    PROVE  SumOf(D, v) = 0
<1>1. PICK g : IsSum(g, D, v) /\ SumOf(D, v) = g[D]
  BY SumIs
<1> DEFINE T == {s \in SUBSET D : g[s] = 0}
<1>2. /\ g[{}] = 0
      /\ \A s \in SUBSET D : s # {} =>
             AnyOf(s) \in s /\ AnyOf(s) \in D /\ g[s] = v[AnyOf(s)] + g[s \ {AnyOf(s)}]
  BY <1>1, SumStep
<1>3. {} \in T
  BY <1>2
<1>4. ASSUME NEW s \in SUBSET D, s # {}, \A x \in s : s \ {x} \in T PROVE s \in T
  <2>1. AnyOf(s) \in s /\ g[s] = 0 + g[s \ {AnyOf(s)}]
    BY <1>2, <1>4
  <2>2. g[s \ {AnyOf(s)}] = 0
    BY <1>4, <2>1
  <2> QED
    BY <2>1, <2>2
<1> HIDE DEF T
<1>5. \A s \in SUBSET D : s \in T
  BY <1>3, <1>4, SubsetInduction
<1> QED
  BY <1>1, <1>5 DEF T

=============================================================================
