------------------------------ MODULE SumFacts ------------------------------
(* Facts about sums over finite sets, SumFunctionOnSet and SumFunction of       *)
(* Functions, for the proofs about counters that are kept per CPU and per flow. *)
(* They rest on induction over natural numbers, stated for sets of numbers: a   *)
(* set that has 0 and is closed under successors is Nat.                        *)
EXTENDS Integers, FiniteSets, Functions, FiniteSetTheorems, WellFoundedInduction, TLAPS

---------------------------------------------------------------------------------
(* Induction.                                                                      *)

\* Every non-empty set of natural numbers has a least element.
LEMMA LeastNatural ==
  ASSUME NEW T \in SUBSET Nat, T # {}
  PROVE  \E x \in T : \A y \in T : x <= y
<1>1. PICK x \in T : \A y \in T : ~ (<<y, x>> \in OpToRel(<, Nat))
  <2>1. IsWellFoundedOn(OpToRel(<, Nat), Nat)
    BY NatLessThanWellFounded
  <2> QED
    BY <2>1, WFMin
<1>2. \A y \in T : ~(y < x)
  BY <1>1 DEF OpToRel
<1> QED
  BY <1>2

\* Induction over natural numbers.
LEMMA SetInduction ==
  ASSUME NEW S \in SUBSET Nat, 0 \in S, \A n \in S : n + 1 \in S
  PROVE  S = Nat
<1> SUFFICES ASSUME Nat \ S # {} PROVE FALSE
  OBVIOUS
<1>1. PICK m \in Nat \ S : \A y \in Nat \ S : m <= y
  BY LeastNatural
<1>2. m # 0 /\ m - 1 \in Nat /\ ~(m <= m - 1)
  BY <1>1
<1>3. m - 1 \in S
  BY <1>1, <1>2
<1> QED
  BY <1>2, <1>3

---------------------------------------------------------------------------------
(* The recursion behind SumFunctionOnSet.                                          *)

PickOf(s) == CHOOSE x \in s : TRUE

IsSum(f, D, g) ==
  g = [s \in D |-> IF s = {} THEN 0 ELSE f[PickOf(s)] + g[s \ {PickOf(s)}]]

SumOfSubsets(f, S) == CHOOSE g : IsSum(f, SUBSET S, g)

\* Removing the chosen element of a finite set makes it smaller.
LEMMA PickSmaller ==
  ASSUME NEW S, IsFiniteSet(S), NEW s \in SUBSET S, s # {}
  PROVE  /\ PickOf(s) \in s /\ s \ {PickOf(s)} \in SUBSET S
         /\ Cardinality(s) \in Nat /\ Cardinality(s) # 0
         /\ Cardinality(s \ {PickOf(s)}) = Cardinality(s) - 1
<1>1. PickOf(s) \in s
  BY DEF PickOf
<1>2. IsFiniteSet(s)
  BY FS_Subset
<1> QED
  BY <1>1, <1>2, FS_CardinalityType, FS_RemoveElement, FS_EmptySet

\* Induction over the subsets of a finite set: a family of them to which every subset
\* belongs whose one-smaller subsets all do is the family of all subsets.
LEMMA SubsetInduction ==
  ASSUME NEW S, IsFiniteSet(S), NEW P \in SUBSET (SUBSET S),
         \A s \in SUBSET S : (\A x \in s : s \ {x} \in P) => s \in P
  PROVE  P = SUBSET S
<1> DEFINE N == {n \in Nat : \A s \in SUBSET S : Cardinality(s) = n => s \in P}
<1>1. \A s \in SUBSET S : IsFiniteSet(s) /\ Cardinality(s) \in Nat
  BY FS_Subset, FS_CardinalityType
<1>2. \A s \in SUBSET S : Cardinality(s) = 0 => s = {}
  BY <1>1, FS_EmptySet
<1>3. 0 \in N
  BY <1>2
<1>4. ASSUME NEW n \in N PROVE n + 1 \in N
  <2>1. n \in Nat /\ n + 1 \in Nat
    OBVIOUS
  <2>2. \A s \in SUBSET S : Cardinality(s) = n + 1 => \A x \in s : s \ {x} \in P
    <3> SUFFICES ASSUME NEW s \in SUBSET S, Cardinality(s) = n + 1, NEW x \in s
                 PROVE  s \ {x} \in P
      OBVIOUS
    <3>1. Cardinality(s \ {x}) = Cardinality(s) - 1
      BY <1>1, FS_RemoveElement
    <3>2. s \ {x} \in SUBSET S /\ Cardinality(s \ {x}) = n
      BY <2>1, <3>1
    <3> QED
      BY <3>2
  <2> QED
    BY <2>1, <2>2
<1>5. N = Nat
  <2> HIDE DEF N
  <2>1. N \in SUBSET Nat
    BY DEF N
  <2> QED
    BY <1>3, <1>4, <2>1, SetInduction
<1>6. \A s \in SUBSET S : s \in P
  BY <1>1, <1>5
<1> QED
  BY <1>6

Small(S, n) == {s \in SUBSET S : Cardinality(s) <= n}

Body(f, s, g) == IF s = {} THEN 0 ELSE f[PickOf(s)] + g[s \ {PickOf(s)}]

Solves(f, S, n, g) == g = [s \in Small(S, n) |-> Body(f, s, g)]

\* A solution for the subsets of at most n elements extends to one more.
LEMMA SolutionExtends ==
  ASSUME NEW f, NEW S, IsFiniteSet(S), NEW n \in Nat, NEW g, Solves(f, S, n, g)
  PROVE  \E h : Solves(f, S, n + 1, h)
<1> DEFINE h == [s \in Small(S, n + 1) |-> Body(f, s, g)]
<1>1. \A s \in Small(S, n) : s \in Small(S, n + 1)
  <2> SUFFICES ASSUME NEW s \in SUBSET S, Cardinality(s) <= n
               PROVE  Cardinality(s) <= n + 1
    BY DEF Small
  <2>1. Cardinality(s) \in Nat
    BY FS_Subset, FS_CardinalityType
  <2> QED
    BY <2>1
<1>2. \A s \in Small(S, n) : h[s] = g[s]
  BY <1>1 DEF Solves
<1>3. \A s \in Small(S, n + 1) : s # {} => s \ {PickOf(s)} \in Small(S, n)
  <2> SUFFICES ASSUME NEW s \in SUBSET S, Cardinality(s) <= n + 1, s # {}
               PROVE  s \ {PickOf(s)} \in SUBSET S /\ Cardinality(s \ {PickOf(s)}) <= n
    BY DEF Small
  <2> QED
    BY PickSmaller
<1>4. \A s \in Small(S, n + 1) : Body(f, s, h) = Body(f, s, g)
  <2> HIDE DEF h
  <2> QED
    BY <1>2, <1>3 DEF Body
<1>5. Solves(f, S, n + 1, h)
  BY <1>4 DEF Solves
<1> QED
  BY <1>5

\* The recursion has a solution.
LEMMA SumOfSubsetsExists ==
  ASSUME NEW f, NEW S, IsFiniteSet(S)
  PROVE  IsSum(f, SUBSET S, SumOfSubsets(f, S))
<1> DEFINE N == {n \in Nat : \E g : Solves(f, S, n, g)}
<1>1. 0 \in N
  <2> DEFINE g == [s \in Small(S, 0) |-> 0]
  <2>1. \A s \in Small(S, 0) : s = {}
    <3> SUFFICES ASSUME NEW s \in SUBSET S, Cardinality(s) <= 0 PROVE s = {}
      BY DEF Small
    <3>1. IsFiniteSet(s) /\ Cardinality(s) \in Nat
      BY FS_Subset, FS_CardinalityType
    <3>2. Cardinality(s) = 0
      BY <3>1
    <3> QED
      BY <3>1, <3>2, FS_EmptySet
  <2>2. Solves(f, S, 0, g)
    BY <2>1 DEF Solves, Body
  <2> QED
    BY <2>2
<1>2. ASSUME NEW n \in N PROVE n + 1 \in N
  BY SolutionExtends
<1>3. Cardinality(S) \in N
  <2> HIDE DEF N
  <2>1. N \in SUBSET Nat
    BY DEF N
  <2> QED
    BY <1>1, <1>2, <2>1, SetInduction, FS_CardinalityType
<1>4. Small(S, Cardinality(S)) = SUBSET S
  BY FS_Subset DEF Small
<1>5. \E g : IsSum(f, SUBSET S, g)
  BY <1>3, <1>4 DEF IsSum, Solves, Body
<1> QED
  BY <1>5 DEF SumOfSubsets

\* What the recursion gives for one subset.
LEMMA SumOfSubsetsValue ==
  ASSUME NEW f, NEW S, IsFiniteSet(S), NEW s \in SUBSET S
  PROVE  SumOfSubsets(f, S)[s] =
           IF s = {} THEN 0 ELSE f[PickOf(s)] + SumOfSubsets(f, S)[s \ {PickOf(s)}]
<1> DEFINE g == SumOfSubsets(f, S)
<1>1. IsSum(f, SUBSET S, g)
  BY SumOfSubsetsExists
<1> HIDE DEF g
<1>2. g = [t \in SUBSET S |-> IF t = {} THEN 0 ELSE f[PickOf(t)] + g[t \ {PickOf(t)}]]
  BY <1>1 DEF IsSum
<1>3. g[s] = IF s = {} THEN 0 ELSE f[PickOf(s)] + g[s \ {PickOf(s)}]
  BY <1>2, Zenon
<1> QED
  BY <1>3 DEF g

\* The sum over a subset is the value of the larger recursion at that subset.
LEMMA SumOfSubset ==
  ASSUME NEW f, NEW S, IsFiniteSet(S), NEW s \in SUBSET S
  PROVE  SumOfSubsets(f, S)[s] = SumFunctionOnSet(f, s)
<1> DEFINE P == {t \in SUBSET s : SumOfSubsets(f, S)[t] = SumOfSubsets(f, s)[t]}
<1>1. IsFiniteSet(s)
  BY FS_Subset
<1>2. \A t \in SUBSET S :
        SumOfSubsets(f, S)[t] =
          IF t = {} THEN 0 ELSE f[PickOf(t)] + SumOfSubsets(f, S)[t \ {PickOf(t)}]
  BY SumOfSubsetsValue
<1>3. \A t \in SUBSET s :
        SumOfSubsets(f, s)[t] =
          IF t = {} THEN 0 ELSE f[PickOf(t)] + SumOfSubsets(f, s)[t \ {PickOf(t)}]
  BY <1>1, SumOfSubsetsValue
<1>4. \A t \in SUBSET s : (\A x \in t : t \ {x} \in P) => t \in P
  <2> SUFFICES ASSUME NEW t \in SUBSET s, \A x \in t : t \ {x} \in P PROVE t \in P
    OBVIOUS
  <2>1. t # {} => PickOf(t) \in t
    BY DEF PickOf
  <2>2. t # {} => SumOfSubsets(f, S)[t \ {PickOf(t)}] = SumOfSubsets(f, s)[t \ {PickOf(t)}]
    BY <2>1
  <2> QED
    BY <1>2, <1>3, <2>2
<1>5. P = SUBSET s
  <2> HIDE DEF P
  <2>1. P \in SUBSET (SUBSET s)
    BY DEF P
  <2> QED
    BY <1>1, <1>4, <2>1, SubsetInduction
<1>6. SumOfSubsets(f, S)[s] = SumOfSubsets(f, s)[s]
  BY <1>5
<1>7. SumFunctionOnSet(f, s) = SumOfSubsets(f, s)[s]
  BY Zenon DEF SumFunctionOnSet, FoldFunctionOnSet, MapThenFoldSet, SumOfSubsets, IsSum, PickOf
<1> QED
  BY <1>6, <1>7

---------------------------------------------------------------------------------
(* Sums.                                                                           *)

\* The empty sum is 0.
LEMMA SumEmpty ==
  ASSUME NEW f PROVE SumFunctionOnSet(f, {}) = 0
<1>1. IsFiniteSet({})
  BY FS_EmptySet
<1>2. SumOfSubsets(f, {})[{}] = 0
  BY <1>1, SumOfSubsetsValue
<1> QED
  BY <1>1, <1>2, SumOfSubset

\* A sum is the value at the chosen element and the sum over the others.
LEMMA SumStep ==
  ASSUME NEW f, NEW S, IsFiniteSet(S), S # {}
  PROVE  SumFunctionOnSet(f, S) = f[PickOf(S)] + SumFunctionOnSet(f, S \ {PickOf(S)})
<1>1. SumOfSubsets(f, S)[S] = f[PickOf(S)] + SumOfSubsets(f, S)[S \ {PickOf(S)}]
  BY SumOfSubsetsValue
<1> QED
  BY <1>1, SumOfSubset

\* A sum of natural numbers is one.
LEMMA SumType ==
  ASSUME NEW f, NEW S, IsFiniteSet(S), \A x \in S : f[x] \in Nat
  PROVE  SumFunctionOnSet(f, S) \in Nat
<1> DEFINE P == {s \in SUBSET S : SumFunctionOnSet(f, s) \in Nat}
<1>1. \A s \in SUBSET S : (\A x \in s : s \ {x} \in P) => s \in P
  <2> SUFFICES ASSUME NEW s \in SUBSET S, \A x \in s : s \ {x} \in P PROVE s \in P
    OBVIOUS
  <2>1. CASE s = {}
    BY <2>1, SumEmpty
  <2>2. CASE s # {}
    <3>1. PickOf(s) \in s
      BY <2>2 DEF PickOf
    <3>2. SumFunctionOnSet(f, s) = f[PickOf(s)] + SumFunctionOnSet(f, s \ {PickOf(s)})
      BY <2>2, FS_Subset, SumStep
    <3>3. f[PickOf(s)] \in Nat /\ SumFunctionOnSet(f, s \ {PickOf(s)}) \in Nat
      BY <3>1
    <3> QED
      BY <3>2, <3>3
  <2> QED
    BY <2>1, <2>2
<1>2. P = SUBSET S
  <2> HIDE DEF P
  <2>1. P \in SUBSET (SUBSET S)
    BY DEF P
  <2> QED
    BY <1>1, <2>1, SubsetInduction
<1> QED
  BY <1>2

\* Any element may be taken out of a sum.
LEMMA SumRemove ==
  ASSUME NEW f, NEW S, IsFiniteSet(S), \A y \in S : f[y] \in Nat, NEW x \in S
  PROVE  SumFunctionOnSet(f, S) = f[x] + SumFunctionOnSet(f, S \ {x})
<1> DEFINE P == {s \in SUBSET S : \A z \in s :
                   SumFunctionOnSet(f, s) = f[z] + SumFunctionOnSet(f, s \ {z})}
<1>1. \A s \in SUBSET S : IsFiniteSet(s) /\ SumFunctionOnSet(f, s) \in Nat
  <2> SUFFICES ASSUME NEW s \in SUBSET S
               PROVE  IsFiniteSet(s) /\ SumFunctionOnSet(f, s) \in Nat
    OBVIOUS
  <2>1. IsFiniteSet(s)
    BY FS_Subset
  <2> QED
    BY <2>1, SumType
<1>2. \A s \in SUBSET S : (\A z \in s : s \ {z} \in P) => s \in P
  <2> SUFFICES ASSUME NEW s \in SUBSET S, \A z \in s : s \ {z} \in P, NEW z \in s
               PROVE  SumFunctionOnSet(f, s) = f[z] + SumFunctionOnSet(f, s \ {z})
    OBVIOUS
  <2> DEFINE p == PickOf(s)
  <2>1. p \in s
    BY DEF PickOf
  <2>2. SumFunctionOnSet(f, s) = f[p] + SumFunctionOnSet(f, s \ {p})
    BY <1>1, SumStep
  <2>3. CASE z = p
    BY <2>2, <2>3
  <2>4. CASE z # p
    <3> HIDE DEF p
    <3>1. SumFunctionOnSet(f, s \ {p}) = f[z] + SumFunctionOnSet(f, (s \ {p}) \ {z})
      BY <2>1, <2>4
    <3>2. SumFunctionOnSet(f, s \ {z}) = f[p] + SumFunctionOnSet(f, (s \ {z}) \ {p})
      BY <2>1, <2>4
    <3>3. (s \ {p}) \ {z} = (s \ {z}) \ {p} /\ (s \ {p}) \ {z} \in SUBSET S
      OBVIOUS
    <3>4. SumFunctionOnSet(f, (s \ {p}) \ {z}) \in Nat
      BY <1>1, <3>3
    <3>5. f[z] \in Nat /\ f[p] \in Nat
      BY <2>1
    <3>6. SumFunctionOnSet(f, s) = f[p] + (f[z] + SumFunctionOnSet(f, (s \ {p}) \ {z}))
      BY <2>2, <3>1
    <3>7. SumFunctionOnSet(f, s \ {z}) = f[p] + SumFunctionOnSet(f, (s \ {p}) \ {z})
      BY <3>2, <3>3
    <3> QED
      BY <3>4, <3>5, <3>6, <3>7
  <2> QED
    BY <2>3, <2>4
<1>3. P = SUBSET S
  <2> HIDE DEF P
  <2>1. P \in SUBSET (SUBSET S)
    BY DEF P
  <2> QED
    BY <1>2, <2>1, SubsetInduction
<1> QED
  BY <1>3

\* A sum depends on the values at the elements of its set only.
LEMMA SumCongruence ==
  ASSUME NEW f, NEW g, NEW S, IsFiniteSet(S), \A x \in S : f[x] = g[x]
  PROVE  SumFunctionOnSet(f, S) = SumFunctionOnSet(g, S)
<1> DEFINE P == {s \in SUBSET S : SumFunctionOnSet(f, s) = SumFunctionOnSet(g, s)}
<1>1. \A s \in SUBSET S : (\A x \in s : s \ {x} \in P) => s \in P
  <2> SUFFICES ASSUME NEW s \in SUBSET S, \A x \in s : s \ {x} \in P PROVE s \in P
    OBVIOUS
  <2>1. CASE s = {}
    BY <2>1, SumEmpty
  <2>2. CASE s # {}
    <3>1. PickOf(s) \in s
      BY <2>2 DEF PickOf
    <3>2. SumFunctionOnSet(f, s) = f[PickOf(s)] + SumFunctionOnSet(f, s \ {PickOf(s)})
      BY <2>2, FS_Subset, SumStep
    <3>3. SumFunctionOnSet(g, s) = g[PickOf(s)] + SumFunctionOnSet(g, s \ {PickOf(s)})
      BY <2>2, FS_Subset, SumStep
    <3>4. SumFunctionOnSet(f, s \ {PickOf(s)}) = SumFunctionOnSet(g, s \ {PickOf(s)})
      BY <3>1
    <3>5. f[PickOf(s)] = g[PickOf(s)]
      BY <3>1
    <3> QED
      BY <3>2, <3>3, <3>4, <3>5
  <2> QED
    BY <2>1, <2>2
<1>2. P = SUBSET S
  <2> HIDE DEF P
  <2>1. P \in SUBSET (SUBSET S)
    BY DEF P
  <2> QED
    BY <1>1, <2>1, SubsetInduction
<1> QED
  BY <1>2

\* A value changed at one element changes the sum by as much.
LEMMA SumChange ==
  ASSUME NEW f, NEW g, NEW S, IsFiniteSet(S), NEW x \in S,
         \A y \in S : f[y] \in Nat /\ g[y] \in Nat,
         \A y \in S \ {x} : g[y] = f[y]
  PROVE  SumFunctionOnSet(g, S) = SumFunctionOnSet(f, S) - f[x] + g[x]
<1>1. IsFiniteSet(S \ {x})
  BY FS_Subset
<1>2. SumFunctionOnSet(f, S) = f[x] + SumFunctionOnSet(f, S \ {x})
  BY SumRemove
<1>3. SumFunctionOnSet(g, S) = g[x] + SumFunctionOnSet(g, S \ {x})
  BY SumRemove
<1>4. SumFunctionOnSet(g, S \ {x}) = SumFunctionOnSet(f, S \ {x})
  BY <1>1, SumCongruence
<1>5. SumFunctionOnSet(f, S \ {x}) \in Nat
  BY <1>1, SumType
<1> QED
  BY <1>2, <1>3, <1>4, <1>5

\* Larger values have a larger sum.
LEMMA SumMonotone ==
  ASSUME NEW f, NEW g, NEW S, IsFiniteSet(S),
         \A x \in S : f[x] \in Nat /\ g[x] \in Nat /\ f[x] <= g[x]
  PROVE  SumFunctionOnSet(f, S) <= SumFunctionOnSet(g, S)
<1> DEFINE P == {s \in SUBSET S : SumFunctionOnSet(f, s) <= SumFunctionOnSet(g, s)}
<1>1. \A s \in SUBSET S :
        IsFiniteSet(s) /\ SumFunctionOnSet(f, s) \in Nat /\ SumFunctionOnSet(g, s) \in Nat
  <2> SUFFICES ASSUME NEW s \in SUBSET S
               PROVE  /\ IsFiniteSet(s) /\ SumFunctionOnSet(f, s) \in Nat
                      /\ SumFunctionOnSet(g, s) \in Nat
    OBVIOUS
  <2>1. IsFiniteSet(s)
    BY FS_Subset
  <2> QED
    BY <2>1, SumType
<1>2. \A s \in SUBSET S : (\A x \in s : s \ {x} \in P) => s \in P
  <2> SUFFICES ASSUME NEW s \in SUBSET S, \A x \in s : s \ {x} \in P PROVE s \in P
    OBVIOUS
  <2>1. CASE s = {}
    BY <2>1, SumEmpty
  <2>2. CASE s # {}
    <3>1. PickOf(s) \in s
      BY <2>2 DEF PickOf
    <3>2. SumFunctionOnSet(f, s) = f[PickOf(s)] + SumFunctionOnSet(f, s \ {PickOf(s)})
      BY <1>1, <2>2, SumStep
    <3>3. SumFunctionOnSet(g, s) = g[PickOf(s)] + SumFunctionOnSet(g, s \ {PickOf(s)})
      BY <1>1, <2>2, SumStep
    <3>4. SumFunctionOnSet(f, s \ {PickOf(s)}) <= SumFunctionOnSet(g, s \ {PickOf(s)})
      BY <3>1
    <3>5. /\ f[PickOf(s)] \in Nat /\ g[PickOf(s)] \in Nat /\ f[PickOf(s)] <= g[PickOf(s)]
          /\ SumFunctionOnSet(f, s \ {PickOf(s)}) \in Nat
          /\ SumFunctionOnSet(g, s \ {PickOf(s)}) \in Nat
      BY <1>1, <3>1
    <3> QED
      BY <3>2, <3>3, <3>4, <3>5
  <2> QED
    BY <2>1, <2>2
<1>3. P = SUBSET S
  <2> HIDE DEF P
  <2>1. P \in SUBSET (SUBSET S)
    BY DEF P
  <2> QED
    BY <1>2, <2>1, SubsetInduction
<1> QED
  BY <1>3

\* A sum of zeros is 0.
LEMMA SumZero ==
  ASSUME NEW f, NEW S, IsFiniteSet(S), \A x \in S : f[x] = 0
  PROVE  SumFunctionOnSet(f, S) = 0
<1> DEFINE P == {s \in SUBSET S : SumFunctionOnSet(f, s) = 0}
<1>1. \A s \in SUBSET S : (\A x \in s : s \ {x} \in P) => s \in P
  <2> SUFFICES ASSUME NEW s \in SUBSET S, \A x \in s : s \ {x} \in P PROVE s \in P
    OBVIOUS
  <2>1. CASE s = {}
    BY <2>1, SumEmpty
  <2>2. CASE s # {}
    <3>1. PickOf(s) \in s
      BY <2>2 DEF PickOf
    <3>2. SumFunctionOnSet(f, s) = f[PickOf(s)] + SumFunctionOnSet(f, s \ {PickOf(s)})
      BY <2>2, FS_Subset, SumStep
    <3>3. f[PickOf(s)] = 0 /\ SumFunctionOnSet(f, s \ {PickOf(s)}) = 0
      BY <3>1
    <3> QED
      BY <3>2, <3>3
  <2> QED
    BY <2>1, <2>2
<1>2. P = SUBSET S
  <2> HIDE DEF P
  <2>1. P \in SUBSET (SUBSET S)
    BY DEF P
  <2> QED
    BY <1>1, <2>1, SubsetInduction
<1> QED
  BY <1>2

\* Sums of functions on finite sets: they are numbers, those of zeros are 0, and a
\* function that is nowhere larger has no larger sum.
LEMMA SumOfFunction ==
  ASSUME NEW S, IsFiniteSet(S), NEW f \in [S -> Nat]
  PROVE  /\ SumFunction(f) \in Nat
         /\ (\A x \in S : f[x] = 0) => SumFunction(f) = 0
         /\ \A g \in [S -> Nat] : (\A x \in S : f[x] <= g[x]) => SumFunction(f) <= SumFunction(g)
<1>1. SumFunction(f) = SumFunctionOnSet(f, S)
  BY DEF SumFunction
<1>2. \A g \in [S -> Nat] : SumFunction(g) = SumFunctionOnSet(g, S)
  BY DEF SumFunction
<1> QED
  BY <1>1, <1>2, SumType, SumZero, SumMonotone

\* A function that differs from another by n more at one element has a sum n larger.
LEMMA SumGrows ==
  ASSUME NEW S, IsFiniteSet(S), NEW f \in [S -> Nat], NEW g \in [S -> Nat], NEW x \in S,
         NEW n \in Nat, g[x] = f[x] + n, \A y \in S \ {x} : g[y] = f[y]
  PROVE  SumFunction(g) = SumFunction(f) + n
<1>1. SumFunction(f) = SumFunctionOnSet(f, S) /\ SumFunction(g) = SumFunctionOnSet(g, S)
  BY DEF SumFunction
<1>2. SumFunctionOnSet(g, S) = SumFunctionOnSet(f, S) - f[x] + g[x]
  BY SumChange
<1>3. SumFunctionOnSet(f, S) \in Nat
  BY SumType
<1>4. f[x] \in Nat
  OBVIOUS
<1> QED
  BY <1>1, <1>2, <1>3, <1>4

\* The sum of sums.
LEMMA SumPlus ==
  ASSUME NEW f, NEW g, NEW h, NEW S, IsFiniteSet(S),
         \A x \in S : f[x] \in Nat /\ g[x] \in Nat /\ h[x] = f[x] + g[x]
  PROVE  SumFunctionOnSet(h, S) = SumFunctionOnSet(f, S) + SumFunctionOnSet(g, S)
<1> DEFINE P == {s \in SUBSET S : SumFunctionOnSet(h, s) =
                                    SumFunctionOnSet(f, s) + SumFunctionOnSet(g, s)}
<1>1. \A s \in SUBSET S :
        IsFiniteSet(s) /\ SumFunctionOnSet(f, s) \in Nat /\ SumFunctionOnSet(g, s) \in Nat
  <2> SUFFICES ASSUME NEW s \in SUBSET S
               PROVE  /\ IsFiniteSet(s) /\ SumFunctionOnSet(f, s) \in Nat
                      /\ SumFunctionOnSet(g, s) \in Nat
    OBVIOUS
  <2>1. IsFiniteSet(s)
    BY FS_Subset
  <2> QED
    BY <2>1, SumType
<1>2. \A s \in SUBSET S : (\A x \in s : s \ {x} \in P) => s \in P
  <2> SUFFICES ASSUME NEW s \in SUBSET S, \A x \in s : s \ {x} \in P PROVE s \in P
    OBVIOUS
  <2>1. CASE s = {}
    BY <2>1, SumEmpty
  <2>2. CASE s # {}
    <3> DEFINE p == PickOf(s)
               r == s \ {p}
    <3>1. p \in s /\ r \in SUBSET S /\ r \in P
      BY <2>2 DEF PickOf
    <3>2. /\ SumFunctionOnSet(f, s) = f[p] + SumFunctionOnSet(f, r)
          /\ SumFunctionOnSet(g, s) = g[p] + SumFunctionOnSet(g, r)
          /\ SumFunctionOnSet(h, s) = h[p] + SumFunctionOnSet(h, r)
      BY <1>1, <2>2, SumStep
    <3>3. /\ f[p] \in Nat /\ g[p] \in Nat /\ h[p] = f[p] + g[p]
          /\ SumFunctionOnSet(f, r) \in Nat /\ SumFunctionOnSet(g, r) \in Nat
          /\ SumFunctionOnSet(h, r) = SumFunctionOnSet(f, r) + SumFunctionOnSet(g, r)
      BY <1>1, <3>1
    <3> HIDE DEF p, r
    <3>4. SumFunctionOnSet(h, s) = SumFunctionOnSet(f, s) + SumFunctionOnSet(g, s)
      BY <3>2, <3>3
    <3> QED
      BY <3>4
  <2> QED
    BY <2>1, <2>2
<1>3. P = SUBSET S
  <2> HIDE DEF P
  <2>1. P \in SUBSET (SUBSET S)
    BY DEF P
  <2> QED
    BY <1>2, <2>1, SubsetInduction
<1> QED
  BY <1>3

\* A table may be summed by rows or by columns.
LEMMA SumSwap ==
  ASSUME NEW S, IsFiniteSet(S), NEW T, IsFiniteSet(T), NEW m \in [S -> [T -> Nat]]
  PROVE  SumFunction([x \in S |-> SumFunction([y \in T |-> m[x][y]])]) =
           SumFunction([y \in T |-> SumFunction([x \in S |-> m[x][y]])])
<1> DEFINE row(x) == [y \in T |-> m[x][y]]
           column(y) == [x \in S |-> m[x][y]]
           rows == [x \in S |-> SumFunction(row(x))]
           columns(s) == [y \in T |-> SumFunctionOnSet(column(y), s)]
           P == {s \in SUBSET S : SumFunctionOnSet(rows, s) = SumFunctionOnSet(columns(s), T)}
<1>1. \A s \in SUBSET S : IsFiniteSet(s)
  BY FS_Subset
<1>2. ASSUME NEW x \in S PROVE SumFunction(row(x)) = SumFunctionOnSet(row(x), T)
  <2>1. DOMAIN row(x) = T
    OBVIOUS
  <2> HIDE DEF row
  <2> QED
    BY <2>1 DEF SumFunction
<1>3. ASSUME NEW y \in T, NEW s \in SUBSET S PROVE SumFunctionOnSet(column(y), s) \in Nat
  <2>1. \A x \in s : column(y)[x] \in Nat
    OBVIOUS
  <2> HIDE DEF column
  <2> QED
    BY <1>1, <2>1, SumType
<1>4. \A s \in SUBSET S : (\A x \in s : s \ {x} \in P) => s \in P
  <2> SUFFICES ASSUME NEW s \in SUBSET S, \A x \in s : s \ {x} \in P PROVE s \in P
    OBVIOUS
  <2>1. CASE s = {}
    <3>1. \A y \in T : columns(s)[y] = 0
      BY <2>1, SumEmpty
    <3>2. SumFunctionOnSet(columns(s), T) = 0
      <4> HIDE DEF columns
      <4> QED
        BY <3>1, SumZero
    <3> QED
      BY <2>1, <3>2, SumEmpty
  <2>2. CASE s # {}
    <3> DEFINE p == PickOf(s)
               r == s \ {p}
    <3>1. p \in s /\ r \in SUBSET S /\ r \in P
      BY <2>2 DEF PickOf
    <3>2. SumFunctionOnSet(rows, s) = rows[p] + SumFunctionOnSet(rows, r)
      <4> HIDE DEF rows
      <4> QED
        BY <1>1, <2>2, SumStep
    <3>3. \A y \in T : columns(s)[y] = row(p)[y] + columns(r)[y]
      <4> SUFFICES ASSUME NEW y \in T PROVE columns(s)[y] = row(p)[y] + columns(r)[y]
        OBVIOUS
      <4>1. SumFunctionOnSet(column(y), s) = column(y)[p] + SumFunctionOnSet(column(y), r)
        <5> HIDE DEF column
        <5> QED
          BY <1>1, <2>2, SumStep
      <4> QED
        BY <3>1, <4>1
    <3>4. \A y \in T : row(p)[y] \in Nat /\ columns(r)[y] \in Nat
      BY <1>3, <3>1
    <3>5. SumFunctionOnSet(columns(s), T) =
            SumFunctionOnSet(row(p), T) + SumFunctionOnSet(columns(r), T)
      <4> DEFINE f == row(p)
                 g == columns(r)
                 h == columns(s)
      <4>1. \A y \in T : f[y] \in Nat /\ g[y] \in Nat /\ h[y] = f[y] + g[y]
        BY <3>3, <3>4
      <4> HIDE DEF f, g, h
      <4>2. SumFunctionOnSet(h, T) = SumFunctionOnSet(f, T) + SumFunctionOnSet(g, T)
        BY <4>1, SumPlus
      <4> QED
        BY <4>2 DEF f, g, h
    <3>6. rows[p] = SumFunctionOnSet(row(p), T)
      BY <1>2, <3>1
    <3>7. SumFunctionOnSet(rows, r) = SumFunctionOnSet(columns(r), T)
      BY <3>1
    <3> HIDE DEF rows, columns, row, p, r
    <3> QED
      BY <3>2, <3>5, <3>6, <3>7
  <2> QED
    BY <2>1, <2>2
<1>5. P = SUBSET S
  <2> HIDE DEF P
  <2>1. P \in SUBSET (SUBSET S)
    BY DEF P
  <2> QED
    BY <1>4, <2>1, SubsetInduction
<1>6. SumFunctionOnSet(rows, S) = SumFunctionOnSet(columns(S), T)
  BY <1>5
<1>7. \A y \in T : SumFunctionOnSet(column(y), S) = SumFunction(column(y))
  <2> SUFFICES ASSUME NEW y \in T
               PROVE  SumFunctionOnSet(column(y), S) = SumFunction(column(y))
    OBVIOUS
  <2>1. DOMAIN column(y) = S
    OBVIOUS
  <2> HIDE DEF column
  <2> QED
    BY <2>1 DEF SumFunction
<1>8. columns(S) = [y \in T |-> SumFunction(column(y))]
  BY <1>7
<1>9. SumFunction(rows) = SumFunctionOnSet(rows, S)
  <2>1. DOMAIN rows = S
    OBVIOUS
  <2> HIDE DEF rows
  <2> QED
    BY <2>1 DEF SumFunction
<1>10. SumFunction(columns(S)) = SumFunctionOnSet(columns(S), T)
  <2>1. DOMAIN columns(S) = T
    OBVIOUS
  <2> HIDE DEF columns
  <2> QED
    BY <2>1 DEF SumFunction
<1> QED
  BY <1>6, <1>8, <1>9, <1>10
\* A function of one more element, or of one larger value, adds up to no more than that.
LEMMA SumOneMore ==
  ASSUME NEW S, IsFiniteSet(S), NEW x, NEW f \in [S -> Nat], NEW g \in [S \cup {x} -> Nat],
         NEW n \in Nat, \A y \in S \ {x} : g[y] <= f[y],
         g[x] <= n + (IF x \in S THEN f[x] ELSE 0)
  PROVE  SumFunction(g) <= SumFunction(f) + n
<1> DEFINE T == S \cup {x}
           R == S \ {x}
<1>1. IsFiniteSet(T) /\ IsFiniteSet(R)
  BY FS_AddElement, FS_RemoveElement
<1>2. SumFunction(f) = SumFunctionOnSet(f, S) /\ SumFunction(g) = SumFunctionOnSet(g, T)
  BY DEF SumFunction
<1>3. SumFunctionOnSet(g, T) = g[x] + SumFunctionOnSet(g, R)
  <2>1. T \ {x} = R /\ x \in T /\ \A y \in T : g[y] \in Nat
    OBVIOUS
  <2> HIDE DEF T, R
  <2> QED
    BY <1>1, <2>1, SumRemove
<1>4. /\ SumFunctionOnSet(g, R) <= SumFunctionOnSet(f, R)
      /\ SumFunctionOnSet(g, R) \in Nat /\ SumFunctionOnSet(f, R) \in Nat
  <2>1. \A y \in R : g[y] \in Nat /\ f[y] \in Nat /\ g[y] <= f[y]
    OBVIOUS
  <2> HIDE DEF R
  <2> QED
    BY <1>1, <2>1, SumMonotone, SumType
<1>5. CASE x \in S
  <2>1. SumFunctionOnSet(f, S) = f[x] + SumFunctionOnSet(f, R)
    BY <1>5, SumRemove
  <2>2. g[x] \in Nat /\ f[x] \in Nat /\ g[x] <= n + f[x]
    BY <1>5
  <2> HIDE DEF T, R
  <2> QED
    BY <1>2, <1>3, <1>4, <2>1, <2>2
<1>6. CASE x \notin S
  <2>1. R = S
    BY <1>6
  <2>2. g[x] \in Nat /\ g[x] <= n
    BY <1>6
  <2> HIDE DEF T, R
  <2> QED
    BY <1>2, <1>3, <1>4, <2>1, <2>2
<1> QED
  BY <1>5, <1>6

\* A function that is nowhere smaller, with one more element, does not add up to less.
LEMMA SumMoreKeys ==
  ASSUME NEW S, IsFiniteSet(S), NEW x, NEW f \in [S -> Nat], NEW g \in [S \cup {x} -> Nat],
         \A y \in S : f[y] <= g[y]
  PROVE  SumFunction(f) <= SumFunction(g)
<1> DEFINE T == S \cup {x}
<1>1. IsFiniteSet(T)
  BY FS_AddElement
<1>2. SumFunction(f) = SumFunctionOnSet(f, S) /\ SumFunction(g) = SumFunctionOnSet(g, T)
  BY DEF SumFunction
<1>3. /\ SumFunctionOnSet(f, S) <= SumFunctionOnSet(g, S)
      /\ SumFunctionOnSet(f, S) \in Nat /\ SumFunctionOnSet(g, S) \in Nat
  <2>1. \A y \in S : f[y] \in Nat /\ g[y] \in Nat
    OBVIOUS
  <2> QED
    BY <2>1, SumMonotone, SumType
<1>4. CASE x \in S
  <2>1. T = S
    BY <1>4
  <2> QED
    BY <1>2, <1>3, <2>1
<1>5. CASE x \notin S
  <2>1. SumFunctionOnSet(g, T) = g[x] + SumFunctionOnSet(g, S)
    <3>1. T \ {x} = S /\ x \in T /\ \A y \in T : g[y] \in Nat
      BY <1>5
    <3> HIDE DEF T
    <3> QED
      BY <1>1, <3>1, SumRemove
  <2>2. g[x] \in Nat
    OBVIOUS
  <2> HIDE DEF T
  <2> QED
    BY <1>2, <1>3, <2>1, <2>2
<1> QED
  BY <1>4, <1>5

=============================================================================
