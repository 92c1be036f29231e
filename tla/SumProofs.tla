------------------------------- MODULE SumProofs -------------------------------
(***************************************************************************)
(* Sums of integer functions over a finite set, as SumFunctionOnSet of the  *)
(* community module Functions computes them.  Induction is over a set of    *)
(* numbers or of subsets, so that no operator has to be instantiated.       *)
(***************************************************************************)
EXTENDS Integers, Functions, FiniteSets, FiniteSetTheorems, WellFoundedInduction, TLAPS

\* A set of naturals that has 0 and is closed under successor has them all.
LEMMA NatSetInduction ==
  ASSUME NEW N \in SUBSET Nat, 0 \in N, \A n \in N : n + 1 \in N
  PROVE  N = Nat
<1> SUFFICES ASSUME N # Nat PROVE FALSE
  OBVIOUS
<1> DEFINE R == {ss \in Nat \X Nat : ss[1] < ss[2]}
           M == Nat \ N
<1>1. IsWellFoundedOn(R, Nat)
  BY NatLessThanWellFounded, Zenon DEF OpToRel
<1>2. M \subseteq Nat /\ M # {}
  OBVIOUS
<1>3. PICK m \in M : \A k \in M : ~(<<k, m>> \in R)
  <2> HIDE DEF R, M
  <2> QED BY <1>1, <1>2, WFMin
<1>4. m \in Nat /\ m # 0 /\ m - 1 \in Nat /\ m - 1 < m
  OBVIOUS
<1>5. m - 1 \in N
  <2>1. <<m - 1, m>> \in R
    BY <1>4
  <2> QED BY <1>3, <1>4, <2>1
<1>6. (m - 1) + 1 \in N
  BY <1>5
<1> QED BY <1>3, <1>4, <1>6

\* The element a sum takes first, and what is left.
Pick(s) == CHOOSE x \in s : TRUE
Rest(s) == s \ {Pick(s)}

LEMMA RestSmaller ==
  ASSUME NEW T, IsFiniteSet(T), NEW s \in SUBSET T, s # {}
  PROVE  /\ Pick(s) \in s
         /\ Rest(s) \in SUBSET T
         /\ Cardinality(s) \in Nat /\ Cardinality(Rest(s)) \in Nat
         /\ Cardinality(Rest(s)) = Cardinality(s) - 1
<1>1. IsFiniteSet(s)
  BY FS_Subset
<1>2. Pick(s) \in s
  BY DEF Pick
<1>3. Cardinality(s) \in Nat
  BY <1>1, FS_CardinalityType
<1>4. IsFiniteSet(Rest(s)) /\ Cardinality(Rest(s)) = Cardinality(s) - 1
  BY <1>1, <1>2, FS_RemoveElement DEF Rest
<1>5. Cardinality(Rest(s)) \in Nat
  BY <1>4, FS_CardinalityType
<1> QED BY <1>2, <1>3, <1>4, <1>5 DEF Rest

\* A set of subsets of T that has the empty one, and has s when it has what is
\* left of s, has them all.
LEMMA SubsetInduction ==
  ASSUME NEW T, IsFiniteSet(T), NEW Good \in SUBSET (SUBSET T), {} \in Good,
         \A s \in SUBSET T : s # {} /\ Rest(s) \in Good => s \in Good
  PROVE  Good = SUBSET T
<1> DEFINE N == {n \in Nat : \A s \in SUBSET T : Cardinality(s) = n => s \in Good}
<1>1. 0 \in N
  <2>1. \A s \in SUBSET T : Cardinality(s) = 0 => s = {}
    BY FS_Subset, FS_EmptySet
  <2> QED BY <2>1
<1>2. ASSUME NEW n \in N PROVE n + 1 \in N
  <2>1. n \in Nat /\ n + 1 \in Nat /\ n + 1 # 0 /\ (n + 1) - 1 = n
    OBVIOUS
  <2>2. ASSUME NEW s \in SUBSET T, Cardinality(s) = n + 1 PROVE s \in Good
    <3>1. s # {}
      BY <2>1, <2>2, FS_EmptySet
    <3>2. Rest(s) \in SUBSET T /\ Cardinality(Rest(s)) = n
      BY <2>1, <2>2, <3>1, RestSmaller
    <3>3. Rest(s) \in Good
      BY <3>2
    <3> QED BY <3>1, <3>3
  <2> QED BY <2>1, <2>2
<1>3. N = Nat
  <2>1. N \in SUBSET Nat
    OBVIOUS
  <2> HIDE DEF N
  <2> QED BY <1>1, <1>2, <2>1, NatSetInduction
<1>4. ASSUME NEW s \in SUBSET T PROVE s \in Good
  <2>1. Cardinality(s) \in Nat
    BY FS_Subset, FS_CardinalityType
  <2> QED BY <1>3, <2>1
<1> QED BY <1>4

-----------------------------------------------------------------------------
\* g is the function of the subsets of T that a sum of f over T is read from.
IsPartialSum(f, T, g) ==
  g = [s \in SUBSET T |-> IF s = {} THEN 0 ELSE f[Pick(s)] + g[Rest(s)]]

\* The subsets of T with at most n elements.
AtMost(T, n) == {s \in SUBSET T : Cardinality(s) <= n}

SumsUpTo(f, T, n, g) ==
  \A s \in AtMost(T, n) : g[s] = IF s = {} THEN 0 ELSE f[Pick(s)] + g[Rest(s)]

LEMMA PartialSumUpTo ==
  ASSUME NEW T, IsFiniteSet(T), NEW f
  PROVE  \A n \in Nat : \E g : SumsUpTo(f, T, n, g)
<1> DEFINE Sum(g, s) == IF s = {} THEN 0 ELSE f[Pick(s)] + g[Rest(s)]
           N == {n \in Nat : \E g : \A s \in AtMost(T, n) : g[s] = Sum(g, s)}
<1>1. 0 \in N
  <2> DEFINE g == [s \in SUBSET T |-> 0]
  <2>1. \A s \in AtMost(T, 0) : s = {} /\ s \in SUBSET T
    <3> TAKE s \in AtMost(T, 0)
    <3>1. s \in SUBSET T /\ Cardinality(s) <= 0
      BY DEF AtMost
    <3>2. IsFiniteSet(s) /\ Cardinality(s) \in Nat
      BY <3>1, FS_Subset, FS_CardinalityType
    <3>3. Cardinality(s) = 0
      BY <3>1, <3>2
    <3> QED BY <3>1, <3>2, <3>3, FS_EmptySet
  <2>2. \A s \in AtMost(T, 0) : g[s] = Sum(g, s)
    BY <2>1
  <2> QED BY <2>2
<1>2. ASSUME NEW n \in N PROVE n + 1 \in N
  <2>1. PICK g : \A s \in AtMost(T, n) : g[s] = Sum(g, s)
    OBVIOUS
  <2> DEFINE h == [s \in SUBSET T |-> Sum(g, s)]
  <2>2. ASSUME NEW s \in AtMost(T, n + 1) PROVE h[s] = Sum(h, s)
    <3>1. s \in SUBSET T /\ Cardinality(s) <= n + 1 /\ n \in Nat
      BY DEF AtMost
    <3>2. h[s] = Sum(g, s)
      BY <3>1
    <3>3. CASE s = {}
      BY <3>2, <3>3
    <3>4. CASE s # {}
      <4>1. /\ Rest(s) \in SUBSET T
            /\ Cardinality(s) \in Nat /\ Cardinality(Rest(s)) = Cardinality(s) - 1
        BY <3>1, <3>4, RestSmaller
      <4>2. Rest(s) \in AtMost(T, n)
        BY <3>1, <4>1 DEF AtMost
      <4>3. h[Rest(s)] = Sum(g, Rest(s)) /\ g[Rest(s)] = Sum(g, Rest(s))
        BY <2>1, <4>1, <4>2
      <4> HIDE DEF h
      <4> QED BY <3>2, <3>4, <4>3
    <3> QED BY <3>3, <3>4
  <2> HIDE DEF h, Sum
  <2> QED BY <2>2
<1>3. N = Nat
  <2>1. N \in SUBSET Nat
    OBVIOUS
  <2> HIDE DEF N
  <2> QED BY <1>1, <1>2, <2>1, NatSetInduction
<1> QED BY <1>3 DEF SumsUpTo

LEMMA PartialSumExists ==
  ASSUME NEW T, IsFiniteSet(T), NEW f
  PROVE  \E g : IsPartialSum(f, T, g)
<1> DEFINE Sum(g, s) == IF s = {} THEN 0 ELSE f[Pick(s)] + g[Rest(s)]
           n == Cardinality(T)
<1>1. n \in Nat
  BY FS_CardinalityType
<1>2. \A s \in SUBSET T : s \in AtMost(T, n)
  BY FS_Subset DEF AtMost
<1>3. PICK g : SumsUpTo(f, T, n, g)
  BY <1>1, PartialSumUpTo
<1> DEFINE h == [s \in SUBSET T |-> g[s]]
<1>4. \A s \in SUBSET T : h[s] = Sum(h, s)
  <2> TAKE s \in SUBSET T
  <2>1. h[s] = Sum(g, s)
    BY <1>2, <1>3 DEF SumsUpTo
  <2>2. CASE s = {}
    BY <2>1, <2>2
  <2>3. CASE s # {}
    <3>1. Rest(s) \in SUBSET T
      BY DEF Rest
    <3>2. h[Rest(s)] = g[Rest(s)]
      BY <3>1
    <3> HIDE DEF h
    <3> QED BY <2>1, <2>3, <3>2
  <2> QED BY <2>2, <2>3
<1>5. h = [s \in SUBSET T |-> Sum(h, s)]
  <2>1. h = [s \in SUBSET T |-> h[s]]
    OBVIOUS
  <2> HIDE DEF h, Sum
  <2> QED BY <1>4, <2>1
<1> HIDE DEF h
<1>6. IsPartialSum(f, T, h)
  BY <1>5 DEF IsPartialSum
<1> QED BY <1>6

\* A sum over T is read from a function that holds the sums over all subsets.
SumTable(f, T, g) ==
  /\ g \in [SUBSET T -> Int]
  /\ SumFunctionOnSet(f, T) = g[T]
  /\ g[{}] = 0
  /\ \A s \in SUBSET T : s # {} => g[s] = f[Pick(s)] + g[Rest(s)]

LEMMA SumTableExists ==
  ASSUME NEW T, IsFiniteSet(T), NEW f, \A t \in T : f[t] \in Int
  PROVE  \E g : SumTable(f, T, g)
<1> DEFINE g == CHOOSE g : IsPartialSum(f, T, g)
<1>1. SumFunctionOnSet(f, T) = (CHOOSE g_1 : g_1 = [s \in SUBSET T |->
        IF s = {} THEN 0 ELSE LET x == CHOOSE x \in s : TRUE IN f[x] + g_1[s \ {x}]])[T]
  BY DEF SumFunctionOnSet, FoldFunctionOnSet, MapThenFoldSet
<1>2. SumFunctionOnSet(f, T) = g[T]
  BY <1>1, Zenon DEF IsPartialSum, Pick, Rest
<1>3. IsPartialSum(f, T, g)
  BY PartialSumExists
<1> HIDE DEF g
<1>4. g = [s \in SUBSET T |-> IF s = {} THEN 0 ELSE f[Pick(s)] + g[Rest(s)]]
  BY <1>3 DEF IsPartialSum
<1>5. \A s \in SUBSET T : g[s] = IF s = {} THEN 0 ELSE f[Pick(s)] + g[Rest(s)]
  BY <1>4
<1> DEFINE Good == {s \in SUBSET T : g[s] \in Int}
<1>6. {} \in Good
  BY <1>5
<1>7. ASSUME NEW s \in SUBSET T, s # {}, Rest(s) \in Good PROVE s \in Good
  <2>1. Pick(s) \in T
    BY <1>7, RestSmaller
  <2>2. g[s] = f[Pick(s)] + g[Rest(s)] /\ g[Rest(s)] \in Int
    BY <1>5, <1>7
  <2> QED BY <2>1, <2>2
<1>8. Good = SUBSET T
  <2>1. Good \in SUBSET (SUBSET T)
    OBVIOUS
  <2> HIDE DEF Good
  <2> QED BY <1>6, <1>7, <2>1, SubsetInduction
<1>9. g \in [SUBSET T -> Int]
  <2>1. \A s \in SUBSET T : g[s] \in Int
    BY <1>8
  <2>2. g = [s \in SUBSET T |-> g[s]]
    BY <1>4
  <2> QED BY <2>1, <2>2
<1>10. SumTable(f, T, g)
  BY <1>2, <1>5, <1>9 DEF SumTable
<1> QED BY <1>10

-----------------------------------------------------------------------------
\* A sum of integers is an integer.
LEMMA SumType ==
  ASSUME NEW T, IsFiniteSet(T), NEW f \in [T -> Int]
  PROVE  SumFunctionOnSet(f, T) \in Int
<1>1. PICK g : SumTable(f, T, g)
  BY SumTableExists
<1> QED BY <1>1 DEF SumTable

\* A sum of naturals is a natural and no less than any of them.
LEMMA SumOfNaturals ==
  ASSUME NEW T, IsFiniteSet(T), NEW f \in [T -> Nat]
  PROVE  /\ SumFunctionOnSet(f, T) \in Nat
         /\ \A t \in T : f[t] <= SumFunctionOnSet(f, T)
<1>0. PICK g : SumTable(f, T, g)
  BY SumTableExists
<1> USE <1>0 DEF SumTable
<1> DEFINE Good == {s \in SUBSET T : g[s] >= 0 /\ \A t \in s : f[t] <= g[s]}
<1>1. {} \in Good
  OBVIOUS
<1>2. ASSUME NEW s \in SUBSET T, s # {}, Rest(s) \in Good PROVE s \in Good
  <2>0. Pick(s) \in s
    BY <1>2, RestSmaller
  <2>1. Pick(s) \in T /\ s = Rest(s) \cup {Pick(s)}
    BY <2>0 DEF Rest
  <2>2. /\ g[s] = f[Pick(s)] + g[Rest(s)] /\ g[Rest(s)] \in Int /\ g[s] \in Int
        /\ g[Rest(s)] >= 0 /\ \A t \in Rest(s) : f[t] <= g[Rest(s)]
    BY <1>2
  <2>3. f[Pick(s)] \in Nat
    BY <2>1
  <2>4. \A t \in s : f[t] \in Nat
    OBVIOUS
  <2>5. g[s] >= 0 /\ f[Pick(s)] <= g[s] /\ g[Rest(s)] <= g[s]
    BY <2>2, <2>3
  <2>6. \A t \in s : f[t] <= g[s]
    <3> TAKE t \in s
    <3>1. CASE t = Pick(s)
      BY <2>5, <3>1
    <3>2. CASE t \in Rest(s)
      BY <2>2, <2>4, <2>5, <3>2
    <3> QED BY <2>1, <3>1, <3>2
  <2> QED BY <2>5, <2>6
<1>3. Good = SUBSET T
  <2>1. Good \in SUBSET (SUBSET T)
    OBVIOUS
  <2> HIDE DEF Good
  <2> QED BY <1>1, <1>2, <2>1, SubsetInduction
<1>4. T \in Good
  BY <1>3
<1> QED BY <1>4

\* A sum of zeros is zero.
LEMMA SumOfZeros ==
  ASSUME NEW T, IsFiniteSet(T), NEW f \in [T -> Int], \A t \in T : f[t] = 0
  PROVE  SumFunctionOnSet(f, T) = 0
<1>0. PICK g : SumTable(f, T, g)
  BY SumTableExists
<1> USE <1>0 DEF SumTable
<1> DEFINE Good == {s \in SUBSET T : g[s] = 0}
<1>1. {} \in Good
  OBVIOUS
<1>2. ASSUME NEW s \in SUBSET T, s # {}, Rest(s) \in Good PROVE s \in Good
  <2>1. Pick(s) \in T
    BY <1>2, RestSmaller
  <2> QED BY <1>2, <2>1
<1>3. Good = SUBSET T
  <2>1. Good \in SUBSET (SUBSET T)
    OBVIOUS
  <2> HIDE DEF Good
  <2> QED BY <1>1, <1>2, <2>1, SubsetInduction
<1>4. T \in Good
  BY <1>3
<1> QED BY <1>4

\* Two functions that differ at most at t have sums that differ by as much.
LEMMA SumChange ==
  ASSUME NEW T, IsFiniteSet(T), NEW t \in T, NEW f \in [T -> Int], NEW h \in [T -> Int],
         \A u \in T : u # t => h[u] = f[u]
  PROVE  SumFunctionOnSet(h, T) = SumFunctionOnSet(f, T) + (h[t] - f[t])
<1>1. PICK g : SumTable(f, T, g)
  BY SumTableExists
<1>2. PICK k : SumTable(h, T, k)
  BY SumTableExists
<1> USE <1>1, <1>2 DEF SumTable
<1> DEFINE d == h[t] - f[t]
           Good == {s \in SUBSET T : k[s] = g[s] + (IF t \in s THEN d ELSE 0)}
<1>3. {} \in Good
  BY <1>1, <1>2
<1>4. ASSUME NEW s \in SUBSET T, s # {}, Rest(s) \in Good PROVE s \in Good
  <2>1. Pick(s) \in T /\ Pick(s) \in s
    BY <1>4, RestSmaller
  <2>2. k[s] = h[Pick(s)] + k[Rest(s)] /\ g[s] = f[Pick(s)] + g[Rest(s)]
    BY <1>1, <1>2, <1>4
  <2>3. k[Rest(s)] = g[Rest(s)] + (IF t \in Rest(s) THEN d ELSE 0)
    BY <1>4
  <2>4. /\ g[Rest(s)] \in Int /\ g[s] \in Int /\ k[s] \in Int /\ d \in Int
        /\ h[Pick(s)] \in Int /\ f[Pick(s)] \in Int /\ h[t] \in Int /\ f[t] \in Int
    BY <1>4, <2>1
  <2>5. CASE t = Pick(s)
    <3>1. t \in s /\ t \notin Rest(s)
      BY <2>1, <2>5 DEF Rest
    <3>2. k[s] = g[s] + d
      BY <2>2, <2>3, <2>4, <2>5, <3>1
    <3> QED BY <3>1, <3>2
  <2>6. CASE t # Pick(s)
    <3>1. t \in s <=> t \in Rest(s)
      BY <2>6 DEF Rest
    <3>2. h[Pick(s)] = f[Pick(s)]
      BY <2>1, <2>6
    <3>3. k[s] = g[s] + (IF t \in s THEN d ELSE 0)
      BY <2>2, <2>3, <2>4, <3>1, <3>2
    <3> QED BY <3>3
  <2> QED BY <2>5, <2>6
<1>5. Good = SUBSET T
  <2>1. Good \in SUBSET (SUBSET T)
    OBVIOUS
  <2> HIDE DEF Good
  <2> QED BY <1>3, <1>4, <2>1, SubsetInduction
<1>6. T \in Good
  BY <1>5
<1> QED BY <1>1, <1>2, <1>6

-----------------------------------------------------------------------------
(* Sums over different sets. *)

\* The sum over no element.
LEMMA SumEmpty == \A f : SumFunctionOnSet(f, {}) = 0
<1> TAKE f
<1>1. PICK g : SumTable(f, {}, g)
  BY FS_EmptySet, SumTableExists
<1> QED BY <1>1 DEF SumTable

\* Functions that agree on a set have the same sum over it.
LEMMA SumSame ==
  ASSUME NEW T, IsFiniteSet(T), NEW f, NEW h, \A t \in T : f[t] \in Int /\ h[t] = f[t]
  PROVE  SumFunctionOnSet(h, T) = SumFunctionOnSet(f, T) /\ SumFunctionOnSet(f, T) \in Int
<1>1. PICK g : SumTable(f, T, g)
  BY SumTableExists
<1>2. PICK k : SumTable(h, T, k)
  BY SumTableExists
<1> DEFINE Good == {s \in SUBSET T : k[s] = g[s]}
<1>3. {} \in Good
  BY <1>1, <1>2 DEF SumTable
<1>4. ASSUME NEW s \in SUBSET T, s # {}, Rest(s) \in Good PROVE s \in Good
  <2>1. Pick(s) \in T
    BY <1>4, RestSmaller
  <2> QED BY <1>1, <1>2, <1>4, <2>1 DEF SumTable
<1>5. Good = SUBSET T
  <2>1. Good \in SUBSET (SUBSET T)
    OBVIOUS
  <2> HIDE DEF Good
  <2> QED BY <1>3, <1>4, <2>1, SubsetInduction
<1>6. T \in Good
  BY <1>5
<1> QED BY <1>1, <1>2, <1>6 DEF SumTable

\* The sum over a part is that of the whole where the others count zero.
LEMMA SumOfPart ==
  ASSUME NEW T, IsFiniteSet(T), NEW f \in [T -> Int], NEW P \in SUBSET T
  PROVE  SumFunctionOnSet(f, P) = SumFunctionOnSet([t \in T |-> IF t \in P THEN f[t] ELSE 0], T)
<1> DEFINE Within(s) == [t \in T |-> IF t \in s THEN f[t] ELSE 0]
<1>1. IsFiniteSet(P) /\ \A t \in P : f[t] \in Int
  BY FS_Subset
<1>2. PICK g : SumTable(f, P, g)
  BY <1>1, SumTableExists
<1> DEFINE Good == {s \in SUBSET P : g[s] = SumFunctionOnSet(Within(s), T)}
<1>3. {} \in Good
  <2>1. Within({}) \in [T -> Int] /\ \A t \in T : Within({})[t] = 0
    OBVIOUS
  <2> QED BY <1>2, <2>1, SumOfZeros DEF SumTable
<1>4. ASSUME NEW s \in SUBSET P, s # {}, Rest(s) \in Good PROVE s \in Good
  <2>1. PICK p : p = Pick(s)
    OBVIOUS
  <2>2. p \in s /\ p \in T /\ p \notin Rest(s) /\ s = Rest(s) \cup {p}
    <3>1. p \in s
      BY <1>4, <2>1 DEF Pick
    <3> QED BY <2>1, <3>1 DEF Rest
  <2>3. PICK a : a = Within(Rest(s))
    OBVIOUS
  <2>4. PICK b : b = Within(s)
    OBVIOUS
  <2>5. a \in [T -> Int] /\ b \in [T -> Int] /\ a[p] = 0 /\ b[p] = f[p] /\ f[p] \in Int
    BY <2>2, <2>3, <2>4
  <2>6. \A u \in T : u # p => b[u] = a[u]
    BY <2>2, <2>3, <2>4
  <2>7. SumFunctionOnSet(b, T) = SumFunctionOnSet(a, T) + (b[p] - a[p])
    BY <2>2, <2>5, <2>6, SumChange
  <2>8. SumFunctionOnSet(a, T) \in Int
    BY <2>5, SumType
  <2>9. g[s] = f[p] + g[Rest(s)] /\ g[Rest(s)] = SumFunctionOnSet(a, T)
    BY <1>2, <1>4, <2>1, <2>3 DEF SumTable
  <2> QED BY <2>4, <2>5, <2>7, <2>8, <2>9
<1>5. Good = SUBSET P
  <2>1. Good \in SUBSET (SUBSET P)
    OBVIOUS
  <2> HIDE DEF Good
  <2> QED BY <1>1, <1>3, <1>4, <2>1, SubsetInduction
<1>6. P \in Good
  BY <1>5
<1> QED BY <1>2, <1>6 DEF SumTable

\* One element more.
LEMMA SumInsert ==
  ASSUME NEW P, IsFiniteSet(P), NEW x, x \notin P, NEW f, \A t \in P \cup {x} : f[t] \in Int
  PROVE  SumFunctionOnSet(f, P \cup {x}) = SumFunctionOnSet(f, P) + f[x]
<1>1. PICK T : T = P \cup {x}
  OBVIOUS
<1>2. IsFiniteSet(T) /\ P \in SUBSET T /\ x \in T
  BY <1>1, FS_AddElement
<1>3. PICK h : h = [t \in T |-> f[t]]
  OBVIOUS
<1>4. h \in [T -> Int] /\ \A t \in T : h[t] = f[t] /\ f[t] \in Int
  BY <1>1, <1>3
<1>5. PICK k : k = [t \in T |-> IF t \in P THEN h[t] ELSE 0]
  OBVIOUS
<1>6. k \in [T -> Int] /\ k[x] = 0 /\ \A t \in T : t # x => k[t] = h[t]
  BY <1>1, <1>2, <1>4, <1>5
<1>7. SumFunctionOnSet(h, P) = SumFunctionOnSet(k, T)
  BY <1>2, <1>4, <1>5, SumOfPart
<1>8. SumFunctionOnSet(h, T) = SumFunctionOnSet(k, T) + (h[x] - k[x])
  BY <1>2, <1>4, <1>6, SumChange
<1>9. SumFunctionOnSet(h, T) = SumFunctionOnSet(f, T)
  BY <1>2, <1>4, SumSame
<1>10. SumFunctionOnSet(h, P) = SumFunctionOnSet(f, P) /\ SumFunctionOnSet(f, P) \in Int
  BY <1>1, <1>4, SumSame
<1> QED BY <1>1, <1>2, <1>4, <1>6, <1>7, <1>8, <1>9, <1>10

\* Two sets without a common element.
LEMMA SumUnion ==
  ASSUME NEW P, IsFiniteSet(P), NEW Q, IsFiniteSet(Q), P \cap Q = {},
         NEW f, \A t \in P \cup Q : f[t] \in Int
  PROVE  /\ SumFunctionOnSet(f, P \cup Q) = SumFunctionOnSet(f, P) + SumFunctionOnSet(f, Q)
         /\ SumFunctionOnSet(f, P) \in Int /\ SumFunctionOnSet(f, Q) \in Int
<1> DEFINE Sum(s) == SumFunctionOnSet(f, s)
           Good == {s \in SUBSET Q : Sum(P \cup s) = Sum(P) + Sum(s)}
<1>1. \A s \in SUBSET Q : IsFiniteSet(s) /\ Sum(s) \in Int
  BY FS_Subset, SumSame
<1>2. Sum(P) \in Int
  BY SumSame
<1>3. {} \in Good
  <2>1. P \cup {} = P /\ Sum({}) = 0
    BY SumEmpty
  <2> QED BY <1>2, <2>1
<1>4. ASSUME NEW s \in SUBSET Q, s # {}, Rest(s) \in Good PROVE s \in Good
  <2>1. PICK p : p = Pick(s)
    OBVIOUS
  <2>2. PICK r : r = Rest(s)
    OBVIOUS
  <2>3. p \in Q /\ p \notin r /\ s = r \cup {p} /\ r \in SUBSET Q
    <3>1. p \in s
      BY <1>4, <2>1 DEF Pick
    <3> QED BY <2>1, <2>2, <3>1 DEF Rest
  <2>4. Sum(s) = Sum(r) + f[p]
    BY <1>1, <2>3, SumInsert
  <2>5. IsFiniteSet(P \cup r) /\ p \notin P \cup r /\ P \cup s = (P \cup r) \cup {p}
    BY <1>1, <2>3, FS_Union
  <2>6. Sum(P \cup s) = Sum(P \cup r) + f[p]
    BY <2>3, <2>5, SumInsert
  <2>7. Sum(P \cup r) = Sum(P) + Sum(r) /\ f[p] \in Int
    BY <1>4, <2>2, <2>3
  <2> QED BY <1>1, <1>2, <2>3, <2>4, <2>6, <2>7
<1>5. Good = SUBSET Q
  <2>1. Good \in SUBSET (SUBSET Q)
    OBVIOUS
  <2> HIDE DEF Good
  <2> QED BY <1>3, <1>4, <2>1, SubsetInduction
<1>6. Q \in Good
  BY <1>5
<1> QED BY <1>1, <1>2, <1>6
=============================================================================
