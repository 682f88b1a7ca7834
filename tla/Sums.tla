-------------------------------- MODULE Sums --------------------------------
(***************************************************************************)
(* Induction, what MapThenSumSet adds up to, and loops that end.  The      *)
(* theorems of the library take a predicate as an operator; the ones here  *)
(* take the set of those who satisfy it, and rest on WFMin, which needs no *)
(* operator.  They are about the statistics of pkg/retry and pkg/worker,   *)
(* whose totals are sums over executions, workers and tasks, and about the *)
(* loops of container/heap.                                                *)
(***************************************************************************)
EXTENDS Integers, FiniteSetsExt, FiniteSetTheorems, WellFoundedInduction, TLAPS

Below == {p \in Nat \X Nat : p[1] < p[2]}

\* The order of the natural numbers, as a relation.
LEMMA BelowIsWellFounded == IsWellFoundedOn(Below, Nat)
  BY NatLessThanWellFounded DEF OpToRel, Below

\* A set that holds 0 and with each number the next one holds all of them.
LEMMA NaturalInduction == ASSUME NEW A \in SUBSET Nat, 0 \in A, \A n \in A : n + 1 \in A PROVE A = Nat
<1>1. SUFFICES ASSUME A # Nat PROVE FALSE OBVIOUS
<1>2. (Nat \ A) \subseteq Nat /\ Nat \ A # {} BY <1>1
<1>3. PICK x \in Nat \ A : \A y \in Nat \ A : <<y, x>> \notin Below
  BY <1>2, WFMin, BelowIsWellFounded
<1>0. x \in Nat /\ x \notin A BY <1>3
<1>4. x - 1 \in A
  <2>1. x # 0 BY <1>0
  <2>2. x - 1 \in Nat /\ x - 1 < x BY <2>1, <1>0
  <2>3. <<x - 1, x>> \in Below BY <2>2, <1>0 DEF Below
  <2> QED BY <2>2, <2>3, <1>3
<1>5. (x - 1) + 1 \in A BY <1>4
<1>6. (x - 1) + 1 = x BY <1>0
<1> QED BY <1>5, <1>6, <1>0

-----------------------------------------------------------------------------
\* The sum of f over S: each element is taken by the CHOOSE of MapThenSumSet.
TotalOf(f, S) == MapThenSumSet(LAMBDA e : f[e], S)
Some(s) == CHOOSE x \in s : TRUE

Accumulates(g, f, S) == g = [s \in SUBSET S |-> IF s = {} THEN 0 ELSE f[Some(s)] + g[s \ {Some(s)}]]
Accumulated(f, S) == CHOOSE g : Accumulates(g, f, S)

\* MapThenSumSet is the function that accumulates, applied to the whole set.
LEMMA TotalIsAccumulated == ASSUME NEW f, NEW S PROVE TotalOf(f, S) = Accumulated(f, S)[S]
  BY DEF TotalOf, Accumulated, Accumulates, Some, MapThenSumSet, MapThenFoldSet

\* Every set but the empty one has an element to take, and is larger than the rest.
LEMMA SomeRemoved ==
  ASSUME NEW S, IsFiniteSet(S), NEW s \in SUBSET S, s # {}
  PROVE  /\ Some(s) \in s /\ s \ {Some(s)} \in SUBSET S
         /\ Cardinality(s) \in Nat /\ Cardinality(s \ {Some(s)}) \in Nat
         /\ Cardinality(s) = Cardinality(s \ {Some(s)}) + 1
<1>1. Some(s) \in s BY DEF Some
<1>2. IsFiniteSet(s) BY FS_Subset
<1>3. IsFiniteSet(s \ {Some(s)}) /\ Cardinality(s \ {Some(s)}) = Cardinality(s) - 1
  BY <1>1, <1>2, FS_RemoveElement
<1>4. Cardinality(s) \in Nat /\ Cardinality(s \ {Some(s)}) \in Nat
  BY <1>2, <1>3, FS_CardinalityType
<1> QED BY <1>1, <1>3, <1>4

\* Induction over the subsets of a finite set, one element at a time.
LEMMA SetInduction ==
  ASSUME NEW S, IsFiniteSet(S), NEW F, {} \in F,
         \A T \in SUBSET S : T # {} /\ T \ {Some(T)} \in F => T \in F
  PROVE  \A T \in SUBSET S : T \in F
<1> DEFINE A == {n \in Nat : \A T \in SUBSET S : Cardinality(T) = n => T \in F}
<1>1. \A T \in SUBSET S : IsFiniteSet(T) /\ Cardinality(T) \in Nat
  BY FS_Subset, FS_CardinalityType
<1>2. 0 \in A BY <1>1, FS_EmptySet
<1>3. ASSUME NEW n \in A PROVE n + 1 \in A
  <2> SUFFICES ASSUME NEW T \in SUBSET S, Cardinality(T) = n + 1 PROVE T \in F
    BY <1>3
  <2>1. n \in Nat BY <1>3
  <2>2. T # {} BY <2>1, FS_EmptySet
  <2>3. T \ {Some(T)} \in SUBSET S /\ Cardinality(T \ {Some(T)}) \in Nat
        /\ n + 1 = Cardinality(T \ {Some(T)}) + 1
    BY <2>2, SomeRemoved
  <2>4. Cardinality(T \ {Some(T)}) = n BY <2>1, <2>3
  <2>5. T \ {Some(T)} \in F BY <2>3, <2>4, <1>3
  <2> QED BY <2>2, <2>5
<1>4. A = Nat
  <2>1. A \in SUBSET Nat OBVIOUS
  <2> HIDE DEF A
  <2> QED BY <1>2, <1>3, <2>1, NaturalInduction
<1> QED BY <1>1, <1>4

\* There is such a function: it is built up to any cardinality.
LEMMA AccumulatedExists ==
  ASSUME NEW f, NEW S, IsFiniteSet(S) PROVE Accumulates(Accumulated(f, S), f, S)
<1> DEFINE Rhs(g, s) == IF s = {} THEN 0 ELSE f[Some(s)] + g[s \ {Some(s)}]
           A == {n \in Nat : \E g : \A s \in SUBSET S : Cardinality(s) <= n => g[s] = Rhs(g, s)}
<1>0. \A s \in SUBSET S : IsFiniteSet(s) /\ Cardinality(s) \in Nat
  BY FS_Subset, FS_CardinalityType
<1>1. 0 \in A
  <2> DEFINE g == [s \in SUBSET S |-> 0]
  <2>1. ASSUME NEW s \in SUBSET S, Cardinality(s) <= 0 PROVE g[s] = Rhs(g, s)
    BY <1>0, <2>1, FS_EmptySet
  <2> QED BY <2>1
<1>2. ASSUME NEW n \in A PROVE n + 1 \in A
  <2>0. n \in Nat BY <1>2
  <2>1. PICK g : \A s \in SUBSET S : Cardinality(s) <= n => g[s] = Rhs(g, s) BY <1>2
  <2> DEFINE h == [s \in SUBSET S |-> Rhs(g, s)]
  <2>2. ASSUME NEW s \in SUBSET S, Cardinality(s) <= n + 1 PROVE h[s] = Rhs(h, s)
    <3>1. CASE s = {} BY <3>1
    <3>2. CASE s # {}
      <4> DEFINE r == s \ {Some(s)}
      <4>1. r \in SUBSET S /\ Cardinality(r) \in Nat /\ Cardinality(s) = Cardinality(r) + 1
        BY <3>2, SomeRemoved
      <4>2. Cardinality(r) <= n BY <4>1, <2>0, <2>2, <1>0
      <4>3. h[r] = Rhs(g, r) BY <4>1
      <4>4. Rhs(g, r) = g[r] BY <2>1, <4>1, <4>2
      <4>5. h[s] = f[Some(s)] + g[r] BY <3>2
      <4>6. Rhs(h, s) = f[Some(s)] + h[r] BY <3>2
      <4> QED BY <4>3, <4>4, <4>5, <4>6
    <3> QED BY <3>1, <3>2
  <2>3. \E k : \A s \in SUBSET S : Cardinality(s) <= n + 1 => k[s] = Rhs(k, s)
    <3> HIDE DEF h, Rhs
    <3> QED BY <2>2
  <2> HIDE DEF Rhs
  <2> QED BY <2>0, <2>3
<1>3. Cardinality(S) \in A
  <2>1. A = Nat
    <3>1. A \in SUBSET Nat OBVIOUS
    <3> HIDE DEF A
    <3> QED BY <1>1, <1>2, <3>1, NaturalInduction
  <2> QED BY <2>1, FS_CardinalityType
<1>4. PICK g : \A s \in SUBSET S : Cardinality(s) <= Cardinality(S) => g[s] = Rhs(g, s)
  BY <1>3
<1>5. \A s \in SUBSET S : g[s] = Rhs(g, s) BY <1>4, FS_Subset
<1> DEFINE h == [s \in SUBSET S |-> Rhs(g, s)]
<1>6. ASSUME NEW s \in SUBSET S PROVE h[s] = g[s] BY <1>5
<1>7. ASSUME NEW s \in SUBSET S PROVE Rhs(g, s) = Rhs(h, s)
  <2> s \ {Some(s)} \in SUBSET S OBVIOUS
  <2> QED BY <1>6
<1>8. h = [s \in SUBSET S |-> Rhs(h, s)] BY <1>7
<1>9. Accumulates(h, f, S) BY <1>8 DEF Accumulates
<1> QED BY <1>9 DEF Accumulated

\* The total of nothing, and of one element more.
LEMMA AccumulatedEmpty ==
  ASSUME NEW f, NEW S, IsFiniteSet(S) PROVE Accumulated(f, S)[{}] = 0
<1>1. PICK g : g = Accumulated(f, S) OBVIOUS
<1>2. Accumulates(g, f, S) BY <1>1, AccumulatedExists
<1> QED BY <1>1, <1>2 DEF Accumulates

LEMMA AccumulatedNext ==
  ASSUME NEW f, NEW S, IsFiniteSet(S), NEW s \in SUBSET S, s # {}
  PROVE  Accumulated(f, S)[s] = f[Some(s)] + Accumulated(f, S)[s \ {Some(s)}]
<1>1. PICK g : g = Accumulated(f, S) OBVIOUS
<1>2. Accumulates(g, f, S) BY <1>1, AccumulatedExists
<1>3. g[s] = f[Some(s)] + g[s \ {Some(s)}] BY <1>2 DEF Accumulates
<1> QED BY <1>1, <1>3

\* A sum of natural numbers is one.
LEMMA AccumulatedType ==
  ASSUME NEW S, IsFiniteSet(S), NEW f, \A e \in S : f[e] \in Nat
  PROVE  \A s \in SUBSET S : Accumulated(f, S)[s] \in Nat
<1> DEFINE F == {s \in SUBSET S : Accumulated(f, S)[s] \in Nat}
<1>1. {} \in F BY AccumulatedEmpty
<1>2. ASSUME NEW s \in SUBSET S, s # {}, s \ {Some(s)} \in F PROVE s \in F
  <2>1. Some(s) \in S BY <1>2, SomeRemoved
  <2>2. f[Some(s)] \in Nat BY <2>1
  <2>3. Accumulated(f, S)[s] = f[Some(s)] + Accumulated(f, S)[s \ {Some(s)}]
    BY <1>2, AccumulatedNext
  <2> QED BY <1>2, <2>2, <2>3
<1>3. \A s \in SUBSET S : s \in F
  <2> HIDE DEF F
  <2> QED BY <1>1, <1>2, SetInduction
<1> QED BY <1>3

LEMMA TotalType ==
  ASSUME NEW S, IsFiniteSet(S), NEW f, \A e \in S : f[e] \in Nat PROVE TotalOf(f, S) \in Nat
  BY AccumulatedType, TotalIsAccumulated

\* A total starts at 0.
LEMMA TotalOfZeros ==
  ASSUME NEW S, IsFiniteSet(S), NEW f, \A e \in S : f[e] = 0 PROVE TotalOf(f, S) = 0
<1> DEFINE F == {s \in SUBSET S : Accumulated(f, S)[s] = 0}
<1>1. {} \in F BY AccumulatedEmpty
<1>2. ASSUME NEW s \in SUBSET S, s # {}, s \ {Some(s)} \in F PROVE s \in F
  <2>1. Some(s) \in S BY <1>2, SomeRemoved
  <2>2. Accumulated(f, S)[s] = f[Some(s)] + Accumulated(f, S)[s \ {Some(s)}]
    BY <1>2, AccumulatedNext
  <2> QED BY <1>2, <2>1, <2>2
<1>3. \A s \in SUBSET S : s \in F
  <2> HIDE DEF F
  <2> QED BY <1>1, <1>2, SetInduction
<1> QED BY <1>3, TotalIsAccumulated

\* Each of the elements of P adds d to the total.
LEMMA TotalGrows ==
  ASSUME NEW S, IsFiniteSet(S), NEW f, NEW h, \A e \in S : f[e] \in Nat,
         NEW P \in SUBSET S, NEW d \in Nat,
         \A e \in S : h[e] = IF e \in P THEN f[e] + d ELSE f[e]
  PROVE  TotalOf(h, S) = TotalOf(f, S) + Cardinality(P) * d
<1> DEFINE Grown(s) == Accumulated(f, S)[s] + Cardinality(s \cap P) * d
           F == {s \in SUBSET S : Accumulated(h, S)[s] = Grown(s)}
<1>1. {} \in F
  <2>1. Cardinality({} \cap P) = 0 BY FS_EmptySet
  <2>2. 0 * d = 0 OBVIOUS
  <2> QED BY <2>1, <2>2, AccumulatedEmpty
<1>2. ASSUME NEW s \in SUBSET S, s # {}, s \ {Some(s)} \in F PROVE s \in F
  <2> DEFINE x == Some(s)
             r == s \ {x}
  <2>1. x \in s /\ x \in S /\ r \in SUBSET S BY <1>2, SomeRemoved
  <2>2. Accumulated(f, S)[s] = f[x] + Accumulated(f, S)[r]
    <3>1. PICK k : k = f OBVIOUS
    <3>2. Accumulated(k, S)[s] = k[x] + Accumulated(k, S)[r] BY <1>2, AccumulatedNext
    <3> QED BY <3>1, <3>2
  <2>3. Accumulated(h, S)[s] = h[x] + Accumulated(h, S)[r] BY <1>2, AccumulatedNext
  <2>4. Accumulated(f, S)[r] \in Nat /\ f[x] \in Nat BY <2>1, AccumulatedType
  <2>5. IsFiniteSet(r \cap P) /\ Cardinality(r \cap P) \in Nat
    BY <2>1, FS_Subset, FS_CardinalityType
  <2>6. Accumulated(h, S)[r] = Accumulated(f, S)[r] + Cardinality(r \cap P) * d BY <1>2
  <2>7. CASE x \in P
    <3>1. s \cap P = (r \cap P) \cup {x} /\ x \notin r \cap P BY <2>1, <2>7
    <3> HIDE DEF x, r
    <3>2. Cardinality(s \cap P) = Cardinality(r \cap P) + 1 BY <3>1, <2>5, FS_AddElement
    <3>3. Cardinality(s \cap P) * d = Cardinality(r \cap P) * d + d
      BY <3>2, <2>5
    <3>4. h[x] = f[x] + d BY <2>1, <2>7
    <3>5. Cardinality(r \cap P) * d \in Nat BY <2>5
    <3>6. Accumulated(h, S)[s] = Grown(s)
      BY <2>2, <2>3, <2>4, <2>6, <3>3, <3>4, <3>5
    <3> QED BY <3>6
  <2>8. CASE x \notin P
    <3>1. s \cap P = r \cap P BY <2>1, <2>8
    <3> HIDE DEF x, r
    <3>2. Cardinality(s \cap P) = Cardinality(r \cap P) BY <3>1
    <3>4. h[x] = f[x] BY <2>1, <2>8
    <3>5. Cardinality(r \cap P) * d \in Nat BY <2>5
    <3>6. Accumulated(h, S)[s] = Grown(s)
      BY <2>2, <2>3, <2>4, <2>6, <3>2, <3>4, <3>5
    <3> QED BY <3>6
  <2> QED BY <2>7, <2>8
<1>3. \A s \in SUBSET S : s \in F
  <2> HIDE DEF F
  <2> QED BY <1>1, <1>2, SetInduction
<1>4. S \cap P = P OBVIOUS
<1> QED BY <1>3, <1>4, TotalIsAccumulated
-----------------------------------------------------------------------------
\* Induction over a measure: A holds an element if it holds the lesser ones.
LEMMA MeasureInduction ==
  ASSUME NEW K, NEW m, \A i \in K : m[i] \in Nat, NEW A,
         \A i \in K : (\A j \in K : m[j] < m[i] => j \in A) => i \in A
  PROVE  \A i \in K : i \in A
<1> DEFINE N == {n \in Nat : \A i \in K : m[i] < n => i \in A}
<1>1. 0 \in N OBVIOUS
<1>2. ASSUME NEW n \in N PROVE n + 1 \in N
  <2>1. n \in Nat BY <1>2
  <2>2. ASSUME NEW i \in K, m[i] < n + 1 PROVE i \in A
    <3>1. \A j \in K : m[j] < m[i] => m[j] < n BY <2>1, <2>2
    <3>2. \A j \in K : m[j] < m[i] => j \in A BY <3>1, <1>2
    <3> QED BY <3>2
  <2> QED BY <2>1, <2>2
<1>3. N = Nat
  <2>1. N \in SUBSET Nat OBVIOUS
  <2> HIDE DEF N
  <2> QED BY <1>1, <1>2, <2>1, NaturalInduction
<1>4. ASSUME NEW i \in K PROVE i \in A
  <2>1. m[i] \in Nat /\ m[i] + 1 \in Nat /\ m[i] < m[i] + 1 OBVIOUS
  <2>2. m[i] + 1 \in N BY <2>1, <1>3
  <2> QED BY <2>1, <2>2
<1> QED BY <1>4

(***************************************************************************)
(* A loop over the states S: at place i, while s is in more[i], it goes on *)
(* at the place next[i][s] with the state do[i][s].                        *)
(***************************************************************************)
Loops(g, K, S, more, next, do) ==
  g = [i \in K |-> [s \in S |-> IF s \in more[i] THEN g[next[i][s]][do[i][s]] ELSE s]]

\* It ends if each turn lowers a measure of the place that is bounded.
LEMMA LoopExists ==
  ASSUME NEW K, NEW S, NEW more, NEW next, NEW do, NEW m, NEW b \in Nat,
         \A i \in K : m[i] \in Nat /\ m[i] <= b,
         \A i \in K : \A s \in S : s \in more[i] =>
           next[i][s] \in K /\ do[i][s] \in S /\ m[next[i][s]] < m[i]
  PROVE  \E g : Loops(g, K, S, more, next, do)
<1> DEFINE F(g) == [i \in K |-> [s \in S |-> IF s \in more[i] THEN g[next[i][s]][do[i][s]] ELSE s]]
           Fixed(g, n) == \A i \in K : m[i] < n => g[i] = F(g)[i]
           N == {n \in Nat : \E g : Fixed(g, n)}
<1>1. 0 \in N OBVIOUS
<1>2. ASSUME NEW n \in N PROVE n + 1 \in N
  <2>1. n \in Nat BY <1>2
  <2>2. PICK g : Fixed(g, n) BY <1>2
  <2> DEFINE h == F(g)
  <2>3. ASSUME NEW i \in K, m[i] < n + 1 PROVE h[i] = F(h)[i]
    <3>1. ASSUME NEW s \in S, s \in more[i] PROVE g[next[i][s]] = h[next[i][s]]
      <4>1. m[next[i][s]] < n BY <2>1, <2>3, <3>1
      <4>2. next[i][s] \in K BY <3>1
      <4> HIDE DEF F
      <4> QED BY <4>1, <4>2, <2>2
    <3>2. h[i] = [s \in S |-> IF s \in more[i] THEN g[next[i][s]][do[i][s]] ELSE s] OBVIOUS
    <3>3. F(h)[i] = [s \in S |-> IF s \in more[i] THEN h[next[i][s]][do[i][s]] ELSE s] OBVIOUS
    <3> HIDE DEF h
    <3> QED BY <3>1, <3>2, <3>3
  <2>4. Fixed(h, n + 1)
    <3> HIDE DEF h, F
    <3> QED BY <2>3
  <2>5. \E k : Fixed(k, n + 1)
    <3> HIDE DEF h, Fixed
    <3> QED BY <2>4
  <2> HIDE DEF Fixed
  <2> QED BY <2>1, <2>5
<1>3. b + 1 \in N
  <2>1. N \in SUBSET Nat OBVIOUS
  <2> HIDE DEF N
  <2> QED BY <1>1, <1>2, <2>1, NaturalInduction
<1>4. PICK g : Fixed(g, b + 1)
  <2> HIDE DEF Fixed
  <2> QED BY <1>3
<1>5. \A i \in K : g[i] = F(g)[i]
  <2> HIDE DEF F
  <2>1. \A i \in K : m[i] < b + 1 OBVIOUS
  <2> QED BY <1>4, <2>1
<1> DEFINE h == F(g)
<1>6. F(g) = F(h)
  <2>1. \A i \in K : \A s \in S : s \in more[i] => g[next[i][s]] = h[next[i][s]]
    <3> HIDE DEF F
    <3> QED BY <1>5
  <2> HIDE DEF h
  <2> QED BY <2>1
<1>7. Loops(h, K, S, more, next, do)
  <2>1. h = F(h) BY <1>6
  <2> HIDE DEF h
  <2> QED BY <2>1 DEF Loops
<1> HIDE DEF h
<1> QED BY <1>7
=============================================================================
