------------------------------- MODULE Ranks -------------------------------
(***************************************************************************)
(* Facts about the order of finite sets, which the proofs about Paging and *)
(* Desktop need: pages and frames are taken, and windows are sorted, by    *)
(* the number of those that come before.                                   *)
(***************************************************************************)
EXTENDS Integers, FiniteSets, FiniteSetTheorems, TLAPS

(* A strict order in which any two elements can be compared.               *)
StrictlyOrders(less, S) ==
  /\ \A x \in S : <<x, x>> \notin less
  /\ \A x, y \in S : x # y => <<x, y>> \in less \/ <<y, x>> \in less
  /\ \A x, y, z \in S : <<x, y>> \in less /\ <<y, z>> \in less => <<x, z>> \in less

Before(less, S, x) == {y \in S : <<y, x>> \in less}

(* What comes before is fewer than all there are, and different for any    *)
(* two elements.                                                           *)
LEMMA RanksDiffer ==
  ASSUME NEW S, IsFiniteSet(S), NEW less, StrictlyOrders(less, S)
  PROVE  /\ \A x \in S : Cardinality(Before(less, S, x)) \in 0 .. Cardinality(S) - 1
         /\ \A x, y \in S :
              <<x, y>> \in less =>
                Cardinality(Before(less, S, x)) < Cardinality(Before(less, S, y))
  <1>1. \A x \in S : /\ IsFiniteSet(Before(less, S, x))
                     /\ Cardinality(Before(less, S, x)) \in Nat
    <2> TAKE x \in S
    <2>1. Before(less, S, x) \in SUBSET S
      BY DEF Before
    <2>2. IsFiniteSet(Before(less, S, x))
      BY <2>1, FS_Subset
    <2> QED
      BY <2>2, FS_CardinalityType
  <1>2. Cardinality(S) \in Nat
    BY FS_CardinalityType
  <1>3. ASSUME NEW x \in S
        PROVE  Cardinality(Before(less, S, x)) \in 0 .. Cardinality(S) - 1
    <2>1. Before(less, S, x) \in SUBSET S /\ Before(less, S, x) # S
      BY DEF Before, StrictlyOrders
    <2>2. /\ Cardinality(Before(less, S, x)) <= Cardinality(S)
          /\ Cardinality(Before(less, S, x)) # Cardinality(S)
      BY <2>1, FS_Subset
    <2> QED
      BY <1>1, <1>2, <2>2
  <1>4. ASSUME NEW x \in S, NEW y \in S, <<x, y>> \in less
        PROVE  Cardinality(Before(less, S, x)) < Cardinality(Before(less, S, y))
    <2> DEFINE X == Before(less, S, x)
               Y == Before(less, S, y)
    <2>1. X \in SUBSET Y
      BY <1>4 DEF Before, StrictlyOrders
    <2>2. x \in Y /\ x \notin X
      BY <1>4 DEF Before, StrictlyOrders
    <2>3. IsFiniteSet(Y) /\ Cardinality(X) \in Nat /\ Cardinality(Y) \in Nat
      BY <1>1
    <2> HIDE DEF X, Y
    <2>4. Cardinality(X) <= Cardinality(Y) /\ (Cardinality(Y) = Cardinality(X) => Y = X)
      BY <2>1, <2>3, FS_Subset
    <2>5. Cardinality(X) < Cardinality(Y)
      BY <2>2, <2>3, <2>4
    <2> QED
      BY <2>5 DEF X, Y
  <1> QED
    BY <1>3, <1>4

(* Every number below the size of the set is the rank of an element.       *)
LEMMA RanksAreTaken ==
  ASSUME NEW S, IsFiniteSet(S), NEW less, StrictlyOrders(less, S)
  PROVE  \A k \in 0 .. Cardinality(S) - 1 : \E x \in S : Cardinality(Before(less, S, x)) = k
  <1> DEFINE n == Cardinality(S)
             rank == [x \in S |-> Cardinality(Before(less, S, x))]
  <1>1. n \in Nat
    BY FS_CardinalityType
  <1>2. rank \in [S -> 0 .. n - 1]
    BY RanksDiffer
  <1>3. \A x, y \in S : rank[x] = rank[y] => x = y
    <2> SUFFICES ASSUME NEW x \in S, NEW y \in S, x # y PROVE rank[x] # rank[y]
      OBVIOUS
    <2>1. \A a, b \in S : <<a, b>> \in less => rank[a] < rank[b]
      BY RanksDiffer
    <2>2. <<x, y>> \in less \/ <<y, x>> \in less
      BY DEF StrictlyOrders
    <2>3. rank[x] \in Int /\ rank[y] \in Int
      BY <1>1, <1>2
    <2> HIDE DEF rank
    <2> QED
      BY <2>1, <2>2, <2>3
  <1>4. rank \in Injection(S, 0 .. n - 1)
    <2> HIDE DEF rank
    <2> QED
      BY <1>2, <1>3 DEF Injection, IsInjective
  <1>5. IsFiniteSet(0 .. n - 1) /\ Cardinality(0 .. n - 1) = n
    BY <1>1, FS_Interval
  <1>6. rank \in Surjection(S, 0 .. n - 1)
    <2> HIDE DEF rank
    <2> QED
      BY <1>4, <1>5, FS_Injection
  <1>7. \A k \in 0 .. n - 1 : \E x \in S : rank[x] = k
    <2> HIDE DEF rank
    <2> QED
      BY <1>6 DEF Surjection
  <1> QED
    BY <1>7

(* One element comes first.                                                *)
LEMMA FirstExists ==
  ASSUME NEW S, IsFiniteSet(S), S # {}, NEW less, StrictlyOrders(less, S)
  PROVE  \E x \in S : \A y \in S : <<y, x>> \notin less
  <1>1. Cardinality(S) \in Nat /\ Cardinality(S) # 0
    BY FS_CardinalityType, FS_EmptySet
  <1>2. PICK x \in S : Cardinality(Before(less, S, x)) = 0
    BY <1>1, RanksAreTaken
  <1>3. Before(less, S, x) \in SUBSET S
    BY DEF Before
  <1>4. IsFiniteSet(Before(less, S, x))
    BY <1>3, FS_Subset
  <1>5. Before(less, S, x) = {}
    BY <1>2, <1>4, FS_EmptySet
  <1> QED
    BY <1>5 DEF Before

(* A finite set of integers that is not empty has a greatest and a least   *)
(* element.                                                                *)
LEMMA Extremes ==
  ASSUME NEW S \in SUBSET Int, IsFiniteSet(S), S # {}
  PROVE  /\ \E x \in S : \A y \in S : x >= y
         /\ \E x \in S : \A y \in S : x <= y
  <1> DEFINE up == {p \in S \X S : p[1] < p[2]}
             down == {p \in S \X S : p[1] > p[2]}
  <1>1. \A x, y \in S : (<<x, y>> \in up <=> x < y) /\ (<<x, y>> \in down <=> x > y)
    OBVIOUS
  <1>2. \A x \in S : x \in Int
    OBVIOUS
  <1> HIDE DEF up, down
  <1>3. StrictlyOrders(up, S) /\ StrictlyOrders(down, S)
    BY <1>1, <1>2 DEF StrictlyOrders
  <1>4. ASSUME NEW less, StrictlyOrders(less, S)
        PROVE  \E x \in S : \A y \in S : <<y, x>> \notin less
    BY <1>4, FirstExists, Zenon
  <1>6. PICK x \in S : \A y \in S : <<y, x>> \notin down
    BY <1>3, <1>4
  <1>7. PICK z \in S : \A y \in S : <<y, z>> \notin up
    BY <1>3, <1>4
  <1>8. \A y \in S : x >= y
    <2> TAKE y \in S
    <2>1. ~ (y > x)
      BY <1>1, <1>6
    <2> QED
      BY <1>2, <2>1
  <1>9. \A y \in S : z <= y
    <2> TAKE y \in S
    <2>1. ~ (y < z)
      BY <1>1, <1>7
    <2> QED
      BY <1>2, <2>1
  <1> QED
    BY <1>8, <1>9

(* What is true of 0, and of each number up to n if of the one before, is  *)
(* true of all.                                                            *)
LEMMA Ascent ==
  ASSUME NEW n \in Nat, NEW S, 0 \in S, \A k \in 1 .. n : k - 1 \in S => k \in S
  PROVE  \A k \in 0 .. n : k \in S
  <1> DEFINE T == {k \in 0 .. n : k \notin S}
  <1> SUFFICES ASSUME T # {} PROVE FALSE
    OBVIOUS
  <1>1. T \in SUBSET (0 .. n) /\ IsFiniteSet(0 .. n)
    BY FS_Interval
  <1>2. IsFiniteSet(T) /\ T \in SUBSET Int
    BY <1>1, FS_Subset
  <1>3. PICK k \in T : \A j \in T : k <= j
    BY <1>2, Extremes
  <1>4. k \in 1 .. n /\ k \notin S
    OBVIOUS
  <1>5. k - 1 \in 0 .. n /\ k - 1 \notin T
    BY <1>3, <1>4
  <1> QED
    BY <1>4, <1>5

=============================================================================
