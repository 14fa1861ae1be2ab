-------------------------- MODULE ExitPricingProofs --------------------------
(***************************************************************************)
(* Proofs about ExitPricing.  First the order book: from_levels really     *)
(* sorts, and the walk down a sorted ladder is the best any sale could do. *)
(* Then the purchases, and with both the invariant of the exit loop.       *)
(***************************************************************************)
EXTENDS ExitPricing, SumTheorems

-----------------------------------------------------------------------------
(* The ladder *)

Falling(b) == \A i, j \in DOMAIN b : i < j => b[i].price >= b[j].price
Ladder(b)  == b \in Seq(Level) /\ Falling(b)

LEMMA LevelsAre ==
  ASSUME NEW b \in Seq(Level)
  PROVE  /\ Len(b) \in Nat /\ DOMAIN b = 1..Len(b)
         /\ \A i \in 1..Len(b) : b[i] \in Level /\ b[i].price \in Nat /\ b[i].qty \in Nat
<1>1. Len(b) \in Nat /\ DOMAIN b = 1..Len(b) /\ \A i \in 1..Len(b) : b[i] \in Level
  OBVIOUS
<1>2. \A l \in Level : l.price \in Nat /\ l.qty \in Nat
  BY DEF Level
<1> QED
  BY <1>1, <1>2

LEMMA FirstN == ASSUME NEW n \in Nat PROVE IsFiniteSet(1..n) /\ Cardinality(1..n) = n
BY FS_Interval

LEMMA RankOrders ==
  ASSUME NEW b \in Seq(Level), NEW i \in DOMAIN b, NEW j \in DOMAIN b, Before(b, i, j)
  PROVE  Rank(b, i) < Rank(b, j)
<1> DEFINE Ahead(k) == {h \in DOMAIN b : Before(b, h, k)}
<1>1. /\ Len(b) \in Nat /\ DOMAIN b = 1..Len(b)
      /\ \A k \in DOMAIN b : b[k].price \in Nat /\ k \in Nat
  BY LevelsAre
<1>2. Ahead(i) \subseteq Ahead(j) /\ i \in Ahead(j) /\ i \notin Ahead(i)
  BY <1>1 DEF Before
<1>3. IsFiniteSet(Ahead(j))
  <2>1. IsFiniteSet(DOMAIN b)
    BY <1>1, FirstN
  <2>2. Ahead(j) \in SUBSET DOMAIN b
    OBVIOUS
  <2> HIDE DEF Ahead
  <2> QED
    BY <2>1, <2>2, FS_Subset
<1>4. /\ Cardinality(Ahead(i)) <= Cardinality(Ahead(j))
      /\ Cardinality(Ahead(i)) # Cardinality(Ahead(j))
      /\ Cardinality(Ahead(i)) \in Nat /\ Cardinality(Ahead(j)) \in Nat
  <2> HIDE DEF Ahead
  <2>1. IsFiniteSet(Ahead(i))
    BY <1>2, <1>3, FS_Subset
  <2> QED
    BY <1>2, <1>3, <2>1, FS_Subset, FS_CardinalityType
<1> QED
  BY <1>4 DEF Rank

\* Every rank is that of one level.
LEMMA RankBijects ==
  ASSUME NEW b \in Seq(Level)
  PROVE  /\ \A i \in DOMAIN b : Rank(b, i) \in DOMAIN b
         /\ \A r \in DOMAIN b : \E i \in DOMAIN b : Rank(b, i) = r
<1> DEFINE n == Len(b)
           rank == [i \in 1..n |-> Rank(b, i)]
<1>1. /\ n \in Nat /\ DOMAIN b = 1..n
      /\ \A k \in 1..n : b[k].price \in Nat /\ k \in Nat
  BY LevelsAre
<1>2. ASSUME NEW i \in 1..n PROVE Rank(b, i) \in 1..n
  <2> DEFINE ahead == {h \in DOMAIN b : Before(b, h, i)}
  <2>1. ahead \subseteq (1..n) \ {i}
    BY <1>1 DEF Before
  <2>2. IsFiniteSet((1..n) \ {i}) /\ Cardinality((1..n) \ {i}) = n - 1
    <3>1. IsFiniteSet(1..n) /\ Cardinality(1..n) = n
      BY <1>1, FirstN
    <3> QED
      BY <3>1, FS_RemoveElement
  <2>3. Cardinality(ahead) \in Nat /\ Cardinality(ahead) <= n - 1
    <3> HIDE DEF ahead
    <3>1. IsFiniteSet(ahead) /\ Cardinality(ahead) <= Cardinality((1..n) \ {i})
      BY <2>1, <2>2, FS_Subset
    <3> QED
      BY <2>2, <3>1, FS_CardinalityType
  <2> QED
    BY <1>1, <2>3 DEF Rank
<1>3. ASSUME NEW i \in 1..n, NEW j \in 1..n, Rank(b, i) = Rank(b, j) PROVE i = j
  <2>1. SUFFICES ASSUME i # j PROVE FALSE
    OBVIOUS
  <2>2. Before(b, i, j) \/ Before(b, j, i)
    BY <1>1, <2>1 DEF Before
  <2>3. Rank(b, i) < Rank(b, j) \/ Rank(b, j) < Rank(b, i)
    BY <1>1, <2>2, RankOrders
  <2> QED
    BY <1>2, <1>3, <2>3
<1>4. rank \in Injection(1..n, 1..n)
  BY <1>2, <1>3 DEF Injection, IsInjective
<1>5. rank \in Surjection(1..n, 1..n)
  <2>1. IsFiniteSet(1..n)
    BY <1>1, FirstN
  <2> HIDE DEF rank
  <2> QED
    BY <1>4, <2>1, FS_Injection
<1>6. \A r \in 1..n : \E i \in 1..n : Rank(b, i) = r
  BY <1>5 DEF Surjection
<1> QED
  BY <1>1, <1>2, <1>6

\* from_levels keeps the levels and puts them in order.
LEMMA FromLevelsSorts ==
  ASSUME NEW b \in Seq(Level)
  PROVE  /\ Ladder(FromLevels(b)) /\ Len(FromLevels(b)) = Len(b)
         /\ \A i \in DOMAIN b : FromLevels(b)[Rank(b, i)] = b[i]
<1> DEFINE n == Len(b)
           at(r) == CHOOSE i \in DOMAIN b : Rank(b, i) = r
<1>1. /\ n \in Nat /\ DOMAIN b = 1..n
      /\ \A k \in 1..n : b[k] \in Level /\ b[k].price \in Nat /\ k \in Nat
  BY LevelsAre
<1>2. \A r \in 1..n : at(r) \in 1..n /\ Rank(b, at(r)) = r
  BY <1>1, RankBijects
<1>3. FromLevels(b) = [r \in 1..n |-> b[at(r)]]
  BY <1>1 DEF FromLevels
<1> HIDE DEF at
<1>4. FromLevels(b) \in Seq(Level) /\ Len(FromLevels(b)) = n /\ DOMAIN FromLevels(b) = 1..n
  BY <1>1, <1>2, <1>3
<1>5. ASSUME NEW r \in 1..n, NEW s \in 1..n, r < s
      PROVE  FromLevels(b)[r].price >= FromLevels(b)[s].price
  <2> DEFINE i == at(r)
             j == at(s)
  <2>1. i \in 1..n /\ j \in 1..n /\ Rank(b, i) = r /\ Rank(b, j) = s
    BY <1>2
  <2>2. ~Before(b, j, i)
    <3>1. SUFFICES ASSUME Before(b, j, i) PROVE FALSE
      OBVIOUS
    <3>2. Rank(b, j) < Rank(b, i)
      BY <1>1, <2>1, <3>1, RankOrders
    <3> QED
      BY <1>1, <1>5, <2>1, <3>2
  <2>3. b[i].price >= b[j].price
    BY <1>1, <2>1, <2>2 DEF Before
  <2> QED
    BY <1>3, <2>3
<1>6. ASSUME NEW i \in 1..n PROVE FromLevels(b)[Rank(b, i)] = b[i]
  <2>1. Rank(b, i) \in 1..n
    BY <1>1, RankBijects
  <2> DEFINE j == at(Rank(b, i))
  <2>2. j \in 1..n /\ Rank(b, j) = Rank(b, i)
    BY <1>2, <2>1
  <2>3. j = i
    <3>1. SUFFICES ASSUME j # i PROVE FALSE
      OBVIOUS
    <3>2. Before(b, i, j) \/ Before(b, j, i)
      BY <1>1, <2>2, <3>1 DEF Before
    <3>3. Rank(b, i) < Rank(b, j) \/ Rank(b, j) < Rank(b, i)
      BY <1>1, <2>2, <3>2, RankOrders
    <3> QED
      BY <1>1, <2>1, <2>2, <3>3
  <2> QED
    BY <1>3, <2>1, <2>3
<1> QED
  BY <1>1, <1>4, <1>5, <1>6 DEF Ladder, Falling
-----------------------------------------------------------------------------
(* The walk down the bids *)

Progress(q) == [left : 0..q, proceeds : Nat]
After(b, x, i) ==
  [left |-> x.left - Lesser(x.left, b[i].qty),
   proceeds |-> x.proceeds + Lesser(x.left, b[i].qty) * b[i].price]
WalkStep(b, q, walk, i) ==
  IF i = 0 THEN [left |-> q, proceeds |-> 0] ELSE After(b, walk[i - 1], i)

Left(b, q, i)   == Walk(b, q)[i].left
Earns(b, q, i)  == Walk(b, q)[i].proceeds
Take(b, q, i)   == Lesser(Left(b, q, i - 1), b[i].qty)

LEMMA AfterProgress ==
  ASSUME NEW b \in Seq(Level), NEW q \in Nat, NEW x \in Progress(q), NEW i \in 1..Len(b)
  PROVE  After(b, x, i) \in Progress(q)
<1>1. b[i].price \in Nat /\ b[i].qty \in Nat
  BY LevelsAre
<1>2. x.left \in 0..q /\ x.proceeds \in Nat
  BY DEF Progress
<1>3. /\ Lesser(x.left, b[i].qty) \in Nat /\ x.left - Lesser(x.left, b[i].qty) \in 0..q
  BY <1>1, <1>2 DEF Lesser
<1>4. Lesser(x.left, b[i].qty) * b[i].price \in Nat
  BY <1>1, <1>3
<1> QED
  BY <1>2, <1>3, <1>4 DEF After, Progress

\* The recursive function of the loop exists.
LEMMA WalkExists ==
  ASSUME NEW b \in Seq(Level), NEW q \in Nat
  PROVE  /\ Walk(b, q) \in [0..Len(b) -> Progress(q)]
         /\ \A i \in 0..Len(b) : Walk(b, q)[i] = WalkStep(b, q, Walk(b, q), i)
<1> DEFINE n == Len(b)
           D == Progress(q)
           x == [left |-> q, proceeds |-> 0]
           F == [k \in (0..n) \X D |-> IF k[1] = 0 THEN x ELSE After(b, k[2], k[1])]
<1>1. n \in Nat /\ n \in Int /\ 0 \in Int
  BY LevelsAre
<1>2. x \in D
  BY DEF Progress
<1>3. F \in [(0..n) \X D -> D]
  <2>1. ASSUME NEW k \in (0..n) \X D, k[1] # 0 PROVE After(b, k[2], k[1]) \in D
    <3>1. k[1] \in 1..n /\ k[2] \in D
      BY <1>1, <2>1
    <3> QED
      BY <3>1, AfterProgress
  <2> HIDE DEF D, x
  <2> QED
    BY <1>2, <2>1
<1>4. \E g \in [0..n -> D] : IsRec(g, F, x, 0, n)
  <2> HIDE DEF n, D, x, F
  <2> QED
    BY <1>1, <1>2, <1>3, RecursionExists
<1>5. PICK g \in [0..n -> D] : g = [i \in 0..n |-> RecStep(F, x, 0, g, i)]
  BY <1>4 DEF IsRec
<1>6. ASSUME NEW i \in 0..n PROVE g[i] = WalkStep(b, q, g, i)
  <2>1. g[i] = RecStep(F, x, 0, g, i)
    BY <1>5
  <2>2. CASE i = 0
    BY <2>1, <2>2 DEF RecStep, WalkStep
  <2>3. CASE i # 0
    <3>1. i - 1 \in 0..n /\ g[i - 1] \in D
      <4>1. i - 1 \in 0..n
        BY <1>1, <2>3
      <4> HIDE DEF D, F, x, n
      <4> QED
        BY <4>1
    <3>2. F[<<i, g[i - 1]>>] = After(b, g[i - 1], i)
      BY <2>3, <3>1
    <3> HIDE DEF F, D
    <3> QED
      BY <2>1, <2>3, <3>2 DEF RecStep, WalkStep
  <2> QED
    BY <2>2, <2>3
<1>7. g = [i \in 0..n |-> WalkStep(b, q, g, i)]
  BY <1>5, <1>6
<1>8. /\ Walk(b, q) = [i \in 0..n |-> WalkStep(b, q, Walk(b, q), i)]
  <2> HIDE DEF F, D, x
  <2> QED
    BY <1>7 DEF Walk, WalkStep, After
<1>9. \A i \in 0..n : Walk(b, q)[i] = WalkStep(b, q, Walk(b, q), i)
  <2> DEFINE w == Walk(b, q)
  <2>1. w = [i \in 0..n |-> WalkStep(b, q, w, i)]
    BY <1>8
  <2> HIDE DEF w
  <2>2. \A i \in 0..n : w[i] = WalkStep(b, q, w, i)
    BY <2>1
  <2> QED
    BY <2>2 DEF w
<1>10. \A i \in 0..n : Walk(b, q)[i] \in D
  <2> DEFINE w == Walk(b, q)
             S == {i \in 0..n : w[i] \in D}
  <2>1. 0 \in S
    BY <1>1, <1>2, <1>9 DEF WalkStep
  <2>2. ASSUME NEW i \in 0..n, i > 0, i - 1 \in S PROVE i \in S
    <3>1. i \in 1..n /\ w[i - 1] \in D /\ w[i] = After(b, w[i - 1], i)
      <4>1. i # 0 /\ i \in 1..n
        BY <1>1, <2>2
      <4>2. w[i] = WalkStep(b, q, w, i)
        BY <1>9
      <4> QED
        BY <2>2, <4>1, <4>2 DEF WalkStep
    <3>2. w[i] \in D
      <4> HIDE DEF w
      <4> QED
        BY <3>1, AfterProgress
    <3> QED
      BY <3>2
  <2>3. \A i \in 0..n : i \in S
    <3> HIDE DEF S, n
    <3> QED
      BY <1>1, <2>1, <2>2, IntervalInduction
  <2> QED
    BY <2>3
<1>11. Walk(b, q) \in [0..n -> D]
  <2> DEFINE w == Walk(b, q)
  <2>1. w = [i \in 0..n |-> WalkStep(b, q, w, i)] /\ \A i \in 0..n : w[i] \in D
    BY <1>8, <1>10
  <2> HIDE DEF w, D
  <2>2. w \in [0..n -> D]
    BY <2>1
  <2> QED
    BY <2>2 DEF w
<1> QED
  BY <1>9, <1>11

\* One level of the walk.
LEMMA WalkFacts ==
  ASSUME NEW b \in Seq(Level), NEW q \in Nat
  PROVE  /\ Left(b, q, 0) = q /\ Earns(b, q, 0) = 0
         /\ \A i \in 0..Len(b) : Left(b, q, i) \in 0..q /\ Earns(b, q, i) \in Nat
         /\ \A i \in 1..Len(b) :
              /\ Take(b, q, i) \in Nat
              /\ Take(b, q, i) <= Left(b, q, i - 1) /\ Take(b, q, i) <= b[i].qty
              /\ Take(b, q, i) = Left(b, q, i - 1) \/ Take(b, q, i) = b[i].qty
              /\ Left(b, q, i) = Left(b, q, i - 1) - Take(b, q, i)
              /\ Earns(b, q, i) = Earns(b, q, i - 1) + Take(b, q, i) * b[i].price
<1> DEFINE w == Walk(b, q)
<1>1. /\ Len(b) \in Nat
      /\ \A i \in 1..Len(b) : b[i].price \in Nat /\ b[i].qty \in Nat
  BY LevelsAre
<1>2. \A i \in 0..Len(b) : w[i] \in Progress(q) /\ w[i] = WalkStep(b, q, w, i)
  BY WalkExists
<1>3. \A i \in 0..Len(b) : w[i].left \in 0..q /\ w[i].proceeds \in Nat
  <2> HIDE DEF w
  <2> QED
    BY <1>2 DEF Progress
<1>4. w[0].left = q /\ w[0].proceeds = 0
  <2>1. w[0] = WalkStep(b, q, w, 0)
    BY <1>1, <1>2
  <2> HIDE DEF w
  <2> QED
    BY <2>1 DEF WalkStep
<1>5. ASSUME NEW i \in 1..Len(b)
      PROVE  /\ w[i].left = w[i - 1].left - Lesser(w[i - 1].left, b[i].qty)
             /\ w[i].proceeds = w[i - 1].proceeds + Lesser(w[i - 1].left, b[i].qty) * b[i].price
  <2>1. i \in 0..Len(b) /\ i # 0
    OBVIOUS
  <2>2. w[i] = After(b, w[i - 1], i)
    BY <1>2, <2>1 DEF WalkStep
  <2> HIDE DEF w
  <2> QED
    BY <2>2 DEF After
<1>6. ASSUME NEW i \in 1..Len(b)
      PROVE  /\ Take(b, q, i) = Lesser(w[i - 1].left, b[i].qty)
             /\ Take(b, q, i) \in Nat
             /\ Take(b, q, i) <= w[i - 1].left /\ Take(b, q, i) <= b[i].qty
             /\ Take(b, q, i) = w[i - 1].left \/ Take(b, q, i) = b[i].qty
  <2>1. i - 1 \in 0..Len(b) /\ w[i - 1].left \in 0..q
    BY <1>3
  <2>2. Take(b, q, i) = Lesser(w[i - 1].left, b[i].qty)
    BY DEF Take, Left
  <2> HIDE DEF w
  <2> QED
    BY <1>1, <2>1, <2>2 DEF Lesser
<1> QED
  BY <1>3, <1>4, <1>5, <1>6 DEF Left, Earns

-----------------------------------------------------------------------------
(* What the walk earns *)

\* The fills of a walk are the falls of what is left, and what it earns is their
\* worth.
LEMMA WalkSums ==
  ASSUME NEW b \in Seq(Level), NEW q \in Nat, NEW i \in 0..Len(b)
  PROVE  LET takes == [k \in 1..Len(b) |-> Take(b, q, k)]
             worth == [k \in 1..Len(b) |-> Take(b, q, k) * b[k].price]
         IN SumOver(takes, 1..i) = q - Left(b, q, i) /\ SumOver(worth, 1..i) = Earns(b, q, i)
<1> DEFINE n == Len(b)
           takes == [k \in 1..n |-> Take(b, q, k)]
           worth == [k \in 1..n |-> Take(b, q, k) * b[k].price]
           S == {k \in 0..n : /\ SumOver(takes, 1..k) = q - Left(b, q, k)
                              /\ SumOver(worth, 1..k) = Earns(b, q, k)}
<1>1. /\ n \in Nat /\ n \in Int /\ 0 \in Int
      /\ \A k \in 1..n : b[k].price \in Nat /\ b[k].qty \in Nat
  BY LevelsAre
<1>2. /\ Left(b, q, 0) = q /\ Earns(b, q, 0) = 0
      /\ \A k \in 0..n : Left(b, q, k) \in 0..q /\ Earns(b, q, k) \in Nat
      /\ \A k \in 1..n : /\ Take(b, q, k) \in Nat
                         /\ Left(b, q, k) = Left(b, q, k - 1) - Take(b, q, k)
                         /\ Earns(b, q, k) = Earns(b, q, k - 1) + Take(b, q, k) * b[k].price
  BY WalkFacts
<1>3. \A k \in 1..n : takes[k] \in Nat /\ worth[k] \in Nat
  BY <1>1, <1>2
<1>4. SumOver(takes, 1..0) = 0 /\ SumOver(worth, 1..0) = 0
  <2>1. IsFiniteSet(1..0) /\ 1..0 = {}
    BY FirstN
  <2> QED
    BY <2>1, SumUnfold
<1>5. 0 \in S
  BY <1>1, <1>2, <1>4
<1>6. ASSUME NEW k \in 0..n, k > 0, k - 1 \in S PROVE k \in S
  <2>1. k \in 1..n /\ k - 1 \in 0..n
    BY <1>1, <1>6
  <2>2. /\ SumOver(takes, 1..k) = SumOver(takes, 1..(k - 1)) + takes[k]
        /\ SumOver(worth, 1..k) = SumOver(worth, 1..(k - 1)) + worth[k]
    <3>1. \A j \in 1..n : takes[j] \in Int /\ worth[j] \in Int
      BY <1>3
    <3> HIDE DEF takes, worth, n
    <3> QED
      BY <1>1, <2>1, <3>1, SumUpTo
  <2>3. takes[k] = Take(b, q, k) /\ worth[k] = Take(b, q, k) * b[k].price
    BY <2>1
  <2> HIDE DEF takes, worth, n
  <2>4. SumOver(takes, 1..(k - 1)) = q - Left(b, q, k - 1)
    BY <1>6
  <2>5. SumOver(takes, 1..k) = q - Left(b, q, k)
    <3>1. Left(b, q, k - 1) \in 0..q /\ Take(b, q, k) \in Nat
          /\ Left(b, q, k) = Left(b, q, k - 1) - Take(b, q, k)
      BY <1>2, <2>1
    <3> QED
      BY <2>2, <2>3, <2>4, <3>1
  <2>6. SumOver(worth, 1..k) = Earns(b, q, k)
    BY <1>2, <1>6, <2>1, <2>2, <2>3
  <2> QED
    BY <2>1, <2>5, <2>6
<1>7. \A k \in 0..n : k \in S
  <2> HIDE DEF S, n
  <2> QED
    BY <1>1, <1>5, <1>6, IntervalInduction
<1> QED
  BY <1>7

LEMMA Difference ==
  ASSUME NEW u \in Int, NEW v \in Int, NEW w \in Int
  PROVE  u * w - v * w = (u - v) * w /\ u * w \in Int /\ v * w \in Int
OBVIOUS

\* A lead in quantity whose gain is worth it at one price is worth it below.
LEMMA LeadKept ==
  ASSUME NEW a \in Nat, NEW g \in Nat, NEW d \in Int, NEW p \in Nat,
         g >= a * p, a + d >= 0
  PROVE  /\ a + d \in Nat /\ g + d * p \in Nat
         /\ \A c \in 0..p : g + d * p >= (a + d) * c
<1>1. PICK e \in Nat : e = a + d
  OBVIOUS
<1>2. PICK ap \in Int, dp \in Int, ep \in Nat : ap = a * p /\ dp = d * p /\ ep = e * p
  OBVIOUS
<1>3. ep = ap + dp
  <2>1. (a + d) * p = a * p + d * p
    OBVIOUS
  <2> QED
    BY <1>1, <1>2, <2>1
<1>4. g + dp >= ep
  BY <1>2, <1>3
<1>5. ASSUME NEW c \in 0..p PROVE g + d * p >= (a + d) * c
  <2>1. e * c <= e * p /\ e * c \in Int
    OBVIOUS
  <2> QED
    BY <1>1, <1>2, <1>4, <2>1
<1> QED
  BY <1>1, <1>2, <1>4, <1>5

\* No other split of the quantity over the levels earns more.
LEMMA WalkIsBest ==
  ASSUME NEW b, Ladder(b), NEW q \in Nat, NEW f \in Splits(b, q)
  PROVE  Earned(b, f) <= Proceeds(b, q)
<1> DEFINE n == Len(b)
           value == [k \in DOMAIN b |-> f[k] * b[k].price]
           Ahead(k) == (q - Left(b, q, k)) - SumOver(f, 1..k)
           Gain(k)  == Earns(b, q, k) - SumOver(value, 1..k)
           S == {k \in 0..n : /\ Ahead(k) >= 0 /\ Gain(k) >= 0
                              /\ \A j \in 1..n : j > k => Gain(k) >= Ahead(k) * b[j].price}
<1>0. b \in Seq(Level)
  BY DEF Ladder
<1>1. /\ n \in Nat /\ n \in Int /\ 0 \in Int /\ DOMAIN b = 1..n
      /\ \A k \in 1..n : b[k].price \in Nat /\ b[k].qty \in Nat
  BY <1>0, LevelsAre
<1>2. /\ \A k \in 1..n : f[k] \in 0..q /\ f[k] <= b[k].qty
      /\ SumOver(f, 1..n) <= q
  BY <1>1 DEF Splits
<1>3. \A k \in 1..n : value[k] = f[k] * b[k].price /\ value[k] \in Nat
  BY <1>1, <1>2
<1> HIDE DEF n, value
<1>4. \A k \in 0..n : /\ SumOver(f, 1..k) \in Nat /\ SumOver(value, 1..k) \in Int
                      /\ SumOver(f, 1..k) <= q
  <2> SUFFICES ASSUME NEW k \in 0..n
               PROVE  /\ SumOver(f, 1..k) \in Nat /\ SumOver(value, 1..k) \in Int
                      /\ SumOver(f, 1..k) <= q
    OBVIOUS
  <2>1. IsFiniteSet(1..n) /\ IsFiniteSet(1..k) /\ 1..k \in SUBSET (1..n)
    BY <1>1, FirstN
  <2>2. \A x \in 1..n : f[x] \in Nat /\ value[x] \in Nat
    BY <1>2, <1>3
  <2>3. /\ SumOver(f, 1..k) \in Nat /\ SumOver(f, 1..n) \in Nat
        /\ SumOver(f, 1..k) <= SumOver(f, 1..n) /\ SumOver(value, 1..k) \in Nat
    BY <2>1, <2>2, SumPart
  <2> QED
    BY <1>2, <2>3
<1>5. \A k \in 1..n : /\ SumOver(f, 1..k) = SumOver(f, 1..(k - 1)) + f[k]
                      /\ SumOver(value, 1..k) = SumOver(value, 1..(k - 1)) + f[k] * b[k].price
  <2>1. \A x \in 1..n : f[x] \in Int /\ value[x] \in Int
    BY <1>2, <1>3
  <2> QED
    BY <1>1, <1>3, <2>1, SumUpTo
<1>6. SumOver(f, 1..0) = 0 /\ SumOver(value, 1..0) = 0
  <2>1. IsFiniteSet(1..0) /\ 1..0 = {}
    BY FirstN
  <2> QED
    BY <2>1, SumUnfold
<1>7. /\ Left(b, q, 0) = q /\ Earns(b, q, 0) = 0
      /\ \A k \in 0..n : Left(b, q, k) \in 0..q /\ Earns(b, q, k) \in Nat
      /\ \A k \in 1..n :
           /\ Take(b, q, k) \in Nat
           /\ Take(b, q, k) = Left(b, q, k - 1) \/ Take(b, q, k) = b[k].qty
           /\ Left(b, q, k) = Left(b, q, k - 1) - Take(b, q, k)
           /\ Earns(b, q, k) = Earns(b, q, k - 1) + Take(b, q, k) * b[k].price
  BY <1>0, WalkFacts DEF n
<1>8. 0 \in S
  <2>1. Ahead(0) = 0 /\ Gain(0) = 0
    BY <1>6, <1>7
  <2>2. \A j \in 1..n : 0 * b[j].price = 0
    BY <1>1
  <2> QED
    BY <1>1, <2>1, <2>2
<1>9. ASSUME NEW k \in 0..n, k > 0, k - 1 \in S PROVE k \in S
  <2>1. k \in 1..n /\ k - 1 \in 0..n /\ k > k - 1
    BY <1>1, <1>9
  <2>2. PICK x \in 0..q, p \in Nat, qty \in Nat :
          x = f[k] /\ p = b[k].price /\ qty = b[k].qty /\ x <= qty
    BY <1>1, <1>2, <2>1
  <2>3. PICK left \in 0..q, earned \in Nat, taken \in Nat :
          left = Left(b, q, k - 1) /\ earned = Earns(b, q, k - 1) /\ taken = Take(b, q, k)
    BY <1>7, <2>1
  <2>4. PICK sum \in Nat, worth \in Int :
          sum = SumOver(f, 1..(k - 1)) /\ worth = SumOver(value, 1..(k - 1))
    BY <1>4, <2>1
  <2>5. /\ Left(b, q, k) = left - taken /\ Earns(b, q, k) = earned + taken * p
        /\ taken = left \/ taken = qty
    BY <1>7, <2>1, <2>2, <2>3
  <2>6. /\ SumOver(f, 1..k) = sum + x /\ SumOver(value, 1..k) = worth + x * p
        /\ sum + x <= q
    <3>1. SumOver(f, 1..k) = sum + x /\ SumOver(value, 1..k) = worth + x * p
      BY <1>5, <2>1, <2>2, <2>4
    <3> QED
      BY <1>4, <3>1
  <2>7. Ahead(k - 1) = (q - left) - sum /\ Gain(k - 1) = earned - worth
    BY <2>3, <2>4
  <2>8. /\ Ahead(k) = (q - (left - taken)) - (sum + x)
        /\ Gain(k) = (earned + taken * p) - (worth + x * p)
    BY <2>5, <2>6
  <2>9. /\ Ahead(k - 1) >= 0 /\ Gain(k - 1) >= 0
        /\ Gain(k - 1) >= Ahead(k - 1) * p
    BY <1>9, <2>1, <2>2
  <2> HIDE DEF Ahead, Gain, S
  <2>10. PICK a \in Nat, g \in Nat : a = Ahead(k - 1) /\ g = Gain(k - 1)
    BY <2>7, <2>9
  <2>11. /\ Ahead(k) \in Nat /\ Gain(k) \in Nat
         /\ \A c \in 0..p : Gain(k) >= Ahead(k) * c
    <3>1. PICK d \in Int : d = taken - x
      OBVIOUS
    <3>2. Ahead(k) = a + d
      BY <2>7, <2>8, <2>10, <3>1
    <3>3. Gain(k) = g + d * p
      <4>1. taken * p - x * p = d * p /\ taken * p \in Int /\ x * p \in Int
        BY <3>1, Difference
      <4> QED
        BY <2>7, <2>8, <2>10, <4>1
    <3>4. a + d >= 0
      <4>1. a + d = (q - (left - taken)) - (sum + x) /\ a = (q - left) - sum
        BY <2>7, <2>8, <2>10, <3>2
      <4>2. CASE taken = left
        BY <2>6, <4>1, <4>2
      <4>3. CASE taken = qty
        BY <2>2, <3>1, <4>3
      <4> QED
        BY <2>5, <4>2, <4>3
    <3> QED
      BY <2>9, <2>10, <3>2, <3>3, <3>4, LeadKept
  <2>12. ASSUME NEW j \in 1..n, j > k PROVE Gain(k) >= Ahead(k) * b[j].price
    <3>1. b[k].price >= b[j].price /\ b[j].price \in Nat
      BY <1>1, <2>1, <2>12 DEF Ladder, Falling
    <3>2. b[j].price \in 0..p
      BY <2>2, <3>1
    <3> QED
      BY <2>11, <3>2
  <2> QED
    BY <2>11, <2>12 DEF S
<1>10. \A k \in 0..n : k \in S
  <2> HIDE DEF S
  <2> QED
    BY <1>1, <1>8, <1>9, IntervalInduction
<1>11. Earns(b, q, n) - SumOver(value, 1..n) >= 0
  BY <1>1, <1>10
<1>12. Earned(b, f) = SumOver(value, 1..n) /\ Proceeds(b, q) = Earns(b, q, n)
  BY <1>1 DEF Earned, Proceeds, Earns, value, n
<1> QED
  BY <1>1, <1>4, <1>7, <1>11, <1>12

\* The fills of the walk are such a split.
LEMMA WalkIsSplit ==
  ASSUME NEW b \in Seq(Level), NEW q \in Nat
  PROVE  \E f \in Splits(b, q) : Earned(b, f) = Proceeds(b, q)
<1> DEFINE n == Len(b)
           takes == [k \in 1..n |-> Take(b, q, k)]
           worth == [k \in 1..n |-> Take(b, q, k) * b[k].price]
<1>1. n \in Nat /\ n \in 0..n /\ DOMAIN b = 1..n
  BY LevelsAre
<1>2. /\ \A k \in 0..n : Left(b, q, k) \in 0..q
      /\ \A k \in 1..n : /\ Take(b, q, k) \in Nat
                         /\ Take(b, q, k) <= Left(b, q, k - 1) /\ Take(b, q, k) <= b[k].qty
  BY WalkFacts
<1>3. ASSUME NEW k \in 1..n PROVE takes[k] \in 0..q /\ takes[k] <= b[k].qty
  <2>1. k - 1 \in 0..n
    BY <1>1
  <2>2. Left(b, q, k - 1) \in 0..q /\ Take(b, q, k) \in Nat
        /\ Take(b, q, k) <= Left(b, q, k - 1) /\ Take(b, q, k) <= b[k].qty
    BY <1>2, <2>1
  <2> QED
    BY <2>2
<1>4. SumOver(takes, 1..n) = q - Left(b, q, n) /\ SumOver(worth, 1..n) = Earns(b, q, n)
  BY <1>1, WalkSums
<1>5. takes \in Splits(b, q)
  <2>1. takes \in [DOMAIN b -> 0..q]
    BY <1>1, <1>3
  <2>2. SumOver(takes, DOMAIN b) <= q
    BY <1>1, <1>2, <1>4
  <2> HIDE DEF takes
  <2> QED
    BY <1>1, <1>3, <2>1, <2>2 DEF Splits
<1>6. Earned(b, takes) = Proceeds(b, q)
  <2>1. [k \in DOMAIN b |-> takes[k] * b[k].price] = worth
    BY <1>1
  <2>2. Earned(b, takes) = SumOver(worth, 1..n)
    BY <1>1, <2>1 DEF Earned
  <2> QED
    BY <1>4, <2>2 DEF Proceeds, Earns
<1> QED
  BY <1>5, <1>6

\* What is left of a ladder after a sale is one.
LEMMA ConsumedLadder ==
  ASSUME NEW b, Ladder(b), NEW q \in Nat
  PROVE  /\ Ladder(Consumed(b, q))
         /\ FilledQty(b, q) \in 0..q /\ Proceeds(b, q) \in Nat
<1> DEFINE n == Len(b)
           c == Consumed(b, q)
<1>0. b \in Seq(Level)
  BY DEF Ladder
<1>1. /\ n \in Nat /\ DOMAIN b = 1..n
      /\ \A k \in 1..n : b[k] \in Level /\ b[k].price \in Nat /\ b[k].qty \in Nat
  BY <1>0, LevelsAre
<1>2. /\ \A k \in 0..n : Left(b, q, k) \in 0..q /\ Earns(b, q, k) \in Nat
      /\ \A k \in 1..n : /\ Take(b, q, k) \in Nat /\ Take(b, q, k) <= b[k].qty
                         /\ Left(b, q, k) = Left(b, q, k - 1) - Take(b, q, k)
  BY <1>0, WalkFacts
<1>3. ASSUME NEW k \in 1..n
      PROVE  c[k] = [price |-> b[k].price, qty |-> b[k].qty - Take(b, q, k)]
  <2>1. k - 1 \in 0..n /\ k \in 0..n
    BY <1>1
  <2>2. Left(b, q, k - 1) - Left(b, q, k) = Take(b, q, k)
    <3>1. Left(b, q, k - 1) \in 0..q /\ Take(b, q, k) \in Nat
          /\ Left(b, q, k) = Left(b, q, k - 1) - Take(b, q, k)
      BY <1>2, <2>1
    <3> QED
      BY <3>1
  <2>3. c[k] = [b[k] EXCEPT !.qty = @ - (Left(b, q, k - 1) - Left(b, q, k))]
    BY <1>1 DEF Consumed, Left
  <2>4. c[k] = [b[k] EXCEPT !.qty = b[k].qty - Take(b, q, k)]
    BY <2>2, <2>3
  <2> HIDE DEF c
  <2> QED
    BY <1>1, <2>4 DEF Level
<1>4. \A k \in 1..n : c[k] \in Level /\ c[k].price = b[k].price
  <2> SUFFICES ASSUME NEW k \in 1..n PROVE c[k] \in Level /\ c[k].price = b[k].price
    OBVIOUS
  <2>1. b[k].qty - Take(b, q, k) \in Nat /\ b[k].price \in Nat
    BY <1>1, <1>2
  <2>2. c[k] = [price |-> b[k].price, qty |-> b[k].qty - Take(b, q, k)]
    BY <1>3
  <2> HIDE DEF c
  <2> QED
    BY <2>1, <2>2 DEF Level
<1>5. c \in Seq(Level) /\ DOMAIN c = 1..n
  <2>1. c = [k \in 1..n |-> c[k]]
    BY <1>1 DEF Consumed
  <2> HIDE DEF c
  <2> QED
    BY <1>1, <1>4, <2>1
<1>6. Falling(c)
  <2> HIDE DEF c
  <2> QED
    BY <1>1, <1>4, <1>5 DEF Ladder, Falling
<1>7. FilledQty(b, q) \in 0..q /\ Proceeds(b, q) \in Nat
  <2>1. n \in 0..n
    BY <1>1
  <2>2. Left(b, q, n) \in 0..q /\ Earns(b, q, n) \in Nat
    BY <1>2, <2>1
  <2>3. FilledQty(b, q) = q - Left(b, q, n) /\ Proceeds(b, q) = Earns(b, q, n)
    BY DEF FilledQty, Proceeds, Left, Earns
  <2> QED
    BY <2>2, <2>3
<1> QED
  BY <1>5, <1>6, <1>7 DEF Ladder

\* Selling less costs at most the best price for each unit that is not sold.
LEMMA WalkOfLess ==
  ASSUME NEW b, Ladder(b), b # <<>>, NEW s \in Nat, NEW q \in 0..s
  PROVE  Proceeds(b, s) <= Proceeds(b, q) + (s - q) * b[1].price
<1> DEFINE n == Len(b)
           best == b[1].price
           More(k) == (s - Left(b, s, k)) - (q - Left(b, q, k))
           S == {k \in 0..n : /\ Left(b, s, k) >= Left(b, q, k) /\ More(k) >= 0
                              /\ Earns(b, s, k) - Earns(b, q, k) <= More(k) * best}
<1>0. b \in Seq(Level)
  BY DEF Ladder
<1>1. /\ n \in Nat \ {0} /\ n \in Int /\ 0 \in Int /\ DOMAIN b = 1..n
      /\ \A k \in 1..n : b[k].price \in Nat /\ b[k].qty \in Nat
  <2>1. n # 0
    BY <1>0
  <2> QED
    BY <1>0, <2>1, LevelsAre
<1>2. \A k \in 1..n : b[k].price <= best
  BY <1>1 DEF Ladder, Falling
<1>3. best \in Nat
  BY <1>1
<1>4. q \in Nat
  OBVIOUS
<1>5. ASSUME NEW r \in {q, s}
      PROVE  /\ Left(b, r, 0) = r /\ Earns(b, r, 0) = 0
             /\ \A k \in 0..n : Left(b, r, k) \in Nat /\ Earns(b, r, k) \in Nat
             /\ \A k \in 1..n :
                  /\ Take(b, r, k) \in Nat
                  /\ Take(b, r, k) <= Left(b, r, k - 1) /\ Take(b, r, k) <= b[k].qty
                  /\ Take(b, r, k) = Left(b, r, k - 1) \/ Take(b, r, k) = b[k].qty
                  /\ Left(b, r, k) = Left(b, r, k - 1) - Take(b, r, k)
                  /\ Earns(b, r, k) = Earns(b, r, k - 1) + Take(b, r, k) * b[k].price
  <2>1. r \in Nat
    BY <1>4
  <2>2. /\ Left(b, r, 0) = r /\ Earns(b, r, 0) = 0
        /\ \A k \in 0..n : Left(b, r, k) \in 0..r /\ Earns(b, r, k) \in Nat
    BY <1>0, <2>1, WalkFacts
  <2>3. \A k \in 0..n : Left(b, r, k) \in Nat
    BY <2>1, <2>2
  <2>4. \A k \in 1..n :
          /\ Take(b, r, k) \in Nat
          /\ Take(b, r, k) <= Left(b, r, k - 1) /\ Take(b, r, k) <= b[k].qty
          /\ Take(b, r, k) = Left(b, r, k - 1) \/ Take(b, r, k) = b[k].qty
          /\ Left(b, r, k) = Left(b, r, k - 1) - Take(b, r, k)
          /\ Earns(b, r, k) = Earns(b, r, k - 1) + Take(b, r, k) * b[k].price
    BY <1>0, <2>1, WalkFacts
  <2> QED
    BY <2>2, <2>3, <2>4
<1> HIDE DEF n, best
<1>6. 0 \in S
  <2>1. Left(b, s, 0) = s /\ Left(b, q, 0) = q /\ Earns(b, s, 0) = 0 /\ Earns(b, q, 0) = 0
    BY <1>5
  <2>2. More(0) = 0 /\ 0 * best = 0
    BY <1>3, <2>1
  <2>3. 0 \in 0..n
    BY <1>1
  <2>4. s >= q
    OBVIOUS
  <2> HIDE DEF More
  <2> QED
    BY <2>1, <2>2, <2>3, <2>4
<1>7. ASSUME NEW k \in 0..n, k > 0, k - 1 \in S PROVE k \in S
  <2>1. k \in 1..n /\ k - 1 \in 0..n
    BY <1>1, <1>7
  <2>2. /\ b[k].price \in Nat /\ b[k].qty \in Nat /\ b[k].price <= best
        /\ Left(b, s, k - 1) \in Nat /\ Left(b, q, k - 1) \in Nat
        /\ Take(b, s, k) \in Nat /\ Take(b, q, k) \in Nat
        /\ Earns(b, s, k - 1) \in Nat /\ Earns(b, q, k - 1) \in Nat
        /\ More(k - 1) \in Int
    <3>1. /\ Left(b, s, k - 1) \in Nat /\ Left(b, q, k - 1) \in Nat
          /\ Take(b, s, k) \in Nat /\ Take(b, q, k) \in Nat
          /\ Earns(b, s, k - 1) \in Nat /\ Earns(b, q, k - 1) \in Nat
      BY <1>5, <2>1
    <3>2. b[k].price \in Nat /\ b[k].qty \in Nat /\ b[k].price <= best
      BY <1>1, <1>2, <2>1
    <3> QED
      BY <3>1, <3>2
  <2>3. /\ Left(b, s, k - 1) >= Left(b, q, k - 1) /\ More(k - 1) >= 0
        /\ Earns(b, s, k - 1) - Earns(b, q, k - 1) <= More(k - 1) * best
    BY <1>7
  <2>4. /\ Left(b, s, k) = Left(b, s, k - 1) - Take(b, s, k)
        /\ Left(b, q, k) = Left(b, q, k - 1) - Take(b, q, k)
        /\ Earns(b, s, k) = Earns(b, s, k - 1) + Take(b, s, k) * b[k].price
        /\ Earns(b, q, k) = Earns(b, q, k - 1) + Take(b, q, k) * b[k].price
    BY <1>5, <2>1
  <2>5. /\ Take(b, s, k) <= Left(b, s, k - 1) /\ Take(b, s, k) <= b[k].qty
        /\ Take(b, s, k) = Left(b, s, k - 1) \/ Take(b, s, k) = b[k].qty
        /\ Take(b, q, k) <= Left(b, q, k - 1) /\ Take(b, q, k) <= b[k].qty
        /\ Take(b, q, k) = Left(b, q, k - 1) \/ Take(b, q, k) = b[k].qty
    BY <1>5, <2>1
  <2>6. /\ Take(b, s, k) - Take(b, q, k) \in Nat
        /\ Left(b, s, k) >= Left(b, q, k)
        /\ Earns(b, s, k) - Earns(b, q, k)
             <= (More(k - 1) + (Take(b, s, k) - Take(b, q, k))) * best
    <3>1. PICK ts \in Nat, tq \in Nat, price \in Nat, qty \in Nat, ls \in Nat, lq \in Nat :
            /\ ts = Take(b, s, k) /\ tq = Take(b, q, k)
            /\ price = b[k].price /\ qty = b[k].qty
            /\ ls = Left(b, s, k - 1) /\ lq = Left(b, q, k - 1)
      BY <2>2
    <3>2. PICK es \in Nat, eq \in Nat, m \in Int, top \in Nat :
            /\ es = Earns(b, s, k - 1) /\ eq = Earns(b, q, k - 1)
            /\ m = More(k - 1) /\ top = best
      BY <1>3, <2>2
    <3> HIDE DEF More
    <3>3. ts - tq \in Nat /\ ls - ts >= lq - tq
      <4>1. ls >= lq
        BY <2>3, <3>1
      <4>2. /\ ts <= ls /\ ts <= qty /\ (ts = ls \/ ts = qty)
            /\ tq <= lq /\ tq <= qty /\ (tq = lq \/ tq = qty)
        BY <2>5, <3>1
      <4> QED
        BY <4>1, <4>2
    <3>4. es - eq <= m * top /\ price <= top
      BY <2>2, <2>3, <3>1, <3>2
    <3>5. PICK d \in Nat : d = ts - tq
      BY <3>3
    <3>6. ts = tq + d
      BY <3>5
    <3>7. ts * price = tq * price + d * price /\ tq * price \in Int /\ d * price \in Int
      BY <3>6
    <3>8. (m + d) * top = m * top + d * top /\ m * top \in Int /\ d * top \in Int
      OBVIOUS
    <3>9. d * price <= d * top
      BY <3>4
    <3>10. (es + ts * price) - (eq + tq * price) <= (m + d) * top
      BY <3>4, <3>7, <3>8, <3>9
    <3> QED
      BY <2>4, <3>1, <3>2, <3>3, <3>5, <3>10
  <2>7. More(k) = More(k - 1) + (Take(b, s, k) - Take(b, q, k))
    BY <2>2, <2>4
  <2>8. More(k) >= 0
    <3> HIDE DEF More
    <3> QED
      BY <2>2, <2>3, <2>6, <2>7
  <2> HIDE DEF More
  <2> QED
    BY <2>1, <2>6, <2>7, <2>8
<1>8. \A k \in 0..n : k \in S
  <2> HIDE DEF S
  <2> QED
    BY <1>1, <1>6, <1>7, IntervalInduction
<1>9. n \in 0..n
  BY <1>1
<1>10. /\ Left(b, s, n) >= Left(b, q, n) /\ More(n) >= 0
       /\ Earns(b, s, n) - Earns(b, q, n) <= More(n) * best
  BY <1>8, <1>9
<1>11. /\ Left(b, s, n) \in Nat /\ Left(b, q, n) \in Nat
       /\ Earns(b, s, n) \in Nat /\ Earns(b, q, n) \in Nat
  BY <1>5, <1>9
<1>12. More(n) \in Int /\ More(n) <= s - q
  BY <1>10, <1>11
<1> HIDE DEF More, S
<1>13. More(n) * best <= (s - q) * best /\ More(n) * best \in Int /\ (s - q) * best \in Int
  BY <1>3, <1>12
<1>14. Proceeds(b, s) = Earns(b, s, n) /\ Proceeds(b, q) = Earns(b, q, n)
  BY DEF Proceeds, Earns, n
<1> QED
  BY <1>10, <1>11, <1>13, <1>14 DEF best

\* Nothing is earned by selling nothing.
LEMMA WalkOfNothing ==
  ASSUME NEW b \in Seq(Level)
  PROVE  Proceeds(b, 0) = 0
<1> DEFINE n == Len(b)
           worth == [k \in 1..n |-> Take(b, 0, k) * b[k].price]
<1>1. n \in Nat /\ n \in 0..n /\ \A k \in 1..n : b[k].price \in Nat
  BY LevelsAre
<1>2. ASSUME NEW k \in 1..n PROVE worth[k] = 0
  <2>1. k - 1 \in 0..n
    BY <1>1
  <2>2. Left(b, 0, k - 1) \in 0..0 /\ Take(b, 0, k) \in Nat /\ Take(b, 0, k) <= Left(b, 0, k - 1)
    BY <2>1, WalkFacts
  <2>3. Take(b, 0, k) = 0
    BY <2>2
  <2>4. 0 * b[k].price = 0
    BY <1>1
  <2> QED
    BY <2>3, <2>4
<1>3. SumOver(worth, 1..n) = Earns(b, 0, n)
  BY <1>1, WalkSums
<1>4. SumOver(worth, 1..n) = 0
  <2>1. IsFiniteSet(1..n)
    BY <1>1, FirstN
  <2> HIDE DEF worth, n
  <2> QED
    BY <1>2, <2>1, SumZero
<1> QED
  BY <1>3, <1>4 DEF Proceeds, Earns

-----------------------------------------------------------------------------
(* The purchases *)

LEMMA FillsAre ==
  ASSUME NEW p \in Positions
  PROVE  /\ IsFiniteSet(DOMAIN Purchases[p])
         /\ \A i \in DOMAIN Purchases[p] :
              /\ Purchases[p][i].price \in Nat \ {0} /\ Purchases[p][i].qty \in Nat \ {0}
              /\ Purchases[p][i].commission \in Nat
<1>1. Purchases[p] \in Seq(Fill)
  BY PricingAssumption DEF Positions
<1>2. \A f \in Fill : f.price \in Nat \ {0} /\ f.qty \in Nat \ {0} /\ f.commission \in Nat
  BY DEF Fill
<1> DEFINE s == Purchases[p]
<1> HIDE DEF s
<1>3. s \in Seq(Fill)
  BY <1>1 DEF s
<1>4. DOMAIN s = 1..Len(s) /\ Len(s) \in Nat /\ \A i \in DOMAIN s : s[i] \in Fill
  BY <1>3
<1>5. IsFiniteSet(DOMAIN s)
  BY <1>4, FirstN
<1> QED
  BY <1>2, <1>4, <1>5 DEF s

\* What a position cost, and that it cost something.
LEMMA PurchaseFacts ==
  ASSUME NEW p \in Positions
  PROVE  /\ FilledBase(p) \in Nat \ {0} /\ TrueCost(p) \in Nat \ {0}
         /\ Commission(p, "base") \in Nat /\ Commission(p, "quote") \in Nat
         /\ FeesQuote(p) \in Nat /\ Invested(p) \in Nat \ {0}
         /\ Sellable(p) \in Nat /\ Spent(p) \in Nat
<1> DEFINE D == DOMAIN Purchases[p]
           qty == Bought(p)
           paid == Paid(p)
<1>1. /\ IsFiniteSet(D)
      /\ \A i \in D : /\ Purchases[p][i].price \in Nat \ {0} /\ Purchases[p][i].qty \in Nat \ {0}
                      /\ Purchases[p][i].commission \in Nat
  BY FillsAre
<1>2. \A i \in D : qty[i] \in Nat /\ paid[i] \in Nat /\ qty[i] <= paid[i]
  <2> SUFFICES ASSUME NEW i \in D PROVE qty[i] \in Nat /\ paid[i] \in Nat /\ qty[i] <= paid[i]
    OBVIOUS
  <2>1. PICK u \in Nat \ {0}, v \in Nat \ {0} : u = Purchases[p][i].price /\ v = Purchases[p][i].qty
    BY <1>1
  <2>2. u * v \in Nat /\ v <= u * v
    OBVIOUS
  <2>3. qty[i] = v /\ paid[i] = u * v
    BY <2>1 DEF Bought, Paid
  <2> QED
    BY <2>2, <2>3
<1>3. FilledBase(p) \in Nat /\ TrueCost(p) \in Nat /\ FilledBase(p) <= TrueCost(p)
  <2>1. \A i \in D : qty[i] \in Int /\ paid[i] \in Int
    BY <1>2
  <2> HIDE DEF D, qty, paid
  <2>2. SumOver(qty, D) \in Nat /\ SumOver(paid, D) \in Nat
    BY <1>1, <1>2, SumNat
  <2>3. SumOver(qty, D) <= SumOver(paid, D)
    BY <1>1, <1>2, <2>1, SumMonotone
  <2> QED
    BY <2>2, <2>3 DEF FilledBase, TrueCost, D, qty, paid
<1>4. FilledBase(p) > 0 /\ Sellable(p) >= 0
  BY PricingAssumption
<1>5. ASSUME NEW asset PROVE Commission(p, asset) \in Nat
  <2> DEFINE of == [i \in D |-> Purchases[p][i].commission]
             S == {i \in D : Purchases[p][i].asset = asset}
  <2>1. IsFiniteSet(S)
    BY <1>1, FS_Subset
  <2>2. \A i \in S : of[i] \in Nat
    BY <1>1
  <2>3. Commission(p, asset) = SumOver(of, S)
    BY DEF Commission
  <2> HIDE DEF of, S
  <2> QED
    BY <2>1, <2>2, <2>3, SumNat
<1>6. PICK filled \in Nat \ {0}, cost \in Nat \ {0}, base \in Nat, quote \in Nat :
        /\ filled = FilledBase(p) /\ cost = TrueCost(p)
        /\ base = Commission(p, "base") /\ quote = Commission(p, "quote")
  BY <1>3, <1>4, <1>5
<1>7. (base * cost) \div filled \in Nat
  <2>1. base * cost \in Nat
    OBVIOUS
  <2> QED
    BY <2>1
<1>8. /\ FeesQuote(p) = quote + (base * cost) \div filled
      /\ Invested(p) = cost + FeesQuote(p)
      /\ Sellable(p) = filled - base
      /\ Spent(p) = cost + quote
  BY <1>6 DEF FeesQuote, Invested, Sellable, Spent
<1> QED
  BY <1>4, <1>6, <1>7, <1>8

\* What is ordered never exceeds what may be sold.
LEMMA SellQtyFacts ==
  ASSUME NEW p \in Positions, filters \in BOOLEAN
  PROVE  SellQty(p) \in 0..Sellable(p)
<1>1. PICK s \in Nat : s = Sellable(p)
  BY PurchaseFacts
<1>2. PICK step \in Nat \ {0} : step = Step
  BY PricingAssumption
<1>3. (s \div step) * step \in 0..s
  OBVIOUS
<1> QED
  BY <1>1, <1>2, <1>3 DEF SellQty, RoundQuantity

-----------------------------------------------------------------------------
(* The inductive invariant *)

Sale == [gross : Nat, net : Int, rate : 0..Whole, asSeen : BOOLEAN, best : Nat]

PricingTypeOK ==
  /\ filters \in BOOLEAN /\ streaming \in BOOLEAN
  /\ sent \in Seq(Level) /\ mark \in Nat /\ moves \in 0..MaxMoves
  /\ wallet \in [base : Nat, quote : Nat]
  /\ pc \in {"idle", "deciding", "selling", "rejected", "unfilled", "unvalued"}
  /\ current \in Nat
  /\ DOMAIN sales \subseteq Positions
  /\ \A p \in DOMAIN sales : sales[p] \in Sale

\* Every book the loop or the exchange walks is in order.
BooksInv == Ladder(bids) /\ Ladder(cached) /\ Ladder(snapshot)

\* A position that is being sold is unsold and was estimated to reach its target on
\* the snapshot the loop still holds; a rejected order was not acceptable.
ChoiceInv ==
  pc \in {"selling", "rejected"} =>
    /\ current \in Unsold
    /\ EstimatedNet(current) >= TargetNet(current)
    /\ pc = "rejected" => ~Accepted(SellQty(current))

SalesInv == UnsoldCovered /\ ProfitIsEarned /\ SalesAsSeenMeetTarget

PricingInv == PricingTypeOK /\ BooksInv /\ ChoiceInv /\ SalesInv

LEMMA PositionsFinite ==
  /\ IsFiniteSet(Positions) /\ Positions \subseteq Nat
  /\ \A T \in SUBSET Positions : IsFiniteSet(T)
<1>1. Len(Purchases) \in Nat
  BY PricingAssumption
<1>2. IsFiniteSet(Positions) /\ Positions \subseteq Nat
  BY <1>1, FirstN DEF Positions
<1> QED
  BY <1>2, FS_Subset

LEMMA EmptyLadder == Ladder(<<>>)
BY DEF Ladder, Falling

LEMMA PricingInit == Init => PricingInv
<1> SUFFICES ASSUME Init PROVE PricingInv
  OBVIOUS
<1>1. sales = <<>> /\ DOMAIN sales = {} /\ Unsold = Positions
  BY DEF Init, Unsold
<1> DEFINE sellable == [p \in Positions |-> Sellable(p)]
<1>2. SumOver(sellable, Positions) \in Nat
  <2>1. \A p \in Positions : sellable[p] \in Nat
    BY PurchaseFacts
  <2> HIDE DEF sellable
  <2> QED
    BY <2>1, PositionsFinite, SumNat
<1>3. PricingTypeOK
  <2>1. /\ filters \in BOOLEAN /\ streaming \in BOOLEAN /\ mark \in Nat
        /\ moves \in 0..MaxMoves
    BY PricingAssumption DEF Init
  <2>2. wallet \in [base : Nat, quote : Nat]
    BY <1>2 DEF Init
  <2> QED
    BY <1>1, <2>1, <2>2 DEF Init, PricingTypeOK
<1>4. BooksInv
  <2>1. Ladder(bids)
    BY PricingAssumption, FromLevelsSorts DEF Init
  <2> QED
    BY <2>1, EmptyLadder DEF Init, BooksInv
<1>5. ChoiceInv
  BY DEF Init, ChoiceInv
<1>6. UnsoldCovered
  <2>1. Unsold \ Orphaned = Positions
    BY <1>1 DEF Init, Orphaned
  <2>2. wallet.base = SumOver(sellable, Positions)
    BY DEF Init
  <2>3. SumOver(sellable, Unsold \ Orphaned) = SumOver(sellable, Positions)
    BY <2>1
  <2>4. wallet.base >= SumOver(sellable, Unsold \ Orphaned)
    <3> HIDE DEF sellable
    <3> QED
      BY <1>2, <2>2, <2>3
  <2> QED
    BY <2>4 DEF UnsoldCovered
<1>7. ProfitIsEarned
  <2>1. \A f : SumOver(f, {}) = 0
    BY FS_EmptySet, SumUnfold
  <2>2. wallet.quote = 0 /\ Whole \in Int
    BY DEF Init, Whole
  <2> QED
    BY <1>1, <2>1, <2>2 DEF ProfitIsEarned
<1>8. SalesAsSeenMeetTarget
  BY <1>1 DEF SalesAsSeenMeetTarget
<1> QED
  BY <1>3, <1>4, <1>5, <1>6, <1>7, <1>8 DEF PricingInv, SalesInv

\* Whoever leaves the wallet and the sales alone breaks nothing said about them.
LEMMA SalesKept ==
  PricingInv /\ UNCHANGED <<filters, wallet, sales>> /\ Orphaned' = Orphaned => SalesInv'
<1> SUFFICES ASSUME PricingInv, UNCHANGED <<filters, wallet, sales>>, Orphaned' = Orphaned
             PROVE  SalesInv'
  OBVIOUS
<1>1. /\ filters' = filters /\ wallet' = wallet /\ sales' = sales /\ Unsold' = Unsold
      /\ Orphaned' = Orphaned
  BY DEF Unsold
<1>2. UnsoldCovered'
  BY <1>1 DEF PricingInv, SalesInv, UnsoldCovered
<1>3. ProfitIsEarned'
  BY <1>1 DEF PricingInv, SalesInv, ProfitIsEarned
<1>4. SalesAsSeenMeetTarget'
  BY <1>1 DEF PricingInv, SalesInv, SalesAsSeenMeetTarget, SellQty, TargetNet
<1> QED
  BY <1>2, <1>3, <1>4 DEF SalesInv

LEMMA ChoiceKept ==
  PricingInv /\ UNCHANGED <<filters, wallet, snapshot, sales, current, pc>>
      /\ (pc = "rejected" => mark' = mark)
    => ChoiceInv'
<1> SUFFICES ASSUME PricingInv, UNCHANGED <<filters, wallet, snapshot, sales, current, pc>>,
                    pc = "rejected" => mark' = mark
             PROVE  ChoiceInv'
  OBVIOUS
<1>1. /\ filters' = filters /\ wallet' = wallet /\ snapshot' = snapshot /\ sales' = sales
      /\ current' = current /\ pc' = pc /\ Unsold' = Unsold
  BY DEF Unsold
<1> QED
  BY <1>1 DEF PricingInv, ChoiceInv, EstimatedNet, TargetNet, Accepted, NotionalOk, SellQty

LEMMA PricingFetch == PricingInv /\ FetchBook => PricingInv'
<1> SUFFICES ASSUME PricingInv, FetchBook PROVE PricingInv'
  OBVIOUS
<1>1. PricingTypeOK'
  BY DEF PricingInv, PricingTypeOK, FetchBook, config, market
<1>2. BooksInv'
  <2>1. Ladder(FromLevels(bids))
    BY FromLevelsSorts DEF PricingInv, BooksInv, Ladder
  <2> QED
    BY <2>1 DEF PricingInv, BooksInv, FetchBook, market
<1>3. ChoiceInv'
  BY DEF FetchBook, ChoiceInv
<1>4. SalesInv'
  <2>1. Orphaned' = Orphaned
    BY DEF FetchBook, Orphaned
  <2> QED
    BY <2>1, SalesKept DEF FetchBook, config
<1> QED
  BY <1>1, <1>2, <1>3, <1>4 DEF PricingInv

LEMMA PricingDecide == PricingInv /\ Decide => PricingInv'
<1> SUFFICES ASSUME PricingInv, Decide PROVE PricingInv'
  OBVIOUS
<1>1. PricingTypeOK'
  BY DEF PricingInv, PricingTypeOK, Decide, config, market
<1>2. BooksInv'
  BY DEF PricingInv, BooksInv, Decide, market
<1>3. ChoiceInv'
  <2>1. snapshot' = snapshot /\ sales' = sales /\ pc = "deciding" /\ Unsold' = Unsold
    BY DEF Decide, Unsold
  <2>2. CASE current \in Unsold /\ EstimatedNet(current) >= TargetNet(current)
    <3>1. pc' = "selling" /\ current' = current
      BY <2>2 DEF Decide
    <3> QED
      BY <2>1, <2>2, <3>1 DEF ChoiceInv, EstimatedNet, TargetNet
  <2>3. CASE ~(current \in Unsold /\ EstimatedNet(current) >= TargetNet(current))
    <3>1. pc' = "deciding"
      BY <2>1, <2>3 DEF Decide
    <3> QED
      BY <3>1 DEF ChoiceInv
  <2> QED
    BY <2>2, <2>3
<1>4. SalesInv'
  <2>1. Orphaned' = Orphaned
    BY DEF Decide, Orphaned
  <2> QED
    BY <2>1, SalesKept DEF Decide, config
<1> QED
  BY <1>1, <1>2, <1>3, <1>4 DEF PricingInv

LEMMA PricingSellFails == PricingInv /\ SellFails => PricingInv'
<1> SUFFICES ASSUME PricingInv, SellFails PROVE PricingInv'
  OBVIOUS
<1>1. PricingTypeOK'
  BY DEF PricingInv, PricingTypeOK, SellFails, config, market
<1>2. BooksInv'
  BY DEF PricingInv, BooksInv, SellFails, market
<1>3. ChoiceInv'
  <2>1. /\ snapshot' = snapshot /\ sales' = sales /\ current' = current /\ filters' = filters
        /\ wallet' = wallet /\ mark' = mark /\ pc = "selling" /\ Unsold' = Unsold
    BY DEF SellFails, Unsold, config, market
  <2>2. pc' = "rejected" => ~Accepted(SellQty(current))
    BY DEF SellFails
  <2>3. current \in Unsold /\ EstimatedNet(current) >= TargetNet(current)
    BY <2>1 DEF PricingInv, ChoiceInv
  <2> QED
    BY <2>1, <2>2, <2>3 DEF ChoiceInv, EstimatedNet, TargetNet, Accepted, NotionalOk, SellQty
<1>4. SalesInv'
  <2>1. Orphaned' = Orphaned
    BY DEF SellFails, Orphaned
  <2> QED
    BY <2>1, SalesKept DEF SellFails, config
<1> QED
  BY <1>1, <1>2, <1>3, <1>4 DEF PricingInv

LEMMA PricingEndLoop == PricingInv /\ EndLoop => PricingInv'
<1> SUFFICES ASSUME PricingInv, EndLoop PROVE PricingInv'
  OBVIOUS
<1>1. PricingTypeOK'
  BY DEF PricingInv, PricingTypeOK, EndLoop, config, market
<1>2. BooksInv'
  BY EmptyLadder DEF PricingInv, BooksInv, EndLoop, market
<1>3. ChoiceInv'
  BY DEF EndLoop, ChoiceInv
<1>4. SalesInv'
  <2>1. Orphaned' = Orphaned
    BY DEF EndLoop, Orphaned
  <2> QED
    BY <2>1, SalesKept DEF EndLoop, config
<1> QED
  BY <1>1, <1>2, <1>3, <1>4 DEF PricingInv

\* The market, the stream and the loop's own stuttering.
LEMMA PricingOutside ==
  PricingInv /\ (MarketMoves \/ DepthSent \/ DepthArrives \/ UNCHANGED vars) => PricingInv'
<1> SUFFICES ASSUME PricingInv, MarketMoves \/ DepthSent \/ DepthArrives \/ UNCHANGED vars
             PROVE  PricingInv'
  OBVIOUS
<1>1. UNCHANGED <<filters, streaming, wallet, snapshot, pc, current, sales>>
  BY DEF MarketMoves, DepthSent, DepthArrives, vars, config, loop
<1>2. /\ bids' \in Seq(Level) /\ Ladder(bids') /\ sent' \in Seq(Level)
      /\ moves' \in 0..MaxMoves /\ mark' \in Nat /\ (pc = "rejected" => mark' = mark)
  <2>1. CASE MarketMoves
    <3>1. Ladder(bids')
      BY <2>1, PricingAssumption, FromLevelsSorts DEF MarketMoves
    <3>2. moves' \in 0..MaxMoves /\ sent' = sent /\ mark' \in Nat /\ pc # "rejected"
      BY <2>1, PricingAssumption DEF MarketMoves, PricingInv, PricingTypeOK
    <3> QED
      BY <3>1, <3>2 DEF PricingInv, PricingTypeOK, Ladder
  <2>2. CASE DepthSent \/ DepthArrives \/ UNCHANGED vars
    BY <2>2 DEF DepthSent, DepthArrives, vars, market, PricingInv, PricingTypeOK, BooksInv, Ladder
  <2> QED
    BY <2>1, <2>2
<1>3. Ladder(cached')
  <2>1. Ladder(FromLevels(sent))
    BY FromLevelsSorts DEF PricingInv, PricingTypeOK
  <2>2. cached' = cached \/ cached' = FromLevels(sent)
    BY DEF MarketMoves, DepthSent, DepthArrives, vars
  <2> QED
    BY <2>1, <2>2 DEF PricingInv, BooksInv
<1>4. PricingTypeOK'
  BY <1>1, <1>2 DEF PricingInv, PricingTypeOK
<1>5. BooksInv'
  BY <1>1, <1>2, <1>3 DEF PricingInv, BooksInv
<1>6. ChoiceInv' /\ SalesInv'
  <2>1. Orphaned' = Orphaned
    BY <1>1 DEF Orphaned
  <2> QED
    BY <1>1, <1>2, <2>1, ChoiceKept, SalesKept
<1> QED
  BY <1>4, <1>5, <1>6 DEF PricingInv

\* What a sale into the snapshot's own bids brings, if the estimate was enough.
LEMMA SaleAsSeen ==
  ASSUME NEW p \in Positions, NEW b, Ladder(b), b # <<>>, NEW q \in 0..Sellable(p),
         NEW rate \in 0..Whole,
         Proceeds(b, Sellable(p)) * (Whole - Fee - Buffer) - Invested(p) * Whole >= TargetNet(p)
  PROVE  RealizedNet(p, Proceeds(b, q), rate) + Proceeds(b, q) * Excess(rate)
           + (Sellable(p) - q) * b[1].price * (Whole - Fee - Buffer) >= TargetNet(p)
<1>1. PICK s \in Nat, invested \in Nat \ {0}, target \in Nat :
        s = Sellable(p) /\ invested = Invested(p) /\ target = Target
  BY PurchaseFacts, PricingAssumption
<1>2. PICK keep \in Int, left \in Int, over \in Nat :
        /\ keep = Whole - Fee - Buffer /\ left = Whole - rate /\ over = Excess(rate)
        /\ left + over >= keep
  <2>1. Excess(rate) \in Nat /\ (Whole - rate) + Excess(rate) >= Whole - Fee - Buffer
    BY PricingAssumption DEF Excess, Whole
  <2>2. Whole - rate \in Int /\ Whole - Fee - Buffer \in Int
    BY PricingAssumption DEF Whole
  <2> QED
    BY <2>1, <2>2
<1>3. s \in Nat /\ q \in 0..s /\ q \in Nat
  BY <1>1
<1>4. PICK all \in Nat, some \in Nat : all = Proceeds(b, s) /\ some = Proceeds(b, q)
  BY <1>3, ConsumedLadder
<1>5. PICK best \in Nat : best = b[1].price
  <2>1. 1 \in 1..Len(b)
    <3>1. b \in Seq(Level)
      BY DEF Ladder
    <3> QED
      BY <3>1
  <2> QED
    BY <2>1, LevelsAre DEF Ladder
<1>6. all <= some + (s - q) * best
  BY <1>3, <1>4, <1>5, WalkOfLess
<1>7. PICK rest \in Nat : rest = (s - q) * best
  <2>1. (s - q) \in Nat
    BY <1>3
  <2>2. (s - q) * best \in Nat
    BY <2>1
  <2> QED
    BY <2>2
<1>8. all * keep - invested * Whole >= invested * target
  BY <1>1, <1>2, <1>4 DEF TargetNet
<1>9. keep >= 0
  <2>1. SUFFICES ASSUME keep < 0 PROVE FALSE
    BY <1>2
  <2>2. all * keep <= 0
    BY <1>2, <2>1
  <2>3. invested * Whole > 0 /\ invested * target >= 0
    BY DEF Whole
  <2>4. all * keep \in Int /\ invested * Whole \in Int /\ invested * target \in Int
    BY DEF Whole
  <2> QED
    BY <1>8, <2>2, <2>3, <2>4
<1>10. all * keep <= some * keep + rest * keep
  <2>1. all <= some + rest
    BY <1>6, <1>7
  <2>2. all * keep <= (some + rest) * keep
    BY <1>9, <2>1
  <2>3. (some + rest) * keep = some * keep + rest * keep
    OBVIOUS
  <2> QED
    BY <2>2, <2>3
<1>11. some * keep <= some * left + some * over
  <2>1. some * keep <= some * (left + over)
    BY <1>2
  <2>2. some * (left + over) = some * left + some * over
    OBVIOUS
  <2> QED
    BY <2>1, <2>2
<1>12. /\ some * left \in Int /\ some * over \in Int /\ some * keep \in Int
       /\ all * keep \in Int /\ rest * keep \in Int /\ invested * Whole \in Int
       /\ invested * target \in Int
  BY DEF Whole
<1>13. some * left - invested * Whole + some * over + rest * keep >= invested * target
  BY <1>8, <1>10, <1>11, <1>12
<1>14. RealizedNet(p, some, rate) = some * left - invested * Whole
  BY <1>1, <1>2 DEF RealizedNet
<1>15. (Sellable(p) - q) * b[1].price * (Whole - Fee - Buffer) = rest * keep
  BY <1>1, <1>2, <1>5, <1>7
<1>16. TargetNet(p) = invested * target
  BY <1>1 DEF TargetNet
<1> QED
  BY <1>2, <1>4, <1>13, <1>14, <1>15, <1>16

\* What every order does that is carried out.
LEMMA MarketFacts ==
  ASSUME PricingInv, NEW charge \in Charges, Market(SellQty(current), charge)
  PROVE  LET q == SellQty(current)
             paid == IF charge.asset = "quote" THEN charge.rate ELSE 0
         IN /\ current \in Positions /\ current \in Unsold /\ q \in 0..Sellable(current)
            /\ EstimatedNet(current) >= TargetNet(current)
            /\ Ladder(bids) /\ bids # <<>> /\ bids[1].price \in Nat
            /\ bids' = Consumed(bids, q) /\ Ladder(bids')
            /\ Proceeds(bids, q) \in Nat /\ paid \in 0..Whole
            /\ Proceeds(bids, q) * (Whole - paid) \in Nat
            /\ wallet' \in [base : Nat, quote : Nat]
            /\ wallet'.quote = wallet.quote + Proceeds(bids, q) * (Whole - paid)
            /\ wallet'.base >= SumOver([x \in Positions |-> Sellable(x)], Unsold \ {current})
<1> DEFINE p == current
           q == SellQty(p)
           gross == Proceeds(bids, q)
           paid == IF charge.asset = "quote" THEN charge.rate ELSE 0
<1>1. /\ pc = "selling" /\ p \in Unsold /\ p \in Positions
      /\ EstimatedNet(p) >= TargetNet(p)
  BY DEF PricingInv, ChoiceInv, Market, Unsold
<1>2. q \in 0..Sellable(p) /\ q \in Nat /\ Sellable(p) \in Nat
  <2>1. q \in 0..Sellable(p) /\ Sellable(p) \in Nat
    BY <1>1, SellQtyFacts, PurchaseFacts DEF PricingInv, PricingTypeOK
  <2> QED
    BY <2>1
<1>3. /\ Ladder(bids) /\ Ladder(Consumed(bids, q))
      /\ FilledQty(bids, q) \in 0..q /\ gross \in Nat
  BY <1>2, ConsumedLadder DEF PricingInv, BooksInv
<1>4. bids \in Seq(Level) /\ bids # <<>> /\ bids[1].price \in Nat
  <2>1. bids \in Seq(Level)
    BY <1>3 DEF Ladder
  <2>2. bids # <<>>
    <3>1. SUFFICES ASSUME bids = <<>> PROVE FALSE
      OBVIOUS
    <3>2. Len(bids) = 0
      BY <3>1
    <3>3. FilledQty(bids, q) = q - Left(bids, q, 0)
      BY <3>2 DEF FilledQty, Left
    <3>4. FilledQty(bids, q) = 0
      BY <1>2, <2>1, <3>3, WalkFacts
    <3> QED
      BY <3>4 DEF Market
  <2>3. 1 \in 1..Len(bids)
    BY <2>1, <2>2
  <2> QED
    BY <2>1, <2>2, <2>3, LevelsAre
<1>5. /\ wallet' = [base |-> wallet.base - FilledQty(bids, q),
                    quote |-> wallet.quote + gross * (Whole - paid)]
      /\ bids' = Consumed(bids, q) /\ q <= wallet.base
  BY DEF Market, Accepted
<1>6. paid \in 0..Whole /\ Whole - paid \in Nat
  <2>1. charge \in Charge /\ charge.rate \in 0..Whole
    BY PricingAssumption DEF Charge
  <2>2. paid \in 0..Whole
    BY <2>1 DEF Whole
  <2> HIDE DEF paid
  <2> QED
    BY <2>2 DEF Whole
<1> HIDE DEF q, gross, paid
<1>7. wallet.base \in Nat /\ wallet.quote \in Nat
  BY DEF PricingInv, PricingTypeOK
<1>8. gross * (Whole - paid) \in Nat
  <2>1. PICK g \in Nat, keep \in Nat : g = gross /\ keep = Whole - paid
    BY <1>3, <1>6
  <2>2. g * keep \in Nat
    OBVIOUS
  <2> QED
    BY <2>1, <2>2
<1>9. /\ wallet'.base = wallet.base - FilledQty(bids, q) /\ wallet'.base \in Nat
      /\ wallet'.quote = wallet.quote + gross * (Whole - paid) /\ wallet'.quote \in Nat
      /\ wallet' \in [base : Nat, quote : Nat]
  BY <1>2, <1>3, <1>5, <1>7, <1>8
<1>10. wallet'.base >= SumOver([x \in Positions |-> Sellable(x)], Unsold \ {p})
  <2> DEFINE f == [x \in Positions |-> Sellable(x)]
             U == Unsold
  <2>1. p \in U /\ IsFiniteSet(U) /\ U \subseteq Positions
    BY <1>1, PositionsFinite DEF Unsold
  <2>2. \A x \in U : f[x] \in Nat
    BY <2>1, PurchaseFacts
  <2>3. f[p] = Sellable(p)
    BY <1>1
  <2>4. wallet.base >= SumOver(f, U)
    <3>1. U \ Orphaned = U
      BY <1>1 DEF Orphaned
    <3> QED
      BY <3>1 DEF PricingInv, SalesInv, UnsoldCovered
  <2> HIDE DEF f, U
  <2>5. \A x \in U : f[x] \in Int
    BY <2>2
  <2>6. SumOver(f, U \ {p}) = SumOver(f, U) - f[p] /\ SumOver(f, U) \in Int
    BY <2>1, <2>5, SumShrinks, SumInt
  <2>7. wallet'.base >= SumOver(f, U \ {p})
    BY <1>2, <1>3, <1>7, <1>9, <2>3, <2>4, <2>6
  <2> QED
    BY <2>7 DEF f, U
<1> QED
  BY <1>1, <1>2, <1>3, <1>4, <1>5, <1>6, <1>8, <1>9, <1>10 DEF q, gross, paid

LEMMA PricingSellUnvalued ==
  ASSUME NEW charge \in Charges PROVE PricingInv /\ SellUnvalued(charge) => PricingInv'
<1> SUFFICES ASSUME PricingInv, SellUnvalued(charge) PROVE PricingInv'
  OBVIOUS
<1> DEFINE q == SellQty(current)
<1>1. /\ charge.asset = "other" /\ Market(q, charge) /\ pc = "selling" /\ pc' = "unvalued"
      /\ filters' = filters /\ streaming' = streaming /\ sent' = sent /\ moves' = moves
      /\ mark' = mark /\ cached' = cached /\ snapshot' = snapshot /\ current' = current
      /\ sales' = sales
  BY DEF SellUnvalued, Market, config
<1>2. /\ Ladder(bids') /\ wallet' \in [base : Nat, quote : Nat]
      /\ wallet'.quote >= wallet.quote /\ wallet.quote \in Nat /\ wallet'.quote \in Nat
      /\ wallet'.base >= SumOver([x \in Positions |-> Sellable(x)], Unsold \ {current})
  <2>1. PICK paid : paid = IF charge.asset = "quote" THEN charge.rate ELSE 0
    OBVIOUS
  <2>2. /\ Ladder(bids') /\ wallet' \in [base : Nat, quote : Nat]
        /\ Proceeds(bids, q) * (Whole - paid) \in Nat
        /\ wallet'.quote = wallet.quote + Proceeds(bids, q) * (Whole - paid)
        /\ wallet'.base >= SumOver([x \in Positions |-> Sellable(x)], Unsold \ {current})
    BY <1>1, <2>1, MarketFacts
  <2>3. wallet.quote \in Nat
    BY DEF PricingInv, PricingTypeOK
  <2> QED
    BY <2>2, <2>3
<1>3. PricingTypeOK'
  BY <1>1, <1>2 DEF PricingInv, PricingTypeOK
<1>4. BooksInv'
  BY <1>1, <1>2 DEF PricingInv, BooksInv
<1>5. ChoiceInv'
  BY <1>1 DEF ChoiceInv
<1>6. Unsold' = Unsold /\ Orphaned = {} /\ Orphaned' = {current}
  BY <1>1 DEF Unsold, Orphaned
<1>7. UnsoldCovered'
  BY <1>2, <1>6 DEF UnsoldCovered
<1>8. ProfitIsEarned'
  <2> DEFINE spent == SumOver([x \in Positions |-> Spent(x)], DOMAIN sales)
             net   == SumOver([x \in DOMAIN sales |-> sales[x].net], DOMAIN sales)
             worth == SumOver([x \in Positions |-> FeesQuote(x) - Commission(x, "quote")],
                              DOMAIN sales)
  <2>1. wallet.quote - Whole * spent >= net + Whole * worth
    BY DEF PricingInv, SalesInv, ProfitIsEarned
  <2>2. spent \in Int /\ net \in Int /\ worth \in Int
    <3>1. DOMAIN sales \subseteq Positions /\ IsFiniteSet(DOMAIN sales)
      BY PositionsFinite DEF PricingInv, PricingTypeOK
    <3>2. \A x \in DOMAIN sales :
            /\ [y \in Positions |-> Spent(y)][x] \in Int
            /\ [y \in Positions |-> FeesQuote(y) - Commission(y, "quote")][x] \in Int
      BY <3>1, PurchaseFacts
    <3>3. \A x \in DOMAIN sales : [y \in DOMAIN sales |-> sales[y].net][x] \in Int
      BY DEF PricingInv, PricingTypeOK, Sale
    <3> QED
      BY <3>1, <3>2, <3>3, SumInt
  <2>3. ProfitIsEarned' <=> wallet'.quote - Whole * spent >= net + Whole * worth
    BY <1>1, <1>6 DEF ProfitIsEarned
  <2> HIDE DEF spent, net, worth
  <2> QED
    BY <1>2, <2>1, <2>2, <2>3 DEF Whole
<1>9. SalesAsSeenMeetTarget'
  BY <1>1 DEF PricingInv, SalesInv, SalesAsSeenMeetTarget, SellQty, TargetNet
<1> QED
  BY <1>3, <1>4, <1>5, <1>7, <1>8, <1>9 DEF PricingInv, SalesInv

LEMMA PricingSell ==
  ASSUME NEW charge \in Charges PROVE PricingInv /\ Sell(charge) => PricingInv'
<1> SUFFICES ASSUME PricingInv, Sell(charge) PROVE PricingInv'
  OBVIOUS
<1> DEFINE p == current
           q == SellQty(p)
           gross == Proceeds(bids, q)
           rate == charge.rate
           sale == [gross |-> gross, net |-> RealizedNet(p, gross, rate), rate |-> rate,
                    asSeen |-> bids = snapshot, best |-> bids[1].price]
           D == DOMAIN sales
<1>1. /\ sales' = [x \in D \cup {p} |-> IF x = p THEN sale ELSE sales[x]]
      /\ pc = "selling" /\ pc' = "deciding" /\ current' = p + 1
      /\ filters' = filters /\ streaming' = streaming /\ sent' = sent /\ moves' = moves
      /\ mark' = mark /\ cached' = cached /\ snapshot' = snapshot
      /\ Market(q, charge) /\ charge.asset = "quote"
  BY DEF Sell, Market, config
<1>2. /\ p \in Positions /\ p \in Unsold /\ p \notin D /\ q \in 0..Sellable(p)
      /\ EstimatedNet(p) >= TargetNet(p)
      /\ Ladder(bids) /\ bids # <<>> /\ bids[1].price \in Nat
      /\ Ladder(bids') /\ gross \in Nat /\ rate \in 0..Whole
      /\ gross * (Whole - rate) \in Nat
      /\ wallet' \in [base : Nat, quote : Nat]
      /\ wallet'.quote = wallet.quote + gross * (Whole - rate)
      /\ wallet'.base >= SumOver([x \in Positions |-> Sellable(x)], Unsold \ {p})
  BY <1>1, MarketFacts DEF Unsold
<1>7. Whole - rate \in Nat /\ Whole \in Nat
  <2>1. rate \in 0..Whole
    BY <1>2
  <2> HIDE DEF rate
  <2> QED
    BY <2>1 DEF Whole
<1>8. RealizedNet(p, gross, rate) \in Int
  <2>1. PICK g \in Nat, keep \in Nat, invested \in Nat :
          g = gross /\ keep = Whole - rate /\ invested = Invested(p)
    BY <1>2, <1>7, PurchaseFacts
  <2>2. g * keep - invested * Whole \in Int
    BY DEF Whole
  <2> QED
    BY <2>1, <2>2 DEF RealizedNet
<1>9. sale \in Sale
  BY <1>2, <1>8 DEF Sale
<1> HIDE DEF q, gross, rate, sale
<1>10. /\ DOMAIN sales' = D \cup {p} /\ sales'[p] = sale
       /\ \A x \in D : sales'[x] = sales[x]
  BY <1>1, <1>2
<1>11. /\ wallet.base \in Nat /\ wallet.quote \in Nat /\ D \subseteq Positions /\ p \in Nat
       /\ \A x \in D : sales[x] \in Sale
  BY DEF PricingInv, PricingTypeOK
<1>12. gross * (Whole - rate) \in Nat /\ wallet'.quote \in Nat
  BY <1>2
<1>13. PricingTypeOK'
  <2>1. DOMAIN sales' \subseteq Positions /\ \A x \in DOMAIN sales' : sales'[x] \in Sale
    BY <1>2, <1>9, <1>10, <1>11
  <2>2. current' \in Nat
    BY <1>1, <1>11
  <2> HIDE DEF D, p
  <2> QED
    BY <1>1, <1>2, <2>1, <2>2 DEF PricingInv, PricingTypeOK
<1>14. BooksInv'
  BY <1>1, <1>2 DEF PricingInv, BooksInv
<1>15. ChoiceInv'
  BY <1>1 DEF ChoiceInv
<1>16. UnsoldCovered'
  <2>1. Unsold' \ Orphaned' = Unsold \ {p}
    BY <1>1, <1>10 DEF Unsold, Orphaned
  <2> QED
    BY <1>2, <2>1 DEF UnsoldCovered
<1>17. ProfitIsEarned'
  <2> DEFINE spent == [x \in Positions |-> Spent(x)]
             worth == [x \in Positions |-> FeesQuote(x) - Commission(x, "quote")]
             net   == [x \in D |-> sales[x].net]
             net2  == [x \in D \cup {p} |-> sales'[x].net]
  <2>1. IsFiniteSet(D) /\ p \notin D
    BY <1>2, <1>11, PositionsFinite
  <2>2. \A x \in Positions : spent[x] \in Int /\ worth[x] \in Int
    BY PurchaseFacts
  <2>3. \A x \in D : net[x] \in Int /\ net2[x] = net[x]
    BY <1>10, <1>11 DEF Sale
  <2>4. net2[p] = RealizedNet(p, gross, rate) /\ net2[p] \in Int
    BY <1>8, <1>10 DEF sale
  <2>5. spent[p] = Spent(p) /\ worth[p] = FeesQuote(p) - Commission(p, "quote")
    BY <1>2
  <2>6. wallet.quote - Whole * SumOver(spent, D) = SumOver(net, D) + Whole * SumOver(worth, D)
    BY <1>1 DEF PricingInv, SalesInv, ProfitIsEarned, Orphaned
  <2> DEFINE gained == wallet'.quote - Whole * SumOver(spent, D \cup {p})
             earned == SumOver(net2, D \cup {p}) + Whole * SumOver(worth, D \cup {p})
  <2>7. ProfitIsEarned' <=> gained >= earned /\ (Orphaned' = {} => gained = earned)
    BY <1>10 DEF ProfitIsEarned
  <2> HIDE DEF spent, worth, net, net2, D
  <2>8. \A x \in D : spent[x] \in Int /\ worth[x] \in Int
    BY <1>11, <2>2
  <2>9. /\ SumOver(spent, D \cup {p}) = spent[p] + SumOver(spent, D)
        /\ SumOver(worth, D \cup {p}) = worth[p] + SumOver(worth, D)
        /\ SumOver(net2, D \cup {p}) = SumOver(net, D) + net2[p]
    <3>1. p \in Positions /\ p \notin D
      BY <1>2, <2>1
    <3>2. SumOver(spent, D \cup {p}) = spent[p] + SumOver(spent, D)
      BY <2>1, <2>2, <2>8, <3>1, SumAdd
    <3>3. SumOver(worth, D \cup {p}) = worth[p] + SumOver(worth, D)
      BY <2>1, <2>2, <2>8, <3>1, SumAdd
    <3>4. SumOver(net2, D \cup {p}) = SumOver(net, D) + net2[p]
      BY <2>1, <2>3, <2>4, SumGrows
    <3> QED
      BY <3>2, <3>3, <3>4
  <2>10. PICK a \in Int, b \in Int, c \in Int :
           a = SumOver(spent, D) /\ b = SumOver(worth, D) /\ c = SumOver(net, D)
    BY <2>1, <2>3, <2>8, SumInt
  <2>11. PICK cost \in Int, fees \in Int, cq \in Int, g \in Int :
           /\ cost = TrueCost(p) /\ fees = FeesQuote(p) /\ cq = Commission(p, "quote")
           /\ g = gross * (Whole - rate)
    BY <1>2, <1>12, PurchaseFacts
  <2>12. RealizedNet(p, gross, rate) = g - (cost + fees) * Whole
    BY <2>11 DEF RealizedNet, Invested
  <2>13. spent[p] = cost + cq /\ worth[p] = fees - cq
    BY <2>5, <2>11 DEF Spent
  <2>14. wallet'.quote = wallet.quote + g /\ wallet.quote \in Int
    BY <1>2, <1>11, <2>11
  <2>15. wallet.quote - 10000 * a = c + 10000 * b
    BY <2>6, <2>10 DEF Whole
  <2>16. (wallet.quote + g) - 10000 * ((cost + cq) + a)
           = (c + (g - (cost + fees) * 10000)) + 10000 * ((fees - cq) + b)
    <3>1. PICK w \in Int : w = wallet.quote
      BY <2>14
    <3>2. w - 10000 * a = c + 10000 * b
      BY <2>15, <3>1
    <3>3. (w + g) - 10000 * ((cost + cq) + a)
             = (c + (g - (cost + fees) * 10000)) + 10000 * ((fees - cq) + b)
      BY <3>2
    <3> QED
      BY <3>1, <3>3
  <2>17. gained = earned
    BY <2>4, <2>9, <2>10, <2>12, <2>13, <2>14, <2>16 DEF Whole
  <2>18. gained \in Int
    BY <2>1, <2>2, <2>9, <2>10, <2>13, <2>11, <2>14 DEF Whole
  <2> HIDE DEF gained, earned
  <2> QED
    BY <2>7, <2>17, <2>18
<1>18. SalesAsSeenMeetTarget'
  <2> DEFINE Meets(x, s) ==
        s.net + s.gross * Excess(s.rate)
          + (Sellable(x) - SellQty(x)) * s.best * (Whole - Fee - Buffer) >= TargetNet(x)
  <2>1. SUFFICES ASSUME NEW x \in D \cup {p}, sales'[x].asSeen PROVE Meets(x, sales'[x])
    BY <1>1, <1>10 DEF SalesAsSeenMeetTarget, SellQty
  <2>2. CASE x \in D
    BY <1>10, <2>1, <2>2 DEF PricingInv, SalesInv, SalesAsSeenMeetTarget
  <2>3. CASE x = p
    <3>0. sale.asSeen
      BY <1>10, <2>1, <2>3
    <3>1. bids = snapshot
      BY <3>0, Zenon DEF sale
    <3>2. Proceeds(bids, Sellable(p)) * (Whole - Fee - Buffer) - Invested(p) * Whole
            >= TargetNet(p)
      BY <1>2, <3>1 DEF EstimatedNet
    <3>3. RealizedNet(p, Proceeds(bids, q), rate) + Proceeds(bids, q) * Excess(rate)
            + (Sellable(p) - q) * bids[1].price * (Whole - Fee - Buffer) >= TargetNet(p)
      BY <1>2, <3>2, SaleAsSeen
    <3>4. /\ sales'[p].net = RealizedNet(p, Proceeds(bids, q), rate)
          /\ sales'[p].gross = Proceeds(bids, q) /\ sales'[p].rate = rate
          /\ sales'[p].best = bids[1].price
      BY <1>10 DEF sale, gross
    <3> QED
      BY <2>3, <3>3, <3>4 DEF q
  <2> QED
    BY <2>2, <2>3
<1> QED
  BY <1>13, <1>14, <1>15, <1>16, <1>17, <1>18 DEF PricingInv, SalesInv

LEMMA PricingInvariance == Spec => []PricingInv
<1>1. PricingInv /\ [Next]_vars => PricingInv'
  BY PricingFetch, PricingDecide, PricingSell, PricingSellUnvalued, PricingSellFails,
     PricingEndLoop, PricingOutside DEF Next
<1> QED
  BY <1>1, PricingInit, PTL DEF Spec

-----------------------------------------------------------------------------
(* The properties *)

\* The walk down the bids is the best any sale of the quantity could do, for every
\* book the exchange may show (OrderBook.estimate_sell_proceeds).
THEOREM EstimateIsBestHolds == Spec => []EstimateIsBest
<1>1. PricingInv => EstimateIsBest
  <2> SUFFICES ASSUME PricingInv, NEW p \in Positions
               PROVE  /\ \A f \in Splits(bids, Sellable(p)) :
                           Earned(bids, f) <= Proceeds(bids, Sellable(p))
                      /\ \E f \in Splits(bids, Sellable(p)) :
                           Earned(bids, f) = Proceeds(bids, Sellable(p))
    BY DEF EstimateIsBest
  <2>1. Ladder(bids) /\ bids \in Seq(Level) /\ Sellable(p) \in Nat
    BY PurchaseFacts DEF PricingInv, BooksInv, Ladder
  <2> QED
    BY <2>1, WalkIsBest, WalkIsSplit
<1> QED
  BY <1>1, PricingInvariance, PTL

\* A sale into the very bids it was priced on misses its target at most by what the
\* exchange charges beyond fee and buffer, and by the remainder of a step, whatever
\* it charges (estimate_net_pnl, realized_pnl).
THEOREM SalesAsSeenMeetTargetHolds == Spec => []SalesAsSeenMeetTarget
<1>1. PricingInv => SalesAsSeenMeetTarget
  BY DEF PricingInv, SalesInv
<1> QED
  BY <1>1, PricingInvariance, PTL

\* The exchange holds all of every position that is not sold (aggregate_entry,
\* round_quantity).
THEOREM UnsoldCoveredHolds == Spec => []UnsoldCovered
<1>1. PricingInv => UnsoldCovered
  BY DEF PricingInv, SalesInv
<1> QED
  BY <1>1, PricingInvariance, PTL

\* No profit is reported that the wallet has not gained, and none is left out unless
\* the process dies of it (realized_pnl).
THEOREM ProfitIsEarnedHolds == Spec => []ProfitIsEarned
<1>1. PricingInv => ProfitIsEarned
  BY DEF PricingInv, SalesInv
<1> QED
  BY <1>1, PricingInvariance, PTL

\* An order is rejected for its size or its notional, never for want of coins, and
\* off the grid only without filters (round_quantity, try_exit).
THEOREM RejectedForCauseHolds == Spec => []RejectedForCause
<1>1. PricingInv => RejectedForCause
  <2> DEFINE q == SellQty(current)
  <2> SUFFICES ASSUME PricingInv, pc = "rejected"
               PROVE  \/ q < MinQty \/ q > MaxQty \/ ~NotionalOk(mark, q)
                      \/ ~filters /\ q % Step # 0
    BY DEF RejectedForCause
  <2>1. current \in Unsold /\ current \in Positions /\ ~Accepted(q)
    BY DEF PricingInv, ChoiceInv, Unsold
  <2>2. PICK s \in Nat, step \in Nat \ {0} : s = Sellable(current) /\ step = Step
    BY <2>1, PurchaseFacts, PricingAssumption
  <2>3. s <= wallet.base /\ wallet.base \in Nat
    <3> DEFINE f == [x \in Positions |-> Sellable(x)]
    <3>1. Unsold \subseteq Positions /\ IsFiniteSet(Unsold) /\ f[current] = s
      BY <2>1, <2>2, PositionsFinite DEF Unsold
    <3>2. \A x \in Unsold : f[x] \in Nat
      BY <3>1, PurchaseFacts
    <3>3. wallet.base >= SumOver(f, Unsold) /\ wallet.base \in Nat
      <4>1. Unsold \ Orphaned = Unsold
        BY DEF Orphaned
      <4> QED
        BY <4>1 DEF PricingInv, PricingTypeOK, SalesInv, UnsoldCovered
    <3> HIDE DEF f
    <3>4. \A x \in Unsold : f[x] \in Int
      BY <3>2
    <3>5. IsFiniteSet(Unsold \ {current}) /\ \A x \in Unsold \ {current} : f[x] \in Nat
      BY <3>1, <3>2, FS_Subset
    <3>6. SumOver(f, Unsold \ {current}) \in Nat
      BY <3>5, SumNat
    <3>7. SumOver(f, Unsold) = f[current] + SumOver(f, Unsold \ {current})
      BY <2>1, <3>1, <3>4, SumRemove
    <3> QED
      BY <3>1, <3>3, <3>6, <3>7
  <2>4. q \in 0..s
    BY <2>1, <2>2, SellQtyFacts DEF PricingInv, PricingTypeOK
  <2> HIDE DEF q
  <2>5. ~(q >= MinQty /\ q <= MaxQty /\ q % step = 0 /\ NotionalOk(mark, q))
    BY <2>1, <2>2, <2>3, <2>4 DEF Accepted, QuantityOk
  <2>6. filters => q % step = 0
    <3>1. SUFFICES ASSUME filters PROVE q % step = 0
      OBVIOUS
    <3>2. q = (s \div step) * step
      BY <2>2, <3>1 DEF q, SellQty, RoundQuantity
    <3>3. ((s \div step) * step) % step = 0
      OBVIOUS
    <3> QED
      BY <3>2, <3>3
  <2> QED
    BY <2>2, <2>4, <2>5, <2>6, PricingAssumption
<1> QED
  BY <1>1, PricingInvariance, PTL
=============================================================================
