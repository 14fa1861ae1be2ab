--------------------------- MODULE BacktestProofs ---------------------------
(***************************************************************************)
(* Theorems about Backtest and EntrySignal, for every value of their       *)
(* constants and every history the exchange may answer with.               *)
(*                                                                         *)
(* The indicators are loops over exact fractions.  What matters of them    *)
(* here is where they are defined, and that hangs on which sums are zero:  *)
(* the first half shows that Ratio cancels without loss, so that a sum of  *)
(* non-negative amounts is zero exactly if every one of them is.           *)
(*                                                                         *)
(* The second half is the replay.  Its invariant, ReplayInv, joins those   *)
(* of the download and of the service to what the replay keeps itself.     *)
(***************************************************************************)
EXTENDS Backtest, TradingServiceProofs, DownloaderProofs

-----------------------------------------------------------------------------
(* Fractions *)

GcdStep(g, p) == IF p[2] = 0 THEN p[1] ELSE g[<<p[2], p[1] % p[2]>>]

\* Euclid's function for second arguments up to k.
IsGcdUpTo(g, k) == g = [p \in Nat \X (0..k) |-> GcdStep(g, p)]

LEMMA RemainderIs ==
  ASSUME NEW a \in Nat, NEW b \in Nat \ {0}
  PROVE  a % b \in 0..(b - 1) /\ a \div b \in Nat /\ a = b * (a \div b) + (a % b)
<1>1. a % b \in 0..(b - 1)
  OBVIOUS
<1>2. a = b * (a \div b) + (a % b)
  OBVIOUS
<1>3. a \div b \in Nat
  OBVIOUS
<1> QED
  BY <1>1, <1>2, <1>3

LEMMA GcdUpToExists ==
  ASSUME NEW n \in Nat
  PROVE  \E g : IsGcdUpTo(g, n)
<1> DEFINE S == {k \in 0..n : \E g : IsGcdUpTo(g, k)}
<1>1. 0 \in S
  <2> DEFINE g == [p \in Nat \X (0..0) |-> p[1]]
  <2>1. \A p \in Nat \X (0..0) : p[2] = 0
    OBVIOUS
  <2>2. IsGcdUpTo(g, 0)
    BY <2>1 DEF IsGcdUpTo, GcdStep
  <2> HIDE DEF g
  <2> QED
    BY <2>2
<1>2. ASSUME NEW k \in 0..n, k > 0, k - 1 \in S PROVE k \in S
  <2>1. PICK g : g = [p \in Nat \X (0..(k - 1)) |-> GcdStep(g, p)]
    BY <1>2 DEF IsGcdUpTo
  <2> DEFINE h == [p \in Nat \X (0..k) |->
                     IF p[2] = k THEN g[<<k, p[1] % k>>] ELSE g[p]]
  <2>2. \A p \in Nat \X (0..k) :
          /\ p[1] \in Nat /\ p[2] \in 0..k
          /\ p[2] # k => p \in Nat \X (0..(k - 1))
          /\ p[2] > 0 => /\ p[1] % p[2] \in 0..(k - 1)
                         /\ <<p[2], p[1] % p[2]>> \in Nat \X (0..(k - 1))
    <3> SUFFICES ASSUME NEW a \in Nat, NEW b \in 0..k
                 PROVE  b > 0 => a % b \in 0..(k - 1) /\ b \in Nat
      OBVIOUS
    <3> QED
      BY RemainderIs
  <2>3. \A q \in Nat \X (0..(k - 1)) : h[q] = g[q]
    OBVIOUS
  <2>4. ASSUME NEW p \in Nat \X (0..k) PROVE h[p] = GcdStep(h, p)
    <3>1. CASE p[2] = k
      <4>1. h[p] = g[<<k, p[1] % k>>] /\ p[2] # 0
        BY <1>2, <3>1
      <4>2. h[<<k, p[1] % k>>] = g[<<k, p[1] % k>>]
        BY <1>2, <2>2, <2>3, <3>1
      <4> HIDE DEF h
      <4> QED
        BY <3>1, <4>1, <4>2 DEF GcdStep
    <3>2. CASE p[2] # k
      <4>1. h[p] = g[p] /\ g[p] = GcdStep(g, p)
        BY <2>1, <2>2, <2>3, <3>2
      <4>2. p[2] # 0 => h[<<p[2], p[1] % p[2]>>] = g[<<p[2], p[1] % p[2]>>]
        BY <2>2, <2>3
      <4> HIDE DEF h
      <4> QED
        BY <4>1, <4>2 DEF GcdStep
    <3> QED
      BY <3>1, <3>2
  <2>5. IsGcdUpTo(h, k)
    <3>1. h = [p \in Nat \X (0..k) |-> h[p]]
      OBVIOUS
    <3> HIDE DEF h
    <3> QED
      BY <2>4, <3>1 DEF IsGcdUpTo
  <2> HIDE DEF h
  <2> QED
    BY <2>5
<1>3. \A k \in 0..n : k \in S
  <2> HIDE DEF S
  <2> QED
    BY <1>1, <1>2, IntervalInduction
<1>4. n \in S
  BY <1>3
<1> QED
  BY <1>4

LEMMA GcdUpToUnique ==
  ASSUME NEW n \in Nat, NEW m \in Nat, n <= m, NEW g, NEW h,
         IsGcdUpTo(g, n), IsGcdUpTo(h, m)
  PROVE  \A p \in Nat \X (0..n) : g[p] = h[p]
<1> DEFINE S == {k \in 0..n : \A p \in Nat \X (0..k) : g[p] = h[p]}
<1>1. /\ \A p \in Nat \X (0..n) : g[p] = GcdStep(g, p)
      /\ \A p \in Nat \X (0..m) : h[p] = GcdStep(h, p)
  BY DEF IsGcdUpTo
<1>2. \A k \in 0..n : \A p \in Nat \X (0..k) : p \in Nat \X (0..n) /\ p \in Nat \X (0..m)
  OBVIOUS
<1>3. 0 \in S
  <2>1. ASSUME NEW p \in Nat \X (0..0) PROVE g[p] = h[p]
    <3>1. p[2] = 0 /\ p \in Nat \X (0..n) /\ p \in Nat \X (0..m)
      OBVIOUS
    <3>2. g[p] = GcdStep(g, p) /\ h[p] = GcdStep(h, p)
      BY <1>1, <3>1
    <3> QED
      BY <3>1, <3>2 DEF GcdStep
  <2> QED
    BY <2>1
<1>4. ASSUME NEW k \in 0..n, k > 0, k - 1 \in S PROVE k \in S
  <2>1. ASSUME NEW p \in Nat \X (0..k) PROVE g[p] = h[p]
    <3>1. g[p] = GcdStep(g, p) /\ h[p] = GcdStep(h, p)
      BY <1>1, <1>2
    <3>2. CASE p[2] = 0
      BY <3>1, <3>2 DEF GcdStep
    <3>3. CASE p[2] # 0
      <4>1. p[1] \in Nat /\ p[2] \in Nat \ {0} /\ p[2] <= k
        BY <3>3
      <4>2. p[1] % p[2] \in 0..(p[2] - 1)
        BY <4>1, RemainderIs
      <4>3. <<p[2], p[1] % p[2]>> \in Nat \X (0..(k - 1))
        BY <4>1, <4>2
      <4>4. g[<<p[2], p[1] % p[2]>>] = h[<<p[2], p[1] % p[2]>>]
        BY <1>4, <4>3
      <4> QED
        BY <3>1, <3>3, <4>4 DEF GcdStep
    <3> QED
      BY <3>2, <3>3
  <2> QED
    BY <2>1
<1>5. \A k \in 0..n : k \in S
  <2> HIDE DEF S
  <2> QED
    BY <1>3, <1>4, IntervalInduction
<1>6. n \in S
  BY <1>5
<1> QED
  BY <1>6

\* Euclid's recursion defines a function.
LEMMA GcdIs ==
  \A a, b \in Nat : Gcd[<<a, b>>] = IF b = 0 THEN a ELSE Gcd[<<b, a % b>>]
<1> DEFINE part(n) == CHOOSE g : IsGcdUpTo(g, n)
           G == [p \in Nat \X Nat |-> part(p[2])[p]]
<1>1. \A n \in Nat : IsGcdUpTo(part(n), n)
  BY GcdUpToExists
<1> HIDE DEF part
<1>2. ASSUME NEW n \in Nat, NEW p \in Nat \X (0..n) PROVE G[p] = part(n)[p]
  <2>1. p[2] \in 0..n /\ p[2] \in Nat /\ p \in Nat \X Nat /\ p \in Nat \X (0..p[2])
    OBVIOUS
  <2>2. part(p[2])[p] = part(n)[p]
    BY <1>1, <2>1, GcdUpToUnique
  <2> QED
    BY <2>1, <2>2
<1>3. ASSUME NEW p \in Nat \X Nat PROVE G[p] = GcdStep(G, p)
  <2> DEFINE n == p[2]
  <2>1. n \in Nat /\ p \in Nat \X (0..n) /\ p[1] \in Nat
    OBVIOUS
  <2>2. G[p] = part(n)[p] /\ part(n)[p] = GcdStep(part(n), p)
    <3>1. IsGcdUpTo(part(n), n)
      BY <1>1, <2>1
    <3> QED
      BY <1>2, <2>1, <3>1 DEF IsGcdUpTo
  <2>3. ASSUME n # 0 PROVE G[<<n, p[1] % n>>] = part(n)[<<n, p[1] % n>>]
    <3>1. p[1] % n \in 0..n
      BY <2>1, <2>3, RemainderIs
    <3>2. <<n, p[1] % n>> \in Nat \X (0..n)
      BY <2>1, <3>1
    <3> HIDE DEF n, G
    <3> QED
      BY <1>2, <2>1, <3>2
  <2> HIDE DEF G
  <2> QED
    BY <2>2, <2>3 DEF GcdStep
<1>4. G = [p \in Nat \X Nat |-> IF p[2] = 0 THEN p[1] ELSE G[<<p[2], p[1] % p[2]>>]]
  <2>1. G = [p \in Nat \X Nat |-> G[p]]
    OBVIOUS
  <2> HIDE DEF G
  <2> QED
    BY <1>3, <2>1 DEF GcdStep
<1>5. Gcd = [p \in Nat \X Nat |-> IF p[2] = 0 THEN p[1] ELSE Gcd[<<p[2], p[1] % p[2]>>]]
  <2> HIDE DEF G
  <2> QED
    BY <1>4 DEF Gcd
<1> SUFFICES ASSUME NEW a \in Nat, NEW b \in Nat
             PROVE  Gcd[<<a, b>>] = IF b = 0 THEN a ELSE Gcd[<<b, a % b>>]
  OBVIOUS
<1>6. <<a, b>> \in Nat \X Nat /\ <<a, b>>[1] = a /\ <<a, b>>[2] = b
  OBVIOUS
<1> QED
  BY <1>5, <1>6

\* What it returns divides both arguments.
Divides(g, a, b) == g \in Nat \ {0} /\ \E u, v \in Nat : a = g * u /\ b = g * v

LEMMA GcdDivides ==
  ASSUME NEW a \in Nat, NEW b \in Nat \ {0}
  PROVE  Divides(Gcd[<<a, b>>], a, b)
<1> DEFINE S == {k \in 0..b : \A x \in Nat : \A y \in 1..k : Divides(Gcd[<<x, y>>], x, y)}
<1>1. 0 \in S
  OBVIOUS
<1>2. ASSUME NEW k \in 0..b, k > 0, k - 1 \in S PROVE k \in S
  <2>1. ASSUME NEW x \in Nat PROVE Divides(Gcd[<<x, k>>], x, k)
    <3>1. PICK q \in Nat, r \in 0..(k - 1) : r = x % k /\ x = k * q + r
      <4>1. k \in Nat \ {0}
        BY <1>2
      <4>2. /\ x % k \in 0..(k - 1) /\ x \div k \in Nat
            /\ x = k * (x \div k) + (x % k)
        BY <4>1, RemainderIs
      <4> QED
        BY <4>2
    <3>2. Gcd[<<x, k>>] = Gcd[<<k, r>>]
      BY <1>2, <3>1, GcdIs
    <3>3. CASE r = 0
      <4>1. Gcd[<<k, r>>] = k
        <5>1. k \in Nat /\ 0 \in Nat
          OBVIOUS
        <5>2. Gcd[<<k, 0>>] = k
          BY <5>1, GcdIs
        <5> QED
          BY <3>3, <5>2
      <4>2. x = k * q /\ k = k * 1 /\ 1 \in Nat /\ k \in Nat \ {0}
        BY <1>2, <3>1, <3>3
      <4> QED
        BY <3>2, <4>1, <4>2 DEF Divides
    <3>4. CASE r # 0
      <4>1. r \in 1..(k - 1) /\ k \in Nat
        BY <3>4
      <4>2. Divides(Gcd[<<k, r>>], k, r)
        BY <1>2, <4>1
      <4>3. PICK g \in Nat \ {0}, u \in Nat, v \in Nat :
              g = Gcd[<<x, k>>] /\ k = g * u /\ r = g * v
        BY <3>2, <4>2 DEF Divides
      <4>4. x = (g * u) * q + g * v
        BY <3>1, <4>3
      <4>5. (g * u) * q + g * v = g * (u * q + v) /\ u * q + v \in Nat
        OBVIOUS
      <4> QED
        BY <4>3, <4>4, <4>5 DEF Divides
    <3> QED
      BY <3>3, <3>4
  <2>2. \A x \in Nat : \A y \in 1..k : y \in 1..(k - 1) \/ y = k
    OBVIOUS
  <2> QED
    BY <1>2, <2>1, <2>2
<1>3. \A k \in 0..b : k \in S
  <2> HIDE DEF S
  <2> QED
    BY <1>1, <1>2, IntervalInduction
<1>4. b \in S /\ b \in 1..b
  BY <1>3
<1> QED
  BY <1>4

LEMMA Cancel ==
  ASSUME NEW g \in Nat \ {0}, NEW u \in Nat
  PROVE  (g * u) \div g = u
OBVIOUS

\* A ratio is a fraction of the same value.
LEMMA RatioIs ==
  ASSUME NEW n \in Nat, NEW d \in Nat \ {0}
  PROVE  \E u \in Nat, v \in Nat \ {0} :
           /\ Ratio(n, d) = [num |-> u, den |-> v] /\ u * d = n * v
           /\ n = 0 <=> u = 0
           /\ n = 0 => v = 1
<1>1. PICK g \in Nat \ {0}, u \in Nat, v \in Nat :
        g = Gcd[<<n, d>>] /\ n = g * u /\ d = g * v
  <2>1. Divides(Gcd[<<n, d>>], n, d)
    BY GcdDivides
  <2> QED
    BY <2>1 DEF Divides
<1>2. Abs(n) = n /\ GreaterOf(g, 1) = g
  BY DEF Abs, GreaterOf
<1>3. Ratio(n, d) = [num |-> u, den |-> v]
  <2>1. n \div g = u /\ d \div g = v
    BY <1>1, Cancel
  <2> QED
    BY <1>1, <1>2, <2>1 DEF Ratio
<1>4. v # 0
  BY <1>1
<1>5. u * d = n * v
  <2>1. u * (g * v) = (g * u) * v
    OBVIOUS
  <2> QED
    BY <1>1, <2>1
<1>6. n = 0 <=> u = 0
  BY <1>1
<1>7. ASSUME n = 0 PROVE v = 1
  <2>1. 0 % d = 0
    OBVIOUS
  <2>2. g = Gcd[<<d, 0>>] /\ Gcd[<<d, 0>>] = d
    <3>1. d \in Nat /\ 0 \in Nat /\ d # 0
      OBVIOUS
    <3>2. Gcd[<<0, d>>] = Gcd[<<d, 0 % d>>] /\ Gcd[<<d, 0>>] = d
      BY <3>1, GcdIs
    <3> QED
      BY <1>1, <1>7, <2>1, <3>2
  <2>3. d = d * v
    BY <1>1, <2>2
  <2> QED
    BY <2>3
<1> QED
  BY <1>3, <1>4, <1>5, <1>6, <1>7

-----------------------------------------------------------------------------
(* Amounts: fractions that are not negative, with one zero *)

Amount == {x \in [num : Nat, den : Nat \ {0}] : x.num = 0 => x = Zero}

LEMMA RatioAmount ==
  ASSUME NEW n \in Nat, NEW d \in Nat \ {0}
  PROVE  /\ Ratio(n, d) \in Amount
         /\ Ratio(n, d) = Zero <=> n = 0
         /\ Ratio(n, d).num * d = n * Ratio(n, d).den
<1>1. Zero = [num |-> 0, den |-> 1]
  <2>1. PICK u \in Nat, v \in Nat \ {0} : Ratio(0, 1) = [num |-> u, den |-> v] /\ u = 0 /\ v = 1
    <3>1. 0 \in Nat /\ 1 \in Nat \ {0}
      OBVIOUS
    <3> QED
      BY <3>1, RatioIs
  <2> QED
    BY <2>1 DEF Zero, Whole
<1>2. PICK u \in Nat, v \in Nat \ {0} :
        /\ Ratio(n, d) = [num |-> u, den |-> v] /\ u * d = n * v
        /\ n = 0 <=> u = 0
        /\ n = 0 => v = 1
  BY RatioIs
<1>3. Ratio(n, d).num = u /\ Ratio(n, d).den = v
  BY <1>2
<1> QED
  BY <1>1, <1>2, <1>3 DEF Amount

LEMMA AmountIs ==
  ASSUME NEW x \in Amount
  PROVE  /\ x.num \in Nat /\ x.den \in Nat \ {0}
         /\ x = Zero <=> x.num = 0
         /\ Zero \in Amount
<1>1. /\ Ratio(0, 1) \in Amount /\ Ratio(0, 1).num * 1 = 0 * Ratio(0, 1).den
  <2>1. 0 \in Nat /\ 1 \in Nat \ {0}
    OBVIOUS
  <2> QED
    BY <2>1, RatioAmount
<1>2. Zero = Ratio(0, 1)
  BY DEF Zero, Whole
<1>3. \A y \in Amount : y.num \in Nat /\ y.den \in Nat \ {0} /\ (y.num = 0 => y = Zero)
  BY DEF Amount
<1>4. Zero.num = 0
  <2>1. PICK m \in Nat, k \in Nat : m = Zero.num /\ k = Zero.den /\ m * 1 = 0 * k
    BY <1>1, <1>2, <1>3
  <2> QED
    BY <2>1
<1> QED
  BY <1>1, <1>2, <1>3, <1>4

LEMMA WholeAmount ==
  ASSUME NEW n \in Nat
  PROVE  Whole(n) \in Amount /\ (Whole(n) = Zero <=> n = 0)
<1>1. 1 \in Nat \ {0}
  OBVIOUS
<1> QED
  BY <1>1, RatioAmount DEF Whole

LEMMA AddAmount ==
  ASSUME NEW x \in Amount, NEW y \in Amount
  PROVE  Add(x, y) \in Amount /\ (Add(x, y) = Zero <=> x = Zero /\ y = Zero)
<1>1. PICK a \in Nat, b \in Nat \ {0}, c \in Nat, d \in Nat \ {0} :
        a = x.num /\ b = x.den /\ c = y.num /\ d = y.den
  BY AmountIs
<1>2. a * d + c * b \in Nat /\ b * d \in Nat \ {0} /\ (a * d + c * b = 0 <=> a = 0 /\ c = 0)
  <2>1. a * d \in Nat /\ c * b \in Nat /\ b * d \in Nat
    OBVIOUS
  <2>2. b * d # 0
    OBVIOUS
  <2>3. a * d = 0 <=> a = 0
    OBVIOUS
  <2>4. c * b = 0 <=> c = 0
    OBVIOUS
  <2> QED
    BY <2>1, <2>2, <2>3, <2>4
<1>3. /\ Ratio(a * d + c * b, b * d) \in Amount
      /\ Ratio(a * d + c * b, b * d) = Zero <=> a * d + c * b = 0
  BY <1>2, RatioAmount
<1>4. (x = Zero <=> a = 0) /\ (y = Zero <=> c = 0)
  BY <1>1, AmountIs
<1> QED
  BY <1>1, <1>2, <1>3, <1>4 DEF Add

\* What the running sums of compute_adx keep of a sum is zero only if the sum is,
\* or if they keep nothing.
LEMMA KeepAmount ==
  ASSUME NEW x \in Amount, NEW p \in Nat \ {0}
  PROVE  /\ Minus(x, Over(x, p)) \in Amount
         /\ Minus(x, Over(x, p)) = Zero <=> x = Zero \/ p = 1
<1>1. PICK a \in Nat, b \in Nat \ {0} : a = x.num /\ b = x.den
  BY AmountIs
<1>2. b * p \in Nat \ {0}
  <2>1. b * p \in Nat
    OBVIOUS
  <2>2. b * p # 0
    OBVIOUS
  <2> QED
    BY <2>1, <2>2
<1>3. Over(x, p) = Ratio(a, b * p)
  BY <1>1 DEF Over
<1>4. PICK c \in Nat, d \in Nat \ {0} :
        c = Over(x, p).num /\ d = Over(x, p).den /\ c * (b * p) = a * d
  <2>1. Over(x, p) \in Amount /\ Over(x, p).num * (b * p) = a * Over(x, p).den
    BY <1>2, <1>3, RatioAmount
  <2> QED
    BY <2>1, AmountIs
<1>5. a * d - c * b = (c * b) * (p - 1)
  <2>1. c * (b * p) = (c * b) * p
    OBVIOUS
  <2>2. (c * b) * (p - 1) = (c * b) * p - c * b
    OBVIOUS
  <2> QED
    BY <1>4, <2>1, <2>2
<1>6. (c * b) * (p - 1) \in Nat /\ b * d \in Nat \ {0}
  <2>1. c * b \in Nat /\ p - 1 \in Nat /\ b * d \in Nat
    OBVIOUS
  <2>2. (c * b) * (p - 1) \in Nat
    BY <2>1
  <2>3. b * d # 0
    OBVIOUS
  <2> QED
    BY <2>1, <2>2, <2>3
<1>7. (c * b) * (p - 1) = 0 <=> a = 0 \/ p = 1
  <2>1. c = 0 <=> a = 0
    <3>1. c = 0 => a * d = 0
      BY <1>4
    <3>2. a = 0 => c * (b * p) = 0
      BY <1>4
    <3>3. (a * d = 0 => a = 0) /\ (c * (b * p) = 0 => c = 0)
      BY <1>2
    <3> QED
      BY <3>1, <3>2, <3>3
  <2>2. c * b \in Nat /\ (c * b = 0 <=> c = 0)
    OBVIOUS
  <2>3. (c * b) * (p - 1) = 0 <=> c * b = 0 \/ p - 1 = 0
    <3>1. PICK m \in Nat, k \in Nat : m = c * b /\ k = p - 1
      BY <2>2
    <3>2. m * k = 0 <=> m = 0 \/ k = 0
      OBVIOUS
    <3> QED
      BY <3>1, <3>2
  <2> QED
    BY <2>1, <2>2, <2>3
<1>8. Minus(x, Over(x, p)) = Ratio(a * d - c * b, b * d)
  BY <1>1, <1>4 DEF Minus
<1>9. /\ Ratio((c * b) * (p - 1), b * d) \in Amount
      /\ Ratio((c * b) * (p - 1), b * d) = Zero <=> (c * b) * (p - 1) = 0
  BY <1>6, RatioAmount
<1>10. x = Zero <=> a = 0
  BY <1>1, AmountIs
<1> QED
  BY <1>5, <1>7, <1>8, <1>9, <1>10

LEMMA ZeroAmount == Zero \in Amount
<1>1. 0 \in Nat
  OBVIOUS
<1> QED
  BY <1>1, WholeAmount DEF Zero

\* A sum of amounts is zero only if they all are.
LEMMA SumOfAmounts ==
  ASSUME NEW first \in Int, NEW last \in Int, first - 1 <= last,
         NEW f, \A i \in first..last : f[i] \in Amount
  PROVE  /\ SumOf(f, first, last) \in Amount
         /\ SumOf(f, first, last) = Zero <=> \A i \in first..last : f[i] = Zero
<1> DEFINE lo == first - 1
           F == [e \in (lo..last) \X Amount |->
                   IF e[1] \in first..last THEN Add(e[2], f[e[1]]) ELSE Zero]
<1>1. F \in [(lo..last) \X Amount -> Amount]
  BY AddAmount, ZeroAmount
<1>2. PICK g \in [lo..last -> Amount] : IsRec(g, F, Zero, lo, last)
  <2> HIDE DEF F, lo
  <2>1. lo \in Int
    BY DEF lo
  <2> QED
    BY <1>1, <2>1, ZeroAmount, RecursionExists
<1>3. ASSUME NEW i \in lo..last PROVE g[i] = IF i = lo THEN Zero ELSE Add(g[i - 1], f[i])
  <2>1. g[i] = RecStep(F, Zero, lo, g, i)
    BY <1>2 DEF IsRec
  <2>2. ASSUME i # lo PROVE F[<<i, g[i - 1]>>] = Add(g[i - 1], f[i])
    <3>1. i \in first..last /\ i - 1 \in lo..last
      BY <2>2
    <3>2. <<i, g[i - 1]>> \in (lo..last) \X Amount
      BY <1>2, <3>1
    <3> QED
      BY <3>1, <3>2
  <2> HIDE DEF F
  <2> QED
    BY <2>1, <2>2 DEF RecStep
<1>4. g = [i \in lo..last |-> IF i = lo THEN Zero ELSE Add(g[i - 1], f[i])]
  BY <1>2, <1>3
<1> DEFINE h == CHOOSE h : h = [i \in lo..last |-> IF i = lo THEN Zero ELSE Add(h[i - 1], f[i])]
<1>5. h = [i \in lo..last |-> IF i = lo THEN Zero ELSE Add(h[i - 1], f[i])]
  <2> HIDE DEF F
  <2> QED
    BY <1>4
<1>6. SumOf(f, first, last) = h[last]
  BY DEF SumOf
<1> HIDE DEF h
<1> DEFINE S == {i \in lo..last : /\ h[i] \in Amount
                                  /\ h[i] = Zero <=> \A j \in first..i : f[j] = Zero}
<1>7. lo \in S
  <2>1. lo \in lo..last /\ h[lo] = Zero /\ first..lo = {}
    BY <1>5
  <2> QED
    BY <2>1, ZeroAmount
<1>8. ASSUME NEW i \in lo..last, i > lo, i - 1 \in S PROVE i \in S
  <2>1. h[i] = Add(h[i - 1], f[i]) /\ i \in first..last
    BY <1>5, <1>8
  <2>2. h[i] \in Amount /\ (h[i] = Zero <=> h[i - 1] = Zero /\ f[i] = Zero)
    BY <1>8, <2>1, AddAmount
  <2>3. first..i = (first..(i - 1)) \cup {i}
    BY <2>1
  <2> QED
    BY <1>8, <2>2, <2>3
<1>9. \A i \in lo..last : i \in S
  <2> HIDE DEF S, lo
  <2>1. lo \in Int
    BY DEF lo
  <2> QED
    BY <1>7, <1>8, <2>1, IntervalInduction
<1>10. last \in lo..last
  OBVIOUS
<1> QED
  BY <1>6, <1>9, <1>10

\* The running sums of compute_adx are zero exactly where nothing was summed, or
\* nothing is in the last value if that is all they keep.
LEMMA WilderSumOfAmounts ==
  ASSUME NEW p \in Nat \ {0}, NEW first \in Int, NEW last \in Int,
         NEW f, \A i \in first..last : f[i] \in Amount,
         NEW t \in (first + p - 1)..last
  PROVE  WilderSum(f, p, first, last)[t] = Zero
           <=> IF p = 1 THEN f[t] = Zero ELSE \A i \in first..t : f[i] = Zero
<1> DEFINE lo == first + p - 1
           x == SumOf(f, first, lo)
           Step(v, i) == Add(Minus(v, Over(v, p)), f[i])
           F == [e \in (lo..last) \X Amount |-> Step(e[2], e[1])]
<1>0. lo \in Int /\ lo <= last /\ first <= lo
  OBVIOUS
<1>1. ASSUME NEW v \in Amount, NEW i \in lo..last
      PROVE  /\ Step(v, i) \in Amount
             /\ Step(v, i) = Zero <=> (v = Zero \/ p = 1) /\ f[i] = Zero
  <2>1. i \in first..last
    BY <1>0
  <2> QED
    BY <2>1, AddAmount, KeepAmount
<1>2. x \in Amount /\ (x = Zero <=> \A i \in first..lo : f[i] = Zero)
  <2>1. first - 1 <= lo /\ \A i \in first..lo : f[i] \in Amount
    OBVIOUS
  <2> HIDE DEF lo
  <2> QED
    BY <1>0, <2>1, SumOfAmounts
<1>3. F \in [(lo..last) \X Amount -> Amount]
  <2> HIDE DEF Step
  <2> QED
    BY <1>1
<1>4. PICK g \in [lo..last -> Amount] : IsRec(g, F, x, lo, last)
  <2> HIDE DEF F, x, lo
  <2> QED
    BY <1>0, <1>2, <1>3, RecursionExists
<1>5. ASSUME NEW i \in lo..last PROVE g[i] = IF i = lo THEN x ELSE Step(g[i - 1], i)
  <2>1. g[i] = RecStep(F, x, lo, g, i)
    BY <1>4 DEF IsRec
  <2>2. ASSUME i # lo PROVE F[<<i, g[i - 1]>>] = Step(g[i - 1], i)
    <3>1. i - 1 \in lo..last
      BY <1>0, <2>2
    <3>2. <<i, g[i - 1]>> \in (lo..last) \X Amount
      BY <1>4, <3>1
    <3> QED
      BY <3>2
  <2> HIDE DEF F, Step, x, lo
  <2> QED
    BY <2>1, <2>2 DEF RecStep
<1>6. g = [i \in lo..last |-> IF i = lo THEN x ELSE Step(g[i - 1], i)]
  <2> HIDE DEF F, Step, x, lo
  <2> QED
    BY <1>4, <1>5
<1> DEFINE h == CHOOSE h : h = [i \in lo..last |->
                  IF i = lo THEN SumOf(f, first, i)
                  ELSE Add(Minus(h[i - 1], Over(h[i - 1], p)), f[i])]
<1>7. h = [i \in lo..last |->
             IF i = lo THEN SumOf(f, first, i)
             ELSE Add(Minus(h[i - 1], Over(h[i - 1], p)), f[i])]
  <2>1. g = [i \in lo..last |->
               IF i = lo THEN SumOf(f, first, i)
               ELSE Add(Minus(g[i - 1], Over(g[i - 1], p)), f[i])]
    <3> HIDE DEF F, lo
    <3> QED
      BY <1>6
  <2> HIDE DEF F, lo, x, Step
  <2> QED
    BY <2>1
<1>8. WilderSum(f, p, first, last) = h
  BY DEF WilderSum
<1> HIDE DEF h
<1>9. ASSUME NEW i \in lo..last PROVE h[i] = IF i = lo THEN x ELSE Step(h[i - 1], i)
  <2> HIDE DEF F, lo
  <2> QED
    BY <1>7
<1> DEFINE Quiet(i) == IF p = 1 /\ i # lo THEN f[i] = Zero ELSE \A j \in first..i : f[j] = Zero
           S == {i \in lo..last : h[i] \in Amount /\ (h[i] = Zero <=> Quiet(i))}
<1>10. lo \in S
  <2>1. lo \in lo..last /\ h[lo] = x
    BY <1>0, <1>9
  <2> HIDE DEF x, lo
  <2> QED
    BY <1>2, <2>1
<1>11. ASSUME NEW i \in lo..last, i > lo, i - 1 \in S PROVE i \in S
  <2>1. h[i] = Step(h[i - 1], i) /\ i - 1 \in lo..last /\ h[i - 1] \in Amount
    BY <1>0, <1>9, <1>11
  <2>2. h[i] \in Amount /\ (h[i] = Zero <=> (h[i - 1] = Zero \/ p = 1) /\ f[i] = Zero)
    <3> HIDE DEF Step
    <3> QED
      BY <1>1, <2>1
  <2>3. first..i = (first..(i - 1)) \cup {i}
    BY <1>0
  <2>4. h[i - 1] = Zero <=> Quiet(i - 1)
    BY <1>11
  <2>5. h[i] = Zero <=> Quiet(i)
    <3>1. CASE p = 1
      BY <1>11, <2>2, <3>1
    <3>2. CASE p # 1
      <4> HIDE DEF lo
      <4> QED
        BY <2>2, <2>3, <2>4, <3>2
    <3> QED
      BY <3>1, <3>2
  <2> HIDE DEF Quiet, lo
  <2> QED
    BY <2>2, <2>5
<1>12. \A i \in lo..last : i \in S
  <2> HIDE DEF S, lo
  <2> QED
    BY <1>0, <1>10, <1>11, IntervalInduction
<1>13. h[t] = Zero <=> Quiet(t)
  <2> HIDE DEF Quiet
  <2> QED
    BY <1>12
<1>14. CASE p = 1 /\ t = lo
  <2>1. first..t = {t}
    BY <1>14
  <2> QED
    BY <1>8, <1>13, <1>14, <2>1
<1>15. CASE ~(p = 1 /\ t = lo)
  <2> HIDE DEF lo
  <2> QED
    BY <1>8, <1>13, <1>15
<1> QED
  BY <1>14, <1>15

-----------------------------------------------------------------------------
(* Where the indicators are defined *)

Candle == [minute : Int, open : Int, high : Int, low : Int, close : Int, volume : Nat]

LEMMA CandlesAre ==
  ASSUME NEW s \in Seq(Candle)
  PROVE  /\ Len(s) \in Nat /\ DOMAIN s = 1..Len(s)
         /\ \A i \in 1..Len(s) : s[i] \in Candle
OBVIOUS

LEMMA PeriodsAre ==
  ASSUME TRUE
  PROVE  /\ RsiPeriod \in Nat \ {0} /\ RsiMaPeriod \in Nat \ {0}
         /\ AdxPeriod \in Nat \ {0} /\ AdrPeriod \in Nat \ {0}
BY PeriodAssumption

LEMMA RsiDefined ==
  ASSUME NEW s, NEW t
  PROVE  t \in DOMAIN Rsi(s) <=> RsiSettled(s, t)
BY DEF Rsi, RsiSettled

LEMMA AdrDefined ==
  ASSUME NEW s, NEW t
  PROVE  t \in DOMAIN Adr(s) <=> AdrSettled(s, t)
BY DEF Adr, AdrSettled

\* compute_rsi_vwma divides by the volume of the window.
LEMMA VwmaDefined ==
  ASSUME NEW s \in Seq(Candle), NEW t \in Int
  PROVE  t \in DOMAIN Vwma(s, Rsi(s)) <=> VwmaSettled(s, t)
<1> DEFINE m == t - RsiMaPeriod + 1
           f == [i \in m..t |-> Whole(s[i].volume)]
<1>1. m \in Int /\ m <= t /\ Len(s) \in Nat /\ DOMAIN s = 1..Len(s) /\ RsiPeriod \in Nat
  BY PeriodsAre, CandlesAre
<1>2. t \in DOMAIN Vwma(s, Rsi(s)) <=>
        t \in 1..Len(s) /\ m..t \subseteq DOMAIN Rsi(s) /\ SumOf(f, m, t) # Zero
  BY <1>1 DEF Vwma
<1>3. DOMAIN Rsi(s) = (RsiPeriod + 1)..Len(s)
  BY DEF Rsi
<1> HIDE DEF m
<1>4. m..t \subseteq (RsiPeriod + 1)..Len(s) <=>
        t \in (RsiPeriod + 1)..Len(s) /\ m \in (RsiPeriod + 1)..Len(s)
  BY <1>1
<1>5. CASE m..t \subseteq (RsiPeriod + 1)..Len(s)
  <2>1. ASSUME NEW i \in m..t
        PROVE  f[i] \in Amount /\ (f[i] = Zero <=> ~(s[i].volume > 0))
    <3>1. i \in 1..Len(s)
      BY <1>1, <1>5
    <3>2. s[i].volume \in Nat
      BY <3>1, CandlesAre DEF Candle
    <3>3. Whole(s[i].volume) \in Amount /\ (Whole(s[i].volume) = Zero <=> s[i].volume = 0)
      BY <3>2, WholeAmount
    <3> QED
      BY <3>2, <3>3
  <2>2. SumOf(f, m, t) = Zero <=> \A i \in m..t : f[i] = Zero
    <3> HIDE DEF f
    <3>1. m - 1 <= t /\ \A i \in m..t : f[i] \in Amount
      BY <1>1, <2>1
    <3> QED
      BY <1>1, <3>1, SumOfAmounts
  <2>3. SumOf(f, m, t) # Zero <=> \E i \in m..t : s[i].volume > 0
    <3> HIDE DEF f
    <3> QED
      BY <2>1, <2>2
  <2>4. t \in 1..Len(s)
    BY <1>1, <1>5
  <2> HIDE DEF f
  <2> QED
    BY <1>2, <1>3, <1>4, <1>5, <2>3, <2>4 DEF VwmaSettled, RsiSettled, m
<1>6. CASE ~(m..t \subseteq (RsiPeriod + 1)..Len(s))
  <2> HIDE DEF f
  <2> QED
    BY <1>2, <1>3, <1>4, <1>6 DEF VwmaSettled, RsiSettled, m
<1> QED
  BY <1>5, <1>6

LEMMA RangeIs ==
  ASSUME NEW s \in Seq(Candle), NEW i \in 2..Len(s)
  PROVE  TrueRange(s, i) \in Nat
<1>1. i \in 1..Len(s) /\ i - 1 \in 1..Len(s)
  BY CandlesAre
<1>2. s[i] \in Candle /\ s[i - 1] \in Candle
  BY <1>1, CandlesAre
<1>3. PICK h \in Int, l \in Int, c \in Int : h = s[i].high /\ l = s[i].low /\ c = s[i - 1].close
  BY <1>2 DEF Candle
<1>4. Abs(h - c) \in Nat /\ Abs(l - c) \in Nat
  BY DEF Abs
<1>5. GreaterOf(Abs(h - c), Abs(l - c)) \in Nat
  BY <1>4 DEF GreaterOf
<1>6. GreaterOf(h - l, GreaterOf(Abs(h - c), Abs(l - c))) \in Nat
  BY <1>5 DEF GreaterOf
<1> QED
  BY <1>3, <1>6 DEF TrueRange

\* _di_and_dx has no value where nothing has moved.
LEMMA DxDefined ==
  ASSUME NEW s \in Seq(Candle), NEW t \in Int
  PROVE  t \in DOMAIN Dx(s) <=> DxSettled(s, t)
<1> DEFINE f == [i \in 2..Len(s) |-> Whole(TrueRange(s, i))]
<1>1. t \in DOMAIN Dx(s) <=>
        t \in (AdxPeriod + 1)..Len(s) /\ WilderSum(f, AdxPeriod, 2, Len(s))[t] # Zero
  BY DEF Dx
<1>2. ASSUME NEW i \in 2..Len(s) PROVE f[i] \in Amount /\ (f[i] = Zero <=> ~Moving(s, i))
  <2>1. TrueRange(s, i) \in Nat
    BY RangeIs
  <2>2. /\ Whole(TrueRange(s, i)) \in Amount
        /\ Whole(TrueRange(s, i)) = Zero <=> TrueRange(s, i) = 0
    BY <2>1, WholeAmount
  <2> QED
    BY <2>1, <2>2 DEF Moving
<1> HIDE DEF f
<1>3. AdxPeriod \in Nat \ {0} /\ Len(s) \in Nat
  BY PeriodsAre, CandlesAre
<1>4. ASSUME t \in (AdxPeriod + 1)..Len(s)
      PROVE  WilderSum(f, AdxPeriod, 2, Len(s))[t] = Zero
               <=> IF AdxPeriod = 1 THEN f[t] = Zero ELSE \A i \in 2..t : f[i] = Zero
  <2>1. PICK p \in Nat \ {0}, n \in Int, first \in Int : p = AdxPeriod /\ n = Len(s) /\ first = 2
    BY <1>3
  <2>2. t \in (first + p - 1)..n
    BY <1>4, <2>1
  <2>3. \A i \in first..n : f[i] \in Amount
    BY <1>2, <2>1
  <2>4. WilderSum(f, p, first, n)[t] = Zero
          <=> IF p = 1 THEN f[t] = Zero ELSE \A i \in first..t : f[i] = Zero
    BY <2>2, <2>3, WilderSumOfAmounts
  <2> QED
    BY <2>1, <2>4
<1>5. ASSUME t \in (AdxPeriod + 1)..Len(s)
      PROVE  t \in 2..Len(s) /\ \A i \in 2..t : i \in 2..Len(s)
  BY <1>3, <1>5
<1> QED
  BY <1>1, <1>2, <1>4, <1>5 DEF DxSettled

LEMMA AdxDefined ==
  ASSUME NEW s \in Seq(Candle), NEW t \in Int
  PROVE  t \in DOMAIN Adx(s) <=> AdxSettled(s, t)
<1>1. t \in DOMAIN Adx(s) <=>
        t \in (2 * AdxPeriod)..Len(s) /\ (AdxPeriod + 1)..t \subseteq DOMAIN Dx(s)
  BY DEF Adx
<1>2. (AdxPeriod + 1)..t \subseteq DOMAIN Dx(s) <=> \A i \in (AdxPeriod + 1)..t : DxSettled(s, i)
  BY DxDefined
<1> QED
  BY <1>1, <1>2 DEF AdxSettled

\* For every series the smoothing loops leave undefined exactly what is too short,
\* without volume or flat (compute_indicators and the files of indicators/).
THEOREM LoopsAlwaysAgree == \A s \in Seq(Candle) : LoopsAgree(s)
<1> SUFFICES ASSUME NEW s \in Seq(Candle) PROVE LoopsAgree(s)
  OBVIOUS
<1> DEFINE t == Len(s)
<1>1. t \in Int /\ t - 1 \in Int
  BY CandlesAre
<1>2. Complete(s) <=>
        /\ t \in DOMAIN Rsi(s) /\ t \in DOMAIN Adx(s)
        /\ t \in DOMAIN Vwma(s, Rsi(s)) /\ t \in DOMAIN Adr(s)
        /\ t - 1 \in DOMAIN Vwma(s, Rsi(s)) /\ t - 1 \in DOMAIN Adr(s)
        /\ t - 1 \in DOMAIN Rsi(s)
  BY DEF Complete
<1>3. /\ t \in DOMAIN Rsi(s) <=> RsiSettled(s, t)
      /\ t - 1 \in DOMAIN Rsi(s) <=> RsiSettled(s, t - 1)
      /\ t \in DOMAIN Adr(s) <=> AdrSettled(s, t)
      /\ t - 1 \in DOMAIN Adr(s) <=> AdrSettled(s, t - 1)
  BY RsiDefined, AdrDefined
<1>4. /\ t \in DOMAIN Vwma(s, Rsi(s)) <=> VwmaSettled(s, t)
      /\ t - 1 \in DOMAIN Vwma(s, Rsi(s)) <=> VwmaSettled(s, t - 1)
      /\ t \in DOMAIN Adx(s) <=> AdxSettled(s, t)
  BY <1>1, VwmaDefined, AdxDefined
<1> QED
  BY <1>2, <1>3, <1>4 DEF LoopsAgree, Settled

\* min_candles_for_signal covers every warm-up, for all periods.
THEOREM WarmupAlwaysCovers == \A s \in Seq(Candle) : WarmupCovers(s)
<1> SUFFICES ASSUME NEW s \in Seq(Candle), Lively(s), Len(s) >= MinCandles PROVE Complete(s)
  BY DEF WarmupCovers
<1> DEFINE t == Len(s)
<1>1. PICK p \in Nat \ {0}, q \in Nat \ {0}, a \in Nat \ {0}, d \in Nat \ {0} :
        p = RsiPeriod /\ q = RsiMaPeriod /\ a = AdxPeriod /\ d = AdrPeriod
  BY PeriodsAre
<1>2. t \in Nat
  BY CandlesAre
<1>3. t >= p + 1 + q /\ t >= 2 * a + 1 /\ t >= d + 2
  <2>1. MinCandles = GreaterOf(p + 1 + q - 1, GreaterOf(2 * a, d + 1)) + 1
    BY <1>1 DEF MinCandles, VwmaReady, AdxReady, AdrReady
  <2> QED
    BY <1>2, <2>1 DEF GreaterOf
<1>4. RsiSettled(s, t) /\ RsiSettled(s, t - 1) /\ AdrSettled(s, t) /\ AdrSettled(s, t - 1)
  BY <1>1, <1>2, <1>3 DEF RsiSettled, AdrSettled
<1>5. \A i \in 1..t : s[i].volume > 0
  BY CandlesAre DEF Lively
<1>6. VwmaSettled(s, t)
  <2>1. t - q + 1 \in (p + 1)..t /\ t \in (t - q + 1)..t /\ t \in 1..t /\ t \in (p + 1)..t
    BY <1>2, <1>3
  <2> QED
    BY <1>1, <1>5, <2>1 DEF VwmaSettled, RsiSettled
<1>7. VwmaSettled(s, t - 1)
  <2>1. /\ t - 1 - q + 1 \in (p + 1)..t /\ t - 1 \in (t - 1 - q + 1)..(t - 1)
        /\ t - 1 \in 1..t /\ t - 1 \in (p + 1)..t
    BY <1>2, <1>3
  <2> QED
    BY <1>1, <1>5, <2>1 DEF VwmaSettled, RsiSettled
<1>8. AdxSettled(s, t)
  <2>1. \A i \in 2..t : Moving(s, i)
    BY DEF Lively
  <2>2. ASSUME NEW i \in (a + 1)..t PROVE DxSettled(s, i)
    <3>1. i \in 2..t /\ 2 \in 2..i /\ 2 \in 2..t
      BY <1>2, <1>3
    <3> QED
      BY <1>1, <2>1, <3>1 DEF DxSettled
  <2>3. t \in (2 * a)..t
    BY <1>2, <1>3
  <2> QED
    BY <1>1, <2>2, <2>3 DEF AdxSettled
<1>9. LoopsAgree(s)
  BY LoopsAlwaysAgree
<1> QED
  BY <1>4, <1>6, <1>7, <1>8, <1>9 DEF LoopsAgree, Settled

\* A signal needs a movement in the first true ranges that compute_adx smooths.
LEMMA SignalNeedsStart ==
  ASSUME NEW s \in Seq(Candle), Signal(s)
  PROVE  /\ \A m \in 1..(Len(s) - 1) : s[m + 1].minute = s[m].minute + 1
         /\ AdxPeriod + 1 <= Len(s)
         /\ \E m \in 2..(AdxPeriod + 1) : TrueRange(s, m) > 0
<1>1. Contiguous(s) /\ Settled(s)
  BY LoopsAlwaysAgree DEF Signal, LoopsAgree
<1>2. PICK a \in Nat \ {0}, t \in Nat : a = AdxPeriod /\ t = Len(s)
  BY PeriodsAre, CandlesAre
<1>3. t \in (2 * a)..t /\ \A i \in (a + 1)..t : DxSettled(s, i)
  BY <1>1, <1>2 DEF Settled, AdxSettled
<1>4. a + 1 <= t /\ a + 1 \in (a + 1)..t
  BY <1>3
<1>5. DxSettled(s, a + 1)
  BY <1>3, <1>4
<1>6. \E m \in 2..(a + 1) : Moving(s, m)
  <2>1. a + 1 \in 2..(a + 1)
    OBVIOUS
  <2> QED
    BY <1>2, <1>5, <2>1 DEF DxSettled
<1> QED
  BY <1>1, <1>2, <1>4, <1>6 DEF Contiguous, Moving

-----------------------------------------------------------------------------
(* The invariant of the replay *)

Modes == {"RUNNING", "WITHDRAWAL_REQUESTED"}
Trade == [id : Ids, net : Int, mode : Modes]

\* The download is as it was, and nothing has begun, until the file is loaded;
\* from then on the rows are in order and do not change.
RowsInv ==
  IF stage = "loaded" THEN rows \in Seq(Row) /\ Ascending(rows) /\ index \in 0..Len(rows)
  ELSE PagesInv /\ pc = "idle" /\ index = 0 /\ opened = 0

\* A tick belongs to the candle that was shown last, and nothing raises.
CursorInv ==
  /\ index \in Nat /\ ticks \in 0..index
  /\ pc # "idle" => ticks < index
  /\ pc # "raised"

\* The rows up to n are without a gap and did not begin flat.
Sound(n) ==
  /\ \A m \in 1..(n - 1) : rows[m + 1].open = rows[m].open + 1
  /\ \E m \in 2..(AdxPeriod + 1) : TrueRange([j \in 1..n |-> CandleAt(j)], m) > 0

\* An order under way is for the candle that was shown last, and sound.
SoundOrder ==
  pc \in {"buying", "filled"} =>
    /\ order.candle = rows[index].open /\ Sound(index)
    /\ pc = "buying" => order.quote <= OrderQuote[Only]

\* Every position sold is a trade, or will be one when the tick ends.
Sold(list) == {list[n].id : n \in DOMAIN list}
TradesInv ==
  /\ lots \in [Ids -> Nat] /\ start \in Int
  /\ trades \in Seq(Trade) /\ exits \in Seq(Trade)
  /\ pc = "idle" => exits = <<>>
  /\ Sold(trades) \cup Sold(exits) = {i \in Ids : pos[i].state = "CLOSED"}
  /\ Len(trades) + Len(exits) + slots[Only] + report.opened[Only] - report.closed[Only] = opened

\* What the account will show when the report is applied.
Due == balance - report.invested[Only] + report.proceeds[Only]
LedgerInv == Due = start + NetOf(trades) + NetOf(exits) - Committed(Only)

\* The trades meet their targets, and so does the sale under way.
Met(list) == \A n \in DOMAIN list : list[n].net * Thousand >= TargetOf(list[n].id, list[n].mode)
TargetInv ==
  /\ Met(trades) /\ Met(exits)
  /\ pc = "selling" => Reached(First(todo))
  /\ pc = "sold" =>
       (order.fill - pos[First(todo)].invested) * Thousand >= TargetOf(First(todo), mode)

ReplayInv ==
  /\ IInv /\ CostInv
  /\ RowsInv /\ CursorInv /\ SoundOrder /\ EntersOnWholeHistory
  /\ TradesInv /\ LedgerInv /\ TargetInv

-----------------------------------------------------------------------------
(* What the rows show, and what a list of trades has earned *)

LEMMA TimesMonotone ==
  ASSUME NEW a \in Nat, NEW b \in Nat, a <= b, NEW c \in Nat
  PROVE  a * c \in Nat /\ b * c \in Nat /\ a * c <= b * c
<1>1. PICK d \in Nat : b = a + d
  <2>1. b - a \in Nat /\ b = a + (b - a)
    OBVIOUS
  <2> QED
    BY <2>1
<1>2. a * c \in Nat /\ d * c \in Nat
  OBVIOUS
<1>3. b * c = a * c + d * c
  BY <1>1
<1> QED
  BY <1>2, <1>3

LEMMA DivMonotone ==
  ASSUME NEW a \in Nat, NEW b \in Nat, a <= b
  PROVE  /\ a \div Thousand \in Nat /\ b \div Thousand \in Nat
         /\ a \div Thousand <= b \div Thousand
         /\ (a \div Thousand) * Thousand <= a
BY DEF Thousand

LEMMA CandleOfRow ==
  ASSUME RowsInv, stage = "loaded", NEW i \in 1..Len(rows)
  PROVE  /\ CandleAt(i) \in Candle /\ CandleAt(i).minute = rows[i].open
         /\ CandleAt(i).close \in Nat \ {0}
         /\ rows[i].open \in 0..Horizon /\ Horizon \in Nat
<1>1. rows[i] \in Row /\ rows[i].kind \in Kinds /\ rows[i].open \in 0..Horizon
  <2>1. rows[i] \in Row
    BY ElementOfSeq DEF RowsInv
  <2> QED
    BY <2>1 DEF Row
<1>2. PICK c : c = CandleOf[rows[i].kind]
  OBVIOUS
<1>3. c \in [open : Nat, high : Nat, low : Nat, close : Nat \ {0}, volume : Nat]
  BY <1>1, <1>2, BacktestAssumption
<1>4. /\ c.open \in Int /\ c.high \in Int /\ c.low \in Int /\ c.close \in Nat \ {0}
      /\ c.close \in Int /\ c.volume \in Nat
  BY <1>3
<1>5. rows[i].open \in Int /\ Horizon \in Nat
  BY <1>1, DownloadAssumption
<1>6. CandleAt(i) = [minute |-> rows[i].open, open |-> c.open, high |-> c.high, low |-> c.low,
                     close |-> c.close, volume |-> c.volume]
  BY <1>2 DEF CandleAt
<1> QED
  BY <1>1, <1>4, <1>5, <1>6 DEF Candle

LEMMA WindowIs ==
  ASSUME RowsInv, stage = "loaded"
  PROVE  /\ Window \in Seq(Candle) /\ Len(Window) = index
         /\ \A i \in 1..index : Window[i] = CandleAt(i) /\ i \in 1..Len(rows)
         /\ index \in Nat /\ index <= Len(rows) /\ Len(rows) \in Nat
<1>1. Len(rows) \in Nat /\ index \in 0..Len(rows)
  BY DEF RowsInv
<1>2. \A i \in 1..index : CandleAt(i) \in Candle
  BY <1>1, CandleOfRow
<1>3. Window \in Seq(Candle) /\ Len(Window) = index
  <2>1. Window = [i \in 1..index |-> CandleAt(i)]
    BY DEF Window
  <2> QED
    BY <1>1, <1>2, <2>1
<1> QED
  BY <1>1, <1>3 DEF Window

\* The prices of the simulated book.
LEMMA PricesAre ==
  ASSUME RowsInv, stage = "loaded", index > 0
  PROVE  Bid \in Nat /\ Ask \in Nat \ {0}
<1>1. PICK p \in Nat \ {0}, q \in Nat, r \in Nat :
        p = CandleAt(index).close /\ q = Thousand - Spread /\ r = Thousand + Spread /\ Thousand <= r
  <2>1. index \in 1..Len(rows)
    BY WindowIs
  <2>2. CandleAt(index).close \in Nat \ {0}
    BY <2>1, CandleOfRow
  <2>3. Spread \in 0..Thousand /\ Thousand \in Nat
    BY BacktestAssumption DEF Thousand
  <2>4. Thousand - Spread \in Nat /\ Thousand + Spread \in Nat /\ Thousand <= Thousand + Spread
    BY <2>3
  <2> QED
    BY <2>2, <2>4
<1>2. p * q \in Nat /\ p * r \in Nat
  OBVIOUS
<1>3. Thousand <= p * r
  <2>1. 1 <= p /\ 1 \in Nat
    OBVIOUS
  <2>2. 1 * r <= p * r
    BY <2>1, TimesMonotone
  <2> QED
    BY <1>1, <1>2, <2>2 DEF Thousand
<1>4. Bid = (p * q) \div Thousand /\ Ask = (p * r) \div Thousand
  BY <1>1 DEF Bid, Ask
<1>5. PICK b \in Nat, a \in Nat : b = p * q /\ a = p * r /\ Thousand <= a
  BY <1>2, <1>3
<1>6. b \div Thousand \in Nat /\ a \div Thousand \in Nat \ {0}
  BY <1>5 DEF Thousand
<1> QED
  BY <1>4, <1>5, <1>6

\* What a list of trades earned is an integer, and adds up.
LEMMA NetInt ==
  ASSUME NEW s \in Seq(Trade)
  PROVE  /\ NetOf(s) \in Int /\ NetOf(<<>>) = 0
         /\ NetOf(s) = SumOver([n \in 1..Len(s) |-> s[n].net], 1..Len(s))
         /\ \A n \in 1..Len(s) : s[n] \in Trade /\ s[n].net \in Int
<1>1. DOMAIN s = 1..Len(s) /\ Len(s) \in Nat /\ \A n \in 1..Len(s) : s[n] \in Trade
  BY ElementOfSeq
<1>2. \A n \in 1..Len(s) : s[n].net \in Int
  BY <1>1 DEF Trade
<1>3. IsFiniteSet(1..Len(s))
  BY <1>1, FS_Interval
<1>4. NetOf(s) = SumOver([n \in 1..Len(s) |-> s[n].net], 1..Len(s))
  BY <1>1 DEF NetOf
<1>5. NetOf(s) \in Int
  BY <1>2, <1>3, <1>4, SumInt
<1>6. NetOf(<<>>) = 0
  <2>1. DOMAIN <<>> = {}
    OBVIOUS
  <2>2. SumOver([n \in {} |-> <<>>[n].net], {}) = 0
    BY SumUnfold, FS_EmptySet
  <2> QED
    BY <2>1, <2>2 DEF NetOf
<1> QED
  BY <1>1, <1>2, <1>4, <1>5, <1>6

LEMMA NetOfConcat ==
  ASSUME NEW s \in Seq(Trade), NEW t \in Seq(Trade)
  PROVE  s \o t \in Seq(Trade) /\ NetOf(s \o t) = NetOf(s) + NetOf(t)
<1> DEFINE u == s \o t
           f == [n \in 1..Len(u) |-> u[n].net]
           fs == [n \in 1..Len(s) |-> s[n].net]
           ft == [n \in 1..Len(t) |-> t[n].net]
<1>1. PICK m \in Nat, k \in Nat : m = Len(s) /\ k = Len(t)
  OBVIOUS
<1>2. /\ u \in Seq(Trade) /\ Len(u) = m + k
      /\ \A n \in 1..m : u[n] = s[n]
      /\ \A n \in 1..k : u[m + n] = t[n]
  BY <1>1, ConcatProperties
<1>3. /\ NetOf(u) = SumOver(f, 1..(m + k)) /\ NetOf(s) = SumOver(fs, 1..m)
      /\ NetOf(t) = SumOver(ft, 1..k)
      /\ \A n \in 1..(m + k) : f[n] \in Int
      /\ \A n \in 1..m : f[n] = fs[n] /\ fs[n] \in Int
      /\ \A n \in 1..k : f[m + n] = ft[n] /\ ft[n] \in Int
  <2>1. /\ \A n \in 1..(m + k) : u[n].net \in Int
        /\ NetOf(u) = SumOver(f, 1..(m + k))
    BY <1>2, NetInt
  <2>2. /\ \A n \in 1..m : s[n].net \in Int
        /\ NetOf(s) = SumOver(fs, 1..m)
    BY <1>1, NetInt
  <2>3. /\ \A n \in 1..k : t[n].net \in Int
        /\ NetOf(t) = SumOver(ft, 1..k)
    BY <1>1, NetInt
  <2>4. \A n \in 1..m : n \in 1..(m + k)
    OBVIOUS
  <2>5. \A n \in 1..k : m + n \in 1..(m + k)
    OBVIOUS
  <2> HIDE DEF u
  <2> QED
    BY <1>1, <1>2, <2>1, <2>2, <2>3, <2>4, <2>5
<1> HIDE DEF u, f, fs, ft
<1> DEFINE S == {i \in 0..k : SumOver(f, 1..(m + i)) = SumOver(f, 1..m) + SumOver(ft, 1..i)}
<1>4. SumOver(f, 1..m) = SumOver(fs, 1..m) /\ SumOver(f, 1..m) \in Int
  <2>1. IsFiniteSet(1..m)
    BY FS_Interval
  <2>2. SumOver(f, 1..m) = SumOver(fs, 1..m)
    BY <1>3, <2>1, SumSame
  <2>3. SumOver(fs, 1..m) \in Int
    BY <1>3, <2>1, SumInt
  <2> QED
    BY <2>2, <2>3
<1>5. 0 \in S
  <2>1. SumOver(ft, 1..0) = 0
    <3>1. SumOver(ft, {}) = 0
      BY SumUnfold, FS_EmptySet
    <3>2. 1..0 = {}
      OBVIOUS
    <3> QED
      BY <3>1, <3>2
  <2>2. 1..(m + 0) = 1..m
    OBVIOUS
  <2> QED
    BY <1>4, <2>1, <2>2
<1>6. ASSUME NEW i \in 0..k, i > 0 /\ i - 1 \in S PROVE i \in S
  <2>1. i \in 1..k /\ m + i \in 1..(m + k) /\ (m + i) - 1 = m + (i - 1) /\ m + k \in Nat
    <3> HIDE DEF S
    <3> QED
      BY <1>6
  <2>2. SumOver(f, 1..(m + (i - 1))) = SumOver(f, 1..m) + SumOver(ft, 1..(i - 1))
    BY <1>6
  <2>3. SumOver(f, 1..(m + i)) = SumOver(f, 1..(m + (i - 1))) + f[m + i]
    BY <1>3, <2>1, SumUpTo
  <2>4. SumOver(ft, 1..i) = SumOver(ft, 1..(i - 1)) + ft[i] /\ SumOver(ft, 1..(i - 1)) \in Int
    BY <1>3, <2>1, SumUpTo
  <2>5. f[m + i] = ft[i] /\ ft[i] \in Int
    BY <1>3, <2>1
  <2>6. SumOver(f, 1..(m + i)) = SumOver(f, 1..m) + SumOver(ft, 1..i)
    BY <1>4, <2>2, <2>3, <2>4, <2>5
  <2> QED
    BY <2>6
<1>7. k \in S
  <2>1. k \in 0..k /\ 0 \in Int /\ k \in Int
    OBVIOUS
  <2> HIDE DEF S
  <2>2. \A i \in 0..k : i \in S
    BY <1>5, <1>6, <2>1, IntervalInduction
  <2> QED
    BY <2>1, <2>2
<1>8. SumOver(f, 1..(m + k)) = SumOver(f, 1..m) + SumOver(ft, 1..k)
  BY <1>7
<1> QED
  BY <1>2, <1>3, <1>4, <1>8 DEF u

LEMMA NetOfAppend ==
  ASSUME NEW s \in Seq(Trade), NEW e \in Trade
  PROVE  Append(s, e) \in Seq(Trade) /\ NetOf(Append(s, e)) = NetOf(s) + e.net
<1>1. <<e>> \in Seq(Trade) /\ Append(s, e) = s \o <<e>>
  OBVIOUS
<1>2. NetOf(<<e>>) = e.net
  <2>1. Len(<<e>>) = 1 /\ <<e>>[1] = e /\ e.net \in Int
    BY DEF Trade
  <2> DEFINE f == [n \in 1..1 |-> <<e>>[n].net]
  <2>2. NetOf(<<e>>) = SumOver(f, 1..1)
    BY <1>1, <2>1, NetInt
  <2>3. f[1] = e.net
    BY <2>1
  <2>4. \A x \in 1..1 : f[x] \in Int
    BY <2>1, <2>3
  <2> HIDE DEF f
  <2>5. SumOver(f, 1..1) = SumOver(f, 1..(1 - 1)) + f[1]
    <3>1. PICK k \in Nat : k = 1 /\ 1 \in 1..k
      OBVIOUS
    <3>2. \A x \in 1..k : f[x] \in Int
      BY <2>4, <3>1
    <3>3. SumOver(f, 1..1) = SumOver(f, 1..(1 - 1)) + f[1]
      BY <3>1, <3>2, SumUpTo
    <3> QED
      BY <3>3
  <2>6. SumOver(f, {}) = 0
    BY SumUnfold, FS_EmptySet
  <2>7. 1..(1 - 1) = {}
    OBVIOUS
  <2> QED
    BY <2>1, <2>2, <2>3, <2>5, <2>6, <2>7
<1>3. NetOf(s \o <<e>>) = NetOf(s) + NetOf(<<e>>) /\ s \o <<e>> \in Seq(Trade)
  BY <1>1, NetOfConcat
<1> QED
  BY <1>1, <1>2, <1>3

-----------------------------------------------------------------------------
(* The replay takes the steps of the service *)

LEMMA CoinsAre == Coins = {Only} /\ Only \in Coins
BY BacktestAssumption DEF Coins, Only

\* The commission on an order is at most MaxFee.
LEMMA BuyCost ==
  ASSUME IInv, SoundOrder, pc = "buying"
  PROVE  order.quote + (order.quote * Fee) \div Thousand \in 1..(order.quote + MaxFee)
<1>1. PICK q \in Nat, m \in Nat, f \in Nat, x \in Nat :
        q = order.quote /\ m = OrderQuote[Only] /\ f = Fee /\ x = MaxFee /\ 0 < q /\ q <= m
  <2>1. order.quote \in Nat /\ 0 < order.quote
    BY DEF IInv, TypeOK, Order, OrderInv
  <2>2. OrderQuote[Only] \in Nat /\ MaxFee \in Nat
    BY CoinsAre, CoinAssumption, SizesAssumption
  <2>3. Fee \in Nat
    BY BacktestAssumption DEF Thousand
  <2>4. order.quote <= OrderQuote[Only]
    BY DEF SoundOrder
  <2> QED
    BY <2>1, <2>2, <2>3, <2>4
<1>2. (m * f) \div Thousand <= x
  BY <1>1, BacktestAssumption
<1>3. q * f \in Nat /\ m * f \in Nat /\ q * f <= m * f
  BY <1>1, TimesMonotone
<1>4. (q * f) \div Thousand \in Nat /\ (q * f) \div Thousand <= (m * f) \div Thousand
      /\ (m * f) \div Thousand \in Nat
  BY <1>3, DivMonotone
<1>5. PICK a \in Nat, b \in Nat : a = (q * f) \div Thousand /\ b = (m * f) \div Thousand
  BY <1>4
<1>6. q + a \in 1..(q + x)
  BY <1>1, <1>2, <1>4, <1>5
<1> QED
  BY <1>1, <1>5, <1>6

\* PaperExecution.market_sell: what is left after the fee.
LEMMA SellProceeds ==
  ASSUME NEW gross \in Nat
  PROVE  LET net == gross - (gross * Fee) \div Thousand
         IN net \in Nat /\ gross * Thousand - gross * Fee <= net * Thousand
<1>1. PICK f \in Nat : f = Fee /\ f <= Thousand /\ Thousand \in Nat
  BY BacktestAssumption DEF Thousand
<1>2. f * gross \in Nat /\ f * gross <= Thousand * gross
  BY <1>1, TimesMonotone
<1>3. f * gross = gross * f
  BY <1>1
<1>4. PICK p \in Nat : p = gross * f /\ p <= 1000 * gross
  BY <1>2, <1>3 DEF Thousand
<1>5. /\ p \div 1000 \in Nat /\ p \div 1000 <= gross
      /\ (p \div 1000) * 1000 <= p
  BY <1>4
<1>6. PICK d \in Nat : d = p \div 1000 /\ d <= gross /\ d * 1000 <= p
  BY <1>5
<1>7. gross - d \in Nat /\ gross * 1000 - p <= (gross - d) * 1000
  BY <1>4, <1>6
<1> QED
  BY <1>1, <1>4, <1>6, <1>7 DEF Thousand

LEMMA StepIsAny ==
  ASSUME IInv, RowsInv, CursorInv, SoundOrder, TradesInv, [BacktestNext]_allVars
  PROVE  [AnyNext]_vars
<1>0. pc # "idle" => stage = "loaded" /\ index > 0
  BY DEF RowsInv, CursorInv
<1>1. CASE DownloadNext /\ UNCHANGED <<vars, replayVars>>
  BY <1>1
<1>2. CASE LoadFile
  BY <1>2 DEF LoadFile
<1>3. CASE NextCandle
  <2>1. index + 1 \in 1..Len(rows)
    BY <1>3 DEF NextCandle, Replaying, RowsInv
  <2>2. rows[index + 1].open + 1 \in Nat
    <3>1. rows[index + 1].open \in 0..Horizon /\ Horizon \in Nat
      BY <1>3, <2>1, CandleOfRow DEF NextCandle, Replaying
    <3> QED
      BY <3>1
  <2>3. mode' \in {"RUNNING", "WITHDRAWAL_REQUESTED"}
    BY <1>3 DEF NextCandle, IInv, TypeOK
  <2>4. Outside
    BY <1>3, <2>2, <2>3 DEF NextCandle, Outside
  <2> QED
    BY <2>4 DEF AnyNext
<1>4. CASE BeginTick
  <2>1. Permissive \in Status
    BY DEF Permissive, Status
  <2>2. StartTick(TRUE, Permissive, balance) /\ balance \in Int
    BY <1>4 DEF BeginTick, IInv, TypeOK
  <2> QED
    BY <2>1, <2>2 DEF AnyNext
<1>5. CASE Enter
  <2>1. CASE Buys
    <3>1. DecideBuy(rows[index].open) /\ pc = "entries"
      BY <1>5, <2>1 DEF Enter, DecideBuy
    <3>2. index \in 1..Len(rows) /\ stage = "loaded"
      BY <1>0, <3>1 DEF RowsInv, CursorInv
    <3>3. rows[index].open \in Candles
      <4>1. rows[index].open \in 0..Horizon /\ Horizon \in Nat
        BY <3>2, CandleOfRow
      <4>2. Horizon <= MaxMinute /\ MaxMinute \in Nat
        BY BacktestAssumption, SizesAssumption
      <4> QED
        BY <4>1, <4>2 DEF Candles
    <3>4. \E k \in Candles : DecideBuy(k)
      BY <3>1, <3>3
    <3> QED
      BY <3>4 DEF AnyNext, TickStep
  <2>2. CASE ~Buys
    BY <1>5, <2>2 DEF Enter, AnyNext, TickStep
  <2> QED
    BY <2>1, <2>2
<1>6. CASE BacktestBuy
  <2>1. PICK cost \in 1..(order.quote + MaxFee) : ExecuteBuy(cost)
    <3>1. pc = "buying" /\ ExecuteBuy(order.quote + (order.quote * Fee) \div Thousand)
      BY <1>6 DEF BacktestBuy, ExecuteBuy
    <3> QED
      BY <3>1, BuyCost
  <2> QED
    BY <2>1 DEF AnyNext, TickStep
<1>7. CASE LookAtExits
  <2>1. Overbought(Window) \in BOOLEAN
    BY DEF Overbought
  <2>2. FetchExits(Overbought(Window))
    BY <1>7 DEF LookAtExits
  <2> QED
    BY <2>1, <2>2 DEF AnyNext, TickStep
<1>8. CASE TryExit
  <2>1. Reached(First(todo)) \in BOOLEAN
    BY DEF Reached
  <2>2. DecideExit(Reached(First(todo)))
    BY <1>8 DEF TryExit
  <2> QED
    BY <2>1, <2>2 DEF AnyNext, TickStep
<1>9. CASE BacktestSell
  <2>1. pc = "selling" /\ First(todo) \in Ids
    BY <1>9, FirstIn DEF BacktestSell, IInv, SellsOpenPosition, TypeOK
  <2>2. lots[First(todo)] \in Nat /\ Bid \in Nat
    BY <1>0, <2>1, PricesAre DEF TradesInv
  <2>3. lots[First(todo)] * Bid \in Nat
    BY <2>2
  <2>4. \E proceeds \in Nat : ExecuteSell(proceeds)
    BY <1>9, <2>3, SellProceeds DEF BacktestSell
  <2> QED
    BY <2>4 DEF AnyNext
<1>10. CASE BacktestClose
  BY <1>10 DEF BacktestClose, AnyNext, TickStep
<1>11. CASE Inner
  BY <1>11 DEF Inner, AnyNext, TickStep
<1>12. CASE EndTick
  <2>1. balance - report.invested[Only] + report.proceeds[Only] \in Int
    BY CoinsAre DEF IInv, TypeOK, Report
  <2>2. FinishTick(balance - report.invested[Only] + report.proceeds[Only])
    BY <1>12 DEF EndTick, Ending
  <2> QED
    BY <2>1, <2>2 DEF AnyNext
<1>13. CASE UNCHANGED allVars
  BY <1>13 DEF allVars
<1> QED
  BY <1>1, <1>2, <1>3, <1>4, <1>5, <1>6, <1>7, <1>8, <1>9, <1>10, <1>11, <1>12, <1>13
     DEF BacktestNext, Replay

-----------------------------------------------------------------------------
(* The invariant is inductive *)

LEMMA SoundStays ==
  ASSUME UNCHANGED rows, NEW n
  PROVE  Sound(n)' = Sound(n)
BY DEF Sound, CandleAt

\* A position that was sold is one that was opened, and stays sold.
LEMMA TradesAre ==
  ASSUME IInv, TradesInv, NEW list, list = trades \/ list = exits
  PROVE  /\ Len(list) \in Nat /\ DOMAIN list = 1..Len(list) /\ list \in Seq(Trade)
         /\ \A n \in DOMAIN list :
              /\ list[n].id \in Ids /\ list[n].net \in Int /\ list[n].mode \in Modes
              /\ pos[list[n].id].state = "CLOSED" /\ list[n].id <= opened
<1>1. list \in Seq(Trade) /\ Len(list) \in Nat /\ DOMAIN list = 1..Len(list)
  BY DEF TradesInv
<1>2. \A n \in DOMAIN list : list[n] \in Trade
  BY <1>1, ElementOfSeq
<1>3. \A n \in DOMAIN list : pos[list[n].id].state = "CLOSED"
  <2> SUFFICES ASSUME NEW n \in DOMAIN list PROVE pos[list[n].id].state = "CLOSED"
    OBVIOUS
  <2>1. list[n].id \in Sold(trades) \cup Sold(exits)
    BY DEF Sold
  <2> QED
    BY <2>1 DEF TradesInv
<1>4. \A i \in Ids : pos[i].state = "CLOSED" => i <= opened
  <2> SUFFICES ASSUME NEW i \in Ids, ~(i <= opened) PROVE pos[i].state # "CLOSED"
    OBVIOUS
  <2>1. i > opened
    BY SizesAssumption DEF Ids, IInv, TypeOK
  <2>2. pos[i] = NoPosition
    BY <2>1 DEF IInv, NumberedInv
  <2> QED
    BY <2>2 DEF NoPosition
<1> QED
  BY <1>1, <1>2, <1>3, <1>4 DEF Trade

\* Trades go on meeting their targets while what was paid for them stays.
LEMMA MetStays ==
  ASSUME IInv, TradesInv, NEW list, list = trades \/ list = exits, Met(list),
         \A i \in Ids : pos[i].state = "CLOSED" => pos'[i].invested = pos[i].invested
  PROVE  \A n \in DOMAIN list : list[n].net * Thousand >= TargetOf(list[n].id, list[n].mode)'
<1> SUFFICES ASSUME NEW n \in DOMAIN list
             PROVE  list[n].net * Thousand >= TargetOf(list[n].id, list[n].mode)'
  OBVIOUS
<1>1. PICK e : e = list[n]
  OBVIOUS
<1>2. pos'[e.id].invested = pos[e.id].invested
  BY <1>1, TradesAre
<1>3. TargetOf(e.id, e.mode)' = TargetOf(e.id, e.mode)
  BY <1>2 DEF TargetOf
<1> QED
  BY <1>1, <1>3 DEF Met

\* Steps that keep the positions, but for arming, and the figures.
Quiet ==
  /\ rows' = rows \/ opened = 0
  /\ UNCHANGED <<opened, slots, used, balance, report, exits, trades, start>>
  /\ lots' \in [Ids -> Nat]
  /\ \A i \in Ids : /\ pos'[i].invested = pos[i].invested /\ pos'[i].candle = pos[i].candle
                    /\ (pos'[i].state = "CLOSED") = (pos[i].state = "CLOSED")
  /\ pc' = "idle" => exits = <<>>

LEMMA QuietStep ==
  ASSUME ReplayInv, Quiet
  PROVE  TradesInv' /\ LedgerInv' /\ Met(trades)' /\ Met(exits)' /\ EntersOnWholeHistory'
<1>1. TradesInv'
  <2>1. {i \in Ids : pos'[i].state = "CLOSED"} = {i \in Ids : pos[i].state = "CLOSED"}
    BY DEF Quiet
  <2>2. Sold(trades)' = Sold(trades) /\ Sold(exits)' = Sold(exits)
    BY DEF Quiet, Sold
  <2>3. UNCHANGED <<slots, report, opened, trades, exits, start>> /\ lots' \in [Ids -> Nat]
        /\ (pc' = "idle" => exits = <<>>)
    BY DEF Quiet
  <2>4. TradesInv
    BY DEF ReplayInv
  <2> QED
    BY <2>1, <2>2, <2>3, <2>4 DEF TradesInv
<1>2. LedgerInv'
  BY DEF Quiet, ReplayInv, LedgerInv, Due, NetOf, Committed
<1>3. Met(trades)' /\ Met(exits)'
  BY MetStays DEF Quiet, ReplayInv, TargetInv, Met
<1>4. EntersOnWholeHistory'
  <2>0. CASE opened = 0
    BY <2>0 DEF Quiet, EntersOnWholeHistory
  <2>1. ASSUME rows' = rows, NEW i \in 1..opened, NEW n \in DOMAIN rows,
               rows[n].open = pos'[i].candle
        PROVE  Sound(n)'
    <3>1. i \in Ids
      BY SizesAssumption DEF ReplayInv, IInv, TypeOK, Ids
    <3>2. rows[n].open = pos[i].candle
      BY <2>1, <3>1 DEF Quiet
    <3>3. Sound(n)
      BY <3>2 DEF ReplayInv, EntersOnWholeHistory, Sound
    <3> QED
      BY <2>1, <3>3, SoundStays
  <2>2. CASE rows' = rows
    <3>1. opened' = opened
      BY DEF Quiet
    <3> QED
      BY <2>1, <2>2, <3>1 DEF EntersOnWholeHistory, Sound
  <2> QED
    BY <2>0, <2>2 DEF Quiet
<1> QED
  BY <1>1, <1>2, <1>3, <1>4

\* What the service promises is kept by every step.
LEMMA ServiceStep ==
  ASSUME ReplayInv, [BacktestNext]_allVars
  PROVE  IInv' /\ CostInv'
BY StepIsAny, InvNext, CostNext DEF ReplayInv

LEMMA ReplayInit == BacktestInit => ReplayInv
<1> SUFFICES ASSUME BacktestInit PROVE ReplayInv
  OBVIOUS
<1>1. IInv /\ CostInv
  BY InvInit, CostInit DEF BacktestInit
<1>2. RowsInv /\ CursorInv
  BY PagesInit DEF BacktestInit, DownloadInit, Init, RowsInv, CursorInv
<1>3. opened = 0 /\ pc = "idle" /\ report = NoReport /\ exits = <<>> /\ trades = <<>>
  BY DEF BacktestInit, Init
<1>4. SoundOrder /\ EntersOnWholeHistory
  BY <1>3 DEF SoundOrder, EntersOnWholeHistory
<1>5. balance \in Int
  BY <1>1 DEF IInv, TypeOK
<1>6. TradesInv
  <2>1. <<>> \in Seq(Trade) /\ Len(<<>>) = 0 /\ Sold(<<>>) = {}
    BY DEF Sold
  <2>2. {i \in Ids : pos[i].state = "CLOSED"} = {}
    BY DEF BacktestInit, Init, NoPosition
  <2>3. slots[Only] = 0 /\ report.opened[Only] = 0 /\ report.closed[Only] = 0
    BY CoinsAre DEF BacktestInit, Init, NoReport
  <2>4. lots \in [Ids -> Nat] /\ start \in Int
    BY <1>5 DEF BacktestInit
  <2> QED
    BY <1>3, <2>1, <2>2, <2>3, <2>4 DEF TradesInv
<1>7. LedgerInv
  <2>1. <<>> \in Seq(Trade)
    OBVIOUS
  <2>2. NetOf(<<>>) = 0
    BY <2>1, NetInt
  <2>3. Committed(Only) = 0 /\ Due = balance /\ start = balance
    BY <1>5, CoinsAre DEF BacktestInit, Init, NoReport, Committed, Due
  <2> QED
    BY <1>3, <1>5, <2>2, <2>3 DEF LedgerInv
<1>8. TargetInv
  BY <1>3 DEF TargetInv, Met
<1> QED
  BY <1>1, <1>2, <1>4, <1>6, <1>7, <1>8 DEF ReplayInv

\* What is left to show of such a step.
LEMMA FrameStep ==
  ASSUME ReplayInv, [BacktestNext]_allVars, Quiet, RowsInv', CursorInv', SoundOrder',
         pc' = "selling" => Reached(First(todo))',
         pc' = "sold" =>
           (order'.fill - pos'[First(todo')].invested) * Thousand >= TargetOf(First(todo), mode)'
  PROVE  ReplayInv'
<1>1. IInv' /\ CostInv'
  BY ServiceStep
<1>2. TradesInv' /\ LedgerInv' /\ Met(trades)' /\ Met(exits)' /\ EntersOnWholeHistory'
  BY QuietStep
<1>3. TargetInv'
  BY <1>2 DEF TargetInv, First
<1> QED
  BY <1>1, <1>2, <1>3 DEF ReplayInv

\* A step inside a tick.
LEMMA InTick ==
  ASSUME ReplayInv, pc # "idle", pc' # "raised",
         UNCHANGED <<downloadVars, index, ticks>>
  PROVE  /\ stage = "loaded" /\ index \in 1..Len(rows)
         /\ UNCHANGED <<stage, rows>>
         /\ RowsInv' /\ CursorInv'
<1>1. stage = "loaded" /\ index \in 1..Len(rows)
  BY DEF ReplayInv, RowsInv, CursorInv
<1>2. UNCHANGED <<stage, rows>>
  BY DEF downloadVars, pageVars
<1>3. RowsInv'
  BY <1>1, <1>2 DEF ReplayInv, RowsInv, Ascending
<1>4. CursorInv'
  BY DEF ReplayInv, CursorInv
<1> QED
  BY <1>1, <1>2, <1>3, <1>4

LEMMA ReplayDownload ==
  ASSUME ReplayInv, DownloadNext, UNCHANGED <<vars, replayVars>>
  PROVE  ReplayInv'
<1>1. stage \in {"fetching", "sorting"}
  BY DEF DownloadNext, Download, FetchBatch, Request, WriteRows, FetchFails, MinuteTurns
<1>2. PagesInv /\ pc = "idle" /\ index = 0 /\ opened = 0
  BY <1>1 DEF ReplayInv, RowsInv
<1>3. UNCHANGED <<opened, slots, used, balance, report, exits, trades, start, lots, pos, pc,
                  index, ticks>>
  BY DEF vars, service, account, frame, replayVars
<1>4. RowsInv'
  <2>1. PagesInv'
    BY <1>2, PagesNext
  <2>2. stage' # "loaded"
    BY <2>1 DEF PagesInv
  <2> QED
    BY <1>2, <1>3, <2>1, <2>2 DEF RowsInv
<1>5. Quiet
  BY <1>2, <1>3 DEF Quiet, ReplayInv, TradesInv
<1>6. CursorInv' /\ SoundOrder'
  BY <1>2, <1>3 DEF ReplayInv, CursorInv, SoundOrder
<1> QED
  BY <1>2, <1>3, <1>4, <1>5, <1>6, FrameStep DEF BacktestNext

LEMMA ReplayLoadFile == ASSUME ReplayInv, LoadFile PROVE ReplayInv'
<1>1. /\ stage = "written" /\ stage' = "loaded"
      /\ UNCHANGED <<vars, rows, replayVars>>
  BY DEF LoadFile
<1>2. PagesInv /\ pc = "idle" /\ index = 0 /\ opened = 0
  BY <1>1 DEF ReplayInv, RowsInv
<1>3. UNCHANGED <<opened, slots, used, balance, report, exits, trades, start, lots, pos, pc,
                  index, ticks>>
  BY <1>1 DEF vars, service, account, frame, replayVars
<1>4. RowsInv'
  <2>1. PICK n \in Nat : At(n)
    BY <1>2 DEF PagesInv
  <2>2. rows \in Seq(Row) /\ Ascending(rows) /\ Len(rows) \in Nat
    BY <1>1, <1>2, <2>1, CollectedInOrder DEF PagesInv
  <2>3. rows' = rows /\ index' = 0
    BY <1>1, <1>2, <1>3
  <2> QED
    BY <1>1, <2>2, <2>3 DEF RowsInv, Ascending
<1>5. Quiet
  BY <1>2, <1>3 DEF Quiet, ReplayInv, TradesInv
<1>6. CursorInv' /\ SoundOrder'
  BY <1>2, <1>3 DEF ReplayInv, CursorInv, SoundOrder
<1> QED
  BY <1>2, <1>3, <1>4, <1>5, <1>6, FrameStep DEF BacktestNext, Replay

LEMMA ReplayNextCandle == ASSUME ReplayInv, NextCandle PROVE ReplayInv'
<1>1. /\ stage = "loaded" /\ pc = "idle" /\ ticks = index /\ index < Len(rows)
      /\ index' = index + 1
      /\ UNCHANGED <<guard, pos, opened, held, account, frame, downloadVars, ticks, lots, exits,
                     trades, start>>
  BY DEF NextCandle, Replaying
<1>2. UNCHANGED <<stage, rows, slots, used, balance, report, pc>>
  BY <1>1 DEF downloadVars, pageVars, account, frame
<1>3. index \in Nat /\ index + 1 \in 0..Len(rows)
  BY <1>1 DEF ReplayInv, RowsInv
<1>4. RowsInv'
  BY <1>1, <1>2, <1>3 DEF ReplayInv, RowsInv, Ascending
<1>5. Quiet
  BY <1>1, <1>2 DEF Quiet, ReplayInv, TradesInv
<1>6. CursorInv' /\ SoundOrder'
  BY <1>1, <1>2, <1>3 DEF ReplayInv, CursorInv, SoundOrder
<1> QED
  BY <1>1, <1>2, <1>4, <1>5, <1>6, FrameStep DEF BacktestNext, Replay

LEMMA ReplayBeginTick == ASSUME ReplayInv, BeginTick PROVE ReplayInv'
<1>1. /\ stage = "loaded" /\ pc = "idle" /\ ticks < index
      /\ pc' \in {"entries", "exits"} /\ balance' = balance
      /\ UNCHANGED <<service, slots, used, report, downloadVars, replayVars>>
  BY DEF BeginTick, Replaying, StartTick
<1>2. UNCHANGED <<stage, rows, pos, opened, index, ticks, lots, exits, trades, start>>
  BY <1>1 DEF downloadVars, pageVars, service, replayVars
<1>3. RowsInv' /\ CursorInv' /\ SoundOrder'
  BY <1>1, <1>2 DEF ReplayInv, RowsInv, CursorInv, SoundOrder, Ascending
<1>4. Quiet
  BY <1>1, <1>2 DEF Quiet, ReplayInv, TradesInv
<1> QED
  BY <1>1, <1>3, <1>4, FrameStep DEF BacktestNext, Replay

LEMMA ReplayEnter == ASSUME ReplayInv, Enter PROVE ReplayInv'
<1>1. pc = "entries" /\ UNCHANGED <<downloadVars, replayVars>>
  BY DEF Enter, DecideBuy, SkipEntry
<1>2. UNCHANGED <<index, ticks, lots, exits, trades, start>>
  BY <1>1 DEF replayVars
<1>3. UNCHANGED <<service, account, report>> /\ pc' \in {"entries", "buying"}
  BY <1>1 DEF Enter, DecideBuy, SkipEntry
<1>4. UNCHANGED <<pos, opened, slots, used, balance>>
  BY <1>3 DEF service, account
<1>5. stage = "loaded" /\ index \in 1..Len(rows) /\ RowsInv' /\ CursorInv' /\ UNCHANGED rows
  BY <1>1, <1>2, <1>3, InTick
<1>6. Quiet
  BY <1>1, <1>2, <1>3, <1>4, <1>5 DEF Quiet, ReplayInv, TradesInv
<1>7. SoundOrder'
  <2>1. CASE pc' = "entries"
    BY <2>1 DEF SoundOrder
  <2>2. CASE pc' = "buying"
    <3>1. Buys /\ DecideBuy(rows[index].open)
      BY <2>2, <1>1 DEF Enter, SkipEntry
    <3>2. Sound(index)
      <4>1. Signal(Window) /\ Window \in Seq(Candle) /\ Len(Window) = index /\ index \in Nat
        BY <1>5, <3>1, WindowIs DEF Buys, ReplayInv
      <4>2. /\ \A m \in 1..(index - 1) : Window[m + 1].minute = Window[m].minute + 1
            /\ \E m \in 2..(AdxPeriod + 1) : TrueRange(Window, m) > 0
        BY <4>1, SignalNeedsStart
      <4>3. \A i \in 1..index : Window[i].minute = rows[i].open
        BY <1>5, WindowIs, CandleOfRow DEF ReplayInv
      <4>4. \A m \in 1..(index - 1) : m \in 1..index /\ m + 1 \in 1..index
        BY <4>1
      <4>5. \A m \in 1..(index - 1) : rows[m + 1].open = rows[m].open + 1
        BY <4>2, <4>3, <4>4
      <4> QED
        BY <4>2, <4>5 DEF Sound, Window
    <3>3. order'.candle = rows[index].open /\ order'.quote = OrderSize(coin)
      BY <3>1 DEF DecideBuy, NoOrder
    <3>4. OrderSize(coin) <= OrderQuote[Only]
      <4>1. coin = Only /\ coin \in Coins
        BY <3>1, CoinsAre DEF DecideBuy
      <4>2. OrderQuote[Only] \in Nat /\ CapitalLimit[Only] \in Int /\ used[Only] \in Int
        BY CoinsAre, CoinAssumption DEF ReplayInv, IInv, TypeOK
      <4> QED
        BY <4>1, <4>2 DEF OrderSize, Lesser
    <3>5. Sound(index)'
      <4>1. Sound(index)' = Sound(index)
        BY <1>2, <1>5 DEF Sound, CandleAt
      <4> QED
        BY <3>2, <4>1
    <3> QED
      BY <1>2, <1>5, <2>2, <3>3, <3>4, <3>5 DEF SoundOrder
  <2> QED
    BY <1>3, <2>1, <2>2
<1> QED
  BY <1>3, <1>5, <1>6, <1>7, FrameStep DEF BacktestNext, Replay

LEMMA ReplayBuy == ASSUME ReplayInv, BacktestBuy PROVE ReplayInv'
<1>1. /\ pc = "buying" /\ pc' = "filled" /\ order'.candle = order.candle
      /\ UNCHANGED <<service, account, report, downloadVars, index, ticks, exits, trades, start>>
      /\ lots' = [lots EXCEPT ![opened + 1] = order.quote \div Ask]
  <2>1. order \in Order
    BY DEF ReplayInv, IInv, TypeOK
  <2> QED
    BY <2>1 DEF BacktestBuy, ExecuteBuy, Order
<1>2. UNCHANGED <<pos, opened, slots, used, balance>>
  BY <1>1 DEF service, account
<1>3. stage = "loaded" /\ index \in 1..Len(rows) /\ RowsInv' /\ CursorInv' /\ UNCHANGED rows
  BY <1>1, InTick
<1>4. order.quote \div Ask \in Nat
  <2>1. Ask \in Nat \ {0}
    BY <1>3, PricesAre DEF ReplayInv
  <2>2. order.quote \in Nat
    BY DEF ReplayInv, IInv, TypeOK, Order
  <2>3. PICK q \in Nat, a \in Nat \ {0} : q = order.quote /\ a = Ask
    BY <2>1, <2>2
  <2>4. q \div a \in Nat
    OBVIOUS
  <2> QED
    BY <2>3, <2>4
<1>5. lots' \in [Ids -> Nat]
  BY <1>1, <1>4 DEF ReplayInv, TradesInv
<1>6. Quiet
  BY <1>1, <1>2, <1>3, <1>5 DEF Quiet
<1>7. SoundOrder'
  <2>1. Sound(index)' = Sound(index)
    BY <1>1, <1>3 DEF Sound, CandleAt
  <2> QED
    BY <1>1, <1>3, <2>1 DEF ReplayInv, SoundOrder
<1> QED
  BY <1>1, <1>3, <1>6, <1>7, FrameStep DEF BacktestNext, Replay

\* The cursor moves, the candles of the exits are fetched, the list is put back.
LEMMA ReplayAdvance ==
  ASSUME ReplayInv, LookAtExits \/ (Inner /\ ~OpenPosition)
  PROVE  ReplayInv'
<1>1. /\ pc # "idle" /\ pc' \in {"exits", "exiting"}
      /\ UNCHANGED <<pos, opened, account, report, downloadVars, replayVars>>
  BY DEF LookAtExits, FetchExits, Inner, EndEntries, SkipExits, KeepStillOpen, service
<1>2. UNCHANGED <<index, ticks, lots, exits, trades, start, slots, used, balance>>
  BY <1>1 DEF replayVars, account
<1>3. stage = "loaded" /\ RowsInv' /\ CursorInv' /\ UNCHANGED rows
  BY <1>1, <1>2, InTick
<1>4. Quiet
  BY <1>1, <1>2, <1>3 DEF Quiet, ReplayInv, TradesInv
<1>5. SoundOrder'
  BY <1>1 DEF SoundOrder
<1> QED
  BY <1>1, <1>3, <1>4, <1>5, FrameStep DEF BacktestNext, Replay

LEMMA ReplayTryExit == ASSUME ReplayInv, TryExit PROVE ReplayInv'
<1> DEFINE i == First(todo)
<1>1. /\ pc = "exiting" /\ pc' \in {"exiting", "selling"}
      /\ pc' = "selling" => Reached(i) /\ todo' = todo
      /\ UNCHANGED <<mode, opened, account, report, downloadVars, replayVars>>
  BY DEF TryExit, DecideExit
<1>2. UNCHANGED <<index, ticks, lots, exits, trades, start, slots, used, balance>>
  BY <1>1 DEF replayVars, account
<1>3. stage = "loaded" /\ RowsInv' /\ CursorInv' /\ UNCHANGED rows
  BY <1>1, <1>2, InTick
<1>4. /\ i \in Ids /\ pos \in [Ids -> Position]
      /\ pos' = pos \/ (pos[i].state = "OPEN" /\ pos' = [pos EXCEPT ![i].state = "EXIT_ARMED"])
  <2>1. DecideExit(TRUE) \/ DecideExit(FALSE)
    <3>1. Reached(i) \in BOOLEAN
      BY DEF Reached
    <3>2. DecideExit(Reached(i))
      BY DEF TryExit
    <3> QED
      BY <3>1, <3>2
  <2> QED
    BY <2>1, ArmingKeepsOpen DEF ReplayInv, IInv, TypeOK
<1>5. \A j \in Ids : /\ pos'[j].invested = pos[j].invested /\ pos'[j].candle = pos[j].candle
                     /\ (pos'[j].state = "CLOSED") = (pos[j].state = "CLOSED")
  BY <1>4 DEF Position
<1>6. Quiet
  BY <1>1, <1>2, <1>3, <1>5 DEF Quiet, ReplayInv, TradesInv
<1>7. pc' = "selling" => Reached(First(todo))'
  <2> SUFFICES ASSUME pc' = "selling" PROVE Reached(First(todo))'
    OBVIOUS
  <2>1. Reached(i) /\ todo' = todo /\ pos'[i].invested = pos[i].invested
    BY <1>1, <1>4, <1>5
  <2>2. Bid' = Bid
    BY <1>2, <1>3 DEF Bid, CandleAt
  <2>3. First(todo)' = i
    BY <2>1 DEF First
  <2>4. TargetOf(First(todo), mode)' = TargetOf(i, mode)
    BY <1>1, <2>1, <2>3 DEF TargetOf
  <2> QED
    BY <1>2, <2>1, <2>2, <2>3, <2>4 DEF Reached
<1>8. SoundOrder'
  BY <1>1 DEF SoundOrder
<1> QED
  BY <1>1, <1>3, <1>6, <1>7, <1>8, FrameStep DEF BacktestNext, Replay

\* The book that decides also fills, and the buffer covers more than the fee.
LEMMA ReplaySell == ASSUME ReplayInv, BacktestSell PROVE ReplayInv'
<1> DEFINE i == First(todo)
           gross == lots[i] * Bid
<1>1. /\ pc = "selling" /\ pc' = "sold" /\ todo' = todo
      /\ order'.fill = gross - (gross * Fee) \div Thousand
      /\ UNCHANGED <<service, account, report, downloadVars, replayVars>>
  <2>1. order \in Order
    BY DEF ReplayInv, IInv, TypeOK
  <2> QED
    BY <2>1 DEF BacktestSell, ExecuteSell, Order
<1>2. UNCHANGED <<mode, pos, opened, slots, used, balance>>
  BY <1>1 DEF service, account
<1>3. UNCHANGED <<index, ticks, lots, exits, trades, start>>
  BY <1>1 DEF replayVars
<1>4. stage = "loaded" /\ index \in 1..Len(rows) /\ RowsInv' /\ CursorInv' /\ UNCHANGED rows
  BY <1>1, <1>3, InTick
<1>5. i \in Ids /\ pos[i].invested \in Nat
  <2>1. i \in Ids
    BY <1>1, FirstIn DEF ReplayInv, IInv, SellsOpenPosition, TypeOK
  <2> QED
    BY <2>1 DEF ReplayInv, IInv, TypeOK, Position
<1>6. gross \in Nat
  <2>1. lots[i] \in Nat /\ Bid \in Nat
    BY <1>4, <1>5, PricesAre DEF ReplayInv, TradesInv
  <2> QED
    BY <2>1
<1>7. (order'.fill - pos[i].invested) * Thousand >= TargetOf(i, mode)
  <2>1. PICK g \in Nat, f \in Nat, b \in Nat, n \in Nat, c \in Nat :
          /\ g = gross /\ f = Fee /\ b = Buffer /\ c = pos[i].invested
          /\ n = gross - (gross * Fee) \div Thousand
          /\ g * Thousand - g * f <= n * Thousand
    <3>1. Fee \in Nat /\ Buffer \in Nat
      <4>1. Fee \in 0..Thousand /\ Buffer \in 0..Thousand
        BY BacktestAssumption
      <4> QED
        BY <4>1 DEF Thousand
    <3> HIDE DEF gross
    <3> QED
      BY <1>5, <1>6, <3>1, SellProceeds
  <2>2. TargetOf(i, mode) \in Int
    <3>1. ProfitTarget \in Nat /\ WithdrawalTarget \in Nat
      BY BacktestAssumption
    <3> QED
      BY <1>5, <3>1 DEF TargetOf
  <2>3. g * (Thousand - f - b) - c * Thousand >= TargetOf(i, mode)
    BY <1>1, <2>1 DEF ReplayInv, TargetInv, Reached
  <2>4. PICK t \in Int, p \in Nat, q \in Nat, r \in Int :
          /\ t = TargetOf(i, mode) /\ p = g * f /\ q = g * b
          /\ r = g * (Thousand - f - b)
    <3>1. g * f \in Nat /\ g * b \in Nat
      OBVIOUS
    <3>2. g * (Thousand - f - b) \in Int
      BY DEF Thousand
    <3> QED
      BY <2>2, <3>1, <3>2
  <2>5. r = g * 1000 - p - q
    <3>1. g * (1000 - f - b) = g * 1000 - g * f - g * b
      OBVIOUS
    <3> QED
      BY <2>4, <3>1 DEF Thousand
  <2>6. r - c * 1000 >= t
    BY <2>3, <2>4 DEF Thousand
  <2>7. g * 1000 - p <= n * 1000
    BY <2>1, <2>4 DEF Thousand
  <2>8. (n - c) * 1000 >= t
    BY <2>5, <2>6, <2>7
  <2>9. order'.fill = n /\ pos[i].invested = c
    BY <1>1, <2>1
  <2> QED
    BY <2>4, <2>8, <2>9 DEF Thousand
<1>8. Quiet
  BY <1>1, <1>2, <1>3, <1>4 DEF Quiet, ReplayInv, TradesInv
<1>9. (order'.fill - pos'[First(todo')].invested) * Thousand >= TargetOf(First(todo), mode)'
  <2>1. First(todo') = i /\ First(todo)' = i /\ pos'[i].invested = pos[i].invested
    BY <1>1, <1>2 DEF First
  <2>2. TargetOf(First(todo), mode)' = TargetOf(i, mode)
    BY <1>2, <2>1 DEF TargetOf
  <2> HIDE DEF gross
  <2> QED
    BY <1>7, <2>1, <2>2
<1>10. SoundOrder'
  BY <1>1 DEF SoundOrder
<1> QED
  BY <1>1, <1>4, <1>8, <1>9, <1>10, FrameStep DEF BacktestNext, Replay

\* A position is opened on the candle that was shown last.
LEMMA ReplayOpen == ASSUME ReplayInv, Inner, OpenPosition PROVE ReplayInv'
<1> DEFINE new == opened + 1
<1>0. IInv
  BY DEF ReplayInv
<1>1. /\ coin = Only /\ coin \in Coins /\ new \in Ids /\ opened \in Nat
      /\ pos \in [Ids -> Position] /\ pos[new] = NoPosition
      /\ order.fill \in Nat /\ report \in Report /\ pc = "filled" /\ pc' = "entries"
      /\ pos' = [pos EXCEPT ![new] =
                   [coin |-> coin, candle |-> order.candle, invested |-> order.fill,
                    state |-> "OPEN"]]
      /\ opened' = new
      /\ report'.opened = [report.opened EXCEPT ![coin] = @ + 1]
      /\ report'.invested = [report.invested EXCEPT ![coin] = @ + order.fill]
      /\ report'.closed = report.closed /\ report'.released = report.released
  BY <1>0, OpenFacts, CoinsAre
<1>2. report'.proceeds = report.proceeds /\ UNCHANGED <<slots, used, balance>>
  BY <1>1 DEF OpenPosition, account, Report
<1>3. UNCHANGED <<downloadVars, index, ticks, lots, exits, trades, start>>
  BY DEF Inner, replayVars
<1>4. /\ stage = "loaded" /\ index \in 1..Len(rows) /\ RowsInv' /\ CursorInv' /\ UNCHANGED rows
      /\ \A n \in DOMAIN rows : Sound(n)' = Sound(n)
  <2>1. stage = "loaded" /\ index \in 1..Len(rows) /\ RowsInv' /\ CursorInv' /\ UNCHANGED rows
    BY <1>1, <1>3, InTick
  <2> QED
    BY <2>1, SoundStays
<1>5. \A i \in Ids : i # new => pos'[i] = pos[i]
  BY <1>1
<1>6. {i \in Ids : pos'[i].state = "CLOSED"} = {i \in Ids : pos[i].state = "CLOSED"}
  <2>1. pos'[new].state # "CLOSED" /\ pos[new].state # "CLOSED"
    BY <1>1 DEF NoPosition
  <2> QED
    BY <1>5, <2>1
<1>7. TradesInv'
  <2>1. Sold(trades)' = Sold(trades) /\ Sold(exits)' = Sold(exits)
    BY <1>3 DEF Sold
  <2>2. /\ slots[Only] \in Nat /\ report.opened[Only] \in Nat /\ report.closed[Only] \in Nat
        /\ report'.opened[Only] = report.opened[Only] + 1
    BY <1>0, <1>1 DEF IInv, TypeOK, Report
  <2>4. /\ trades \in Seq(Trade) /\ exits \in Seq(Trade)
        /\ Len(trades) \in Nat /\ Len(exits) \in Nat
        /\ Len(trades) + Len(exits) + slots[Only] + report.opened[Only] - report.closed[Only]
             = opened
    BY DEF ReplayInv, TradesInv
  <2>3. /\ Len(trades) + Len(exits) + slots[Only] + report'.opened[Only] - report'.closed[Only]
             = opened'
        /\ lots' \in [Ids -> Nat] /\ start' \in Int
        /\ trades' \in Seq(Trade) /\ exits' \in Seq(Trade)
        /\ Sold(trades) \cup Sold(exits) = {i \in Ids : pos[i].state = "CLOSED"}
    <3>1. Len(trades) + Len(exits) + slots[Only] + report'.opened[Only] - report'.closed[Only]
            = opened'
      <4>1. report'.closed[Only] = report.closed[Only] /\ opened' = opened + 1
        BY <1>1
      <4>2. PICK a \in Nat, b \in Nat, c \in Nat, d \in Nat, f \in Nat :
              /\ a = Len(trades) /\ b = Len(exits) /\ c = slots[Only]
              /\ d = report.opened[Only] /\ f = report.closed[Only]
        BY <2>2, <2>4
      <4>3. a + b + c + d - f = opened
        BY <2>4, <4>2
      <4>4. a + b + c + (d + 1) - f = opened + 1
        BY <4>3
      <4> QED
        BY <2>2, <4>1, <4>2, <4>4
    <3> QED
      BY <1>3, <2>4, <3>1 DEF ReplayInv, TradesInv
  <2> QED
    BY <1>1, <1>2, <1>3, <1>6, <2>1, <2>3 DEF TradesInv
<1>8. LedgerInv'
  <2>1. NetOf(trades)' = NetOf(trades) /\ NetOf(exits)' = NetOf(exits)
    BY <1>3 DEF NetOf
  <2>2. NetOf(trades) \in Int /\ NetOf(exits) \in Int /\ start \in Int /\ balance \in Int
    BY <1>0, NetInt DEF ReplayInv, TradesInv, IInv, TypeOK
  <2>3. /\ report.invested[Only] \in Nat /\ report.released[Only] \in Nat
        /\ report.proceeds[Only] \in Nat /\ used[Only] \in Int
        /\ report'.invested[Only] = report.invested[Only] + order.fill
    BY <1>0, <1>1, CoinsAre DEF IInv, TypeOK, Report
  <2>4. Due' = Due - order.fill /\ Committed(Only)' = Committed(Only) + order.fill
        /\ Due \in Int /\ Committed(Only) \in Int
    BY <1>1, <1>2, <2>2, <2>3 DEF Due, Committed
  <2> QED
    BY <1>1, <1>3, <2>1, <2>2, <2>4 DEF ReplayInv, LedgerInv
<1>9. EntersOnWholeHistory'
  <2>1. ASSUME NEW i \in 1..opened', NEW n \in DOMAIN rows, rows[n].open = pos'[i].candle
        PROVE  Sound(n)
    <3>1. CASE i = new
      <4>1. rows[n].open = rows[index].open
        BY <1>1, <2>1, <3>1 DEF ReplayInv, SoundOrder
      <4>2. n \in 1..Len(rows) /\ index \in 1..Len(rows) /\ Len(rows) \in Nat
        BY <1>4 DEF ReplayInv, RowsInv
      <4>3. rows[n].open \in Int /\ rows[index].open \in Int
        BY <1>4, <4>2, CandleOfRow DEF ReplayInv
      <4>4. n = index
        BY <1>4, <4>1, <4>2, <4>3 DEF ReplayInv, RowsInv, Ascending
      <4> QED
        BY <1>1, <4>4 DEF ReplayInv, SoundOrder
    <3>2. CASE i # new
      <4>1. i \in 1..opened /\ i \in Ids
        BY <1>1, <3>2, SizesAssumption DEF Ids
      <4>2. rows[n].open = pos[i].candle
        BY <1>5, <2>1, <3>2, <4>1
      <4> QED
        BY <4>1, <4>2 DEF ReplayInv, EntersOnWholeHistory, Sound
    <3> QED
      BY <3>1, <3>2
  <2>2. \A i \in 1..opened', n \in DOMAIN rows : rows[n].open = pos'[i].candle => Sound(n)'
    BY <1>4, <2>1
  <2> QED
    BY <1>4, <2>2 DEF EntersOnWholeHistory, Sound
<1>10. TargetInv'
  <2>1. \A i \in Ids : pos[i].state = "CLOSED" => pos'[i].invested = pos[i].invested
    BY <1>1, <1>5 DEF NoPosition
  <2>2. Met(trades)' /\ Met(exits)'
    BY <1>0, <1>3, <2>1, MetStays DEF ReplayInv, TargetInv, Met
  <2> QED
    BY <1>1, <2>2 DEF TargetInv
<1>11. SoundOrder'
  BY <1>1 DEF SoundOrder
<1>12. IInv' /\ CostInv'
  BY ServiceStep DEF BacktestNext, Replay
<1> QED
  BY <1>4, <1>7, <1>8, <1>9, <1>10, <1>11, <1>12 DEF ReplayInv

\* A position is sold: its result joins the exits of the tick.
LEMMA ReplayClose == ASSUME ReplayInv, BacktestClose PROVE ReplayInv'
<1> DEFINE i == First(todo)
           net == order.fill - pos[i].invested
           e == [id |-> i, net |-> net, mode |-> mode]
<1>0. IInv
  BY DEF ReplayInv
<1>1. /\ coin = Only /\ coin \in Coins /\ i \in Ids /\ i \in OpenOf(coin)
      /\ pos \in [Ids -> Position] /\ report \in Report /\ order.fill \in Nat
      /\ pos' = [pos EXCEPT ![i].state = "CLOSED"]
      /\ pc = "sold" /\ pc' = "exiting" /\ UNCHANGED <<mode, opened, slots, used, balance>>
      /\ report'.closed = [report.closed EXCEPT ![coin] = @ + 1]
      /\ report'.released = [report.released EXCEPT ![coin] = @ + pos[i].invested]
      /\ report'.opened = report.opened /\ report'.invested = report.invested
  <2>1. ClosePosition
    BY DEF BacktestClose
  <2> QED
    BY <1>0, <2>1, CloseFacts, CoinsAre
<1>2. report'.proceeds = [report.proceeds EXCEPT ![coin] = @ + order.fill]
  BY <1>1 DEF BacktestClose, ClosePosition, Report, Plus
<1>3. /\ exits' = Append(exits, e)
      /\ UNCHANGED <<downloadVars, index, ticks, lots, trades, start>>
  BY DEF BacktestClose
<1>4. /\ stage = "loaded" /\ RowsInv' /\ CursorInv' /\ UNCHANGED rows
      /\ \A n \in DOMAIN rows : Sound(n)' = Sound(n)
  <2>1. stage = "loaded" /\ RowsInv' /\ CursorInv' /\ UNCHANGED rows
    BY <1>1, <1>3, InTick
  <2> QED
    BY <2>1, SoundStays
<1>5. pos[i].invested \in Nat /\ pos[i].state # "CLOSED" /\ mode \in Modes /\ net \in Int
  BY <1>0, <1>1 DEF Position, OpenOf, Live, IInv, TypeOK, Modes
<1>6. e \in Trade /\ e.id = i /\ e.net = net /\ e.mode = mode
  <2> HIDE DEF i, net
  <2> QED
    BY <1>1, <1>5 DEF Trade
<1>7. /\ trades \in Seq(Trade) /\ exits \in Seq(Trade) /\ exits' \in Seq(Trade)
      /\ Len(exits') = Len(exits) + 1 /\ NetOf(exits') = NetOf(exits) + net
      /\ Len(exits) \in Nat /\ Len(trades) \in Nat
      /\ \A n \in 1..Len(exits) : exits'[n] = exits[n]
      /\ exits'[Len(exits) + 1] = e
      /\ DOMAIN exits = 1..Len(exits) /\ DOMAIN exits' = 1..(Len(exits) + 1)
  <2> HIDE DEF e
  <2>1. exits \in Seq(Trade) /\ trades \in Seq(Trade)
    BY DEF ReplayInv, TradesInv
  <2>2. NetOf(exits') = NetOf(exits) + net /\ exits' \in Seq(Trade)
    BY <1>3, <1>6, <2>1, NetOfAppend
  <2> QED
    BY <1>3, <1>6, <2>1, <2>2
<1> HIDE DEF e, net
<1>8. Sold(exits)' = Sold(exits) \cup {i} /\ Sold(trades)' = Sold(trades)
  <2>1. DOMAIN exits' = DOMAIN exits \cup {Len(exits) + 1}
    BY <1>7
  <2>2. \A n \in DOMAIN exits : exits'[n].id = exits[n].id
    BY <1>7
  <2>3. exits'[Len(exits) + 1].id = i
    BY <1>6, <1>7
  <2> HIDE DEF i
  <2>4. Sold(exits)' = Sold(exits) \cup {i}
    BY <2>1, <2>2, <2>3 DEF Sold
  <2> QED
    BY <1>3, <2>4 DEF Sold
<1>9. \A j \in Ids : /\ pos'[j].invested = pos[j].invested /\ pos'[j].candle = pos[j].candle
                     /\ pos'[j].state = "CLOSED" <=> pos[j].state = "CLOSED" \/ j = i
  BY <1>1 DEF Position
<1>10. TradesInv'
  <2>1. {j \in Ids : pos'[j].state = "CLOSED"} = {j \in Ids : pos[j].state = "CLOSED"} \cup {i}
    <3> HIDE DEF i
    <3> QED
      BY <1>1, <1>9
  <2>2. /\ slots[Only] \in Nat /\ opened \in Nat
        /\ report.opened[Only] \in Nat /\ report.closed[Only] \in Nat
        /\ report'.closed[Only] = report.closed[Only] + 1
    BY <1>0, <1>1 DEF IInv, TypeOK, Report
  <2>3. Len(trades) + Len(exits') + slots[Only] + report'.opened[Only] - report'.closed[Only]
          = opened
    <3>1. Len(trades) + Len(exits) + slots[Only] + report.opened[Only] - report.closed[Only]
            = opened
      BY DEF ReplayInv, TradesInv
    <3>2. report'.opened[Only] = report.opened[Only] /\ Len(exits') = Len(exits) + 1
      BY <1>1, <1>7
    <3>3. PICK a \in Nat, b \in Nat, c \in Nat, d \in Nat, f \in Nat :
            /\ a = Len(trades) /\ b = Len(exits) /\ c = slots[Only]
            /\ d = report.opened[Only] /\ f = report.closed[Only]
      BY <1>7, <2>2
    <3>4. a + b + c + d - f = opened
      BY <3>1, <3>3
    <3>5. a + (b + 1) + c + d - (f + 1) = opened
      BY <3>4
    <3> QED
      BY <2>2, <3>2, <3>3, <3>5
  <2>4. Sold(trades) \cup Sold(exits) = {j \in Ids : pos[j].state = "CLOSED"}
    BY DEF ReplayInv, TradesInv
  <2>5. Sold(trades)' \cup Sold(exits)' = {j \in Ids : pos'[j].state = "CLOSED"}
    BY <1>8, <2>1, <2>4
  <2>6. lots' \in [Ids -> Nat] /\ start' \in Int
    BY <1>3 DEF ReplayInv, TradesInv
  <2> QED
    BY <1>1, <1>3, <1>7, <2>3, <2>5, <2>6 DEF TradesInv
<1>11. LedgerInv'
  <2>1. NetOf(trades)' = NetOf(trades) /\ NetOf(exits)' = NetOf(exits) + net
    BY <1>3, <1>7 DEF NetOf
  <2>2. NetOf(trades) \in Int /\ NetOf(exits) \in Int /\ start \in Int /\ balance \in Int
    BY <1>0, NetInt DEF ReplayInv, TradesInv, IInv, TypeOK
  <2>3. /\ report.invested[Only] \in Nat /\ report.released[Only] \in Nat
        /\ report.proceeds[Only] \in Nat /\ used[Only] \in Int
        /\ report'.released[Only] = report.released[Only] + pos[i].invested
        /\ report'.proceeds[Only] = report.proceeds[Only] + order.fill
    BY <1>0, <1>1, <1>2 DEF IInv, TypeOK, Report
  <2>4. Due' = Due + order.fill /\ Committed(Only)' = Committed(Only) - pos[i].invested
        /\ Due \in Int /\ Committed(Only) \in Int
    BY <1>1, <1>5, <2>2, <2>3 DEF Due, Committed
  <2>5. Due = start + NetOf(trades) + NetOf(exits) - Committed(Only)
    BY DEF ReplayInv, LedgerInv
  <2>6. Due' = start + NetOf(trades) + (NetOf(exits) + net) - Committed(Only)'
    BY <1>1, <1>5, <2>2, <2>4, <2>5 DEF net
  <2> QED
    BY <1>3, <2>1, <2>6 DEF LedgerInv
<1>12. TargetInv'
  <2>1. Met(trades)'
    BY <1>0, <1>3, <1>9, MetStays DEF ReplayInv, TargetInv, Met
  <2>2. PICK s, t, x : s = exits /\ t = exits' /\ x = e
    OBVIOUS
  <2>3. \A n \in DOMAIN s : s[n].net * Thousand >= TargetOf(s[n].id, s[n].mode)'
    <3>1. Met(s) /\ TradesInv
      BY <2>2 DEF ReplayInv, TargetInv
    <3> QED
      BY <1>0, <1>9, <2>2, <3>1, MetStays
  <2>4. x.net * Thousand >= TargetOf(x.id, x.mode)'
    <3>1. PICK k, m, c : k = x.id /\ m = x.mode /\ c = x.net /\ k = i /\ m = mode /\ c = net
      BY <1>6, <2>2
    <3>2. c * Thousand >= TargetOf(k, m)
      BY <1>1, <3>1 DEF ReplayInv, TargetInv, net
    <3>3. pos'[k].invested = pos[k].invested
      BY <1>1, <1>9, <3>1
    <3>4. TargetOf(k, m)' = TargetOf(k, m)
      BY <3>3 DEF TargetOf
    <3> QED
      BY <3>1, <3>2, <3>4
  <2>5. \A n \in DOMAIN t : t[n].net * Thousand >= TargetOf(t[n].id, t[n].mode)'
    <3> SUFFICES ASSUME NEW n \in DOMAIN t
                 PROVE  t[n].net * Thousand >= TargetOf(t[n].id, t[n].mode)'
      OBVIOUS
    <3>1. (n \in DOMAIN s /\ t[n] = s[n]) \/ t[n] = x
      BY <1>7, <2>2
    <3> QED
      BY <2>3, <2>4, <3>1
  <2>6. Met(exits)'
    BY <2>2, <2>5 DEF Met
  <2> QED
    BY <1>1, <2>1, <2>6 DEF TargetInv
<1>13. EntersOnWholeHistory'
  <2>1. \A j \in 1..opened : j \in Ids
    BY <1>0, SizesAssumption DEF IInv, TypeOK, Ids
  <2>2. \A j \in 1..opened, n \in DOMAIN rows : rows[n].open = pos'[j].candle => Sound(n)'
    BY <1>4, <1>9, <2>1 DEF ReplayInv, EntersOnWholeHistory, Sound
  <2> QED
    BY <1>1, <1>4, <2>2 DEF EntersOnWholeHistory, Sound
<1>14. SoundOrder'
  BY <1>1 DEF SoundOrder
<1>15. IInv' /\ CostInv'
  BY ServiceStep DEF BacktestNext, Replay
<1> QED
  BY <1>4, <1>10, <1>11, <1>12, <1>13, <1>14, <1>15 DEF ReplayInv

\* The report is applied, and its exits become trades.
LEMMA ReplayEnd == ASSUME ReplayInv, EndTick PROVE ReplayInv'
<1>0. IInv
  BY DEF ReplayInv
<1>1. /\ pc = "exits" /\ pc' = "idle" /\ balance' = Due
      /\ slots' = [c \in Coins |-> Greater(0, slots[c] + report.opened[c] - report.closed[c])]
      /\ used' = [c \in Coins |-> used[c] + report.invested[c] - report.released[c]]
      /\ report' = NoReport
      /\ trades' = trades \o exits /\ exits' = <<>> /\ ticks' = index
      /\ UNCHANGED <<pos, opened, downloadVars, index, lots, start>>
  BY DEF EndTick, Ending, FinishTick, Due, service
<1>2. /\ stage = "loaded" /\ UNCHANGED <<stage, rows>> /\ index \in 0..Len(rows)
      /\ \A n \in DOMAIN rows : Sound(n)' = Sound(n)
  <2>1. stage = "loaded" /\ index \in 0..Len(rows)
    BY <1>1 DEF ReplayInv, RowsInv
  <2>2. UNCHANGED <<stage, rows>>
    BY <1>1 DEF downloadVars, pageVars
  <2> QED
    BY <2>1, <2>2, SoundStays
<1>3. RowsInv'
  BY <1>1, <1>2 DEF ReplayInv, RowsInv, Ascending
<1>4. CursorInv' /\ SoundOrder'
  BY <1>1 DEF ReplayInv, CursorInv, SoundOrder
<1>5. EntersOnWholeHistory'
  <2>1. \A i \in 1..opened, n \in DOMAIN rows : rows[n].open = pos[i].candle => Sound(n)'
    BY <1>2 DEF ReplayInv, EntersOnWholeHistory, Sound
  <2> QED
    BY <1>1, <1>2, <2>1 DEF EntersOnWholeHistory, Sound
<1>6. /\ trades \in Seq(Trade) /\ exits \in Seq(Trade)
      /\ trades' \in Seq(Trade) /\ NetOf(trades') = NetOf(trades) + NetOf(exits)
      /\ exits' \in Seq(Trade) /\ NetOf(exits') = 0 /\ Len(exits') = 0
      /\ NetOf(trades) \in Int /\ NetOf(exits) \in Int
  <2>1. trades \in Seq(Trade) /\ exits \in Seq(Trade)
    BY DEF ReplayInv, TradesInv
  <2>2. <<>> \in Seq(Trade) /\ Len(<<>>) = 0
    OBVIOUS
  <2> QED
    BY <1>1, <2>1, <2>2, NetInt, NetOfConcat
<1>7. PICK a \in Nat, b \in Nat :
        /\ a = Len(trades) /\ b = Len(exits) /\ Len(trades') = a + b
        /\ DOMAIN trades = 1..a /\ DOMAIN exits = 1..b /\ DOMAIN trades' = 1..(a + b)
        /\ \A n \in 1..a : trades'[n] = trades[n]
        /\ \A n \in 1..b : trades'[a + n] = exits[n]
  <2>1. /\ Len(trades') = Len(trades) + Len(exits) /\ Len(trades) \in Nat /\ Len(exits) \in Nat
        /\ \A n \in 1..Len(trades) : trades'[n] = trades[n]
        /\ \A n \in 1..Len(exits) : trades'[Len(trades) + n] = exits[n]
    BY <1>1, <1>6, ConcatProperties
  <2>2. /\ DOMAIN trades = 1..Len(trades) /\ DOMAIN exits = 1..Len(exits)
        /\ DOMAIN trades' = 1..Len(trades')
    BY <1>6
  <2>3. PICK a \in Nat, b \in Nat : a = Len(trades) /\ b = Len(exits)
    BY <2>1
  <2>4. Len(trades') = a + b
    BY <2>1, <2>3
  <2> QED
    BY <2>1, <2>2, <2>3, <2>4
<1>8. \A n \in 1..(a + b) : n \in 1..a \/ \E k \in 1..b : n = a + k
  <2> SUFFICES ASSUME NEW n \in 1..(a + b), n \notin 1..a PROVE \E k \in 1..b : n = a + k
    OBVIOUS
  <2>1. n - a \in 1..b /\ n = a + (n - a)
    OBVIOUS
  <2> QED
    BY <2>1
<1>9. Sold(trades)' = Sold(trades) \cup Sold(exits) /\ Sold(exits)' = {}
  <2>1. ASSUME NEW x
        PROVE  x \in Sold(trades)' <=> x \in Sold(trades) \cup Sold(exits)
    <3>1. x \in Sold(trades)' <=> \E n \in 1..(a + b) : x = trades'[n].id
      BY <1>7 DEF Sold
    <3>2. x \in Sold(trades) <=> \E n \in 1..a : x = trades[n].id
      BY <1>7 DEF Sold
    <3>3. x \in Sold(exits) <=> \E n \in 1..b : x = exits[n].id
      BY <1>7 DEF Sold
    <3>4. \A n \in 1..a : n \in 1..(a + b)
      OBVIOUS
    <3>5. \A n \in 1..b : a + n \in 1..(a + b)
      OBVIOUS
    <3>6. ASSUME NEW n \in 1..(a + b), x = trades'[n].id
          PROVE  x \in Sold(trades) \cup Sold(exits)
      <4>1. CASE n \in 1..a
        BY <1>7, <3>2, <3>6, <4>1
      <4>2. CASE \E k \in 1..b : n = a + k
        BY <1>7, <3>3, <3>6, <4>2
      <4> QED
        BY <1>8, <4>1, <4>2
    <3>7. x \in Sold(trades) => x \in Sold(trades)'
      BY <1>7, <3>1, <3>2, <3>4
    <3>8. x \in Sold(exits) => x \in Sold(trades)'
      <4> SUFFICES ASSUME NEW n \in 1..b, x = exits[n].id PROVE x \in Sold(trades)'
        BY <3>3
      <4>1. x = trades'[a + n].id
        BY <1>7
      <4> QED
        BY <3>1, <3>5, <4>1
    <3> QED
      BY <3>1, <3>6, <3>7, <3>8
  <2>2. Sold(exits)' = {}
    BY <1>1 DEF Sold
  <2> QED
    BY <2>1, <2>2
\* The account's slots are the open positions again.
<1>10. /\ slots'[Only] = slots[Only] + report.opened[Only] - report.closed[Only]
       /\ slots'[Only] \in Nat /\ opened \in Nat
       /\ report'.opened[Only] = 0 /\ report'.closed[Only] = 0
  <2>1. slots[Only] + report.opened[Only] - report.closed[Only] = Cardinality(OpenOf(Only))
    BY <1>0, <1>1, CoinsAre DEF IInv, SlotsInv
  <2>2. PICK c \in Nat : c = slots[Only] + report.opened[Only] - report.closed[Only]
    BY <2>1, OpenFinite
  <2>3. slots'[Only] = c
    <3>1. slots'[Only] = Greater(0, c)
      BY <1>1, <2>2, CoinsAre
    <3>2. Greater(0, c) = c
      BY DEF Greater
    <3> QED
      BY <3>1, <3>2
  <2>4. report'.opened[Only] = 0 /\ report'.closed[Only] = 0
    BY <1>1, CoinsAre DEF NoReport
  <2>5. opened \in Nat
    BY <1>0 DEF IInv, TypeOK
  <2> QED
    BY <2>2, <2>3, <2>4, <2>5
<1>11. TradesInv'
  <2>1. a + b + slots[Only] + report.opened[Only] - report.closed[Only] = opened
    BY <1>7 DEF ReplayInv, TradesInv
  <2>2. PICK c \in Nat, d \in Nat, f \in Nat :
          c = slots[Only] /\ d = report.opened[Only] /\ f = report.closed[Only]
    BY <1>0, CoinsAre DEF IInv, TypeOK, Report
  <2>3. a + b + c + d - f = opened
    BY <2>1, <2>2
  <2>4. PICK u \in Nat : u = slots'[Only] /\ u = c + d - f
    BY <1>10, <2>2
  <2>5. (a + b) + 0 + u + 0 - 0 = opened
    BY <2>3, <2>4
  <2>6. Len(trades') + Len(exits') + slots'[Only] + report'.opened[Only] - report'.closed[Only]
          = opened'
    BY <1>1, <1>6, <1>7, <1>10, <2>4, <2>5
  <2>7. Sold(trades) \cup Sold(exits) = {i \in Ids : pos[i].state = "CLOSED"}
        /\ lots \in [Ids -> Nat] /\ start \in Int
    BY DEF ReplayInv, TradesInv
  <2> QED
    BY <1>1, <1>6, <1>9, <2>6, <2>7 DEF TradesInv
<1>12. LedgerInv'
  <2>1. NetOf(trades)' = NetOf(trades) + NetOf(exits) /\ NetOf(exits)' = 0
    BY <1>6 DEF NetOf
  <2>2. /\ Committed(Only)' = Committed(Only) /\ Committed(Only) \in Int
    <3>1. /\ used[Only] \in Int /\ report.invested[Only] \in Nat
          /\ report.released[Only] \in Nat
      BY <1>0, CoinsAre DEF IInv, TypeOK, Report
    <3>2. used'[Only] = used[Only] + report.invested[Only] - report.released[Only]
          /\ report'.invested[Only] = 0 /\ report'.released[Only] = 0
      BY <1>1, CoinsAre DEF NoReport
    <3> QED
      BY <3>1, <3>2 DEF Committed
  <2>3. Due' = Due /\ Due \in Int
    <3>1. /\ balance \in Int /\ report.invested[Only] \in Nat
          /\ report.proceeds[Only] \in Nat
      BY <1>0, CoinsAre DEF IInv, TypeOK, Report
    <3>2. report'.invested[Only] = 0 /\ report'.proceeds[Only] = 0
      BY <1>1, CoinsAre DEF NoReport
    <3> QED
      BY <1>1, <3>1, <3>2 DEF Due
  <2>4. Due = start + NetOf(trades) + NetOf(exits) - Committed(Only) /\ start \in Int
    BY DEF ReplayInv, LedgerInv, TradesInv
  <2>5. Due' = start + (NetOf(trades) + NetOf(exits)) + 0 - Committed(Only)'
    BY <1>6, <2>2, <2>3, <2>4
  <2> QED
    BY <1>1, <2>1, <2>5 DEF LedgerInv
<1>13. TargetInv'
  <2>1. PICK s, t, u : s = trades /\ t = exits /\ u = trades'
    OBVIOUS
  <2>2. /\ \A n \in DOMAIN s : s[n].net * Thousand >= TargetOf(s[n].id, s[n].mode)'
        /\ \A n \in DOMAIN t : t[n].net * Thousand >= TargetOf(t[n].id, t[n].mode)'
    <3>1. Met(s) /\ Met(t) /\ TradesInv /\ pos' = pos
      BY <1>1, <2>1 DEF ReplayInv, TargetInv
    <3> QED
      BY <1>0, <2>1, <3>1, MetStays
  <2>3. \A n \in DOMAIN u : u[n].net * Thousand >= TargetOf(u[n].id, u[n].mode)'
    <3> SUFFICES ASSUME NEW n \in DOMAIN u
                 PROVE  u[n].net * Thousand >= TargetOf(u[n].id, u[n].mode)'
      OBVIOUS
    <3>1. (n \in DOMAIN s /\ u[n] = s[n]) \/ \E k \in DOMAIN t : u[n] = t[k]
      <4>1. n \in 1..a \/ \E k \in 1..b : n = a + k
        BY <1>7, <1>8, <2>1
      <4>2. CASE n \in 1..a
        BY <1>7, <2>1, <4>2
      <4>3. CASE \E k \in 1..b : n = a + k
        <5>1. PICK k \in 1..b : n = a + k
          BY <4>3
        <5>2. u[n] = t[k] /\ k \in DOMAIN t
          BY <1>7, <2>1, <5>1
        <5> QED
          BY <5>2
      <4> QED
        BY <4>1, <4>2, <4>3
    <3> QED
      BY <2>2, <3>1
  <2>4. Met(trades)'
    BY <2>1, <2>3 DEF Met
  <2>5. Met(exits)'
    BY <1>1 DEF Met
  <2> QED
    BY <1>1, <2>4, <2>5 DEF TargetInv
<1>14. IInv' /\ CostInv'
  BY ServiceStep DEF BacktestNext, Replay
<1> QED
  BY <1>3, <1>4, <1>5, <1>11, <1>12, <1>13, <1>14 DEF ReplayInv

LEMMA ReplayNext == ReplayInv /\ [BacktestNext]_allVars => ReplayInv'
<1> SUFFICES ASSUME ReplayInv, [BacktestNext]_allVars PROVE ReplayInv'
  OBVIOUS
<1>1. CASE DownloadNext /\ UNCHANGED <<vars, replayVars>>
  BY <1>1, ReplayDownload
<1>2. CASE LoadFile
  BY <1>2, ReplayLoadFile
<1>3. CASE NextCandle
  BY <1>3, ReplayNextCandle
<1>4. CASE BeginTick
  BY <1>4, ReplayBeginTick
<1>5. CASE Enter
  BY <1>5, ReplayEnter
<1>6. CASE BacktestBuy
  BY <1>6, ReplayBuy
<1>7. CASE LookAtExits \/ (Inner /\ ~OpenPosition)
  BY <1>7, ReplayAdvance
<1>8. CASE TryExit
  BY <1>8, ReplayTryExit
<1>9. CASE BacktestSell
  BY <1>9, ReplaySell
<1>10. CASE BacktestClose
  BY <1>10, ReplayClose
<1>11. CASE Inner /\ OpenPosition
  BY <1>11, ReplayOpen
<1>12. CASE EndTick
  BY <1>12, ReplayEnd
<1>13. CASE UNCHANGED allVars
  <2>1. UNCHANGED <<stage, rows, opened, slots, used, balance, report, exits, trades, start,
                    lots, pos, pc, index, ticks, order, todo, mode>>
    BY <1>13 DEF allVars, vars, service, account, frame, downloadVars, pageVars, replayVars
  <2>2. RowsInv'
    <3>1. PagesInv => PagesInv'
      BY <1>13, PagesNext DEF allVars
    <3> QED
      BY <2>1, <3>1 DEF ReplayInv, RowsInv, Ascending
  <2>3. Quiet
    BY <2>1 DEF Quiet, ReplayInv, TradesInv
  <2>4. CursorInv' /\ SoundOrder'
    <3>1. Sound(index)' = Sound(index)
      BY <2>1 DEF Sound, CandleAt
    <3> QED
      BY <2>1, <3>1 DEF ReplayInv, CursorInv, SoundOrder
  <2>5. /\ First(todo)' = First(todo) /\ First(todo') = First(todo) /\ Bid' = Bid
        /\ TargetOf(First(todo), mode)' = TargetOf(First(todo), mode)
    BY <2>1 DEF First, Bid, CandleAt, TargetOf
  <2>6. Reached(First(todo))' = Reached(First(todo))
    BY <2>1, <2>5 DEF Reached
  <2> QED
    BY <2>1, <2>2, <2>3, <2>4, <2>5, <2>6, FrameStep DEF ReplayInv, TargetInv
<1> QED
  BY <1>1, <1>2, <1>3, <1>4, <1>5, <1>6, <1>7, <1>8, <1>9, <1>10, <1>11, <1>12, <1>13
     DEF BacktestNext, Replay

LEMMA ReplayInvariance == BacktestSpec => []ReplayInv
BY ReplayInit, ReplayNext, PTL DEF BacktestSpec

-----------------------------------------------------------------------------
(* The theorems of the backtest *)

LEMMA EntryWindow ==
  ASSUME ReplayInv, pc = "entries"
  PROVE  Window \in Seq(Candle)
BY WindowIs DEF ReplayInv, RowsInv

\* Whatever the history, an indicator is undefined exactly where the candles are too
\* few, without volume or flat (indicators/*.py).
THEOREM IndicatorsAgreeHolds == BacktestSpec => []IndicatorsAgree
<1>1. ReplayInv => IndicatorsAgree
  BY EntryWindow, LoopsAlwaysAgree DEF IndicatorsAgree
<1> QED
  BY <1>1, ReplayInvariance, PTL

\* min_candles_for_signal covers every warm-up, for all periods.
THEOREM WarmupSufficesHolds == BacktestSpec => []WarmupSuffices
<1>1. ReplayInv => WarmupSuffices
  BY EntryWindow, WarmupAlwaysCovers DEF WarmupSuffices
<1> QED
  BY <1>1, ReplayInvariance, PTL

\* A backtest only enters where all rows before are without a gap.
THEOREM EntersOnWholeHistoryHolds == BacktestSpec => []EntersOnWholeHistory
<1>1. ReplayInv => EntersOnWholeHistory
  BY DEF ReplayInv
<1> QED
  BY <1>1, ReplayInvariance, PTL

\* No simulated trade misses the target of the mode it was sold in.
THEOREM TradesMeetTargetHolds == BacktestSpec => []TradesMeetTarget
<1>1. ReplayInv => TradesMeetTarget
  BY DEF ReplayInv, TargetInv, Met, TradesMeetTarget
<1> QED
  BY <1>1, ReplayInvariance, PTL

\* The report of a backtest adds up after every candle.
THEOREM ReportAddsUpHolds == BacktestSpec => []ReportAddsUp
<1>1. ASSUME ReplayInv, pc = "idle"
      PROVE  /\ balance = start + NetOf(trades) - SumOver(Cost, OpenOf(Only))
             /\ {trades[n].id : n \in DOMAIN trades} = {i \in Ids : pos[i].state = "CLOSED"}
             /\ Len(trades) + Cardinality(OpenOf(Only)) = opened
  <2>1. IInv /\ Only \in Coins /\ report = NoReport /\ exits = <<>> /\ trades \in Seq(Trade)
    BY <1>1, CoinsAre DEF ReplayInv, IInv, FrameInv, TradesInv
  <2>2. Committed(Only) = SumOver(Cost, OpenOf(Only)) /\ Committed(Only) \in Int
    <3>1. Committed(Only) = SumOver(Cost, OpenOf(Only))
      BY <1>1, <2>1 DEF ReplayInv, CostInv
    <3>2. Committed(Only) \in Int
      BY <2>1 DEF IInv, TypeOK, Committed, Report
    <3> QED
      BY <3>1, <3>2
  <2>3. NetOf(exits) = 0 /\ NetOf(trades) \in Int /\ start \in Int /\ balance \in Int
    BY <1>1, <2>1, NetInt DEF ReplayInv, TradesInv, IInv, TypeOK
  <2>4. Due = balance
    BY <2>1, <2>3 DEF Due, NoReport
  <2>5. balance = start + NetOf(trades) - SumOver(Cost, OpenOf(Only))
    BY <1>1, <2>2, <2>3, <2>4 DEF ReplayInv, LedgerInv
  <2>6. Sold(exits) = {}
    BY <2>1 DEF Sold
  <2>7. {trades[n].id : n \in DOMAIN trades} = {i \in Ids : pos[i].state = "CLOSED"}
    BY <1>1, <2>6 DEF ReplayInv, TradesInv, Sold
  <2>8. /\ Len(trades) + 0 + slots[Only] + 0 - 0 = opened
        /\ slots[Only] + 0 - 0 = Cardinality(OpenOf(Only))
    <3>1. report.opened[Only] = 0 /\ report.closed[Only] = 0 /\ Len(exits) = 0
      BY <2>1 DEF NoReport
    <3>2. Len(trades) + Len(exits) + slots[Only] + report.opened[Only] - report.closed[Only]
            = opened
      BY <1>1 DEF ReplayInv, TradesInv
    <3>3. slots[Only] + report.opened[Only] - report.closed[Only] = Cardinality(OpenOf(Only))
      BY <1>1, <2>1 DEF IInv, SlotsInv
    <3> QED
      BY <3>1, <3>2, <3>3
  <2>9. Len(trades) + Cardinality(OpenOf(Only)) = opened
    <3>1. slots[Only] \in Nat /\ Len(trades) \in Nat
      BY <2>1 DEF IInv, TypeOK
    <3> QED
      BY <2>8, <3>1
  <2> QED
    BY <2>5, <2>7, <2>9
<1>2. ReplayInv => ReportAddsUp
  BY <1>1 DEF ReportAddsUp
<1> QED
  BY <1>2, ReplayInvariance, PTL

\* The replay is of a service that keeps its books, its limits and its guard: the
\* simulated account has no say in them.
THEOREM ReplayKeepsPromises ==
  BacktestSpec => [](BooksAgree /\ SlotLimit /\ OneBuyPerCandle /\ TrackedExactly)
<1>1. ReplayInv => BooksAgree /\ SlotLimit /\ OneBuyPerCandle /\ TrackedExactly
  BY DEF ReplayInv, IInv, SlotsInv, CostInv, BooksAgree
<1> QED
  BY <1>1, ReplayInvariance, PTL
=============================================================================
