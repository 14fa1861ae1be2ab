----------------------------- MODULE EntrySignal -----------------------------
(***************************************************************************)
(* The technical signal as the arithmetic it is: the indicators            *)
(* (indicators/*.py), their bundle (strategy/indicators.py), the series    *)
(* validation and the entry conditions (strategy/entry.py), in exact       *)
(* fractions where the code uses floating point.                           *)
(*                                                                         *)
(* A series is a sequence of candles, so candle i of the code is element   *)
(* i + 1 here.  An indicator is a function on the elements at which it is  *)
(* defined: None is an element outside its domain.                         *)
(***************************************************************************)
EXTENDS Integers, Sequences, FiniteSets

CONSTANTS
  RsiPeriod, RsiMaPeriod, AdxPeriod, AdrPeriod,  \* CoinStrategyParameters
  RsiOversold, RsiOverbought, AdxLow, AdxHigh    \* thresholds, in percent

ASSUME PeriodAssumption ==
  /\ RsiPeriod \in Nat \ {0} /\ RsiMaPeriod \in Nat \ {0}
  /\ AdxPeriod \in Nat \ {0} /\ AdrPeriod \in Nat \ {0}
ASSUME ThresholdAssumption ==
  /\ RsiOversold \in 0..100 /\ RsiOverbought \in 0..100
  /\ AdxLow \in Nat /\ AdxHigh \in Nat /\ AdxLow <= AdxHigh

-----------------------------------------------------------------------------
(* Fractions *)

GreaterOf(m, n) == IF m >= n THEN m ELSE n
Abs(n) == IF n < 0 THEN -n ELSE n

Gcd[p \in Nat \X Nat] == IF p[2] = 0 THEN p[1] ELSE Gcd[<<p[2], p[1] % p[2]>>]
Ratio(n, d) ==
  LET g == GreaterOf(Gcd[<<Abs(n), d>>], 1) IN [num |-> n \div g, den |-> d \div g]
Whole(n)   == Ratio(n, 1)
Zero       == Whole(0)
Add(x, y)  == Ratio(x.num * y.den + y.num * x.den, x.den * y.den)
Minus(x, y) == Ratio(x.num * y.den - y.num * x.den, x.den * y.den)
Mult(x, n) == Ratio(x.num * n, x.den)
Over(x, n) == Ratio(x.num, x.den * n)
Leq(x, y)  == x.num * y.den <= y.num * x.den
Less(x, y) == ~Leq(y, x)

\* The sum of f over first..last.
SumOf(f, first, last) ==
  LET upTo[i \in (first - 1)..last] ==
        IF i = first - 1 THEN Zero ELSE Add(upTo[i - 1], f[i])
  IN upTo[last]

-----------------------------------------------------------------------------
(* The indicators *)

\* Wilder's average of f over first..last with period p: the mean of the first p
\* values, then a pth of every further one (compute_rsi, compute_adx).
Wilder(f, p, first, last) ==
  LET avg[i \in (first + p - 1)..last] ==
        IF i = first + p - 1 THEN Over(SumOf(f, first, i), p)
        ELSE Over(Add(Mult(avg[i - 1], p - 1), f[i]), p)
  IN avg

\* The running sums of compute_adx, which shrink by a pth before they grow.
WilderSum(f, p, first, last) ==
  LET sum[i \in (first + p - 1)..last] ==
        IF i = first + p - 1 THEN SumOf(f, first, i)
        ELSE LET before == sum[i - 1] IN Add(Minus(before, Over(before, p)), f[i])
  IN sum

\* _rsi_from_averages.
RsiOf(gain, loss) ==
  IF gain = Zero /\ loss = Zero THEN Whole(50)
  ELSE Ratio(100 * gain.num * loss.den, gain.num * loss.den + loss.num * gain.den)

\* compute_rsi, on the opens.
Rsi(s) ==
  LET change(i) == s[i].open - s[i - 1].open
      gain == Wilder([i \in 2..Len(s) |-> Whole(GreaterOf(change(i), 0))],
                     RsiPeriod, 2, Len(s))
      loss == Wilder([i \in 2..Len(s) |-> Whole(GreaterOf(-change(i), 0))],
                     RsiPeriod, 2, Len(s))
  IN [i \in (RsiPeriod + 1)..Len(s) |-> RsiOf(gain[i], loss[i])]

\* compute_rsi_vwma.
Vwma(s, rsi) ==
  LET window(t) == (t - RsiMaPeriod + 1)..t
      volume(t) == SumOf([i \in window(t) |-> Whole(s[i].volume)],
                         t - RsiMaPeriod + 1, t)
      defined == {t \in DOMAIN s : window(t) \subseteq DOMAIN rsi /\ volume(t) # Zero}
  IN [t \in defined |->
        LET weighted == SumOf([i \in window(t) |-> Mult(rsi[i], s[i].volume)],
                              t - RsiMaPeriod + 1, t)
        IN Ratio(weighted.num * volume(t).den, weighted.den * volume(t).num)]

TrueRange(s, i) ==
  GreaterOf(s[i].high - s[i].low,
            GreaterOf(Abs(s[i].high - s[i - 1].close), Abs(s[i].low - s[i - 1].close)))
UpMove(s, i)   == s[i].high - s[i - 1].high
DownMove(s, i) == s[i - 1].low - s[i].low
Exceeds(m, n)  == IF m > n /\ m > 0 THEN m ELSE 0

\* Fault: a bar without any true range has a directional index of zero.
DxFlatIsZero(s) ==
  LET smooth(m(_)) == WilderSum([i \in 2..Len(s) |-> Whole(m(i))], AdxPeriod, 2, Len(s))
      up   == smooth(LAMBDA i : Exceeds(UpMove(s, i), DownMove(s, i)))
      down == smooth(LAMBDA i : Exceeds(DownMove(s, i), UpMove(s, i)))
  IN [i \in (AdxPeriod + 1)..Len(s) |->
        IF Add(up[i], down[i]) = Zero THEN Zero
        ELSE LET d == Minus(up[i], down[i]) IN
             LET t == Add(up[i], down[i]) IN Ratio(100 * Abs(d.num) * t.den, d.den * t.num)]

\* _di_and_dx in compute_adx: the true range cancels out of DX, but a bar whose
\* smoothed true range is zero has none.
Dx(s) ==
  LET smooth(m(_)) == WilderSum([i \in 2..Len(s) |-> Whole(m(i))], AdxPeriod, 2, Len(s))
      range == smooth(LAMBDA i : TrueRange(s, i))
      up    == smooth(LAMBDA i : Exceeds(UpMove(s, i), DownMove(s, i)))
      down  == smooth(LAMBDA i : Exceeds(DownMove(s, i), UpMove(s, i)))
      sum(i)  == Add(up[i], down[i])
      diff(i) == Minus(up[i], down[i])
  IN [i \in {i \in (AdxPeriod + 1)..Len(s) : range[i] # Zero} |->
        IF sum(i) = Zero THEN Zero
        ELSE Ratio(100 * Abs(diff(i).num) * sum(i).den, diff(i).den * sum(i).num)]

\* compute_adx: the smoothing ends for good at the first bar without a DX.
Adx(s) ==
  LET dx == Dx(s)
      unbroken == {i \in (2 * AdxPeriod)..Len(s) : (AdxPeriod + 1)..i \subseteq DOMAIN dx}
      last == IF unbroken = {} THEN 0 ELSE CHOOSE i \in unbroken : \A j \in unbroken : j <= i
      avg == Wilder(dx, AdxPeriod, AdxPeriod + 1, last)
  IN [i \in unbroken |-> avg[i]]

\* compute_adr: the candle itself is left out.
Adr(s) ==
  [t \in (AdrPeriod + 1)..Len(s) |->
     Over(SumOf([i \in (t - AdrPeriod)..(t - 1) |-> Whole(s[i].high - s[i].low)],
                t - AdrPeriod, t - 1),
          AdrPeriod)]

-----------------------------------------------------------------------------
(* The signal *)

\* validate_series, on candles that are closed and of one symbol.
Contiguous(s) ==
  /\ s # <<>>
  /\ \A i \in 1..(Len(s) - 1) : s[i + 1].minute = s[i].minute + 1

\* The candles each indicator needs.
VwmaReady  == RsiPeriod + 1 + RsiMaPeriod - 1
AdxReady   == 2 * AdxPeriod
AdrReady   == AdrPeriod + 1

\* Fault: without the further candle for the comparisons with t - 1.
MinCandlesShort == GreaterOf(VwmaReady, GreaterOf(AdxReady, AdrReady))

\* CoinStrategyParameters.min_candles_for_signal.
MinCandles == GreaterOf(VwmaReady, GreaterOf(AdxReady, AdrReady)) + 1

\* Every indicator the formula reads is defined at the last element and, but for
\* the ADX, at the one before.
Complete(s) ==
  LET t == Len(s)
      rsi == Rsi(s)
  IN /\ t \in DOMAIN rsi /\ t \in DOMAIN Adx(s)
     /\ {t - 1, t} \subseteq DOMAIN Vwma(s, rsi) \cap DOMAIN Adr(s)
     /\ t - 1 \in DOMAIN rsi

\* evaluate_entry_conditions.
Conditions(s) ==
  LET t == Len(s)
      rsi == Rsi(s)  vwma == Vwma(s, rsi)  adx == Adx(s)  adr == Adr(s)
  IN /\ Less(rsi[t], Whole(RsiOversold))
     /\ Leq(rsi[t - 1], vwma[t - 1])
     /\ Less(vwma[t], rsi[t])
     /\ Leq(Whole(AdxLow), adx[t]) /\ Leq(adx[t], Whole(AdxHigh))
     /\ Less(adr[t - 1], adr[t])

\* evaluate_entry_signal.
Signal(s) == Contiguous(s) /\ Len(s) >= 2 /\ Complete(s) /\ Conditions(s)

\* The RSI test of update_exit_arming.
Overbought(s) ==
  /\ Contiguous(s)
  /\ Len(s) \in DOMAIN Rsi(s)
  /\ Less(Whole(RsiOverbought), Rsi(s)[Len(s)])

-----------------------------------------------------------------------------
(* When the signal has something to go by, read off the candles alone *)

RsiSettled(s, t) == t \in (RsiPeriod + 1)..Len(s)
VwmaSettled(s, t) ==
  /\ RsiSettled(s, t) /\ RsiSettled(s, t - RsiMaPeriod + 1)
  /\ \E i \in (t - RsiMaPeriod + 1)..t : s[i].volume > 0
Moving(s, i) == TrueRange(s, i) > 0
DxSettled(s, t) ==
  /\ t \in (AdxPeriod + 1)..Len(s)
  /\ IF AdxPeriod = 1 THEN Moving(s, t) ELSE \E i \in 2..t : Moving(s, i)
AdxSettled(s, t) ==
  /\ t \in (2 * AdxPeriod)..Len(s)
  /\ \A i \in (AdxPeriod + 1)..t : DxSettled(s, i)
AdrSettled(s, t) == t \in (AdrPeriod + 1)..Len(s)

\* The last candle and the one before have all the formula needs.
Settled(s) ==
  LET t == Len(s)
  IN /\ RsiSettled(s, t) /\ VwmaSettled(s, t) /\ AdxSettled(s, t) /\ AdrSettled(s, t)
     /\ RsiSettled(s, t - 1) /\ VwmaSettled(s, t - 1) /\ AdrSettled(s, t - 1)

\* The smoothing loops leave an indicator undefined exactly where the history is
\* too short, no volume was traded or nothing moved.
LoopsAgree(s) == Complete(s) <=> Settled(s)

\* min_candles_for_signal covers the warm-up of every indicator and its
\* predecessor (strategy/parameters.py), if every candle trades and moves.
Lively(s) == (\A i \in DOMAIN s : s[i].volume > 0) /\ (\A i \in 2..Len(s) : Moving(s, i))
WarmupCovers(s) == Lively(s) /\ Len(s) >= MinCandles => Complete(s)
=============================================================================
