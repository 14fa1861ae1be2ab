--------------------------- MODULE MarketFeedProofs ---------------------------
(***************************************************************************)
(* Theorems about MarketFeed, for every size of window, buffer and channel *)
(* and every length of the run.  The inductive invariant, FeedInv, follows *)
(* each closed candle: it was lost, or it is on its way with every earlier *)
(* one that was not lost ahead of it, or it is in the buffer, or it is too *)
(* old for a buffer that already holds enough.                             *)
(***************************************************************************)
EXTENDS MarketFeed, SequenceTheorems, FiniteSetTheorems, SumTheorems, TLAPS

-----------------------------------------------------------------------------
(* The inductive invariant *)

\* The response that is being handled: what the exchange had at minute t, its first
\* kline to its n-th without the oldest of them.
ResponseOf(t, first, n) ==
  /\ first < n /\ n <= Len(klines) /\ n - first <= Limit + 1
  /\ first # 0 => n - first = Limit + 1
  /\ Len(rows) = n - first
  /\ \A i \in 1..(n - first) :
       rows[i] = IF klines[first + i] < t THEN Final(klines[first + i])
                 ELSE Partial(klines[first + i])
  /\ klines[n] <= t
  /\ \A i \in (n + 1)..Len(klines) : klines[i] >= t
  /\ seeding => \A i \in 1..Len(klines) :
                  t <= klines[i] /\ klines[i] < now => klines[i] \in missed

\* The exchange's klines are in the order of time.
ClockInv ==
  /\ now \in Limit..MaxMinute
  /\ klines # <<>> /\ Ascending(klines) /\ \A i \in 1..Len(klines) : klines[i] <= now
  /\ missed \subseteq 0..(now - 1)

\* A backfill runs while the socket is down: what closes meanwhile is lost.
ResponseInv ==
  /\ rows # <<>> => \E t \in Limit..now, first, n \in Nat : ResponseOf(t, first, n)
  /\ seeding => rows # <<>> /\ ~connected
  /\ ~connected => channel = <<>>

BufferInv ==
  /\ BufferOrdered
  /\ \A i \in DOMAIN buffer : buffer[i].open < now /\ buffer[i].open \in Elements(klines)
  /\ \A i, j \in DOMAIN buffer : ~buffer[i].final /\ ~buffer[j].final => i = j

ChannelInv ==
  \A j \in DOMAIN channel :
    channel[j].final => channel[j].open < now /\ channel[j].open \in Elements(klines)

\* Where a closed candle that was not lost is.
HeardInv ==
  \A k \in Elements(klines) :
    \/ k \in missed \/ k >= now
    \/ \E i \in DOMAIN buffer : buffer[i].open = k
    \/ buffer # <<>> /\ k < buffer[1].open /\ Len(buffer) >= Limit
    \/ k > NewestOpen /\ \E j \in DOMAIN channel : channel[j] = Final(k)

\* No candle overtakes one that was not lost.
InOrderInv ==
  \A j \in DOMAIN channel :
    channel[j].final =>
      \A k \in Elements(klines) :
        NewestOpen < k /\ k < channel[j].open =>
          k \in missed \/ \E i \in 1..(j - 1) : channel[i] = Final(k)

FeedInv ==
  /\ TypeOK /\ ClockInv /\ ResponseInv /\ BufferInv /\ ChannelInv
  /\ HeardInv /\ InOrderInv /\ PollComplete

-----------------------------------------------------------------------------
(* Lemmas about the operators *)

LEMMA SizeFacts ==
  /\ Limit \in Nat /\ Limit >= 1 /\ MaxCandles \in Nat /\ MaxCandles >= Limit
  /\ MaxMinute \in Nat /\ MaxChannel \in Nat
BY FeedAssumption

\* The last n elements of a sequence.
LEMMA LastNFacts ==
  ASSUME NEW S, NEW s \in Seq(S), NEW n \in Nat
  PROVE  LET t == LastN(s, n)
             d == Len(s) - Len(t)
         IN /\ t \in Seq(S) /\ Len(t) \in Nat /\ d \in Nat
            /\ Len(t) = IF Len(s) > n THEN n ELSE Len(s)
            /\ \A i \in 1..Len(t) : t[i] = s[d + i]
<1> DEFINE m == IF Len(s) > n THEN Len(s) - n + 1 ELSE 1
           t == SubSeq(s, m, Len(s))
<1>1. Len(s) \in Nat /\ m \in Nat /\ m >= 1
  BY LenProperties
<1>2. \A i \in m..Len(s) : s[i] \in S
  BY <1>1, ElementOfSeq
<1>3. /\ t \in Seq(S) /\ Len(t) = IF m <= Len(s) THEN Len(s) - m + 1 ELSE 0
      /\ \A i \in 1..(Len(s) - m + 1) : t[i] = s[m + i - 1]
  BY <1>1, <1>2, SubSeqProperties
<1>4. /\ Len(t) = IF Len(s) > n THEN n ELSE Len(s)
      /\ Len(s) - Len(t) = m - 1 /\ Len(t) \in Nat /\ Len(s) - m + 1 = Len(t)
  <2>1. CASE Len(s) > n
    <3>1. m = Len(s) - n + 1 /\ m <= Len(s) + 1
      BY <1>1, <2>1
    <3> HIDE DEF t, m
    <3>2. Len(t) = n
      BY <1>1, <1>3, <3>1
    <3> QED
      BY <1>1, <2>1, <3>1, <3>2
  <2>2. CASE ~(Len(s) > n)
    <3>1. m = 1
      BY <2>2
    <3> HIDE DEF t, m
    <3>2. Len(t) = Len(s)
      BY <1>1, <1>3, <3>1
    <3> QED
      BY <1>1, <2>2, <3>1, <3>2
  <2> QED
    BY <2>1, <2>2
<1>5. ASSUME NEW i \in 1..Len(t) PROVE t[i] = s[Len(s) - Len(t) + i]
  <2> HIDE DEF t, m
  <2>1. i \in 1..(Len(s) - m + 1) /\ m + i - 1 = Len(s) - Len(t) + i
    <3>1. Len(t) = Len(s) - m + 1 /\ Len(s) - Len(t) = m - 1
      BY <1>4
    <3>2. \A x, y, z \in Nat : x - y = z - 1 => z + i - 1 = x - y + i
      OBVIOUS
    <3> QED
      BY <1>1, <1>4, <3>1, <3>2
  <2> QED
    BY <1>3, <2>1
<1>6. LastN(s, n) = t
  BY DEF LastN
<1>7. Len(s) - Len(t) \in Nat /\ t \in Seq(S)
  <2> HIDE DEF t, m
  <2> QED
    BY <1>1, <1>3, <1>4
<1> HIDE DEF t, m
<1> QED
  BY <1>4, <1>5, <1>6, <1>7

LEMMA CandleFacts ==
  ASSUME NEW k \in 0..MaxMinute
  PROVE  /\ Final(k) \in Candle /\ Final(k).open = k /\ Final(k).final
         /\ Partial(k) \in Candle /\ Partial(k).open = k /\ ~Partial(k).final
BY DEF Final, Partial, Candle

LEMMA KlineFacts ==
  ASSUME TypeOK, ClockInv
  PROVE  /\ Len(klines) \in Nat /\ Len(klines) >= 1 /\ DOMAIN klines = 1..Len(klines)
         /\ \A i \in 1..Len(klines) :
              klines[i] \in 0..MaxMinute /\ klines[i] \in Nat /\ klines[i] <= now
         /\ \A i, j \in 1..Len(klines) : i < j => klines[i] < klines[j]
         /\ \A k : k \in Elements(klines) <=> \E i \in 1..Len(klines) : klines[i] = k
         /\ now \in Nat /\ now >= Limit /\ now <= MaxMinute /\ missed \subseteq 0..(now - 1)
<1>1. klines \in Seq(0..MaxMinute) /\ klines # <<>>
  BY DEF TypeOK, ClockInv
<1>2. Len(klines) \in Nat /\ DOMAIN klines = 1..Len(klines) /\ Len(klines) # 0
  BY <1>1, LenProperties, EmptySeq
<1>3. \A i \in 1..Len(klines) : klines[i] \in 0..MaxMinute
  BY <1>1, ElementOfSeq
<1>4. now \in Nat /\ now >= Limit /\ now <= MaxMinute /\ missed \subseteq 0..(now - 1)
  BY SizeFacts DEF ClockInv
<1>5. /\ \A i \in 1..Len(klines) : klines[i] <= now
      /\ \A i, j \in 1..Len(klines) : i < j => klines[i] < klines[j]
  BY <1>2 DEF ClockInv, Ascending
<1>6. \A k : k \in Elements(klines) <=> \E i \in 1..Len(klines) : klines[i] = k
  BY <1>2 DEF Elements
<1>7. Len(klines) >= 1 /\ \A i \in 1..Len(klines) : klines[i] \in Nat
  BY <1>2, <1>3, SizeFacts
<1> QED
  BY <1>2, <1>3, <1>4, <1>5, <1>6, <1>7

\* The klines of minutes that are over come before the open one.
LEMMA HistoryFacts ==
  ASSUME TypeOK, ClockInv
  PROVE  /\ History \in Seq(0..MaxMinute) /\ Len(History) \in Nat
         /\ Len(History) <= Len(klines) /\ DOMAIN History = 1..Len(History)
         /\ \A i \in 1..Len(History) : History[i] = klines[i] /\ klines[i] < now
         /\ \A i \in 1..Len(klines) : i > Len(History) => klines[i] = now
<1>1. PICK n : n = Len(klines)
  OBVIOUS
<1>2. /\ n \in Nat /\ n >= 1 /\ klines \in Seq(0..MaxMinute) /\ n \in 1..n
      /\ \A i \in 1..n : klines[i] \in 0..MaxMinute /\ klines[i] \in Nat /\ klines[i] <= now
      /\ \A i, j \in 1..n : i < j => klines[i] < klines[j]
      /\ now \in Nat
  BY <1>1, KlineFacts DEF TypeOK
<1>3. CASE klines[n] = now
  <2>1. PICK h : h = SubSeq(klines, 1, n - 1)
    OBVIOUS
  <2>2. History = h
    BY <1>1, <1>3, <2>1 DEF History
  <2>3. \A i \in 1..(n - 1) : klines[i] \in 0..MaxMinute
    BY <1>2
  <2>4. /\ h \in Seq(0..MaxMinute)
        /\ Len(h) = IF 1 <= n - 1 THEN n - 1 - 1 + 1 ELSE 0
        /\ \A i \in 1..(n - 1 - 1 + 1) : h[i] = klines[1 + i - 1]
    <3>1. n - 1 \in Int /\ 1 \in Int
      BY <1>2
    <3> QED
      BY <2>1, <2>3, <3>1, SubSeqProperties
  <2>5. Len(h) = n - 1 /\ Len(h) \in Nat /\ Len(h) <= n
    BY <1>2, <2>4
  <2>6. ASSUME NEW i \in 1..(n - 1) PROVE h[i] = klines[i] /\ klines[i] < now
    <3>1. i \in 1..(n - 1 - 1 + 1) /\ 1 + i - 1 = i /\ i \in 1..n /\ i < n
      BY <1>2, <2>6
    <3> QED
      BY <1>2, <1>3, <2>4, <3>1
  <2>7. \A i \in 1..n : i > n - 1 => i = n
    BY <1>2
  <2>8. DOMAIN h = 1..Len(h)
    BY <2>4, LenProperties
  <2> QED
    BY <1>1, <1>3, <2>2, <2>4, <2>5, <2>6, <2>7, <2>8
<1>4. CASE klines[n] # now
  <2>1. History = klines
    BY <1>1, <1>4 DEF History
  <2>2. ASSUME NEW i \in 1..n PROVE klines[i] < now
    <3>1. i = n \/ i < n
      BY <1>2
    <3>2. klines[n] < now
      BY <1>2, <1>4
    <3> QED
      BY <1>2, <3>1, <3>2
  <2>3. \A i \in 1..n : ~(i > n)
    BY <1>2
  <2> QED
    BY <1>1, <1>2, <2>1, <2>2, <2>3, LenProperties
<1> QED
  BY <1>3, <1>4

\* parse_klines keeps, of the klines in a row it got, the last limit that are closed;
\* the last of those may be partial.
LEMMA ClosedFacts ==
  ASSUME TypeOK, ClockInv, ResponseInv, rows # <<>>
  PROVE  \E first, m \in Nat :
           /\ Closed \in Seq(Candle) /\ Len(Closed) = m /\ m <= Limit
           /\ m < Limit => first = 0
           /\ first + m <= Len(klines)
           /\ \A i \in 1..m : /\ Closed[i].open = klines[first + i]
                              /\ klines[first + i] < now
                              /\ Closed[i].final \/ i = m
           /\ seeding => \A i \in (first + m + 1)..Len(klines) :
                           klines[i] < now => klines[i] \in missed
<1> USE SizeFacts
<1>1. PICK t \in Limit..now, first, n \in Nat : ResponseOf(t, first, n)
  BY DEF ResponseInv
<1>2. PICK size : size = n - first
  OBVIOUS
<1>3. /\ size \in Nat /\ size >= 1 /\ size <= Limit + 1 /\ (first # 0 => size = Limit + 1)
      /\ first + size = n /\ n <= Len(klines) /\ Len(rows) = size
      /\ \A i \in 1..size :
           rows[i] = IF klines[first + i] < t THEN Final(klines[first + i])
                     ELSE Partial(klines[first + i])
      /\ klines[n] <= t /\ \A i \in (n + 1)..Len(klines) : klines[i] >= t
      /\ seeding => \A i \in 1..Len(klines) :
                      t <= klines[i] /\ klines[i] < now => klines[i] \in missed
  <2>1. size \in Nat /\ size >= 1 /\ size <= Limit + 1 /\ first + size = n
    BY <1>1, <1>2 DEF ResponseOf
  <2> QED
    BY <1>1, <1>2, <2>1 DEF ResponseOf
<1>4. /\ now \in Nat /\ t \in Nat /\ t <= now /\ Len(klines) \in Nat
      /\ \A i \in 1..Len(klines) :
           klines[i] \in 0..MaxMinute /\ klines[i] \in Nat /\ klines[i] <= now
      /\ \A i, j \in 1..Len(klines) : i < j => klines[i] < klines[j]
  BY KlineFacts
<1>5. ASSUME NEW i \in 1..size
      PROVE  /\ first + i \in 1..Len(klines) /\ rows[i] \in Candle
             /\ rows[i].open = klines[first + i]
             /\ rows[i].final <=> klines[first + i] < t
  <2>1. first + i \in 1..Len(klines)
    BY <1>3, <1>4
  <2>2. klines[first + i] \in 0..MaxMinute
    BY <1>4, <2>1
  <2> QED
    BY <1>3, <2>1, <2>2, CandleFacts
<1>6. n \in 1..Len(klines) /\ size \in 1..size /\ rows[size].open = klines[n]
  <2>1. n \in 1..Len(klines) /\ size \in 1..size
    BY <1>3, <1>4
  <2> QED
    BY <1>3, <1>5, <2>1
<1>7. PICK c : c = IF klines[n] < now THEN size ELSE size - 1
  OBVIOUS
<1>8. c \in Nat /\ c <= size /\ c >= size - 1 /\ (c = size => klines[n] < now)
  BY <1>3, <1>7
<1>9. ASSUME NEW i \in 1..size PROVE klines[first + i] < now <=> i <= c
  <2>1. CASE i = size
    BY <1>3, <1>7, <2>1
  <2>2. CASE i # size
    <3>1. first + i < n /\ i <= c /\ first + i \in 1..Len(klines)
      BY <1>3, <1>5, <1>8, <2>2
    <3>2. klines[first + i] < klines[n] /\ klines[n] <= now
      BY <1>4, <1>6, <3>1
    <3> QED
      BY <1>4, <1>6, <3>1, <3>2
  <2> QED
    BY <2>1, <2>2
<1>10. rows \in Seq(Candle) /\ DOMAIN rows = 1..size
  BY <1>3, LenProperties DEF TypeOK
<1>11. ClosedCount = c
  <2>1. {i \in DOMAIN rows : rows[i].open < now} = 1..c
    <3>1. \A i \in 1..size : rows[i].open < now <=> i <= c
      BY <1>5, <1>9
    <3> QED
      BY <1>3, <1>8, <1>10, <3>1
  <2>2. Cardinality(1..c) = c
    BY <1>8, FS_Interval
  <2> QED
    BY <2>1, <2>2 DEF ClosedCount
<1>12. PICK s : s = SubSeq(rows, 1, c)
  OBVIOUS
<1>13. s \in Seq(Candle) /\ Len(s) = c /\ \A i \in 1..c : s[i] = rows[i]
  <2>1. \A i \in 1..c : rows[i] \in Candle
    BY <1>3, <1>5, <1>8
  <2>2. /\ s \in Seq(Candle) /\ Len(s) = IF 1 <= c THEN c - 1 + 1 ELSE 0
        /\ \A i \in 1..(c - 1 + 1) : s[i] = rows[1 + i - 1]
    BY <1>8, <1>12, <2>1, SubSeqProperties
  <2>3. c - 1 + 1 = c /\ (~(1 <= c) => c = 0) /\ \A i \in 1..c : 1 + i - 1 = i
    BY <1>8
  <2> QED
    BY <2>2, <2>3
<1>14. PICK r, m : r = LastN(s, Limit) /\ m = Len(r)
  OBVIOUS
<1>15. PICK d : d = c - m
  OBVIOUS
<1>16. /\ r \in Seq(Candle) /\ m \in Nat /\ d \in Nat /\ m = (IF c > Limit THEN Limit ELSE c)
       /\ \A i \in 1..m : r[i] = s[d + i]
  <2>1. LET x == LastN(s, Limit)
            e == Len(s) - Len(x)
        IN /\ x \in Seq(Candle) /\ Len(x) \in Nat /\ e \in Nat
           /\ Len(x) = IF Len(s) > Limit THEN Limit ELSE Len(s)
           /\ \A i \in 1..Len(x) : x[i] = s[e + i]
    BY <1>13, LastNFacts
  <2> QED
    BY <1>13, <1>14, <1>15, <2>1
<1>17. Closed = r
  BY <1>11, <1>12, <1>14 DEF Closed
<1>18. /\ d + m = c /\ m <= Limit /\ (m < Limit => first = 0 /\ d = 0)
       /\ first + d \in Nat /\ first + d + m = first + c /\ first + c <= Len(klines)
  BY <1>3, <1>4, <1>8, <1>15, <1>16
<1>19. ASSUME NEW i \in 1..m
       PROVE  /\ Closed[i].open = klines[first + d + i]
              /\ klines[first + d + i] < now
              /\ Closed[i].final \/ i = m
  <2>1. d + i \in 1..c /\ d + i \in 1..size /\ first + (d + i) = first + d + i
    BY <1>3, <1>8, <1>16, <1>18
  <2>2. Closed[i] = rows[d + i]
    BY <1>13, <1>16, <1>17, <2>1
  <2>3. Closed[i].open = klines[first + d + i] /\ klines[first + d + i] < now
    BY <1>5, <1>9, <2>1, <2>2
  <2>4. ASSUME i # m PROVE klines[first + (d + i)] < t
    <3>1. d + i < size
      BY <1>3, <1>8, <1>16, <1>18, <2>1, <2>4
    <3>2. first + (d + i) \in 1..Len(klines) /\ first + (d + i) < n
      <4>1. first + (d + i) \in 1..Len(klines)
        BY <1>5, <2>1
      <4>2. \A x, y, z \in Nat : y < z => x + y < x + z
        OBVIOUS
      <4>3. first \in Nat /\ d + i \in Nat /\ size \in Nat /\ first + size = n
        BY <1>3, <2>1
      <4> QED
        BY <3>1, <4>1, <4>2, <4>3
    <3>3. klines[first + (d + i)] < klines[n] /\ klines[first + (d + i)] \in Nat
      BY <1>4, <1>6, <3>2
    <3>4. klines[n] \in Nat /\ klines[n] <= t
      BY <1>3, <1>4, <1>6
    <3> QED
      BY <1>4, <3>3, <3>4
  <2> QED
    BY <1>5, <2>1, <2>2, <2>3, <2>4
<1>20. ASSUME seeding, NEW i \in (first + d + m + 1)..Len(klines), klines[i] < now
       PROVE  klines[i] \in missed
  <2>1. i \in (first + c + 1)..Len(klines) /\ i \in 1..Len(klines)
    BY <1>3, <1>4, <1>8, <1>18
  <2>2. i # n \/ klines[n] < now
    BY <1>20
  <2>3. i > n
    BY <1>3, <1>7, <1>20, <2>1
  <2>4. klines[i] >= t
    BY <1>3, <1>4, <2>1, <2>3
  <2> QED
    BY <1>3, <1>20, <2>1, <2>4
<1>21. PICK start : start = first + d
  OBVIOUS
<1>22. /\ start \in Nat /\ m \in Nat /\ (m < Limit => start = 0) /\ start + m <= Len(klines)
       /\ Closed \in Seq(Candle) /\ Len(Closed) = m /\ m <= Limit
  <2>1. m < Limit => start = 0
    BY <1>18, <1>21
  <2> QED
    BY <1>14, <1>16, <1>17, <1>18, <1>21, <2>1
<1> QED
  BY <1>19, <1>20, <1>21, <1>22

LEMMA BufferFacts ==
  ASSUME TypeOK
  PROVE  /\ Len(buffer) \in Nat /\ DOMAIN buffer = 1..Len(buffer) /\ Len(buffer) <= MaxCandles
         /\ \A i \in 1..Len(buffer) : buffer[i] \in Candle /\ buffer[i].open \in 0..MaxMinute
         /\ buffer = <<>> <=> Len(buffer) = 0
         /\ NewestOpen \in -1..MaxMinute
         /\ NewestOpen = IF Len(buffer) = 0 THEN -1 ELSE buffer[Len(buffer)].open
<1>1. buffer \in Seq(Candle) /\ Len(buffer) <= MaxCandles
  BY DEF TypeOK
<1>2. Len(buffer) \in Nat /\ DOMAIN buffer = 1..Len(buffer)
  BY <1>1, LenProperties
<1>3. \A i \in 1..Len(buffer) : buffer[i] \in Candle
  BY <1>1, ElementOfSeq
<1>4. buffer = <<>> <=> Len(buffer) = 0
  BY <1>1, EmptySeq
<1> QED
  BY <1>1, <1>2, <1>3, <1>4, SizeFacts DEF NewestOpen, Candle

LEMMA ChannelFacts ==
  ASSUME TypeOK
  PROVE  /\ Len(channel) \in Nat /\ DOMAIN channel = 1..Len(channel)
         /\ \A j \in 1..Len(channel) : channel[j] \in Candle /\ channel[j].open \in 0..MaxMinute
<1>1. channel \in Seq(Candle)
  BY DEF TypeOK
<1>2. Len(channel) \in Nat /\ DOMAIN channel = 1..Len(channel)
  BY <1>1, LenProperties
<1>3. \A j \in 1..Len(channel) : channel[j] \in Candle
  BY <1>1, ElementOfSeq
<1> QED
  BY <1>2, <1>3 DEF Candle

\* What apply_kline makes of a message.
LEMMA FoldFacts ==
  ASSUME TypeOK, NEW c \in Candle
  PROVE  \/ Fold(c) = buffer /\ (~c.final \/ c.open < NewestOpen)
         \/ /\ c.final /\ Len(buffer) >= 1 /\ c.open = NewestOpen
            /\ Fold(c) \in Seq(Candle) /\ Len(Fold(c)) = Len(buffer)
            /\ \A i \in 1..Len(buffer) : Fold(c)[i] = IF i = Len(buffer) THEN c ELSE buffer[i]
         \/ /\ c.final /\ c.open > NewestOpen /\ Fold(c) \in Seq(Candle)
            /\ \E d \in {0, 1} :
                 /\ Len(Fold(c)) = Len(buffer) + 1 - d
                 /\ IF d = 1 THEN Len(buffer) = MaxCandles ELSE Len(buffer) < MaxCandles
                 /\ \A i \in 1..Len(Fold(c)) :
                      Fold(c)[i] = IF i = Len(buffer) + 1 - d THEN c ELSE buffer[i + d]
<1> USE SizeFacts
<1>1. buffer \in Seq(Candle) /\ c.open \in 0..MaxMinute /\ c.final \in BOOLEAN
  BY DEF TypeOK, Candle
<1>2. CASE ~c.final \/ c.open < NewestOpen
  BY <1>2 DEF Fold
<1>3. CASE c.final /\ c.open = NewestOpen
  <2>1. Len(buffer) >= 1 /\ Len(buffer) \in 1..Len(buffer)
    BY <1>1, <1>3, BufferFacts
  <2>2. Fold(c) = [buffer EXCEPT ![Len(buffer)] = c]
    BY <1>1, <1>3 DEF Fold
  <2>3. /\ Fold(c) \in Seq(Candle) /\ Len(Fold(c)) = Len(buffer)
        /\ \A i \in 1..Len(buffer) : Fold(c)[i] = IF i = Len(buffer) THEN c ELSE buffer[i]
    BY <1>1, <2>1, <2>2, ExceptSeq
  <2> QED
    BY <1>3, <2>1, <2>3
<1>4. CASE c.final /\ c.open > NewestOpen
  <2> DEFINE s == Append(buffer, c)
             t == LastN(s, MaxCandles)
  <2>1. /\ s \in Seq(Candle) /\ Len(s) = Len(buffer) + 1 /\ Len(buffer) \in Nat
        /\ s[Len(buffer) + 1] = c /\ \A i \in 1..Len(buffer) : s[i] = buffer[i]
    BY <1>1, AppendProperties, LenProperties
  <2>2. Fold(c) = t
    BY <1>1, <1>4, BufferFacts DEF Fold
  <2>3. /\ t \in Seq(Candle) /\ Len(t) = IF Len(s) > MaxCandles THEN MaxCandles ELSE Len(s)
        /\ \A i \in 1..Len(t) : t[i] = s[Len(s) - Len(t) + i]
    <3> HIDE DEF s
    <3> QED
      BY <2>1, LastNFacts
  <2>4. PICK d \in {0, 1} : /\ d = Len(s) - Len(t) /\ Len(t) = Len(buffer) + 1 - d
                            /\ IF d = 1 THEN Len(buffer) = MaxCandles
                               ELSE Len(buffer) < MaxCandles
    <3>1. Len(buffer) <= MaxCandles
      BY BufferFacts
    <3>2. CASE Len(buffer) = MaxCandles
      <4>1. Len(t) = MaxCandles /\ Len(s) = MaxCandles + 1
        BY <2>1, <2>3, <3>2
      <4>2. 1 = Len(s) - Len(t) /\ Len(t) = Len(buffer) + 1 - 1
        BY <3>2, <4>1
      <4> QED
        BY <3>2, <4>2
    <3>3. CASE Len(buffer) < MaxCandles
      <4>1. Len(t) = Len(s) /\ Len(s) = Len(buffer) + 1
        BY <2>1, <2>3, <3>3
      <4>2. 0 = Len(s) - Len(t) /\ Len(t) = Len(buffer) + 1 - 0
        BY <2>1, <4>1
      <4> QED
        BY <3>3, <4>2
    <3> QED
      BY <2>1, <3>1, <3>2, <3>3
  <2>5. Len(t) = Len(buffer) + 1 - d
        /\ IF d = 1 THEN Len(buffer) = MaxCandles ELSE Len(buffer) < MaxCandles
    BY <2>4
  <2>6. ASSUME NEW i \in 1..Len(t)
        PROVE  t[i] = IF i = Len(buffer) + 1 - d THEN c ELSE buffer[i + d]
    <3>1. t[i] = s[d + i] /\ i \in Nat /\ i >= 1 /\ i <= Len(buffer) + 1 - d
      <4> HIDE DEF t, s
      <4>1. t[i] = s[Len(s) - Len(t) + i]
        BY <2>3
      <4>2. Len(t) \in Nat /\ i \in Nat /\ i >= 1 /\ i <= Len(t)
        <5>1. Len(t) \in Nat
          <6>1. \A x \in Nat : x + 1 - d \in Nat
            OBVIOUS
          <6> QED
            BY <2>1, <2>5, <6>1
        <5> QED
          BY <5>1
      <4> QED
        BY <2>4, <4>1, <4>2
    <3>2. CASE i = Len(buffer) + 1 - d
      <4>1. d + i = Len(buffer) + 1
        BY <2>1, <3>1, <3>2
      <4> QED
        BY <2>1, <3>1, <3>2, <4>1
    <3>3. CASE i # Len(buffer) + 1 - d
      <4>1. d + i \in 1..Len(buffer) /\ d + i = i + d
        BY <2>1, <3>1, <3>3
      <4> QED
        BY <2>1, <3>1, <3>3, <4>1
    <3> QED
      BY <3>2, <3>3
  <2> HIDE DEF t, s
  <2> QED
    BY <1>4, <2>2, <2>3, <2>5, <2>6
<1>5. NewestOpen \in Int /\ c.open \in Int
  BY <1>1, BufferFacts
<1>6. c.open < NewestOpen \/ c.open = NewestOpen \/ c.open > NewestOpen
  BY <1>5
<1> QED
  BY <1>1, <1>2, <1>3, <1>4, <1>6

-----------------------------------------------------------------------------
(* Each action preserves the invariant *)

LEMMA InvInit == Init => FeedInv
<1> SUFFICES ASSUME Init PROVE FeedInv
  OBVIOUS
<1> USE SizeFacts
<1>1. /\ now = Limit /\ rows = <<>> /\ seeding = FALSE /\ polled = <<>> /\ buffer = <<>>
      /\ connected = FALSE /\ channel = <<>> /\ missed = Elements(History)
  BY DEF Init
<1>2. <<>> \in Seq(Candle) /\ Len(<<>>) = 0 /\ DOMAIN <<>> = {}
  BY EmptySeq, LenProperties
<1>3. PICK n \in 1..(Limit + 1) : klines \in [1..n -> 0..Limit] /\ Ascending(klines)
  BY DEF Init
<1>4. /\ klines \in Seq(0..MaxMinute) /\ Len(klines) = n /\ n # 0 /\ Limit <= MaxMinute
      /\ \A i \in 1..Len(klines) : klines[i] <= now
  <2>1. Limit <= MaxMinute /\ 0..Limit \subseteq 0..MaxMinute
    BY FeedAssumption
  <2>2. klines \in [1..n -> 0..MaxMinute] /\ n \in Nat /\ n # 0
    BY <1>3, <2>1
  <2>3. klines \in Seq(0..MaxMinute) /\ Len(klines) = n
    BY <2>2, SeqDef, LenProperties
  <2>4. \A i \in 1..n : klines[i] <= Limit
    BY <1>3
  <2> QED
    BY <1>1, <2>1, <2>2, <2>3, <2>4
<1>5. TypeOK /\ ClockInv
  <2>1. klines # <<>>
    BY <1>2, <1>4
  <2>2. now \in Nat /\ now \in Limit..MaxMinute
    BY <1>1, <1>4
  <2>3. Elements(History) \subseteq 0..(now - 1)
    <3>1. ASSUME NEW i \in DOMAIN History PROVE History[i] \in 0..(now - 1)
      <4>1. CASE klines[Len(klines)] = now
        <5>1. History = SubSeq(klines, 1, n - 1)
          BY <1>4, <4>1 DEF History
        <5>2. \A k \in 1..(n - 1) : klines[k] \in 0..MaxMinute
          BY <1>3, <1>4
        <5>3. /\ Len(History) = IF 1 <= n - 1 THEN n - 1 - 1 + 1 ELSE 0
              /\ History \in Seq(0..MaxMinute)
              /\ \A k \in 1..(n - 1 - 1 + 1) : History[k] = klines[1 + k - 1]
          <6>1. n - 1 \in Int /\ 1 \in Int
            OBVIOUS
          <6> QED
            BY <5>1, <5>2, <6>1, SubSeqProperties
        <5>4. i \in 1..Len(History)
          BY <5>3, LenProperties
        <5>5. i \in 1..(n - 1 - 1 + 1) /\ i \in 1..(n - 1) /\ 1 + i - 1 = i
          BY <5>3, <5>4
        <5>6. History[i] = klines[i] /\ i < n /\ i \in 1..n /\ n \in 1..n
          BY <5>3, <5>5
        <5>7. klines[i] < klines[n] /\ klines[i] \in 0..Limit
          BY <1>3, <5>6 DEF Ascending
        <5> QED
          BY <1>4, <2>2, <4>1, <5>6, <5>7
      <4>2. CASE klines[Len(klines)] # now
        <5>1. History = klines /\ i \in 1..n /\ n \in 1..n
          BY <1>3, <4>2 DEF History
        <5>2. klines[i] \in 0..Limit /\ klines[n] \in 0..Limit /\ klines[n] # Limit
          BY <1>1, <1>3, <1>4, <4>2, <5>1
        <5>3. i = n \/ klines[i] < klines[n]
          <6>1. i = n \/ i < n
            BY <5>1
          <6> QED
            BY <1>3, <5>1, <6>1 DEF Ascending
        <5> QED
          BY <1>1, <5>1, <5>2, <5>3
      <4> QED
        BY <4>1, <4>2
    <3> QED
      BY <3>1 DEF Elements
  <2>4. missed \subseteq 0..(now - 1) /\ missed \subseteq 0..MaxMinute
    BY <1>1, <2>2, <2>3
  <2>5. ClockInv
    BY <1>3, <1>4, <2>1, <2>2, <2>4 DEF ClockInv
  <2>6. /\ rows \in Seq(Candle) /\ polled \in Seq(Candle) /\ buffer \in Seq(Candle)
        /\ channel \in Seq(Candle)
    BY <1>1, <1>2
  <2>7. Len(buffer) <= MaxCandles /\ Len(channel) <= MaxChannel
    BY <1>1, <1>2
  <2>8. seeding \in BOOLEAN /\ connected \in BOOLEAN
    BY <1>1
  <2>9. TypeOK
    BY <1>4, <2>2, <2>4, <2>6, <2>7, <2>8 DEF TypeOK
  <2> QED
    BY <2>5, <2>9
<1>6. ResponseInv
  BY <1>1 DEF ResponseInv
<1>7. PollComplete
  <2>1. Len(polled) = 0 /\ DOMAIN polled = {} /\ 0 \in 0..(Len(klines) - 0)
    BY <1>1, <1>2, <1>4
  <2>2. Len(polled) <= Limit /\ 0 \in 0..(Len(klines) - Len(polled))
    BY <2>1
  <2> QED
    BY <2>1, <2>2 DEF PollComplete
<1>8. BufferInv /\ ChannelInv /\ InOrderInv
  BY <1>1, <1>2 DEF BufferInv, BufferOrdered, ChannelInv, InOrderInv
<1>9. HeardInv
  <2>1. ASSUME NEW k \in Elements(klines) PROVE k \in missed \/ k >= now
    <3>1. PICK i \in 1..Len(klines) : klines[i] = k
      BY <1>5, KlineFacts
    <3>2. CASE i <= Len(History)
      <4>1. i \in DOMAIN History /\ History[i] = k
        BY <1>5, <3>1, <3>2, HistoryFacts
      <4> QED
        BY <1>1, <4>1 DEF Elements
    <3>3. CASE ~(i <= Len(History))
      <4>1. i > Len(History)
        BY <1>5, <3>3, HistoryFacts
      <4>2. k = now /\ now \in Nat
        BY <1>5, <3>1, <4>1, HistoryFacts, KlineFacts
      <4> QED
        BY <4>2
    <3> QED
      BY <3>2, <3>3
  <2> QED
    BY <2>1 DEF HeardInv
<1> QED
  BY <1>5, <1>6, <1>7, <1>8, <1>9 DEF FeedInv

\* What only speaks of the stream survives a step that leaves it alone.
LEMMA StreamKept ==
  ASSUME FeedInv, UNCHANGED <<now, klines, buffer, channel, missed>>
  PROVE  ClockInv' /\ BufferInv' /\ ChannelInv' /\ HeardInv' /\ InOrderInv'
BY DEF FeedInv, ClockInv, BufferInv, BufferOrdered, ChannelInv, HeardInv, InOrderInv,
       NewestOpen

\* What is on its way from a request, and what the last one brought, survive a step
\* that leaves them and the clock alone.
LEMMA RestKept ==
  ASSUME FeedInv, UNCHANGED <<now, klines, rows, seeding, missed>>,
         seeding' => ~connected', ~connected' => channel' = <<>>
  PROVE  ResponseInv'
<1>1. \A t, first, n : ResponseOf(t, first, n) => ResponseOf(t, first, n)'
  BY DEF ResponseOf
<1> QED
  BY <1>1 DEF FeedInv, ResponseInv

LEMMA PolledKept ==
  ASSUME FeedInv, UNCHANGED <<klines, polled>>
  PROVE  PollComplete'
BY DEF FeedInv, PollComplete

LEMMA InvFetch ==
  ASSUME FeedInv, NEW seed \in BOOLEAN, Fetch(seed)
  PROVE  FeedInv'
<1> USE SizeFacts
<1>1. /\ rows = <<>> /\ rows' = Response(Limit + 1) /\ seeding' = seed /\ (seed => ~connected)
      /\ UNCHANGED <<now, klines, polled, buffer, connected, channel, missed>>
  BY DEF Fetch
<1>2. PICK n : n = Len(klines)
  OBVIOUS
<1>3. /\ now \in Nat /\ now \in Limit..now /\ n \in Nat /\ n >= 1 /\ klines \in Seq(0..MaxMinute)
      /\ \A i \in 1..n : klines[i] \in 0..MaxMinute /\ klines[i] <= now
  <2>1. TypeOK /\ ClockInv
    BY DEF FeedInv
  <2> QED
    BY <1>2, <2>1, KlineFacts DEF TypeOK
<1>4. PICK asked, size, first :
        asked = LastN(klines, Limit + 1) /\ size = Len(asked) /\ first = n - size
  OBVIOUS
<1>5. /\ asked \in Seq(0..MaxMinute) /\ size \in Nat /\ first \in Nat
      /\ size = (IF n > Limit + 1 THEN Limit + 1 ELSE n)
      /\ \A i \in 1..size : asked[i] = klines[first + i]
  <2>1. LET x == LastN(klines, Limit + 1)
            e == Len(klines) - Len(x)
        IN /\ x \in Seq(0..MaxMinute) /\ Len(x) \in Nat /\ e \in Nat
           /\ Len(x) = IF Len(klines) > Limit + 1 THEN Limit + 1 ELSE Len(klines)
           /\ \A i \in 1..Len(x) : x[i] = klines[e + i]
    BY <1>3, LastNFacts
  <2> QED
    BY <1>2, <1>4, <2>1
<1>6. DOMAIN asked = 1..size
  BY <1>4, <1>5, LenProperties
<1>7. rows' = [i \in 1..size |-> IF asked[i] < now THEN Final(asked[i]) ELSE Partial(asked[i])]
  BY <1>1, <1>4, <1>6 DEF Response
<1>8. PICK w : w = rows'
  OBVIOUS
<1>9. ASSUME NEW i \in 1..size
      PROVE  /\ w[i] \in Candle /\ first + i \in 1..n
             /\ w[i] = IF klines[first + i] < now THEN Final(klines[first + i])
                       ELSE Partial(klines[first + i])
  <2>1. first + i \in 1..n
    BY <1>3, <1>4, <1>5
  <2>2. klines[first + i] \in 0..MaxMinute /\ asked[i] = klines[first + i]
    BY <1>3, <1>5, <2>1
  <2>3. w[i] = IF klines[first + i] < now THEN Final(klines[first + i])
               ELSE Partial(klines[first + i])
    BY <1>7, <1>8, <2>2
  <2> QED
    BY <2>1, <2>2, <2>3, CandleFacts
<1>10. w \in Seq(Candle) /\ Len(w) = size /\ w # <<>>
  <2>1. w \in [1..size -> Candle] /\ size \in Nat /\ size # 0
    <3>1. DOMAIN w = 1..size /\ w = [i \in 1..size |-> w[i]]
      BY <1>7, <1>8
    <3>2. size # 0
      BY <1>3, <1>5
    <3> QED
      BY <1>5, <1>9, <3>1, <3>2
  <2>2. w \in Seq(Candle) /\ Len(w) = size
    BY <2>1, SeqDef, LenProperties
  <2> QED
    BY <2>1, <2>2, EmptySeq
<1>11. TypeOK'
  BY <1>1, <1>8, <1>10 DEF FeedInv, TypeOK
<1>12. ResponseInv'
  <2>1. ~connected => channel = <<>>
    BY DEF FeedInv, ResponseInv
  <2>2. n - first = size /\ first < n /\ n <= n /\ (first # 0 => size = Limit + 1)
        /\ size <= Limit + 1
    BY <1>3, <1>4, <1>5
  <2>3. klines[n] <= now /\ ~(\E i \in (n + 1)..n : TRUE)
    BY <1>3
  <2>4. \A i \in 1..n : ~(now <= klines[i] /\ klines[i] < now)
    BY <1>3
  <2>5. ResponseOf(now, first, n)'
    BY <1>1, <1>2, <1>8, <1>9, <1>10, <2>2, <2>3, <2>4 DEF ResponseOf
  <2> QED
    BY <1>1, <1>3, <1>5, <1>8, <1>10, <2>1, <2>5 DEF ResponseInv
<1> QED
  BY <1>1, <1>11, <1>12, PolledKept, StreamKept DEF FeedInv

LEMMA InvPoll ==
  ASSUME FeedInv, Poll
  PROVE  FeedInv'
<1> USE SizeFacts
<1>1. /\ rows # <<>> /\ ~seeding /\ polled' = Closed /\ rows' = <<>>
      /\ UNCHANGED <<now, klines, seeding, buffer, connected, channel, missed>>
  BY DEF Poll
<1>2. PICK first, m \in Nat :
        /\ Closed \in Seq(Candle) /\ Len(Closed) = m /\ m <= Limit
        /\ m < Limit => first = 0
        /\ first + m <= Len(klines)
        /\ \A i \in 1..m : Closed[i].open = klines[first + i]
  BY <1>1, ClosedFacts DEF FeedInv
<1>3. TypeOK'
  BY <1>1, <1>2, EmptySeq DEF FeedInv, TypeOK
<1>4. PollComplete'
  <2>1. Len(klines) \in Nat
    BY KlineFacts DEF FeedInv
  <2>2. first \in 0..(Len(klines) - m)
    BY <1>2, <2>1
  <2>3. DOMAIN Closed = 1..m
    BY <1>2, LenProperties
  <2> QED
    BY <1>1, <1>2, <2>2, <2>3 DEF PollComplete
<1>5. ResponseInv'
  BY <1>1 DEF FeedInv, ResponseInv
<1> QED
  BY <1>1, <1>3, <1>4, <1>5, StreamKept DEF FeedInv

LEMMA InvConnect ==
  ASSUME FeedInv, Connect
  PROVE  FeedInv'
<1>1. /\ ~seeding /\ connected' = TRUE
      /\ UNCHANGED <<now, klines, rows, seeding, polled, buffer, channel, missed>>
  BY DEF Connect
<1>2. TypeOK'
  BY <1>1 DEF FeedInv, TypeOK
<1> QED
  BY <1>1, <1>2, RestKept, PolledKept, StreamKept DEF FeedInv

\* A backfill may end in one partial candle, and what it does not reach was lost.
LEMMA InvSeed ==
  ASSUME FeedInv, Seed
  PROVE  FeedInv'
<1> USE SizeFacts
<1>1. /\ rows # <<>> /\ seeding /\ buffer' = LastN(Closed, MaxCandles)
      /\ missed' = missed \ Opens(Closed) /\ rows' = <<>> /\ seeding' = FALSE
      /\ UNCHANGED <<now, klines, polled, connected, channel>>
  BY DEF Seed
<1>2. PICK first, m \in Nat :
        /\ Closed \in Seq(Candle) /\ Len(Closed) = m /\ m <= Limit
        /\ m < Limit => first = 0
        /\ first + m <= Len(klines)
        /\ \A i \in 1..m : /\ Closed[i].open = klines[first + i]
                           /\ klines[first + i] < now
                           /\ Closed[i].final \/ i = m
        /\ \A i \in (first + m + 1)..Len(klines) : klines[i] < now => klines[i] \in missed
  BY <1>1, ClosedFacts DEF FeedInv
<1>3. PICK b, n : b = buffer' /\ n = Len(klines)
  OBVIOUS
<1>4. b = Closed
  <2> DEFINE s == LastN(Closed, MaxCandles)
  <2>1. /\ s \in Seq(Candle)
        /\ Len(s) = IF Len(Closed) > MaxCandles THEN MaxCandles ELSE Len(Closed)
        /\ \A i \in 1..Len(s) : s[i] = Closed[Len(Closed) - Len(s) + i]
    BY <1>2, LastNFacts
  <2>2. Len(s) = m
    BY <1>2, <2>1
  <2>3. \A i \in 1..m : s[i] = Closed[i]
    <3>1. \A i \in 1..m : m - m + i = i
      BY <1>2
    <3> HIDE DEF s
    <3> QED
      BY <1>2, <2>1, <2>2, <3>1
  <2>4. s = Closed
    <3> HIDE DEF s
    <3> QED
      BY <1>2, <2>1, <2>2, <2>3, SeqEqual
  <2> QED
    BY <1>1, <1>3, <2>4
<1>5. /\ now \in Nat /\ n \in Nat /\ missed \subseteq 0..(now - 1)
      /\ \A i \in 1..n : klines[i] \in Nat /\ klines[i] <= now
      /\ \A i, j \in 1..n : i < j => klines[i] < klines[j]
      /\ \A k : k \in Elements(klines) <=> \E i \in 1..n : klines[i] = k
  BY <1>3, KlineFacts DEF FeedInv
<1>6. channel = <<>> /\ ~connected
  BY <1>1 DEF FeedInv, ResponseInv
<1>7. /\ b \in Seq(Candle) /\ Len(b) = m /\ DOMAIN b = 1..m /\ (m # 0 => b # <<>>)
      /\ \A i \in 1..m : /\ first + i \in 1..n /\ b[i].open = klines[first + i]
                         /\ klines[first + i] < now /\ (b[i].final \/ i = m)
  <2>1. \A i \in 1..m : first + i \in 1..n
    BY <1>2, <1>3, <1>5
  <2>2. DOMAIN b = 1..m /\ (m # 0 => b # <<>>)
    BY <1>2, <1>4, LenProperties, EmptySeq
  <2> QED
    BY <1>2, <1>4, <2>1, <2>2
<1>8. \A k : k \in Opens(Closed) <=> \E i \in 1..m : klines[first + i] = k
  BY <1>4, <1>7 DEF Opens
<1>9. TypeOK'
  <2>1. Len(buffer') <= MaxCandles /\ buffer' \in Seq(Candle)
    BY <1>2, <1>3, <1>7
  <2> QED
    BY <1>1, <2>1, EmptySeq DEF FeedInv, TypeOK
<1>10. ClockInv'
  BY <1>1 DEF FeedInv, ClockInv, Ascending
<1>11. ResponseInv'
  BY <1>1, <1>6 DEF ResponseInv
<1>12. BufferInv'
  <2>1. \A i \in 1..m : b[i].open < now /\ b[i].open \in Elements(klines)
    BY <1>5, <1>7
  <2>2. ASSUME NEW i \in 1..m, NEW j \in 1..m, i < j PROVE b[i].open < b[j].open
    <3>1. first + i < first + j
      BY <1>2, <2>2
    <3> QED
      BY <1>5, <1>7, <3>1
  <2>3. \A i, j \in 1..m : ~b[i].final /\ ~b[j].final => i = j
    BY <1>7
  <2> QED
    BY <1>1, <1>3, <1>7, <2>1, <2>2, <2>3 DEF BufferInv, BufferOrdered, Elements
<1>13. ChannelInv' /\ InOrderInv'
  <2>1. DOMAIN channel' = {}
    BY <1>1, <1>6, EmptySeq, LenProperties
  <2> QED
    BY <2>1 DEF ChannelInv, InOrderInv
<1>14. HeardInv'
  <2>1. ASSUME NEW p \in 1..n, klines[p] \notin missed', klines[p] < now
        PROVE  \/ \E i \in 1..m : b[i].open = klines[p]
               \/ b # <<>> /\ klines[p] < b[1].open /\ Len(b) >= Limit
    <3>1. CASE p <= first
      <4>1. m = Limit /\ 1 \in 1..m /\ p < first + 1 /\ m # 0
        BY <1>2, <1>5, <3>1
      <4>2. klines[p] < klines[first + 1] /\ b[1].open = klines[first + 1]
        BY <1>5, <1>7, <4>1
      <4> QED
        BY <1>7, <4>1, <4>2
    <3>2. CASE p \in (first + 1)..(first + m)
      <4>1. p - first \in 1..m /\ first + (p - first) = p
        BY <1>2, <3>2
      <4> QED
        BY <1>7, <4>1
    <3>3. CASE p \in (first + m + 1)..n
      <4>1. klines[p] \in missed /\ klines[p] \in Opens(Closed)
        BY <1>1, <1>2, <1>3, <2>1, <3>3
      <4>2. PICK i \in 1..m : klines[first + i] = klines[p]
        BY <1>8, <4>1
      <4>3. first + i < p
        BY <1>2, <3>3
      <4>4. klines[first + i] < klines[p] /\ klines[p] \in Nat
        BY <1>5, <1>7, <4>3
      <4> QED
        BY <4>2, <4>4
    <3> QED
      BY <1>2, <1>5, <3>1, <3>2, <3>3
  <2>2. SUFFICES ASSUME NEW k \in Elements(klines)
                 PROVE  \/ k \in missed' \/ k >= now
                        \/ \E i \in DOMAIN b : b[i].open = k
                        \/ b # <<>> /\ k < b[1].open /\ Len(b) >= Limit
    BY <1>1, <1>3 DEF HeardInv, Elements
  <2>3. PICK p \in 1..n : klines[p] = k
    BY <1>5
  <2>4. k \in Nat /\ (k >= now \/ k < now)
    BY <1>5, <2>3
  <2> QED
    BY <1>7, <2>1, <2>3, <2>4
<1> QED
  BY <1>1, <1>9, <1>10, <1>11, <1>12, <1>13, <1>14, PolledKept DEF FeedInv

\* What was on its way is lost with the connection.
LEMMA InvDisconnect ==
  ASSUME FeedInv, Disconnect
  PROVE  FeedInv'
<1> USE SizeFacts
<1>1. /\ connected /\ connected' = FALSE /\ channel' = <<>> /\ missed' = missed \cup Awaited
      /\ UNCHANGED <<now, klines, rows, seeding, polled, buffer>>
  BY DEF Disconnect
<1>2. now \in Nat /\ now <= MaxMinute /\ missed \subseteq 0..(now - 1)
  BY DEF FeedInv, ClockInv
<1>3. Awaited \subseteq 0..(now - 1)
  <2>1. ASSUME NEW j \in DOMAIN channel, channel[j].final PROVE channel[j].open \in 0..(now - 1)
    <3>1. channel[j].open < now /\ channel[j].open \in 0..MaxMinute
      BY <2>1, ChannelFacts DEF FeedInv, ChannelInv
    <3> QED
      BY <1>2, <3>1
  <2> QED
    BY <2>1 DEF Awaited
<1>4. TypeOK' /\ ClockInv'
  <2>1. missed' \subseteq 0..(now - 1) /\ missed' \subseteq 0..MaxMinute
    BY <1>1, <1>2, <1>3
  <2>2. <<>> \in Seq(Candle) /\ Len(<<>>) = 0
    BY EmptySeq
  <2>3. channel' \in Seq(Candle) /\ Len(channel') <= MaxChannel
    BY <1>1, <2>2
  <2>4. TypeOK'
    BY <1>1, <2>1, <2>3 DEF FeedInv, TypeOK
  <2> QED
    BY <1>1, <2>1, <2>4 DEF FeedInv, ClockInv, Ascending
<1>5. ResponseInv'
  <2>1. ~seeding
    BY <1>1 DEF FeedInv, ResponseInv
  <2>2. \A t, first, n : ResponseOf(t, first, n) => ResponseOf(t, first, n)'
    BY <1>1, <2>1 DEF ResponseOf
  <2> QED
    BY <1>1, <2>1, <2>2 DEF FeedInv, ResponseInv
<1>6. BufferInv'
  BY <1>1 DEF FeedInv, BufferInv, BufferOrdered, Elements
<1>7. ChannelInv' /\ InOrderInv'
  <2>1. DOMAIN channel' = {}
    BY <1>1, EmptySeq, LenProperties
  <2> QED
    BY <2>1 DEF ChannelInv, InOrderInv
<1>8. HeardInv'
  <2>1. SUFFICES ASSUME NEW k \in Elements(klines), k \notin missed'
                 PROVE  \/ k >= now
                        \/ \E i \in DOMAIN buffer : buffer[i].open = k
                        \/ buffer # <<>> /\ k < buffer[1].open /\ Len(buffer) >= Limit
    BY <1>1 DEF HeardInv, Elements
  <2>2. k \notin missed /\ k \notin Awaited
    BY <1>1, <2>1
  <2>3. ~\E j \in DOMAIN channel : k > NewestOpen /\ channel[j] = Final(k)
    <3>1. SUFFICES ASSUME NEW j \in DOMAIN channel, k > NewestOpen, channel[j] = Final(k)
                   PROVE  k \in Awaited
      BY <2>2
    <3>2. channel[j].final /\ channel[j].open = k
      BY <3>1 DEF Final
    <3> QED
      BY <3>1, <3>2 DEF Awaited
  <2> QED
    BY <2>1, <2>2, <2>3 DEF FeedInv, HeardInv
<1> QED
  BY <1>1, <1>4, <1>5, <1>6, <1>7, <1>8, PolledKept DEF FeedInv

\* A candle that closed and was not lost lies behind the newest in the buffer or
\* is on its way.
LEMMA NewerIsQueued ==
  ASSUME FeedInv, NEW k \in Elements(klines), k < now, k > NewestOpen
  PROVE  k \in missed \/ \E i \in 1..Len(channel) : channel[i] = Final(k)
<1>1. ASSUME NEW i \in DOMAIN buffer PROVE buffer[i].open <= NewestOpen
  <2>1. /\ Len(buffer) \in Nat /\ i \in 1..Len(buffer) /\ DOMAIN buffer = 1..Len(buffer)
        /\ NewestOpen = buffer[Len(buffer)].open /\ buffer[i].open \in 0..MaxMinute
        /\ NewestOpen \in -1..MaxMinute
    BY BufferFacts DEF FeedInv
  <2>2. i = Len(buffer) \/ i < Len(buffer)
    BY <2>1
  <2>3. CASE i = Len(buffer)
    BY <2>1, <2>3, SizeFacts
  <2>4. CASE i < Len(buffer)
    <3>1. buffer[i].open < buffer[Len(buffer)].open
      BY <2>1, <2>4 DEF FeedInv, BufferInv, BufferOrdered
    <3> QED
      BY <2>1, <3>1, SizeFacts
  <2> QED
    BY <2>2, <2>3, <2>4
<1>2. k \in Int /\ NewestOpen \in Int /\ \A i \in DOMAIN buffer : buffer[i].open \in Int
  <2>1. k \in Int /\ NewestOpen \in Int
    BY KlineFacts, BufferFacts DEF FeedInv
  <2>2. \A i \in DOMAIN buffer : buffer[i].open \in Int
    BY BufferFacts DEF FeedInv
  <2> QED
    BY <2>1, <2>2
<1>3. ~\E i \in DOMAIN buffer : buffer[i].open = k
  BY <1>1, <1>2
<1>4. ~(buffer # <<>> /\ k < buffer[1].open)
  <2>1. buffer # <<>> => 1 \in DOMAIN buffer
    BY BufferFacts DEF FeedInv
  <2> QED
    BY <1>1, <1>2, <2>1
<1>5. ~(k >= now)
  BY <1>2, KlineFacts DEF FeedInv
<1> QED
  BY <1>3, <1>4, <1>5, ChannelFacts DEF FeedInv, HeardInv

\* A message is put on the way: every closed candle before it was lost or is
\* ahead of it.
LEMMA QueueGrows ==
  ASSUME FeedInv, NEW c \in Candle, channel' = Append(channel, c),
         UNCHANGED <<klines, buffer, missed>>,
         now' \in {now, now + 1}, now' <= MaxMinute,
         c.final => /\ c = Final(c.open) /\ c.open < now' /\ c.open <= now
                    /\ c.open \in Elements(klines)
  PROVE  /\ channel' \in Seq(Candle) /\ Len(channel') = Len(channel) + 1
         /\ ClockInv' /\ BufferInv' /\ ChannelInv' /\ InOrderInv'
         /\ (now' = now \/ c = Final(now)) => HeardInv'
<1> USE SizeFacts
<1>1. PICK w : w = channel'
  OBVIOUS
<1>2. /\ w \in Seq(Candle) /\ Len(w) = Len(channel) + 1 /\ DOMAIN w = 1..(Len(channel) + 1)
      /\ \A i \in 1..Len(channel) : w[i] = channel[i]
      /\ w[Len(channel) + 1] = c
      /\ Len(channel) \in Nat /\ DOMAIN channel = 1..Len(channel)
  BY <1>1, AppendProperties, LenProperties DEF FeedInv, TypeOK
<1>3. /\ now \in Nat /\ now >= Limit /\ now' \in Nat /\ now' >= now
      /\ missed \subseteq 0..(now - 1)
      /\ \A k \in Elements(klines) : k \in Nat /\ k <= now
      /\ Elements(klines)' = Elements(klines)
  <2>1. /\ now \in Nat /\ now >= Limit /\ missed \subseteq 0..(now - 1)
        /\ \A k \in Elements(klines) : k \in Nat /\ k <= now
    BY KlineFacts DEF FeedInv
  <2> QED
    BY <2>1 DEF Elements
<1>4. ClockInv'
  <2>1. 0..(now - 1) \subseteq 0..(now' - 1) /\ now' \in Limit..MaxMinute
    <3>1. \A x, y \in Nat : x <= y => 0..(x - 1) \subseteq 0..(y - 1)
      OBVIOUS
    <3>2. 0..(now - 1) \subseteq 0..(now' - 1)
      BY <1>3, <3>1
    <3>3. now' >= Limit
      BY <1>3
    <3>4. now' \in Limit..MaxMinute
      BY <1>3, <3>3
    <3> QED
      BY <3>2, <3>4
  <2>2. \A i \in 1..Len(klines) : klines[i] <= now'
    <3>1. \A i \in 1..Len(klines) : klines[i] \in Nat /\ klines[i] <= now
      BY KlineFacts DEF FeedInv
    <3> QED
      BY <1>3, <3>1
  <2> QED
    BY <1>3, <2>1, <2>2 DEF FeedInv, ClockInv, Ascending
<1>5. BufferInv'
  <2>1. \A i \in DOMAIN buffer : buffer[i].open < now /\ buffer[i].open \in Int
    BY BufferFacts DEF FeedInv, BufferInv
  <2>2. \A i \in DOMAIN buffer : buffer[i].open < now'
    BY <1>3, <2>1
  <2> QED
    BY <1>3, <2>2 DEF FeedInv, BufferInv, BufferOrdered
<1>6. ChannelInv'
  <2>1. ASSUME NEW j \in 1..(Len(channel) + 1), w[j].final
        PROVE  w[j].open < now' /\ w[j].open \in Elements(klines)
    <3>1. CASE j \in 1..Len(channel)
      <4>1. /\ channel[j].open < now /\ channel[j].open \in Int
            /\ channel[j].open \in Elements(klines)
        BY <1>2, <2>1, <3>1, ChannelFacts DEF FeedInv, ChannelInv
      <4> QED
        BY <1>2, <1>3, <3>1, <4>1
    <3>2. CASE j = Len(channel) + 1
      BY <1>2, <2>1, <3>2
    <3> QED
      BY <1>2, <3>1, <3>2
  <2> QED
    BY <1>1, <1>2, <1>3, <2>1 DEF ChannelInv
<1>7. NewestOpen' = NewestOpen /\ NewestOpen \in -1..MaxMinute
  BY BufferFacts DEF NewestOpen, FeedInv
<1>8. InOrderInv'
  <2>1. ASSUME NEW j \in 1..(Len(channel) + 1), w[j].final,
               NEW k \in Elements(klines), NewestOpen < k, k < w[j].open
        PROVE  k \in missed \/ \E i \in 1..(j - 1) : w[i] = Final(k)
    <3>1. CASE j \in 1..Len(channel)
      <4>1. k \in missed \/ \E i \in 1..(j - 1) : channel[i] = Final(k)
        BY <1>2, <2>1, <3>1 DEF FeedInv, InOrderInv
      <4>2. \A i \in 1..(j - 1) : i \in 1..Len(channel)
        BY <1>2, <3>1
      <4> QED
        BY <1>2, <4>1, <4>2
    <3>2. CASE j = Len(channel) + 1
      <4>1. c.open <= now /\ c.open \in Int /\ w[j].open = c.open
        BY <1>2, <2>1, <3>2 DEF Candle
      <4>2. k < now /\ k > NewestOpen
        BY <1>3, <1>7, <2>1, <4>1
      <4>3. k \in missed \/ \E i \in 1..Len(channel) : channel[i] = Final(k)
        BY <2>1, <4>2, NewerIsQueued
      <4>4. j - 1 = Len(channel)
        BY <1>2, <3>2
      <4> QED
        BY <1>2, <4>3, <4>4
    <3> QED
      BY <1>2, <3>1, <3>2
  <2> QED
    BY <1>1, <1>2, <1>3, <1>7, <2>1 DEF InOrderInv
<1>9. ASSUME now' = now \/ c = Final(now) PROVE HeardInv'
  <2>1. SUFFICES ASSUME NEW k \in Elements(klines), k \notin missed, ~(k >= now')
                 PROVE  \/ \E i \in DOMAIN buffer : buffer[i].open = k
                        \/ buffer # <<>> /\ k < buffer[1].open /\ Len(buffer) >= Limit
                        \/ k > NewestOpen /\ \E j \in DOMAIN w : w[j] = Final(k)
    BY <1>1, <1>3, <1>7 DEF HeardInv
  <2>2. CASE ~(k >= now)
    <3>1. \A j \in DOMAIN channel : j \in DOMAIN w /\ w[j] = channel[j]
      BY <1>2
    <3> QED
      BY <2>1, <2>2, <3>1 DEF FeedInv, HeardInv
  <2>3. CASE k >= now
    <3>1. k = now /\ c = Final(k)
      <4>1. k = now
        BY <1>3, <2>3
      <4>2. now' # now
        BY <1>3, <2>1, <4>1
      <4> QED
        BY <1>9, <4>1, <4>2
    <3>2. NewestOpen < now
      <4>1. CASE Len(buffer) = 0
        BY <1>3, <4>1, BufferFacts DEF FeedInv
      <4>2. CASE Len(buffer) # 0
        <5>1. Len(buffer) \in DOMAIN buffer /\ NewestOpen = buffer[Len(buffer)].open
          BY <4>2, BufferFacts DEF FeedInv
        <5> QED
          BY <5>1 DEF FeedInv, BufferInv
      <4> QED
        BY <4>1, <4>2
    <3>3. Len(channel) + 1 \in DOMAIN w
      BY <1>2
    <3> QED
      BY <1>2, <1>7, <3>1, <3>2, <3>3
  <2> QED
    BY <2>2, <2>3
<1> QED
  BY <1>1, <1>2, <1>4, <1>5, <1>6, <1>8, <1>9

LEMMA InvPush ==
  ASSUME FeedInv, Push
  PROVE  FeedInv'
<1> USE SizeFacts
<1>1. PICK c \in {Partial(k) : k \in Elements(klines) \ Elements(History)}
                 \cup {Final(k) : k \in Elements(LastN(History, Limit))} :
        channel' = Append(channel, c)
  BY DEF Push
<1>2. /\ connected /\ Len(channel) < MaxChannel
      /\ UNCHANGED <<now, klines, rows, seeding, polled, buffer, connected, missed>>
  BY DEF Push
<1>3. now \in Nat /\ now <= MaxMinute /\ \A k \in Elements(klines) : k \in 0..MaxMinute
  BY KlineFacts DEF FeedInv
<1>4. ASSUME NEW k \in Elements(LastN(History, Limit))
      PROVE  k < now /\ k \in Elements(klines)
  <2>1. PICK h : h = History
    OBVIOUS
  <2>2. /\ h \in Seq(0..MaxMinute) /\ Len(h) \in Nat /\ Len(h) <= Len(klines)
        /\ \A i \in 1..Len(h) : h[i] = klines[i] /\ klines[i] < now
    BY <2>1, HistoryFacts DEF FeedInv
  <2>3. PICK s : s = LastN(h, Limit)
    OBVIOUS
  <2>4. /\ s \in Seq(0..MaxMinute) /\ Len(s) \in Nat /\ Len(h) - Len(s) \in Nat
        /\ \A i \in 1..Len(s) : s[i] = h[Len(h) - Len(s) + i]
    <3>1. LET x == LastN(h, Limit)
              d == Len(h) - Len(x)
          IN /\ x \in Seq(0..MaxMinute) /\ Len(x) \in Nat /\ d \in Nat
             /\ \A i \in 1..Len(x) : x[i] = h[d + i]
      BY <2>2, LastNFacts
    <3> QED
      BY <2>3, <3>1
  <2>5. PICK i \in 1..Len(s) : s[i] = k
    BY <1>4, <2>1, <2>3, <2>4, LenProperties DEF Elements
  <2>6. PICK e \in Nat : e = Len(h) - Len(s)
    BY <2>4
  <2>7. e + i \in 1..Len(h) /\ h[e + i] = k
    <3>1. e + Len(s) = Len(h)
      BY <2>2, <2>4, <2>6
    <3>2. e + i \in 1..Len(h)
      BY <2>4, <2>6, <3>1
    <3> QED
      BY <2>4, <2>5, <2>6, <3>2
  <2>8. klines[e + i] = k /\ k < now /\ e + i \in 1..Len(klines)
    BY <2>2, <2>7, KlineFacts DEF FeedInv
  <2> QED
    BY <2>8, KlineFacts DEF FeedInv
<1>5. c \in Candle
      /\ (c.final => c = Final(c.open) /\ c.open < now /\ c.open <= now
                     /\ c.open \in Elements(klines))
  <2>1. ASSUME NEW k \in Elements(klines), c = Partial(k) PROVE c \in Candle /\ ~c.final
    BY <1>3, <2>1, CandleFacts
  <2>2. ASSUME NEW k \in Elements(LastN(History, Limit)), c = Final(k)
        PROVE  /\ c \in Candle /\ c = Final(c.open) /\ c.open < now /\ c.open <= now
               /\ c.open \in Elements(klines)
    <3>1. k \in 0..MaxMinute /\ k < now /\ k <= now /\ k \in Elements(klines)
      BY <1>3, <1>4
    <3> QED
      BY <2>2, <3>1, CandleFacts
  <2> QED
    BY <1>1, <2>1, <2>2
<1>6. /\ channel' \in Seq(Candle) /\ Len(channel') = Len(channel) + 1
      /\ ClockInv' /\ BufferInv' /\ ChannelInv' /\ InOrderInv' /\ HeardInv'
  BY <1>1, <1>2, <1>3, <1>5, QueueGrows
<1>7. TypeOK'
  <2>1. Len(channel') <= MaxChannel
    BY <1>2, <1>6, ChannelFacts DEF FeedInv
  <2> QED
    BY <1>2, <1>6, <2>1 DEF FeedInv, TypeOK
<1>8. ResponseInv'
  <2>1. ~seeding
    BY <1>2 DEF FeedInv, ResponseInv
  <2> QED
    BY <1>2, <2>1, RestKept
<1> QED
  BY <1>2, <1>6, <1>7, <1>8, PolledKept DEF FeedInv

\* The exchange has one kline more, which is newer than all that is on its way.
LEMMA InvCandleOpens ==
  ASSUME FeedInv, CandleOpens
  PROVE  FeedInv'
<1> USE SizeFacts
<1>1. /\ klines[Len(klines)] # now /\ klines' = Append(klines, now)
      /\ UNCHANGED <<now, rows, seeding, polled, buffer, connected, channel, missed>>
  BY DEF CandleOpens
<1>2. PICK n, s : n = Len(klines) /\ s = klines'
  OBVIOUS
<1>3. /\ now \in Nat /\ now \in 0..MaxMinute /\ n \in Nat /\ n >= 1
      /\ klines \in Seq(0..MaxMinute)
      /\ \A i \in 1..n : klines[i] \in Nat /\ klines[i] <= now
      /\ \A i, j \in 1..n : i < j => klines[i] < klines[j]
      /\ \A k : k \in Elements(klines) <=> \E i \in 1..n : klines[i] = k
  BY <1>2, KlineFacts DEF FeedInv, TypeOK
<1>4. ASSUME NEW i \in 1..n PROVE klines[i] < now
  <2>1. n \in 1..n /\ klines[n] < now
    BY <1>1, <1>2, <1>3
  <2>2. i = n \/ i < n
    BY <1>3
  <2> QED
    BY <1>3, <2>1, <2>2
<1>5. /\ s \in Seq(0..MaxMinute) /\ Len(s) = n + 1 /\ s[n + 1] = now
      /\ DOMAIN s = 1..(n + 1)
      /\ \A i \in 1..n : s[i] = klines[i]
  BY <1>1, <1>2, <1>3, AppendProperties, LenProperties
<1>6. \A k : k \in Elements(klines)' <=> k \in Elements(klines) \/ k = now
  <2>1. \A k : k \in Elements(s) <=> \E i \in 1..(n + 1) : s[i] = k
    BY <1>5 DEF Elements
  <2>2. \A i \in 1..n : i \in 1..(n + 1)
    BY <1>3
  <2>3. \A i \in 1..(n + 1) : i \in 1..n \/ i = n + 1
    BY <1>3
  <2>4. n + 1 \in 1..(n + 1)
    BY <1>3
  <2>5. Elements(klines)' = Elements(s)
    BY <1>2 DEF Elements
  <2> QED
    BY <1>3, <1>5, <2>1, <2>2, <2>3, <2>4, <2>5
<1>7. TypeOK'
  BY <1>1, <1>2, <1>5 DEF FeedInv, TypeOK
<1>8. ClockInv'
  <2>1. \A i \in 1..(n + 1) : i \in 1..n \/ i = n + 1
    BY <1>3
  <2>2. \A i \in 1..(n + 1) : s[i] <= now
    BY <1>3, <1>5, <2>1
  <2>3. ASSUME NEW i \in 1..(n + 1), NEW j \in 1..(n + 1), i < j PROVE s[i] < s[j]
    <3>1. i \in 1..n
      BY <1>3, <2>3
    <3> QED
      BY <1>3, <1>4, <1>5, <2>1, <2>3, <3>1
  <2>4. s # <<>>
    BY <1>3, <1>5, EmptySeq
  <2> QED
    BY <1>1, <1>2, <1>5, <2>2, <2>3, <2>4 DEF FeedInv, ClockInv, Ascending
<1>9. ResponseInv'
  <2>1. ASSUME NEW t \in Limit..now, NEW first \in Nat, NEW m \in Nat, ResponseOf(t, first, m)
        PROVE  ResponseOf(t, first, m)'
    <3>1. /\ first < m /\ m <= n /\ m - first <= Limit + 1
          /\ (first # 0 => m - first = Limit + 1) /\ Len(rows) = m - first
      BY <1>2, <2>1 DEF ResponseOf
    <3>2. m <= n + 1 /\ m \in 1..n
      BY <1>3, <3>1
    <3>3. \A i \in 1..(m - first) : first + i \in 1..n
      BY <1>3, <3>1
    <3>4. \A i \in 1..(m - first) :
            rows[i] = IF s[first + i] < t THEN Final(s[first + i]) ELSE Partial(s[first + i])
      BY <1>5, <2>1, <3>3 DEF ResponseOf
    <3>5. s[m] <= t
      BY <1>5, <2>1, <3>2 DEF ResponseOf
    <3>6. \A i \in (m + 1)..(n + 1) : s[i] >= t
      <4>1. \A i \in (m + 1)..(n + 1) :
            \/ i \in 1..n /\ i \in (m + 1)..n
            \/ i = n + 1
        BY <1>3
      <4>2. now >= t
        BY <1>3
      <4> QED
        BY <1>2, <1>5, <2>1, <4>1, <4>2 DEF ResponseOf
    <3>7. seeding => \A i \in 1..(n + 1) : t <= s[i] /\ s[i] < now => s[i] \in missed
      <4>1. \A i \in 1..(n + 1) : i \in 1..n \/ i = n + 1
        BY <1>3
      <4>2. seeding => \A i \in 1..n : t <= klines[i] /\ klines[i] < now => klines[i] \in missed
        BY <1>2, <2>1 DEF ResponseOf
      <4>3. ~(now < now)
        BY <1>3
      <4> QED
        BY <1>5, <4>1, <4>2, <4>3
    <3> QED
      BY <1>1, <1>2, <1>5, <3>1, <3>2, <3>4, <3>5, <3>6, <3>7 DEF ResponseOf
  <2> QED
    BY <1>1, <2>1 DEF FeedInv, ResponseInv
<1>10. BufferInv' /\ ChannelInv'
  BY <1>1, <1>6 DEF FeedInv, BufferInv, BufferOrdered, ChannelInv
<1>11. NewestOpen' = NewestOpen
  BY <1>1 DEF NewestOpen
<1>12. HeardInv'
  <2>1. now >= now
    BY <1>3
  <2> QED
    BY <1>1, <1>6, <1>11, <2>1 DEF FeedInv, HeardInv
<1>13. InOrderInv'
  <2>1. ASSUME NEW j \in DOMAIN channel, channel[j].final PROVE ~(now < channel[j].open)
    <3>1. channel[j].open < now /\ channel[j].open \in Int
      BY <2>1, ChannelFacts DEF FeedInv, ChannelInv
    <3> QED
      BY <1>3, <3>1
  <2> QED
    BY <1>1, <1>6, <1>11, <2>1 DEF FeedInv, InOrderInv
<1>14. PollComplete'
  <2>1. PICK first \in 0..(n - Len(polled)) :
          /\ \A i \in DOMAIN polled : polled[i].open = klines[first + i]
          /\ Len(polled) < Limit => first = 0
    BY <1>2 DEF FeedInv, PollComplete
  <2>2. Len(polled) \in Nat /\ DOMAIN polled = 1..Len(polled)
    BY LenProperties DEF FeedInv, TypeOK
  <2>3. first \in 0..(n + 1 - Len(polled)) /\ \A i \in DOMAIN polled : first + i \in 1..n
    BY <1>3, <2>2
  <2>4. Len(polled) <= Limit
    BY DEF FeedInv, PollComplete
  <2>5. \A i \in DOMAIN polled : polled[i].open = s[first + i]
    BY <1>5, <2>1, <2>3
  <2>6. first \in 0..(Len(s) - Len(polled))
    <3>1. Len(s) = n + 1 /\ Len(s) \in Int
      BY <1>3, <1>5
    <3>2. first \in Nat /\ first <= n - Len(polled)
      BY <1>3, <2>2
    <3> QED
      BY <1>3, <2>2, <3>1, <3>2
  <2> QED
    BY <1>1, <1>2, <2>1, <2>4, <2>5, <2>6 DEF PollComplete
<1> QED
  BY <1>7, <1>8, <1>9, <1>10, <1>12, <1>13, <1>14 DEF FeedInv

LEMMA InvMinutePasses ==
  ASSUME FeedInv, MinutePasses
  PROVE  FeedInv'
<1> USE SizeFacts
<1>1. /\ now < MaxMinute /\ Len(channel) < MaxChannel /\ now' = now + 1
      /\ UNCHANGED <<klines, rows, seeding, polled, buffer, connected>>
  BY DEF MinutePasses
<1>2. PICK n : n = Len(klines)
  OBVIOUS
<1>3. /\ now \in Nat /\ now >= Limit /\ now' \in Nat /\ now' <= MaxMinute
      /\ n \in 1..n /\ missed \subseteq 0..(now - 1)
      /\ \A i \in 1..n : klines[i] \in Nat /\ klines[i] <= now
      /\ \A i, j \in 1..n : i < j => klines[i] < klines[j]
      /\ \A k : k \in Elements(klines) <=> \E i \in 1..n : klines[i] = k
      /\ Elements(klines)' = Elements(klines)
  <2>1. /\ now \in Nat /\ now >= Limit /\ n \in Nat /\ n >= 1 /\ missed \subseteq 0..(now - 1)
        /\ \A i \in 1..n : klines[i] \in Nat /\ klines[i] <= now
        /\ \A i, j \in 1..n : i < j => klines[i] < klines[j]
        /\ \A k : k \in Elements(klines) <=> \E i \in 1..n : klines[i] = k
    BY <1>2, KlineFacts DEF FeedInv
  <2>2. now' \in Nat /\ now' <= MaxMinute /\ n \in 1..n
    BY <1>1, <2>1
  <2> QED
    BY <1>1, <2>1, <2>2 DEF Elements
<1>4. Final(now) \in Candle /\ Final(now).open = now
  BY <1>1, <1>3, CandleFacts
\* Without a message only what depends on the clock changes.
<1>5. ASSUME missed \subseteq missed', missed' \subseteq missed \cup {now}, channel' = channel,
             now \in Elements(klines) => now \in missed', ~connected \/ missed' = missed
      PROVE  FeedInv'
  <2>1. missed' \subseteq 0..(now' - 1) /\ missed' \subseteq 0..MaxMinute
    BY <1>1, <1>3, <1>5
  <2>2. TypeOK'
    BY <1>1, <1>3, <1>5, <2>1 DEF FeedInv, TypeOK
  <2>3. ClockInv'
    <3>1. now' \in Limit..MaxMinute /\ \A i \in 1..n : klines[i] <= now'
      BY <1>1, <1>3
    <3> QED
      BY <1>1, <1>2, <2>1, <3>1 DEF FeedInv, ClockInv, Ascending
  <2>4. ASSUME NEW t \in Limit..now, NEW first \in Nat, NEW m \in Nat, ResponseOf(t, first, m)
        PROVE  t \in Limit..now' /\ ResponseOf(t, first, m)'
    <3>1. t \in Limit..now'
      BY <1>1, <1>3
    <3>2. ASSUME seeding, NEW i \in 1..n, t <= klines[i], klines[i] < now'
          PROVE  klines[i] \in missed'
      <4>1. klines[i] \in Elements(klines) /\ (klines[i] < now \/ klines[i] = now)
        BY <1>3
      <4> QED
        BY <1>2, <1>5, <2>4, <3>2, <4>1 DEF ResponseOf
    <3> QED
      BY <1>1, <1>2, <2>4, <3>1, <3>2 DEF ResponseOf
  <2>5. ResponseInv'
    BY <1>1, <1>5, <2>4 DEF FeedInv, ResponseInv
  <2>6. BufferInv'
    <3>1. \A i \in DOMAIN buffer : buffer[i].open < now /\ buffer[i].open \in Int
      BY BufferFacts DEF FeedInv, BufferInv
    <3>2. \A i \in DOMAIN buffer : buffer[i].open < now'
      BY <1>1, <1>3, <3>1
    <3> QED
      BY <1>1, <1>3, <3>2 DEF FeedInv, BufferInv, BufferOrdered
  <2>7. ChannelInv'
    <3>1. ASSUME NEW j \in DOMAIN channel, channel[j].final PROVE channel[j].open < now'
      <4>1. channel[j].open < now /\ channel[j].open \in Int
        BY <3>1, ChannelFacts DEF FeedInv, ChannelInv
      <4> QED
        BY <1>1, <1>3, <4>1
    <3> QED
      BY <1>3, <1>5, <3>1 DEF FeedInv, ChannelInv
  <2>8. NewestOpen' = NewestOpen
    BY <1>1 DEF NewestOpen
  <2>9. InOrderInv'
    BY <1>3, <1>5, <2>8 DEF FeedInv, InOrderInv
  <2>10. HeardInv'
    <3>1. ASSUME NEW k \in Elements(klines), k >= now PROVE k \in missed'
      <4>1. k = now
        BY <1>3, <3>1
      <4> QED
        BY <1>5, <3>1, <4>1
    <3> QED
      BY <1>1, <1>3, <1>5, <2>8, <3>1 DEF FeedInv, HeardInv
  <2> QED
    BY <1>1, <2>2, <2>3, <2>5, <2>6, <2>7, <2>9, <2>10, PolledKept DEF FeedInv
<1>6. CASE klines[n] # now /\ UNCHANGED <<channel, missed>>
  <2>1. ASSUME NEW i \in 1..n, klines[i] = now PROVE FALSE
    <3>1. i # n /\ i < n
      BY <1>3, <1>6, <2>1
    <3> QED
      BY <1>3, <2>1, <3>1
  <2>2. now \notin Elements(klines)
    BY <1>3, <2>1
  <2> QED
    BY <1>5, <1>6, <2>2
<1>7. CASE connected /\ klines[n] = now /\ channel' = Append(channel, Final(now)) /\ missed' = missed
  <2>1. now \in Elements(klines) /\ Final(now).final
    BY <1>3, <1>7 DEF Final
  <2>2. now < now' /\ now <= now /\ now' \in {now, now + 1}
    BY <1>1, <1>3
  <2>3. /\ channel' \in Seq(Candle) /\ Len(channel') = Len(channel) + 1
        /\ ClockInv' /\ BufferInv' /\ ChannelInv' /\ InOrderInv' /\ HeardInv'
    BY <1>1, <1>3, <1>4, <1>7, <2>1, <2>2, QueueGrows
  <2>4. TypeOK'
    <3>1. Len(channel') <= MaxChannel
      BY <1>1, <2>3, ChannelFacts DEF FeedInv
    <3> QED
      BY <1>1, <1>3, <1>7, <2>3, <3>1 DEF FeedInv, TypeOK
  <2>5. ResponseInv'
    <3>1. ~seeding
      BY <1>7 DEF FeedInv, ResponseInv
    <3>2. \A t \in Limit..now, first, m \in Nat :
            ResponseOf(t, first, m) => t \in Limit..now' /\ ResponseOf(t, first, m)'
      <4>1. \A t \in Limit..now : t \in Limit..now'
        BY <1>1, <1>3
      <4> QED
        BY <1>1, <3>1, <4>1 DEF ResponseOf
    <3> QED
      BY <1>1, <1>7, <3>1, <3>2 DEF FeedInv, ResponseInv
  <2> QED
    BY <1>1, <2>3, <2>4, <2>5, PolledKept DEF FeedInv
<1>8. CASE klines[n] = now /\ ~connected /\ missed' = missed \cup {now} /\ channel' = channel
  BY <1>5, <1>8
<1> QED
  BY <1>2, <1>6, <1>7, <1>8 DEF MinutePasses

\* What a message does to the buffer: it stays in order, what it held stays or is
\* dropped at its old end, and its newest candle is the old newest or the new one.
Kept(b, c, n, m, newest) ==
  /\ b \in Seq(Candle) /\ m <= MaxCandles
  /\ \A i, j \in 1..m : i < j => b[i].open < b[j].open
  /\ \A i \in 1..m : b[i].open < now
  /\ \A i, j \in 1..m : ~b[i].final /\ ~b[j].final => i = j
  /\ \A i \in 1..m : \/ b[i].open = c.open /\ c.final
                   \/ \E j \in 1..n : b[i].open = buffer[j].open
  /\ newest = NewestOpen \/ (newest = c.open /\ c.final)
  /\ newest >= NewestOpen
  /\ c.final => c.open <= newest
  /\ c.final /\ c.open > NewestOpen => \E i \in 1..m : b[i].open = c.open
  /\ \A i \in 1..n :
       \/ \E j \in 1..m : b[j].open = buffer[i].open
       \/ m >= 1 /\ m >= Limit /\ buffer[i].open < b[1].open
  /\ buffer # <<>> /\ n >= Limit => m >= 1 /\ m >= Limit /\ buffer[1].open <= b[1].open

LEMMA FoldKeeps ==
  ASSUME FeedInv, NEW c \in Candle, c.final => c.open < now, NEW b, b = Fold(c)
  PROVE  Kept(b, c, Len(buffer), Len(b), IF Len(b) = 0 THEN -1 ELSE b[Len(b)].open)
<1> USE SizeFacts
<1>a. PICK n : n = Len(buffer)
  OBVIOUS
<1>d. PICK l : l = Len(b)
  OBVIOUS
<1> DEFINE newest == IF l = 0 THEN -1 ELSE b[l].open
<1> SUFFICES Kept(b, c, n, l, newest)
  BY <1>a, <1>d
<1>b. /\ n \in Nat /\ n <= MaxCandles /\ DOMAIN buffer = 1..n
      /\ \A i \in 1..n : buffer[i].open \in 0..MaxMinute
      /\ (buffer = <<>>) <=> n = 0
      /\ NewestOpen \in -1..MaxMinute
      /\ NewestOpen = IF n = 0 THEN -1 ELSE buffer[n].open
  BY <1>a, BufferFacts DEF FeedInv
<1>1. /\ n \in Nat /\ n <= MaxCandles /\ DOMAIN buffer = 1..n
      /\ \A i \in 1..n : buffer[i].open \in Int
      /\ (buffer = <<>>) <=> n = 0
      /\ NewestOpen \in Int /\ (n = 0 => NewestOpen = -1)
      /\ n # 0 => NewestOpen = buffer[n].open
  <2>1. NewestOpen \in Int /\ \A i \in 1..n : buffer[i].open \in Int
    BY <1>b
  <2> QED
    BY <1>b, <2>1
<1>2. c.open \in Nat /\ now \in Nat
  BY DEF Candle, FeedInv, TypeOK
<1>3. /\ \A i, j \in 1..n : i < j => buffer[i].open < buffer[j].open
      /\ \A i \in 1..n : buffer[i].open < now
      /\ \A i, j \in 1..n : ~buffer[i].final /\ ~buffer[j].final => i = j
  BY <1>1 DEF FeedInv, BufferInv, BufferOrdered
<1>4. CASE b = buffer /\ b \in Seq(Candle) /\ l = n /\ (~c.final \/ c.open < NewestOpen)
  <2>1. newest = NewestOpen
    BY <1>1, <1>4
  <2> HIDE DEF newest
  <2>2. newest >= NewestOpen /\ (c.final => c.open <= newest)
    BY <1>1, <1>2, <1>4, <2>1
  <2>3. ~(c.final /\ c.open > NewestOpen)
    BY <1>1, <1>2, <1>4
  <2>4. buffer # <<>> => buffer[1].open <= buffer[1].open /\ n >= 1
    BY <1>1
  <2>5. \A i \in 1..l : \E j \in 1..n : b[i].open = buffer[j].open
    BY <1>4
  <2> QED
    BY <1>1, <1>3, <1>4, <2>1, <2>2, <2>3, <2>4, <2>5 DEF newest, Kept
<1>5. CASE /\ c.final /\ n >= 1 /\ c.open = NewestOpen /\ b \in Seq(Candle) /\ l = n
           /\ \A i \in 1..n : b[i] = IF i = n THEN c ELSE buffer[i]
  <2>1. \A i \in 1..n : b[i].open = buffer[i].open
    BY <1>1, <1>5
  <2>2. newest = NewestOpen /\ newest = c.open
    BY <1>1, <1>5, <2>1
  <2>3. \A i, j \in 1..n : ~b[i].final /\ ~b[j].final => i = j
    BY <1>3, <1>5
  <2>4. n \in 1..n /\ 1 \in 1..n /\ b[n].open = c.open
    BY <1>1, <1>5
  <2> HIDE DEF newest
  <2>5. newest >= NewestOpen /\ c.open <= newest /\ ~(c.open > NewestOpen)
    BY <1>1, <1>2, <2>2, <1>5
  <2>6. b[1].open = buffer[1].open /\ buffer[1].open \in Int
    BY <1>1, <2>1, <2>4
  <2>7. buffer[1].open <= b[1].open
    BY <2>6
  <2>8. \A i \in 1..l : \E j \in 1..n : b[i].open = buffer[j].open
    BY <1>5, <2>1
  <2> QED
    BY <1>1, <1>3, <1>5, <2>1, <2>2, <2>3, <2>5, <2>7, <2>8 DEF newest, Kept
<1>6. ASSUME c.final, c.open > NewestOpen, b \in Seq(Candle),
             NEW d \in {0, 1}, l = n + 1 - d,
             IF d = 1 THEN n = MaxCandles ELSE n < MaxCandles,
             \A i \in 1..l : b[i] = IF i = n + 1 - d THEN c ELSE buffer[i + d]
      PROVE  /\ l <= MaxCandles
             /\ \A i, j \in 1..l : i < j => b[i].open < b[j].open
             /\ \A i \in 1..l : b[i].open < now
             /\ \A i, j \in 1..l : ~b[i].final /\ ~b[j].final => i = j
             /\ newest = c.open
             /\ \A i \in 1..l : b[i].open = c.open \/ \E j \in 1..n : b[i].open = buffer[j].open
             /\ \E i \in 1..l : b[i].open = c.open
             /\ \A i \in 1..n :
                  \/ \E j \in 1..l : b[j].open = buffer[i].open
                  \/ l >= 1 /\ l >= Limit /\ buffer[i].open < b[1].open
             /\ buffer # <<>> /\ n >= Limit =>
                  l >= 1 /\ l >= Limit /\ buffer[1].open <= b[1].open
  <2> DEFINE m == n + 1 - d
  <2>1. m \in Nat /\ l = m /\ m <= MaxCandles /\ m >= 1 /\ m <= n + 1
    BY <1>1, <1>6
  <2>2. b[m] = c /\ \A i \in 1..(m - 1) : i + d \in 1..n /\ b[i] = buffer[i + d]
    BY <1>1, <1>6, <2>1
  <2>3. \A i \in 1..n : buffer[i].open <= NewestOpen
    <3>1. ASSUME NEW i \in 1..n PROVE buffer[i].open <= NewestOpen
      <4>1. n \in 1..n /\ NewestOpen = buffer[n].open /\ (i = n \/ i < n)
        BY <1>1
      <4>2. i < n => buffer[i].open < buffer[n].open
        BY <1>3, <4>1
      <4> QED
        BY <1>1, <4>1, <4>2
    <3> QED
      BY <3>1
  <2>4. \A i \in 1..n : buffer[i].open < c.open
    BY <1>1, <1>2, <1>6, <2>3
  <2> HIDE DEF m
  <2>5. \A i \in 1..m : i = m \/ i \in 1..(m - 1)
    BY <2>1
  <2>6. ASSUME NEW i \in 1..m, NEW j \in 1..m, i < j PROVE b[i].open < b[j].open
    <3>1. i \in 1..(m - 1) /\ i + d \in 1..n /\ b[i] = buffer[i + d]
      BY <2>1, <2>2, <2>6
    <3>2. CASE j = m
      BY <2>2, <2>4, <3>1, <3>2
    <3>3. CASE j \in 1..(m - 1)
      <4>1. j + d \in 1..n /\ b[j] = buffer[j + d] /\ i + d < j + d
        BY <2>2, <2>6, <3>3
      <4> QED
        BY <1>3, <3>1, <4>1
    <3> QED
      BY <2>5, <3>2, <3>3
  <2>7. \A i \in 1..m : b[i].open < now
    BY <1>3, <1>6, <2>2, <2>5
  <2>8. ASSUME NEW i \in 1..m, NEW j \in 1..m, ~b[i].final, ~b[j].final PROVE i = j
    <3>1. i \in 1..(m - 1) /\ j \in 1..(m - 1)
      BY <1>6, <2>2, <2>5, <2>8
    <3>2. /\ i + d \in 1..n /\ b[i] = buffer[i + d]
          /\ j + d \in 1..n /\ b[j] = buffer[j + d]
      BY <2>2, <3>1
    <3>3. i + d = j + d
      BY <1>3, <2>8, <3>2
    <3> QED
      BY <3>1, <3>3
  <2>9. newest = c.open /\ \E i \in 1..m : b[i].open = c.open
    BY <2>1, <2>2
  <2>a. \A i \in 1..m : b[i].open = c.open \/ \E j \in 1..n : b[i].open = buffer[j].open
    BY <2>2, <2>5
  <2>10. d = 1 => m = MaxCandles /\ m >= Limit
    BY <1>1, <1>6 DEF m
  <2>11. ASSUME NEW i \in 1..n
         PROVE  \/ \E j \in 1..m : b[j].open = buffer[i].open
                \/ m >= 1 /\ m >= Limit /\ buffer[i].open < b[1].open
    <3>1. CASE i - d \in 1..(m - 1)
      <4>1. i - d + d = i /\ i - d \in 1..m
        BY <2>1, <3>1
      <4> QED
        BY <2>2, <3>1, <4>1
    <3>2. CASE i - d \notin 1..(m - 1)
      <4>1. d = 1 /\ i = 1
        BY <1>1, <3>2 DEF m
      <4>2. CASE m = 1
        BY <2>1, <2>2, <2>4, <2>10, <4>1, <4>2
      <4>3. CASE m # 1
        <5>1. 1 \in 1..(m - 1) /\ 1 + d = 2 /\ 2 \in 1..n /\ 1 \in 1..n
          BY <2>1, <2>2, <4>1, <4>3
        <5>2. b[1] = buffer[2] /\ buffer[1].open < buffer[2].open
          BY <1>3, <2>2, <5>1
        <5> QED
          BY <2>1, <2>10, <4>1, <5>2
      <4> QED
        BY <4>2, <4>3
    <3> QED
      BY <3>1, <3>2
  <2>12. ASSUME buffer # <<>>, n >= Limit
         PROVE  m >= 1 /\ m >= Limit /\ buffer[1].open <= b[1].open
    <3>1. 1 \in 1..n /\ m >= Limit
      <4>1. d = 0 => m = n + 1
        BY <1>1 DEF m
      <4> QED
        BY <1>1, <2>10, <2>12, <4>1
    <3>0. m >= 1 /\ buffer[1].open \in Int /\ \A x, y \in Int : x < y => x <= y
      BY <1>1, <2>1, <3>1
    <3>2. CASE m = 1
      <4>1. b[1] = c /\ buffer[1].open < c.open
        BY <2>2, <2>4, <3>1, <3>2
      <4> QED
        BY <1>2, <3>0, <3>1, <4>1
    <3>3. CASE m # 1
      <4>1. 1 \in 1..(m - 1) /\ 1 + d \in 1..n /\ b[1] = buffer[1 + d]
        BY <2>1, <2>2, <3>3
      <4>2. CASE d = 0
        <5>1. b[1].open = buffer[1].open
          BY <4>1, <4>2
        <5>2. buffer[1].open <= b[1].open
          BY <3>0, <5>1
        <5> QED
          BY <3>0, <3>1, <5>2
      <4>3. CASE d = 1
        <5>1. 1 < 1 + d
          BY <4>3
        <5>2. buffer[1].open < buffer[1 + d].open
          BY <1>3, <3>1, <4>1, <5>1
        <5>3. buffer[1 + d].open \in Int
          BY <1>1, <4>1
        <5> QED
          BY <3>0, <3>1, <4>1, <5>2, <5>3
      <4> QED
        BY <4>2, <4>3
    <3> QED
      BY <2>1, <3>1, <3>2, <3>3
  <2> HIDE DEF newest
  <2> QED
    BY <2>1, <2>6, <2>7, <2>8, <2>9, <2>a, <2>11, <2>12
<1>7. ASSUME c.final, c.open > NewestOpen, newest = c.open
      PROVE  newest >= NewestOpen /\ c.open <= newest
  BY <1>1, <1>2, <1>7
<1>8. CASE /\ c.final /\ c.open > NewestOpen /\ b \in Seq(Candle)
           /\ \E d \in {0, 1} :
                /\ l = n + 1 - d
                /\ IF d = 1 THEN n = MaxCandles ELSE n < MaxCandles
                /\ \A i \in 1..l : b[i] = IF i = n + 1 - d THEN c ELSE buffer[i + d]
  <2>1. PICK d \in {0, 1} :
          /\ l = n + 1 - d
          /\ IF d = 1 THEN n = MaxCandles ELSE n < MaxCandles
          /\ \A i \in 1..l : b[i] = IF i = n + 1 - d THEN c ELSE buffer[i + d]
    BY <1>8
  <2> HIDE DEF newest
  <2> QED
    BY <1>6, <1>7, <1>8, <2>1 DEF newest, Kept
<1>9. \/ b = buffer /\ b \in Seq(Candle) /\ l = n /\ (~c.final \/ c.open < NewestOpen)
      \/ /\ c.final /\ n >= 1 /\ c.open = NewestOpen /\ b \in Seq(Candle) /\ l = n
         /\ \A i \in 1..n : b[i] = IF i = n THEN c ELSE buffer[i]
      \/ /\ c.final /\ c.open > NewestOpen /\ b \in Seq(Candle)
         /\ \E d \in {0, 1} :
              /\ l = n + 1 - d
              /\ IF d = 1 THEN n = MaxCandles ELSE n < MaxCandles
              /\ \A i \in 1..l : b[i] = IF i = n + 1 - d THEN c ELSE buffer[i + d]
  <2>1. TypeOK
    BY DEF FeedInv
  <2>2. b = Fold(c)
    OBVIOUS
  <2>3. \/ Fold(c) = buffer /\ (~c.final \/ c.open < NewestOpen)
        \/ /\ c.final /\ Len(buffer) >= 1 /\ c.open = NewestOpen
           /\ Fold(c) \in Seq(Candle) /\ Len(Fold(c)) = Len(buffer)
           /\ \A i \in 1..Len(buffer) : Fold(c)[i] = IF i = Len(buffer) THEN c ELSE buffer[i]
        \/ /\ c.final /\ c.open > NewestOpen /\ Fold(c) \in Seq(Candle)
           /\ \E d \in {0, 1} :
                /\ Len(Fold(c)) = Len(buffer) + 1 - d
                /\ IF d = 1 THEN Len(buffer) = MaxCandles ELSE Len(buffer) < MaxCandles
                /\ \A i \in 1..Len(Fold(c)) :
                     Fold(c)[i] = IF i = Len(buffer) + 1 - d THEN c ELSE buffer[i + d]
    BY <2>1, FoldFacts
  <2>4. buffer \in Seq(Candle)
    BY <2>1 DEF TypeOK
  <2> HIDE DEF newest
  <2> QED
    BY <1>a, <1>d, <2>2, <2>3, <2>4
<1> QED
  BY <1>4, <1>5, <1>8, <1>9

\* A message is folded into the buffer.
LEMMA InvDeliver ==
  ASSUME FeedInv, Deliver
  PROVE  FeedInv'
<1> USE SizeFacts
<1>1. /\ channel # <<>> /\ buffer' = Fold(Head(channel)) /\ channel' = Tail(channel)
      /\ missed' = missed \ Opens(buffer') /\ UNCHANGED <<now, klines, rows, seeding,
                                                  polled, connected>>
  BY DEF Deliver
<1>2. PICK b, w, last, n, m, c :
        b = buffer' /\ w = channel' /\ last = Len(channel) /\ n = Len(buffer)
        /\ m = Len(b) /\ c = Head(channel)
  OBVIOUS
<1>3. /\ last \in Nat /\ last >= 1 /\ DOMAIN channel = 1..last
      /\ w \in Seq(Candle) /\ Len(w) = last - 1 /\ DOMAIN w = 1..(last - 1)
      /\ \A i \in 1..(last - 1) : i + 1 \in 1..last /\ w[i] = channel[i + 1]
      /\ c = channel[1] /\ c \in Candle
  <2>1. channel \in Seq(Candle)
    BY DEF FeedInv, TypeOK
  <2>2. last \in Nat /\ last # 0 /\ DOMAIN channel = 1..last
    BY <1>1, <1>2, <2>1, EmptySeq, LenProperties
  <2>3. w \in Seq(Candle) /\ Len(w) = last - 1 /\ \A i \in 1..(last - 1) : w[i] = channel[i + 1]
    BY <1>1, <1>2, <2>1, HeadTailProperties
  <2>4. c = channel[1] /\ channel[1] \in Candle
    BY <1>1, <1>2, <2>1, <2>2, HeadTailProperties, ElementOfSeq
  <2>5. DOMAIN w = 1..(last - 1)
    BY <2>3, LenProperties
  <2>6. last >= 1 /\ \A i \in 1..(last - 1) : i + 1 \in 1..last
    BY <2>2
  <2> QED
    BY <2>2, <2>3, <2>4, <2>5, <2>6
<1>4. c.final => c.open < now /\ c.open \in Elements(klines)
  BY <1>3 DEF FeedInv, ChannelInv
<1>5. PICK newest : newest = IF m = 0 THEN -1 ELSE b[m].open
  OBVIOUS
<1>6. Kept(b, c, n, m, newest)
  <2>1. b = Fold(c)
    BY <1>1, <1>2
  <2>2. Kept(b, c, Len(buffer), Len(b), IF Len(b) = 0 THEN -1 ELSE b[Len(b)].open)
    BY <1>3, <1>4, <2>1, FoldKeeps
  <2> QED
    BY <1>2, <1>5, <2>2
<1> USE DEF Kept
<1>7. /\ m \in Nat /\ DOMAIN b = 1..m /\ ((b = <<>>) <=> m = 0)
      /\ \A i \in 1..m : b[i].open \in 0..MaxMinute
  <2>1. m \in Nat /\ DOMAIN b = 1..m /\ ((b = <<>>) <=> m = 0)
    BY <1>2, <1>6, LenProperties, EmptySeq
  <2>2. \A i \in 1..m : b[i] \in Candle
    BY <1>2, <1>6, ElementOfSeq
  <2> QED
    BY <2>1, <2>2 DEF Candle
<1>8. /\ n \in Nat /\ DOMAIN buffer = 1..n /\ ((buffer = <<>>) <=> n = 0)
      /\ \A i \in 1..n : buffer[i].open \in 0..MaxMinute
      /\ NewestOpen \in -1..MaxMinute
  BY <1>2, BufferFacts DEF FeedInv
<1>9. /\ NewestOpen' = newest /\ newest \in -1..MaxMinute
      /\ \A k : k \in Opens(b) <=> \E i \in 1..m : b[i].open = k
  <2>1. NewestOpen' = newest
    BY <1>2, <1>5, <1>7 DEF NewestOpen
  <2>2. newest \in -1..MaxMinute
    <3>1. CASE m = 0
      BY <1>5, <3>1
    <3>2. CASE m # 0
      <4>1. m \in 1..m
        BY <1>7, <3>2
      <4> QED
        BY <1>5, <1>7, <3>2, <4>1
    <3> QED
      BY <3>1, <3>2
  <2>3. \A k : k \in Opens(b) <=> \E i \in 1..m : b[i].open = k
    BY <1>7 DEF Opens
  <2> QED
    BY <2>1, <2>2, <2>3
<1>10. \A i \in 1..m : b[i].open <= newest
  <2>1. ASSUME NEW i \in 1..m PROVE b[i].open <= newest
    <3>1. m \in 1..m /\ newest = b[m].open /\ (i = m \/ i < m)
      BY <1>5, <1>7
    <3>2. i < m => b[i].open < b[m].open
      BY <1>6, <3>1
    <3>3. b[i].open \in Int /\ newest \in Int
      BY <1>7, <1>9
    <3> QED
      BY <3>1, <3>2, <3>3
  <2> QED
    BY <2>1
<1>11. missed' = missed \ Opens(b) /\ now \in Nat
  BY <1>1, <1>2 DEF FeedInv, TypeOK
<1>12. TypeOK' /\ ClockInv'
  <2>1. last <= MaxChannel
    BY <1>2 DEF FeedInv, TypeOK
  <2>2. last - 1 <= MaxChannel
    BY <1>3, <2>1
  <2>3. channel' \in Seq(Candle) /\ Len(channel') <= MaxChannel
    BY <1>2, <1>3, <2>2
  <2>4. buffer' \in Seq(Candle) /\ Len(buffer') <= MaxCandles
    BY <1>2, <1>6
  <2>5. missed' \subseteq missed
    BY <1>11
  <2>6. TypeOK'
    BY <1>1, <2>3, <2>4, <2>5 DEF FeedInv, TypeOK
  <2>7. ClockInv'
    BY <1>1, <2>5 DEF FeedInv, ClockInv, Ascending
  <2> QED
    BY <2>6, <2>7
<1>13. ResponseInv'
  <2>1. connected
    BY <1>1 DEF FeedInv, ResponseInv
  <2>2. ~seeding
    BY <2>1 DEF FeedInv, ResponseInv
  <2>3. \A t, f, l : ResponseOf(t, f, l) => ResponseOf(t, f, l)'
    BY <1>1, <2>2 DEF ResponseOf
  <2> QED
    BY <1>1, <2>1, <2>2, <2>3 DEF FeedInv, ResponseInv
<1>a. Elements(klines)' = Elements(klines)
  BY <1>1 DEF Elements
<1>14. BufferInv'
  <2>1. \A i \in 1..m : b[i].open \in Elements(klines)
    BY <1>4, <1>6, <1>8 DEF FeedInv, BufferInv
  <2>2. /\ \A i, j \in 1..m : i < j => b[i].open < b[j].open
        /\ \A i \in 1..m : b[i].open < now
        /\ \A i, j \in 1..m : ~b[i].final /\ ~b[j].final => i = j
    BY <1>6
  <2> QED
    BY <1>1, <1>2, <1>7, <1>a, <2>1, <2>2 DEF BufferInv, BufferOrdered
<1>15. ChannelInv'
  BY <1>1, <1>2, <1>3, <1>a DEF FeedInv, ChannelInv
<1>16. HeardInv'
  <2>1. SUFFICES ASSUME NEW k \in Elements(klines), k \notin missed', ~(k >= now)
                 PROVE  \/ \E i \in 1..m : b[i].open = k
                        \/ b # <<>> /\ k < b[1].open /\ m >= Limit
                        \/ k > newest /\ \E j \in 1..(last - 1) : w[j] = Final(k)
    <3>1. SUFFICES ASSUME NEW k \in Elements(klines), k \notin missed', ~(k >= now)
                   PROVE  \/ \E i \in DOMAIN b : b[i].open = k
                          \/ b # <<>> /\ k < b[1].open /\ Len(b) >= Limit
                          \/ k > NewestOpen' /\ \E j \in DOMAIN w : w[j] = Final(k)
      BY <1>1, <1>2, <1>a DEF HeardInv
    <3>2. /\ DOMAIN b = 1..m /\ Len(b) = m /\ NewestOpen' = newest
          /\ DOMAIN w = 1..(last - 1)
      BY <1>2, <1>3, <1>7, <1>9
    <3> QED
      BY <2>1, <3>1, <3>2
  <2>2. SUFFICES ASSUME k \notin Opens(b)
                 PROVE  \/ b # <<>> /\ k < b[1].open /\ m >= Limit
                        \/ k > newest /\ \E j \in 1..(last - 1) : w[j] = Final(k)
    BY <1>9
  <2>3. k \notin missed /\ k \in Nat
    BY <1>11, <2>1, <2>2, KlineFacts DEF FeedInv
  <2>4. ASSUME NEW i \in 1..n, buffer[i].open = k
        PROVE  b # <<>> /\ k < b[1].open /\ m >= Limit
    <3>1. \/ \E j \in 1..m : b[j].open = buffer[i].open
          \/ m >= 1 /\ m >= Limit /\ buffer[i].open < b[1].open
      BY <1>6
    <3> QED
      BY <1>7, <1>9, <2>2, <2>4, <3>1
  <2>5. ASSUME buffer # <<>>, k < buffer[1].open, n >= Limit
        PROVE  b # <<>> /\ k < b[1].open /\ m >= Limit
    <3>1. m >= 1 /\ m >= Limit /\ buffer[1].open <= b[1].open
      BY <1>6, <2>5
    <3>2. 1 \in 1..m /\ 1 \in 1..n
      BY <1>7, <1>8, <2>5, <3>1
    <3>3. buffer[1].open \in Int /\ b[1].open \in Int
      BY <1>7, <1>8, <3>2
    <3>4. k < b[1].open
      BY <2>3, <2>5, <3>1, <3>3
    <3> QED
      BY <1>7, <3>1, <3>4
  <2>6. ASSUME k > NewestOpen, NEW j \in 1..last, channel[j] = Final(k)
        PROVE  k > newest /\ \E i \in 1..(last - 1) : w[i] = Final(k)
    <3>1. Final(k).final /\ Final(k).open = k
      BY DEF Final
    <3>2. j # 1
      BY <1>3, <1>6, <1>9, <2>2, <2>6, <3>1
    <3>3. j - 1 \in 1..(last - 1) /\ j - 1 + 1 = j
      BY <1>3, <3>2
    <3>4. w[j - 1] = Final(k)
      BY <1>3, <2>6, <3>3
    <3>5. k > newest
      <4>1. CASE newest = NewestOpen
        BY <2>6, <4>1
      <4>2. CASE newest = c.open /\ c.final
        <5>1. SUFFICES ASSUME k <= c.open PROVE FALSE
          BY <1>9, <2>3, <4>2
        <5>2. c.open > NewestOpen
          BY <1>8, <1>9, <2>3, <2>6, <4>2, <5>1
        <5>3. k # c.open
          BY <1>6, <1>9, <2>2, <4>2, <5>2
        <5>4. NewestOpen < k /\ k < c.open
          BY <1>8, <1>9, <2>3, <2>6, <4>2, <5>1, <5>3
        <5>5. 1 \in DOMAIN channel /\ 1..(1 - 1) = {}
          BY <1>3
        <5> QED
          BY <1>3, <2>1, <2>3, <4>2, <5>4, <5>5 DEF FeedInv, InOrderInv
      <4> QED
        BY <1>6, <4>1, <4>2
    <3> QED
      BY <3>3, <3>4, <3>5
  <2>7. \/ \E i \in 1..n : buffer[i].open = k
        \/ buffer # <<>> /\ k < buffer[1].open /\ n >= Limit
        \/ k > NewestOpen /\ \E j \in 1..last : channel[j] = Final(k)
    BY <1>2, <1>3, <1>8, <2>1, <2>3 DEF FeedInv, HeardInv
  <2> QED
    BY <2>4, <2>5, <2>6, <2>7
<1>17. InOrderInv'
  <2>1. SUFFICES ASSUME NEW j \in 1..(last - 1), w[j].final,
                        NEW k \in Elements(klines), newest < k, k < w[j].open
                 PROVE  k \in missed' \/ \E i \in 1..(j - 1) : w[i] = Final(k)
    <3>1. SUFFICES ASSUME NEW j \in DOMAIN w, w[j].final,
                          NEW k \in Elements(klines), NewestOpen' < k, k < w[j].open
                   PROVE  k \in missed' \/ \E i \in 1..(j - 1) : w[i] = Final(k)
      BY <1>2, <1>a DEF InOrderInv
    <3> QED
      BY <1>3, <1>9, <2>1, <3>1
  <2>2. /\ j + 1 \in DOMAIN channel /\ channel[j + 1].final /\ w[j] = channel[j + 1]
        /\ w[j].open \in 0..MaxMinute
    BY <1>2, <1>3, <2>1, ChannelFacts DEF FeedInv
  <2>3. k > newest /\ k \in Int /\ NewestOpen < k /\ k < channel[j + 1].open
    <3>1. k \in Int
      BY KlineFacts DEF FeedInv
    <3> QED
      BY <1>6, <1>8, <1>9, <2>1, <2>2, <3>1
  <2>4. k \in missed \/ \E i \in 1..(j + 1 - 1) : channel[i] = Final(k)
    BY <2>2, <2>3 DEF FeedInv, InOrderInv
  <2>5. k \notin Opens(b)
    <3>1. SUFFICES ASSUME NEW i \in 1..m, b[i].open = k PROVE FALSE
      BY <1>9
    <3> QED
      BY <1>9, <1>10, <2>3, <3>1
  <2>6. ASSUME NEW i \in 1..(j + 1 - 1), channel[i] = Final(k)
        PROVE  \E l \in 1..(j - 1) : w[l] = Final(k)
    <3>1. Final(k).final /\ Final(k).open = k
      BY DEF Final
    <3>2. i # 1
      <4>1. SUFFICES ASSUME i = 1 PROVE FALSE
        OBVIOUS
      <4>2. c.final /\ c.open = k
        BY <1>3, <2>6, <3>1, <4>1
      <4> QED
        BY <1>6, <1>9, <2>3, <4>2
    <3>3. i - 1 \in 1..(j - 1) /\ i - 1 \in 1..(last - 1) /\ i - 1 + 1 = i
      BY <1>3, <2>1, <3>2
    <3> QED
      BY <1>3, <2>6, <3>3
  <2> QED
    BY <1>11, <2>4, <2>5, <2>6
<1> QED
  BY <1>1, <1>12, <1>13, <1>14, <1>15, <1>16, <1>17, PolledKept DEF FeedInv

LEMMA FeedInvariance == Spec => []FeedInv
<1>1. FeedInv /\ [Next]_vars => FeedInv'
  <2> SUFFICES ASSUME FeedInv, [Next]_vars PROVE FeedInv'
    OBVIOUS
  <2>1. CASE \E seed \in BOOLEAN : Fetch(seed)
    BY <2>1, InvFetch
  <2>2. CASE Poll
    BY <2>2, InvPoll
  <2>3. CASE Seed
    BY <2>3, InvSeed
  <2>4. CASE Deliver
    BY <2>4, InvDeliver
  <2>5. CASE Connect
    BY <2>5, InvConnect
  <2>6. CASE Disconnect
    BY <2>6, InvDisconnect
  <2>7. CASE Push
    BY <2>7, InvPush
  <2>8. CASE MinutePasses
    BY <2>8, InvMinutePasses
  <2>10. CASE CandleOpens
    BY <2>10, InvCandleOpens
  <2>9. CASE UNCHANGED vars
    <3>1. /\ UNCHANGED <<now, klines, buffer, channel, missed>>
          /\ UNCHANGED <<rows, seeding, polled, connected>>
      BY <2>9 DEF vars
    <3>2. ClockInv' /\ BufferInv' /\ ChannelInv' /\ HeardInv' /\ InOrderInv'
      BY <3>1, StreamKept
    <3>3. TypeOK' /\ PollComplete'
      BY <3>1, PolledKept DEF FeedInv, TypeOK
    <3>4. ResponseInv'
      <4>1. (seeding => ~connected) /\ (~connected => channel = <<>>)
        BY DEF FeedInv, ResponseInv
      <4> QED
        BY <3>1, <4>1, RestKept
    <3> QED
      BY <3>2, <3>3, <3>4 DEF FeedInv
  <2> QED
    BY <2>1, <2>2, <2>3, <2>4, <2>5, <2>6, <2>7, <2>8, <2>9, <2>10 DEF Next
<1> QED
  BY <1>1, InvInit, PTL DEF Spec

-----------------------------------------------------------------------------
(* Theorems *)

\* Every variable keeps its type; the buffer never exceeds _max_candles.
THEOREM FeedTypeHolds == Spec => []TypeOK
<1>1. FeedInv => TypeOK
  BY DEF FeedInv
<1> QED
  BY <1>1, FeedInvariance, PTL

\* StreamingMarketData._candles stays strictly ordered by open time.
THEOREM BufferOrderedHolds == Spec => []BufferOrdered
<1>1. FeedInv => BufferOrdered
  BY DEF FeedInv, BufferInv
<1> QED
  BY <1>1, FeedInvariance, PTL

\* A REST poll skips no candle the exchange has, and is only short if there are no
\* more (get_closed_candles, parse_klines).
THEOREM PollCompleteHolds == Spec => []PollComplete
<1>1. FeedInv => PollComplete
  BY DEF FeedInv
<1> QED
  BY <1>1, FeedInvariance, PTL

\* At most one buffered candle has partial data (apply_kline, seed_candles).
THEOREM OnePartialAtMostHolds == Spec => []OnePartialAtMost
<1>1. FeedInv => OnePartialAtMost
  <2> SUFFICES ASSUME FeedInv PROVE OnePartialAtMost
    OBVIOUS
  <2> DEFINE S == {i \in DOMAIN buffer : ~buffer[i].final}
  <2>1. \A i, j \in S : i = j
    BY DEF FeedInv, BufferInv
  <2>2. CASE S = {}
    BY <2>2, FS_EmptySet DEF OnePartialAtMost
  <2>3. CASE S # {}
    <3>1. PICK i \in S : TRUE
      BY <2>3
    <3>2. S = {i}
      BY <2>1, <3>1
    <3> HIDE DEF S
    <3>3. Cardinality(S) = 1
      BY <3>2, FS_Singleton
    <3>4. Cardinality(S) <= 1
      BY <3>3
    <3> QED
      BY <3>4 DEF OnePartialAtMost, S
  <2> QED
    BY <2>2, <2>3
<1> QED
  BY <1>1, FeedInvariance, PTL

\* The window is a suffix of the buffer, at most Limit candles long.
IsWindow(W, n, m) ==
  /\ n \in Nat /\ m \in Nat /\ n - m \in Nat /\ m = IF n > Limit THEN Limit ELSE n
  /\ W = <<>> <=> m = 0
  /\ \A i \in 1..m : W[i] = buffer[n - m + i]

LEMMA WindowFacts ==
  ASSUME TypeOK
  PROVE  IsWindow(Window, Len(buffer), Len(Window))
<1>1. buffer \in Seq(Candle) /\ Len(buffer) \in Nat /\ Limit \in Nat
  BY LenProperties, SizeFacts DEF TypeOK
<1>2. PICK W : W = LastN(buffer, Limit)
  OBVIOUS
<1>3. /\ W \in Seq(Candle) /\ Len(W) \in Nat /\ Len(buffer) - Len(W) \in Nat
      /\ Len(W) = IF Len(buffer) > Limit THEN Limit ELSE Len(buffer)
      /\ \A i \in 1..Len(W) : W[i] = buffer[Len(buffer) - Len(W) + i]
  BY <1>1, <1>2, LastNFacts
<1>4. W = <<>> <=> Len(W) = 0
  BY <1>3, EmptySeq
<1>5. IsWindow(W, Len(buffer), Len(W))
  BY <1>1, <1>3, <1>4 DEF IsWindow
<1> QED
  BY <1>2, <1>5 DEF Window

\* A window is only refused for a gap, and every minute it skips was lost by the
\* connection or has no candle (apply_kline, validate_series).
THEOREM GapsAreLossesHolds == Spec => []GapsAreLosses
<1>1. FeedInv => GapsAreLosses
  <2> SUFFICES ASSUME FeedInv, Window # <<>>
               PROVE  /\ ~Valid(Window) => Skipped # {}
                      /\ Skipped \cap Elements(klines) \subseteq missed
    BY DEF GapsAreLosses
  <2>1. PICK W, n, m : W = Window /\ n = Len(buffer) /\ m = Len(W)
    OBVIOUS
  <2>2. /\ n \in Nat /\ m \in Nat /\ n - m \in Nat /\ m # 0
        /\ \A i \in 1..m : W[i] = buffer[n - m + i]
    <3>1. IsWindow(W, n, m)
      <4>1. IsWindow(Window, Len(buffer), Len(Window))
        BY WindowFacts DEF FeedInv
      <4> QED
        BY <2>1, <4>1
    <3> QED
      BY <2>1, <3>1 DEF IsWindow
  <2>3. PICK d \in Nat : d = n - m
    BY <2>2
  <2>4. /\ \A i \in 1..m : d + i \in 1..n /\ W[i] = buffer[d + i]
        /\ d + m = n /\ 1 \in 1..m /\ m \in 1..m
    BY <2>2, <2>3
  <2>5. /\ DOMAIN buffer = 1..n /\ n # 0 /\ DOMAIN W = 1..m /\ buffer # <<>>
        /\ \A i \in 1..n : buffer[i].open \in 0..MaxMinute /\ buffer[i].open \in Nat
        /\ NewestOpen = buffer[n].open
    <3>1. n # 0
      BY <2>2
    <3>2. Window \in Seq(Candle)
      BY LastNFacts, SizeFacts DEF Window, FeedInv, TypeOK
    <3>3. DOMAIN W = 1..m
      BY <2>1, <3>2, LenProperties
    <3>4. /\ DOMAIN buffer = 1..n /\ buffer # <<>>
          /\ \A i \in 1..n : buffer[i].open \in 0..MaxMinute
          /\ NewestOpen = buffer[n].open
      BY <2>1, <3>1, BufferFacts DEF FeedInv
    <3> QED
      BY <3>1, <3>3, <3>4, SizeFacts
  <2>6. \A i, j \in 1..n : i < j => buffer[i].open < buffer[j].open
    BY <2>5 DEF FeedInv, BufferInv, BufferOrdered
  <2>7. Skipped = (W[1].open..W[m].open) \ Opens(W)
    BY <2>1 DEF Skipped
  <2>8. W[1] = buffer[d + 1] /\ W[m] = buffer[n] /\ d + 1 \in 1..n /\ n \in 1..n /\ 1 \in 1..n
    <3>1. W[1] = buffer[d + 1] /\ W[m] = buffer[n] /\ d + 1 \in 1..n /\ n \in 1..n
      BY <2>4
    <3> QED
      BY <2>2, <2>5, <3>1
  <2>9. ASSUME NEW j \in 1..n, buffer[j].open \notin Opens(W) PROVE buffer[j].open < W[1].open
    <3>1. ~(j > d)
      <4>1. SUFFICES ASSUME j > d PROVE FALSE
        OBVIOUS
      <4>2. j - d \in 1..m /\ d + (j - d) = j
        BY <2>2, <2>3, <4>1
      <4>3. W[j - d].open = buffer[j].open
        BY <2>4, <4>2
      <4> QED
        BY <2>5, <2>9, <4>2, <4>3 DEF Opens
    <3>2. j < d + 1
      BY <2>2, <2>3, <3>1
    <3> QED
      BY <2>6, <2>8, <3>2
  <2>10. ASSUME ~Valid(Window) PROVE Skipped # {}
    <3>1. PICK i \in 1..(m - 1) : W[i + 1].open # W[i].open + 1
      BY <2>1, <2>10 DEF Valid
    <3>2. /\ i \in 1..m /\ i + 1 \in 1..m /\ d + i \in 1..n /\ d + i + 1 \in 1..n
          /\ W[i] = buffer[d + i] /\ W[i + 1] = buffer[d + i + 1]
      <4>1. i \in 1..m /\ i + 1 \in 1..m /\ d + (i + 1) = d + i + 1
        BY <2>2, <2>3
      <4> QED
        BY <2>4, <4>1
    <3>3. PICK k, next : k = W[i].open + 1 /\ next = W[i + 1].open
      OBVIOUS
    <3>4. W[i].open \in Nat /\ next \in Nat /\ k \in Nat /\ k < next
      <4>1. W[i].open \in Nat /\ next \in Nat /\ W[i].open < next
        <5>1. d + i < d + i + 1
          BY <2>3
        <5> QED
          BY <2>5, <2>6, <3>2, <3>3, <5>1
      <4>2. next # W[i].open + 1
        BY <3>1, <3>3
      <4>3. \A x, y \in Nat : x < y /\ y # x + 1 => x + 1 < y
        OBVIOUS
      <4> QED
        BY <3>3, <4>1, <4>2, <4>3
    <3>5. ASSUME NEW j \in 1..n
          PROVE  buffer[j].open <= W[i].open \/ buffer[j].open >= next
      <4>1. j = d + i \/ j < d + i \/ j = d + i + 1 \/ d + i + 1 < j
        BY <2>3
      <4> QED
        BY <2>5, <2>6, <3>2, <3>3, <4>1
    <3>6. k \notin Opens(W)
      <4>1. SUFFICES ASSUME NEW j \in 1..m, W[j].open = k PROVE FALSE
        BY <2>5 DEF Opens
      <4>2. k <= W[i].open \/ k >= next
        BY <2>4, <3>5, <4>1
      <4> QED
        BY <3>3, <3>4, <4>2
    <3>7. W[1].open <= W[i].open /\ next <= W[m].open
      <4>1. d + 1 = d + i \/ d + 1 < d + i
        BY <2>3
      <4>2. d + i + 1 = n \/ d + i + 1 < n
        BY <2>2, <3>2
      <4>3. W[1].open <= W[i].open
        BY <2>5, <2>6, <2>8, <3>2, <4>1
      <4>4. next <= W[m].open
        BY <2>5, <2>6, <2>8, <3>2, <3>3, <4>2
      <4> QED
        BY <4>3, <4>4
    <3>8. W[1].open \in Nat /\ W[m].open \in Nat
      BY <2>5, <2>8
    <3>9. k \in W[1].open..W[m].open
      BY <3>3, <3>4, <3>7, <3>8
    <3> QED
      BY <2>7, <3>6, <3>9
  <2>11. ASSUME NEW k \in Skipped, k \in Elements(klines) PROVE k \in missed
    <3>1. /\ W[1].open \in Nat /\ W[m].open \in Nat /\ k \in Nat
          /\ W[1].open <= k /\ k <= W[m].open /\ k \notin Opens(W)
      BY <2>5, <2>7, <2>8, <2>11
    <3>2. ~\E j \in 1..n : buffer[j].open = k
      <4>1. SUFFICES ASSUME NEW j \in 1..n, buffer[j].open = k PROVE FALSE
        OBVIOUS
      <4>2. k < W[1].open
        BY <2>9, <3>1, <4>1
      <4> QED
        BY <3>1, <4>2
    <3>3. ~(k < buffer[1].open)
      <4>1. 1 = d + 1 \/ 1 < d + 1
        BY <2>3
      <4>2. buffer[1].open <= W[1].open /\ buffer[1].open \in Nat
        BY <2>5, <2>6, <2>8, <4>1
      <4> QED
        BY <3>1, <4>2
    <3>4. ~(k > NewestOpen) /\ ~(k >= now)
      <4>1. W[m].open = NewestOpen /\ W[m].open < now /\ now \in Nat
        BY <2>5, <2>8 DEF FeedInv, BufferInv, TypeOK
      <4> QED
        BY <3>1, <4>1
    <3> QED
      BY <2>5, <2>11, <3>2, <3>3, <3>4 DEF FeedInv, HeardInv
  <2> QED
    BY <2>10, <2>11
<1> QED
  BY <1>1, FeedInvariance, PTL

\* A strictly increasing series of integers grows by one a step at least.
LEMMA Growth ==
  ASSUME NEW n \in Nat, NEW f, \A i \in 1..n : f[i] \in Int,
         \A i, j \in 1..n : i < j => f[i] < f[j]
  PROVE  \A i, j \in 1..n : i <= j => f[j] - f[i] >= j - i
<1> DEFINE Short == {e \in Nat : \E i \in 1..n : i + e \in 1..n /\ f[i + e] - f[i] < e}
<1>1. Short = {}
  <2>1. SUFFICES ASSUME Short # {} PROVE FALSE
    OBVIOUS
  <2>2. Short \in SUBSET Nat
    OBVIOUS
  <2>3. PICK e \in Short : \A x \in Short : e <= x
    <3> HIDE DEF Short
    <3> QED
      BY <2>1, <2>2, LeastNatural
  <2>4. PICK i \in 1..n : i + e \in 1..n /\ f[i + e] - f[i] < e
    BY <2>3
  <2>5. e \in Nat
    BY <2>3
  <2>6. e # 0
    <3>1. SUFFICES ASSUME e = 0 PROVE FALSE
      OBVIOUS
    <3>2. i + e = i /\ f[i] \in Int
      BY <3>1
    <3> QED
      BY <2>4, <3>1, <3>2
  <2>7. e - 1 \in Nat /\ i + (e - 1) \in 1..n /\ i + (e - 1) < i + e
    BY <2>4, <2>5, <2>6
  <2>8. /\ f[i + (e - 1)] \in Int /\ f[i + e] \in Int /\ f[i] \in Int
        /\ f[i + (e - 1)] < f[i + e]
    BY <2>4, <2>7
  <2>9. f[i + (e - 1)] - f[i] < e - 1
    BY <2>4, <2>5, <2>8
  <2>10. e - 1 \in Short
    BY <2>7, <2>9
  <2>11. ~(e <= e - 1)
    BY <2>5
  <2> HIDE DEF Short
  <2> QED
    BY <2>3, <2>10, <2>11
<1>2. ASSUME NEW i \in 1..n, NEW j \in 1..n, i <= j PROVE f[j] - f[i] >= j - i
  <2>1. PICK e : e = j - i
    OBVIOUS
  <2>2. ~(f[j] - f[i] < j - i)
    <3>1. e \in Nat /\ i + e = j
      BY <1>2, <2>1
    <3>2. e \notin Short
      BY <1>1
    <3> QED
      BY <2>1, <3>1, <3>2
  <2>3. f[j] - f[i] \in Int /\ j - i \in Int
    <3>1. f[i] \in Int /\ f[j] \in Int
      OBVIOUS
    <3> QED
      BY <3>1
  <2> HIDE DEF Short
  <2> QED
    BY <2>2, <2>3
<1> QED
  BY <1>2

\* A strictly increasing series that reaches every one of the last numbers up to its
\* bound ends in them.
ReachesLast(f, n, top, size) ==
  /\ n \in Nat /\ top \in Nat /\ size \in Nat /\ size <= top
  /\ \A i \in 1..n : f[i] \in 1..top
  /\ \A i, j \in 1..n : i < j => f[i] < f[j]
  /\ \A p \in (top - size + 1)..top : \E i \in 1..n : f[i] = p
EndsInLast(f, n, top, size) ==
  /\ size <= n /\ n <= top
  /\ \A j \in 1..size : n - size + j \in 1..n /\ f[n - size + j] = top - size + j

LEMMA Suffix ==
  ASSUME NEW n, NEW top, NEW size, NEW f, ReachesLast(f, n, top, size)
  PROVE  EndsInLast(f, n, top, size)
<1> USE DEF ReachesLast, EndsInLast
<1>1. \A i \in 1..n : f[i] \in Int
  OBVIOUS
<1>2. \A i, j \in 1..n : i <= j => f[j] - f[i] >= j - i
  BY <1>1, Growth
<1>3. n <= top
  <2>1. CASE n = 0
    BY <2>1
  <2>2. CASE n # 0
    <3>1. 1 \in 1..n /\ n \in 1..n /\ 1 <= n
      BY <2>2
    <3>2. f[n] - f[1] >= n - 1 /\ f[1] \in 1..top /\ f[n] \in 1..top
      BY <1>2, <3>1
    <3> QED
      BY <3>2
  <2> QED
    BY <2>1, <2>2
<1>4. CASE size = 0
  BY <1>3, <1>4
<1>5. CASE size # 0
  <2>1. PICK g : g = [j \in 1..size |-> CHOOSE i \in 1..n : f[i] = top - size + j]
    OBVIOUS
  <2>2. ASSUME NEW j \in 1..size PROVE g[j] \in 1..n /\ f[g[j]] = top - size + j
    <3>1. top - size + j \in (top - size + 1)..top
      OBVIOUS
    <3>2. \E i \in 1..n : f[i] = top - size + j
      BY <3>1
    <3> QED
      BY <2>1, <3>2
  <2>3. ASSUME NEW i \in 1..size, NEW j \in 1..size, i < j PROVE g[i] < g[j]
    <3>1. /\ g[i] \in 1..n /\ g[j] \in 1..n
          /\ f[g[i]] = top - size + i /\ f[g[j]] = top - size + j
      BY <2>2
    <3>2. f[g[i]] < f[g[j]]
      BY <2>3, <3>1
    <3>3. SUFFICES ASSUME g[j] <= g[i] PROVE FALSE
      BY <3>1
    <3>4. g[j] = g[i] \/ g[j] < g[i]
      BY <3>1, <3>3
    <3>5. f[g[i]] \in Int /\ f[g[j]] \in Int
      BY <1>1, <3>1
    <3> QED
      BY <3>1, <3>2, <3>4, <3>5
  <2>4. \A j \in 1..size : g[j] \in Int
    BY <2>2
  <2>5. \A i, j \in 1..size : i <= j => g[j] - g[i] >= j - i
    BY <2>3, <2>4, Growth
  <2>6. size \in 1..size /\ 1 \in 1..size /\ top - size + size = top
    BY <1>5
  <2>7. g[size] = n /\ f[n] = top /\ n \in 1..n
    <3>1. g[size] \in 1..n /\ f[g[size]] = top /\ n \in 1..n
      BY <2>2, <2>6
    <3>2. SUFFICES ASSUME g[size] < n PROVE FALSE
      BY <3>1
    <3>3. f[g[size]] < f[n] /\ f[n] \in 1..top
      BY <3>1, <3>2
    <3> QED
      BY <3>1, <3>3
  <2>8. ASSUME NEW j \in 1..size
        PROVE  n - size + j \in 1..n /\ f[n - size + j] = top - size + j
    <3>1. g[j] \in 1..n /\ n - g[j] >= size - j /\ f[g[j]] = top - size + j
      <4>1. j <= size
        OBVIOUS
      <4> QED
        BY <2>2, <2>5, <2>6, <2>7, <4>1
    <3>2. f[n] - f[g[j]] >= n - g[j]
      <4>1. g[j] <= n
        BY <3>1
      <4> QED
        BY <1>2, <2>7, <3>1, <4>1
    <3>3. g[j] = n - size + j
      <4>1. f[n] - f[g[j]] = size - j
        BY <2>7, <3>1
      <4>2. g[j] \in Int
        BY <3>1
      <4> QED
        BY <3>1, <3>2, <4>1, <4>2
    <3> QED
      BY <3>1, <3>3
  <2>9. size <= n
    <3>1. n - size + 1 \in 1..n
      BY <2>6, <2>8
    <3> QED
      BY <3>1
  <2> QED
    BY <1>3, <2>8, <2>9
<1> QED
  BY <1>4, <1>5

\* Once the last Limit candles of the exchange got through, they are the window.
THEOREM StreamHealsHolds == Spec => []StreamHeals
<1>1. FeedInv => StreamHeals
  <2> DEFINE last == LastN(History, Limit)
  <2> SUFFICES ASSUME FeedInv, channel = <<>>, Elements(last) \cap missed = {}
               PROVE  [i \in DOMAIN Window |-> Window[i].open] = last
    BY DEF StreamHeals
  <2>1. PICK W, n, m, N, size, r :
          /\ W = Window /\ n = Len(buffer) /\ m = Len(W) /\ N = Len(History)
          /\ r = last /\ size = Len(r)
    OBVIOUS
  <2>2. /\ n \in Nat /\ m \in Nat /\ m = (IF n > Limit THEN Limit ELSE n)
        /\ \A i \in 1..m : W[i] = buffer[n - m + i]
    <3>1. IsWindow(W, n, m)
      <4>1. IsWindow(Window, Len(buffer), Len(Window))
        BY WindowFacts DEF FeedInv
      <4> QED
        BY <2>1, <4>1
    <3> QED
      BY <2>1, <3>1 DEF IsWindow
  <2>3. /\ N \in Nat /\ N <= Len(klines) /\ Len(klines) \in Nat /\ now \in Nat
        /\ \A i \in 1..N : History[i] = klines[i] /\ klines[i] < now
        /\ \A i \in 1..Len(klines) : i > N => klines[i] = now
        /\ \A i \in 1..Len(klines) : klines[i] \in Nat
        /\ \A i, j \in 1..Len(klines) : i < j => klines[i] < klines[j]
        /\ \A k : k \in Elements(klines) <=> \E i \in 1..Len(klines) : klines[i] = k
    BY <2>1, HistoryFacts, KlineFacts DEF FeedInv
  <2>4. /\ r \in Seq(0..MaxMinute) /\ size \in Nat /\ DOMAIN r = 1..size
        /\ size = (IF N > Limit THEN Limit ELSE N) /\ N - size \in Nat
        /\ \A i \in 1..size : r[i] = klines[N - size + i]
    <3>1. History \in Seq(0..MaxMinute)
      BY HistoryFacts DEF FeedInv
    <3>2. LET d == Len(History) - Len(last)
          IN /\ last \in Seq(0..MaxMinute) /\ Len(last) \in Nat /\ d \in Nat
             /\ Len(last) = IF Len(History) > Limit THEN Limit ELSE Len(History)
             /\ \A i \in 1..Len(last) : last[i] = History[d + i]
      BY <3>1, LastNFacts, SizeFacts
    <3> HIDE DEF last
    <3>3. /\ r \in Seq(0..MaxMinute) /\ size \in Nat /\ N - size \in Nat
          /\ size = (IF N > Limit THEN Limit ELSE N)
          /\ \A i \in 1..size : r[i] = History[N - size + i]
      BY <2>1, <3>2
    <3>4. \A i \in 1..size : N - size + i \in 1..N
      BY <2>3, <3>3
    <3>5. DOMAIN r = 1..size
      BY <2>1, <3>3, LenProperties
    <3>6. \A i \in 1..size : r[i] = klines[N - size + i]
      BY <2>3, <3>3, <3>4
    <3> QED
      BY <3>3, <3>5, <3>6
  <2> HIDE DEF last
  <2>5. /\ DOMAIN buffer = 1..n /\ (buffer = <<>> <=> n = 0)
        /\ \A i, j \in 1..n : i < j => buffer[i].open < buffer[j].open
    BY <2>1, BufferFacts DEF FeedInv, BufferInv, BufferOrdered
  <2>6. PICK f : f = [i \in 1..n |-> CHOOSE p \in 1..N : klines[p] = buffer[i].open]
    OBVIOUS
  <2>7. ASSUME NEW i \in 1..n PROVE f[i] \in 1..N /\ klines[f[i]] = buffer[i].open
    <3>1. buffer[i].open < now /\ buffer[i].open \in Elements(klines)
      BY <2>5 DEF FeedInv, BufferInv
    <3>2. PICK p \in 1..Len(klines) : klines[p] = buffer[i].open
      BY <2>3, <3>1
    <3>3. ~(p > N)
      BY <2>3, <3>1, <3>2
    <3>4. p \in 1..N
      BY <2>3, <3>3
    <3> QED
      BY <2>6, <3>2, <3>4
  <2>8. ASSUME NEW i \in 1..n, NEW j \in 1..n, i < j PROVE f[i] < f[j]
    <3>1. /\ f[i] \in 1..Len(klines) /\ f[j] \in 1..Len(klines)
          /\ klines[f[i]] < klines[f[j]]
      BY <2>3, <2>5, <2>7, <2>8
    <3>2. f[i] = f[j] \/ f[j] < f[i] \/ f[i] < f[j]
      BY <2>3, <3>1
    <3> QED
      BY <2>3, <3>1, <3>2
  <2>9. Limit \in Nat /\ Limit >= 1 /\ size <= N /\ size <= Limit
    BY <2>3, <2>4, SizeFacts
  <2>10. ASSUME NEW p \in (N - size + 1)..N PROVE \E i \in 1..n : f[i] = p
    <3>1. p - (N - size) \in 1..size /\ N - size + (p - (N - size)) = p /\ p \in 1..N
      BY <2>3, <2>4, <2>10
    <3>2. klines[p] \in Elements(r)
      BY <2>4, <3>1 DEF Elements
    <3>3. p \in 1..Len(klines) /\ klines[p] \notin missed /\ klines[p] < now
      BY <2>1, <2>3, <3>1, <3>2
    <3>4. klines[p] \in Elements(klines) /\ ~(klines[p] >= now) /\ DOMAIN channel = {}
      BY <2>3, <3>3, EmptySeq, LenProperties
    <3>5. \/ \E i \in 1..n : buffer[i].open = klines[p]
          \/ n # 0 /\ klines[p] < buffer[1].open /\ n >= Limit
      BY <2>1, <2>5, <3>3, <3>4 DEF FeedInv, HeardInv
    <3>6. ASSUME NEW i \in 1..n, buffer[i].open = klines[p] PROVE f[i] = p
      <4>1. f[i] \in 1..Len(klines) /\ klines[f[i]] = klines[p]
        BY <2>3, <2>7, <3>6
      <4>2. f[i] = p \/ f[i] < p \/ p < f[i]
        BY <3>1, <4>1
      <4> QED
        BY <2>3, <3>3, <4>1, <4>2
    <3>7. ASSUME n # 0, klines[p] < buffer[1].open, n >= Limit PROVE FALSE
      <4>1. 1 \in 1..n /\ n \in 1..n /\ 1 <= n
        BY <2>2, <3>7
      <4>2. f[1] \in 1..N /\ f[n] \in 1..N /\ klines[p] < klines[f[1]]
        BY <2>7, <3>7, <4>1
      <4>3. p < f[1]
        <5>1. f[1] \in 1..Len(klines)
          BY <2>3, <4>2
        <5>2. p = f[1] \/ f[1] < p \/ p < f[1]
          BY <3>1, <4>2
        <5> QED
          BY <2>3, <3>3, <4>2, <5>1, <5>2
      <4>4. \A i \in 1..n : f[i] \in Int
        BY <2>7
      <4>5. \A i, j \in 1..n : i <= j => f[j] - f[i] >= j - i
        BY <2>2, <2>8, <4>4, Growth
      <4>6. f[n] - f[1] >= n - 1
        BY <4>1, <4>5
      <4> QED
        BY <2>2, <2>3, <2>4, <2>9, <2>10, <3>7, <4>2, <4>3, <4>6
    <3> QED
      BY <3>5, <3>6, <3>7
  <2>11. /\ size <= n /\ n <= N
         /\ \A j \in 1..size : n - size + j \in 1..n /\ f[n - size + j] = N - size + j
    <3>1. n \in Nat /\ N \in Nat /\ size \in Nat /\ size <= N
      BY <2>2, <2>3, <2>4, <2>9
    <3>2. \A i \in 1..n : f[i] \in 1..N
      BY <2>7
    <3>3. \A i, j \in 1..n : i < j => f[i] < f[j]
      BY <2>8
    <3>4. \A p \in (N - size + 1)..N : \E i \in 1..n : f[i] = p
      BY <2>10
    <3>5. ReachesLast(f, n, N, size)
      BY <3>1, <3>2, <3>3, <3>4 DEF ReachesLast
    <3>6. EndsInLast(f, n, N, size)
      BY <3>5, Suffix
    <3> QED
      BY <3>6 DEF EndsInLast
  <2>12. m = size
    BY <2>2, <2>3, <2>4, <2>9, <2>11
  <2>13. ASSUME NEW i \in 1..m PROVE W[i].open = r[i]
    <3>1. n - size + i \in 1..n /\ f[n - size + i] = N - size + i
      BY <2>11, <2>12
    <3>2. klines[N - size + i] = buffer[n - size + i].open
      BY <2>7, <3>1
    <3> QED
      BY <2>2, <2>4, <2>12, <3>2
  <2>14. W \in Seq(Candle)
    BY <2>1, LastNFacts, SizeFacts DEF Window, FeedInv, TypeOK
  <2>15. DOMAIN W = 1..m
    BY <2>1, <2>14, LenProperties
  <2>16. PICK o : o = [i \in 1..m |-> W[i].open]
    OBVIOUS
  <2>17. \A i \in 1..m : r[i] \in 0..MaxMinute
    <3>1. r \in Seq(0..MaxMinute) /\ Len(r) = m
      BY <2>1, <2>4, <2>12
    <3> QED
      BY <3>1, ElementOfSeq
  <2>18. o \in [1..m -> 0..MaxMinute] /\ \A i \in 1..m : o[i] = r[i]
    BY <2>13, <2>16, <2>17
  <2>19. o \in Seq(0..MaxMinute) /\ Len(o) = m
    <3>1. m \in Nat /\ o \in [1..m -> 0..MaxMinute]
      BY <2>2, <2>18
    <3>2. o \in Seq(0..MaxMinute)
      BY <3>1, SeqDef
    <3>3. DOMAIN o = 1..m /\ DOMAIN o = 1..Len(o) /\ Len(o) \in Nat
      BY <3>1, <3>2, LenProperties
    <3>4. Len(o) = m
      BY ONLY <3>1, <3>3, SMT
    <3> QED
      BY <3>2, <3>4
  <2>20. o = r
    BY <2>1, <2>4, <2>12, <2>18, <2>19, SeqEqual
  <2> QED
    BY <2>1, <2>15, <2>16, <2>20
<1> QED
  BY <1>1, FeedInvariance, PTL
=============================================================================
