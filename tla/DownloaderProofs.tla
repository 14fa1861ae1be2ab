-------------------------- MODULE DownloaderProofs --------------------------
(***************************************************************************)
(* Theorems about Downloader, for every value of its constants.  The       *)
(* inductive invariant, PagesInv, says that the exchange's klines only     *)
(* ever grow at the end, that all rows of the first answer but the newest  *)
(* are final, and that what was collected is a suffix of that answer,      *)
(* continued by the next request exactly where it begins.                  *)
(***************************************************************************)
EXTENDS Downloader, SequenceTheorems, FiniteSetTheorems, TLAPS

-----------------------------------------------------------------------------
(* The inductive invariant *)

\* The klines of the exchange are in order, and none opens in the future.
Grown ==
  /\ klines \in Seq(Kline) /\ Ascending(klines)
  /\ today \in 0..Horizon
  /\ \A i \in 1..Len(klines) : klines[i].open <= today

\* The first answer is what the exchange still has: its rows but the last are
\* final and stay so.
Prefix ==
  /\ asOf \in Seq(Row) /\ Len(asOf) <= Len(klines)
  /\ \A i \in 1..Len(asOf) : asOf[i].open = klines[i].open
  /\ \A i \in 1..(Len(asOf) - 1) :
       /\ klines[i].open < today
       /\ asOf[i] = [open |-> klines[i].open, kind |-> klines[i].kind, final |-> TRUE]

\* The first n rows of the first answer are still to be collected.
Wanted == IF Total > 0 THEN Total ELSE 0
At(n) ==
  /\ n \in 0..Len(asOf)
  /\ collected = SubSeq(asOf, n + 1, Len(asOf))
  /\ Len(asOf) - n <= Wanted
  /\ stage = "fetching" =>
       endTime = IF n < Len(asOf) THEN asOf[n + 1].open - 1 ELSE Horizon
  /\ stage \in {"sorting", "written"} => n = 0 \/ Len(asOf) - n >= Wanted

PagesInv ==
  /\ Grown /\ Prefix
  /\ \E n \in Nat : At(n)
  /\ stage \in {"fetching", "sorting", "written", "failed"}
  /\ stage = "written" => rows = collected

-----------------------------------------------------------------------------
(* Lemmas about the operators *)

\* The number of rows that a request for n leaves of h.
Cut(h, n) == IF h > n THEN h - n ELSE 0

\* The last rows of a sequence, and of a prefix of it, are a part of it.
LEMMA LastRowsIs ==
  ASSUME NEW S, NEW t \in Seq(S), NEW n \in Nat
  PROVE  LastRows(t, n) = SubSeq(t, Cut(Len(t), n) + 1, Len(t))
<1>1. Len(t) \in Nat
  OBVIOUS
<1> QED
  BY <1>1 DEF LastRows, Cut

LEMMA LastRowsOfPrefix ==
  ASSUME NEW S, NEW t \in Seq(S), NEW h \in 0..Len(t), NEW n \in Nat
  PROVE  LastRows(SubSeq(t, 1, h), n) = SubSeq(t, Cut(h, n) + 1, h)
<1> DEFINE u == SubSeq(t, 1, h)
           m == Cut(h, n)
<1>1. Len(t) \in Nat /\ \A i \in 1..Len(t) : t[i] \in S
  BY ElementOfSeq
<1>2. /\ u \in Seq(S) /\ Len(u) = h
      /\ \A i \in 1..h : u[i] = t[i]
  <2>1. \A i \in 1..h : t[i] \in S
    BY <1>1
  <2>2. /\ u \in Seq(S)
        /\ Len(u) = IF 1 <= h THEN h - 1 + 1 ELSE 0
        /\ \A i \in 1..(h - 1 + 1) : u[i] = t[1 + i - 1]
    BY <2>1, SubSeqProperties
  <2> QED
    BY <2>2
<1>3. m \in 0..h /\ h \in Nat
  BY <1>1 DEF Cut
<1>4. LastRows(u, n) = SubSeq(u, m + 1, h)
  BY <1>2, LastRowsIs
<1> HIDE DEF m
<1>5. /\ SubSeq(u, m + 1, h) \in Seq(S)
      /\ Len(SubSeq(u, m + 1, h)) = h - m
      /\ \A i \in 1..(h - m) : SubSeq(u, m + 1, h)[i] = u[m + i]
  <2>1. \A i \in (m + 1)..h : u[i] \in S
    BY <1>1, <1>2, <1>3
  <2>2. /\ SubSeq(u, m + 1, h) \in Seq(S)
        /\ Len(SubSeq(u, m + 1, h)) = IF m + 1 <= h THEN h - (m + 1) + 1 ELSE 0
        /\ \A i \in 1..(h - (m + 1) + 1) : SubSeq(u, m + 1, h)[i] = u[(m + 1) + i - 1]
    <3> HIDE DEF u
    <3> QED
      BY <2>1, <1>3, SubSeqProperties
  <2> HIDE DEF u
  <2> QED
    BY <2>2, <1>3
<1>6. /\ SubSeq(t, m + 1, h) \in Seq(S)
      /\ Len(SubSeq(t, m + 1, h)) = h - m
      /\ \A i \in 1..(h - m) : SubSeq(t, m + 1, h)[i] = t[m + i]
  <2>1. \A i \in (m + 1)..h : t[i] \in S
    BY <1>1, <1>3
  <2>2. /\ SubSeq(t, m + 1, h) \in Seq(S)
        /\ Len(SubSeq(t, m + 1, h)) = IF m + 1 <= h THEN h - (m + 1) + 1 ELSE 0
        /\ \A i \in 1..(h - (m + 1) + 1) : SubSeq(t, m + 1, h)[i] = t[(m + 1) + i - 1]
    BY <2>1, <1>3, SubSeqProperties
  <2> QED
    BY <2>2, <1>3
<1>7. \A i \in 1..(h - m) : SubSeq(u, m + 1, h)[i] = SubSeq(t, m + 1, h)[i]
  <2> HIDE DEF u
  <2> QED
    BY <1>2, <1>3, <1>5, <1>6
<1>8. SubSeq(u, m + 1, h) = SubSeq(t, m + 1, h)
  <2> HIDE DEF u
  <2> QED
    BY <1>3, <1>5, <1>6, <1>7, SeqEqual
<1> QED
  BY <1>4, <1>8 DEF m

\* A part of a sequence has the sequence's elements.
LEMMA PartOf ==
  ASSUME NEW S, NEW t \in Seq(S), NEW m \in 0..Len(t), NEW h \in m..Len(t)
  PROVE  /\ SubSeq(t, m + 1, h) \in Seq(S)
         /\ Len(SubSeq(t, m + 1, h)) = h - m
         /\ \A i \in 1..(h - m) : SubSeq(t, m + 1, h)[i] = t[m + i]
<1>1. Len(t) \in Nat /\ \A i \in 1..Len(t) : t[i] \in S
  BY ElementOfSeq
<1>2. \A i \in (m + 1)..h : t[i] \in S
  BY <1>1
<1>3. /\ SubSeq(t, m + 1, h) \in Seq(S)
      /\ Len(SubSeq(t, m + 1, h)) = IF m + 1 <= h THEN h - (m + 1) + 1 ELSE 0
      /\ \A i \in 1..(h - (m + 1) + 1) : SubSeq(t, m + 1, h)[i] = t[(m + 1) + i - 1]
  BY <1>1, <1>2, SubSeqProperties
<1> QED
  BY <1>1, <1>3

\* Two parts that meet.
LEMMA PartsMeet ==
  ASSUME NEW S, NEW t \in Seq(S), NEW m \in 0..Len(t), NEW h \in m..Len(t)
  PROVE  SubSeq(t, m + 1, h) \o SubSeq(t, h + 1, Len(t)) = SubSeq(t, m + 1, Len(t))
<1>1. Len(t) \in Nat
  OBVIOUS
<1>2. m + 1 \in 1..(Len(t) + 1) /\ h \in ((m + 1) - 1)..Len(t) /\ Len(t) \in h..Len(t)
  BY <1>1
<1> QED
  BY <1>2, ConcatAdjacentSubSeq

\* An answer has one row for every kline, final but for the newest.
LEMMA AnswerIs ==
  ASSUME Grown, NEW p \in Kinds
  PROVE  /\ Answer(p) \in Seq(Row) /\ Len(Answer(p)) = Len(klines)
         /\ \A i \in 1..Len(klines) : Answer(p)[i].open = klines[i].open
         /\ \A i \in 1..(Len(klines) - 1) :
              /\ klines[i].open < today
              /\ Answer(p)[i] =
                   [open |-> klines[i].open, kind |-> klines[i].kind, final |-> TRUE]
<1> DEFINE n == Len(klines)
           row(i) == IF klines[i].open < today
                     THEN [open |-> klines[i].open, kind |-> klines[i].kind, final |-> TRUE]
                     ELSE [open |-> klines[i].open, kind |-> p, final |-> FALSE]
<1>1. n \in Nat /\ DOMAIN klines = 1..n /\ \A i \in 1..n : klines[i] \in Kline
  BY ElementOfSeq DEF Grown
<1>0. \A i \in 1..n : klines[i].open \in 0..Horizon
  BY <1>1 DEF Kline
<1>2. \A i \in 1..n : row(i) \in Row /\ row(i).open = klines[i].open
  BY <1>1 DEF Row, Kline
<1>3. Answer(p) = [i \in 1..n |-> row(i)]
  BY <1>1 DEF Answer
<1>4. Answer(p) \in Seq(Row) /\ Len(Answer(p)) = n
  <2> HIDE DEF n, row
  <2> QED
    BY <1>1, <1>2, <1>3
<1>5. \A i \in 1..n : Answer(p)[i] = row(i)
  BY <1>3
<1>6. \A i \in 1..(n - 1) : klines[i].open < today
  <2> SUFFICES ASSUME NEW i \in 1..(n - 1) PROVE klines[i].open < today
    OBVIOUS
  <2>1. i \in 1..n /\ n \in 1..n /\ i < n
    BY <1>1
  <2>2. klines[i].open < klines[n].open /\ klines[n].open <= today
    BY <1>1, <2>1 DEF Grown, Ascending
  <2>3. klines[i].open \in Int /\ klines[n].open \in Int /\ today \in Int
    BY <1>0, <2>1, DownloadAssumption DEF Grown
  <2> QED
    BY <2>2, <2>3
<1>7. \A i \in 1..n : Answer(p)[i].open = klines[i].open
  BY <1>2, <1>5
<1>8. ASSUME NEW i \in 1..(n - 1)
      PROVE  Answer(p)[i] = [open |-> klines[i].open, kind |-> klines[i].kind, final |-> TRUE]
  <2>1. i \in 1..n
    BY <1>1
  <2> QED
    BY <2>1, <1>5, <1>6
<1> HIDE DEF row
<1> QED
  BY <1>4, <1>6, <1>7, <1>8

-----------------------------------------------------------------------------
(* The invariant is inductive *)

LEMMA PagesInit == DownloadInit => PagesInv
<1> SUFFICES ASSUME DownloadInit PROVE PagesInv
  OBVIOUS
<1>1. klines \in Seq(Kline) /\ Ascending(klines) /\ \A i \in 1..Len(klines) : klines[i].open <= today
  <2>1. DOMAIN klines = 1..Len(klines)
    BY DownloadAssumption DEF DownloadInit
  <2> QED
    BY <2>1, DownloadAssumption DEF DownloadInit
<1>2. Grown
  BY <1>1, DownloadAssumption DEF Grown, DownloadInit
<1>3. asOf \in Seq(Row) /\ Len(asOf) = 0 /\ Len(klines) \in Nat
  BY <1>1 DEF DownloadInit
<1>4. Prefix
  BY <1>3 DEF Prefix
<1>5. At(0)
  <2>1. SubSeq(asOf, 1, 0) = <<>>
    BY SubSeqEmpty
  <2>2. 0 <= Wanted
    BY DownloadAssumption DEF Wanted
  <2> QED
    BY <1>3, <2>1, <2>2 DEF At, DownloadInit
<1> QED
  BY <1>2, <1>4, <1>5 DEF PagesInv, DownloadInit

LEMMA PagesMinuteTurns == PagesInv /\ MinuteTurns => PagesInv'
<1> SUFFICES ASSUME PagesInv, MinuteTurns PROVE PagesInv'
  OBVIOUS
<1>0. /\ klines \in Seq(Kline) /\ Len(klines) \in Nat /\ DOMAIN klines = 1..Len(klines)
      /\ \A i \in 1..Len(klines) : klines[i].open \in 0..Horizon
      /\ today \in Int /\ Horizon \in Int
  <2>1. \A i \in 1..Len(klines) : klines[i] \in Kline
    BY ElementOfSeq DEF PagesInv, Grown
  <2> QED
    BY <2>1, DownloadAssumption DEF PagesInv, Grown, Kline
<1>1. /\ klines' \in Seq(Kline) /\ Len(klines) <= Len(klines')
      /\ \A i \in 1..Len(klines) : klines'[i] = klines[i]
      /\ Len(klines') \in {Len(klines), Len(klines) + 1}
      /\ Len(klines') > Len(klines) => klines'[Len(klines')].open = today + 1
  <2>1. CASE UNCHANGED klines
    BY <1>0, <2>1
  <2>2. ASSUME NEW k \in Kinds, klines' = Append(klines, [open |-> today + 1, kind |-> k])
        PROVE  <1>1!1 /\ <1>1!2 /\ <1>1!3 /\ <1>1!4
    <3>1. [open |-> today + 1, kind |-> k] \in Kline
      BY <1>0, DownloadAssumption DEF MinuteTurns, PagesInv, Grown, Kline
    <3> QED
      BY <1>0, <2>2, <3>1, AppendProperties
  <2> QED
    BY <2>1, <2>2 DEF MinuteTurns
<1>2. today' = today + 1 /\ today' \in 0..Horizon
  BY <1>0, DownloadAssumption DEF MinuteTurns, PagesInv, Grown
<1>3. \A i \in 1..Len(klines') : klines'[i].open <= today'
  BY <1>0, <1>1, <1>2 DEF PagesInv, Grown
<1>4. Ascending(klines')
  <2>1. DOMAIN klines' = 1..Len(klines')
    BY <1>1
  <2>2. \A i, j \in 1..Len(klines) : i < j => klines[i].open < klines[j].open
    BY <1>0 DEF PagesInv, Grown, Ascending
  <2>3. ASSUME NEW i \in 1..Len(klines'), NEW j \in 1..Len(klines'), i < j
        PROVE  klines'[i].open < klines'[j].open
    <3>1. i \in 1..Len(klines)
      BY <1>0, <1>1, <2>3
    <3>2. CASE j \in 1..Len(klines)
      BY <1>1, <2>2, <2>3, <3>1, <3>2
    <3>3. CASE j \notin 1..Len(klines)
      <4>1. j = Len(klines') /\ Len(klines') > Len(klines)
        BY <1>0, <1>1, <3>3
      <4>2. klines'[i].open = klines[i].open /\ klines[i].open <= today
        BY <1>1, <3>1 DEF PagesInv, Grown
      <4>3. klines'[j].open = today + 1
        BY <1>1, <4>1
      <4> QED
        BY <1>0, <3>1, <4>2, <4>3
    <3> QED
      BY <3>2, <3>3
  <2> QED
    BY <2>1, <2>3 DEF Ascending
<1>5. Grown'
  BY <1>1, <1>2, <1>3, <1>4 DEF Grown
<1>6. UNCHANGED <<stage, collected, endTime, rows, asOf>>
  BY DEF MinuteTurns, pageVars
<1>7. Prefix'
  <2>1. Len(asOf) \in Nat /\ Len(klines') \in Nat
    BY <1>1 DEF PagesInv, Prefix
  <2>2. Len(asOf') <= Len(klines')
    BY <1>0, <1>1, <1>6, <2>1 DEF PagesInv, Prefix
  <2>3. \A i \in 1..Len(asOf') : asOf'[i].open = klines'[i].open
    BY <1>0, <1>1, <1>6, <2>1 DEF PagesInv, Prefix
  <2>4. ASSUME NEW i \in 1..(Len(asOf') - 1)
        PROVE  /\ klines'[i].open < today'
               /\ asOf'[i] = [open |-> klines'[i].open, kind |-> klines'[i].kind, final |-> TRUE]
    <3>1. i \in 1..(Len(asOf) - 1) /\ i \in 1..Len(klines)
      BY <1>0, <1>6, <2>1, <2>4 DEF PagesInv, Prefix
    <3>2. klines'[i] = klines[i] /\ klines[i].open \in Int
      BY <1>0, <1>1, <3>1
    <3> QED
      BY <1>0, <1>2, <1>6, <3>1, <3>2 DEF PagesInv, Prefix
  <2> QED
    BY <1>6, <2>2, <2>3, <2>4 DEF PagesInv, Prefix
<1>8. \A n \in Nat : At(n) => At(n)'
  BY <1>6 DEF At
<1> QED
  BY <1>5, <1>6, <1>7, <1>8 DEF PagesInv

\* Rows in order are written as they are.
LEMMA InOrder ==
  ASSUME NEW s \in Seq(Row), Ascending(s)
  PROVE  ByOpenTime(s) = s
<1> DEFINE n == Len(s)
           kept == {i \in DOMAIN s : \A j \in DOMAIN s : j > i => s[j].open # s[i].open}
           rank(i) == Cardinality({j \in kept : s[j].open <= s[i].open})
<1>1. n \in Nat /\ DOMAIN s = 1..n /\ s = [m \in 1..n |-> s[m]]
  OBVIOUS
<1>2. \A i \in 1..n : s[i].open \in Int
  <2>1. \A i \in 1..n : s[i] \in Row
    BY ElementOfSeq
  <2> QED
    BY <2>1, DownloadAssumption DEF Row
<1>3. \A i, j \in 1..n : i < j => s[i].open < s[j].open
  BY <1>1 DEF Ascending
<1>4. kept = 1..n
  <2>1. ASSUME NEW i \in 1..n, NEW j \in 1..n, j > i PROVE s[j].open # s[i].open
    BY <1>2, <1>3, <2>1
  <2> QED
    BY <1>1, <2>1
<1>5. ASSUME NEW i \in 1..n PROVE rank(i) = i
  <2>1. ASSUME NEW j \in 1..n PROVE s[j].open <= s[i].open <=> j <= i
    <3>1. j < i \/ j = i \/ i < j
      BY <1>1
    <3>2. s[j].open \in Int /\ s[i].open \in Int
      BY <1>2
    <3> QED
      BY <1>1, <1>3, <3>1, <3>2
  <2>2. {j \in kept : s[j].open <= s[i].open} = 1..i
    <3> HIDE DEF kept
    <3> QED
      BY <1>1, <1>4, <2>1
  <2>3. Cardinality(1..i) = i
    <3>1. 1 \in Int /\ i \in Int /\ 1 <= i
      BY <1>1
    <3>2. Cardinality(1..i) = IF 1 > i THEN 0 ELSE i - 1 + 1
      BY <3>1, FS_Interval
    <3> QED
      BY <3>1, <3>2
  <2> QED
    BY <2>2, <2>3
<1>6. ByOpenTime(s) = [m \in 1..Cardinality(kept) |-> s[CHOOSE i \in kept : rank(i) = m]]
  BY DEF ByOpenTime
<1>7. Cardinality(kept) = n
  <2>1. Cardinality(1..n) = IF 1 > n THEN 0 ELSE n - 1 + 1
    BY <1>1, FS_Interval
  <2>2. Cardinality(1..n) = n
    BY <1>1, <2>1
  <2> HIDE DEF kept
  <2> QED
    BY <1>4, <2>2
<1> HIDE DEF kept, rank
<1>8. ASSUME NEW m \in 1..n PROVE (CHOOSE i \in kept : rank(i) = m) = m
  BY <1>4, <1>5, <1>8
<1> QED
  BY <1>1, <1>6, <1>7, <1>8

\* The collected rows are in order.
LEMMA CollectedInOrder ==
  ASSUME PagesInv, NEW n \in Nat, At(n)
  PROVE  /\ collected \in Seq(Row) /\ Len(collected) = Len(asOf) - n
         /\ Ascending(collected)
<1>1. asOf \in Seq(Row) /\ n \in 0..Len(asOf) /\ Len(asOf) \in Nat
  BY DEF PagesInv, Prefix, At
<1>2. /\ collected \in Seq(Row) /\ Len(collected) = Len(asOf) - n
      /\ \A i \in 1..(Len(asOf) - n) : collected[i] = asOf[n + i]
  BY <1>1, PartOf DEF At
<1>3. \A i, j \in 1..Len(asOf) : i < j => asOf[i].open < asOf[j].open
  <2>1. DOMAIN klines = 1..Len(klines) /\ Len(klines) \in Nat
    BY DEF PagesInv, Grown
  <2> QED
    BY <1>1, <2>1 DEF PagesInv, Grown, Prefix, Ascending
<1>4. ASSUME NEW i \in 1..(Len(asOf) - n), NEW j \in 1..(Len(asOf) - n), i < j
      PROVE  collected[i].open < collected[j].open
  <2>1. n + i \in 1..Len(asOf) /\ n + j \in 1..Len(asOf) /\ n + i < n + j
    BY <1>1, <1>4
  <2> QED
    BY <1>2, <1>3, <2>1
<1>5. DOMAIN collected = 1..(Len(asOf) - n)
  BY <1>2
<1> QED
  BY <1>2, <1>4, <1>5 DEF Ascending

LEMMA PagesWriteRows == PagesInv /\ WriteRows => PagesInv'
<1> SUFFICES ASSUME PagesInv, WriteRows PROVE PagesInv'
  OBVIOUS
<1>1. PICK n \in Nat : At(n)
  BY DEF PagesInv
<1>2. collected \in Seq(Row) /\ Len(collected) = Len(asOf) - n /\ ByOpenTime(collected) = collected
  BY <1>1, CollectedInOrder, InOrder
<1>3. UNCHANGED <<today, klines, collected, endTime, asOf>> /\ stage' = "written"
  BY DEF WriteRows, exchangeVars
<1>4. Grown' /\ Prefix'
  BY <1>3 DEF PagesInv, Grown, Prefix, Ascending
<1>5. n = 0 \/ Len(asOf) - n >= Wanted
  <2>1. CASE stage = "sorting"
    BY <1>1, <2>1 DEF At
  <2>2. CASE stage = "fetching" /\ Len(collected) >= Total
    BY <1>1, <1>2, <2>2, DownloadAssumption DEF Wanted, At
  <2> QED
    BY <2>1, <2>2 DEF WriteRows
<1>6. At(n)'
  BY <1>1, <1>3, <1>5 DEF At
<1>7. rows' = collected'
  BY <1>2, <1>3 DEF WriteRows
<1> QED
  BY <1>3, <1>4, <1>6, <1>7 DEF PagesInv

LEMMA PagesFetchFails == PagesInv /\ FetchFails => PagesInv'
<1> SUFFICES ASSUME PagesInv, FetchFails PROVE PagesInv'
  OBVIOUS
<1>1. PICK n \in Nat : At(n)
  BY DEF PagesInv
<1>2. UNCHANGED <<today, klines, collected, endTime, asOf, rows>> /\ stage' = "failed"
  BY DEF FetchFails, exchangeVars
<1>3. Grown' /\ Prefix'
  BY <1>2 DEF PagesInv, Grown, Prefix, Ascending
<1>4. At(n)'
  BY <1>1, <1>2 DEF At
<1> QED
  BY <1>2, <1>3, <1>4 DEF PagesInv

LEMMA PagesFetchBatch ==
  ASSUME PagesInv, NEW p \in Kinds, NEW hi \in 0..Len(klines), FetchBatch(p, hi)
  PROVE  PagesInv'
<1> DEFINE limit == BatchLimit
           batch == LastRows(SubSeq(Answer(p), 1, hi), limit)
<1>1. PICK n \in Nat : At(n)
  BY DEF PagesInv
<1>2. /\ stage = "fetching" /\ Len(collected) < Total
      /\ \A i \in 1..Len(klines) : klines[i].open <= endTime <=> i <= hi
      /\ collected' = batch \o collected
      /\ endTime' = IF batch = <<>> THEN endTime ELSE batch[1].open - 1
      /\ stage' = IF Len(batch) < limit THEN "sorting" ELSE stage
      /\ asOf' = IF collected = <<>> THEN Answer(p) ELSE asOf
      /\ UNCHANGED <<today, klines, rows>>
  <2>1. DOMAIN klines = 1..Len(klines)
    BY DEF PagesInv, Grown
  <2> QED
    BY <2>1 DEF FetchBatch, Request, exchangeVars
<1>3. /\ klines \in Seq(Kline) /\ Len(klines) \in Nat
      /\ \A i \in 1..Len(klines) : klines[i].open \in 0..Horizon
      /\ asOf \in Seq(Row) /\ Len(asOf) \in Nat /\ n \in 0..Len(asOf)
      /\ Len(asOf) <= Len(klines) /\ Horizon \in Int
  <2>1. \A i \in 1..Len(klines) : klines[i] \in Kline
    BY ElementOfSeq DEF PagesInv, Grown
  <2> QED
    BY <1>1, <2>1, DownloadAssumption DEF PagesInv, Grown, Prefix, Kline, At
<1>4. /\ collected \in Seq(Row) /\ Len(collected) = Len(asOf) - n
      /\ collected = <<>> <=> n = Len(asOf)
  BY <1>1, <1>3, CollectedInOrder
<1>5. limit \in Nat \ {0} /\ limit <= Total - Len(collected) /\ Total \in Int
  BY <1>2, <1>3, <1>4, DownloadAssumption DEF BatchLimit, AtMost
<1> HIDE DEF limit
<1>6. Grown'
  BY <1>2 DEF PagesInv, Grown, Ascending
<1>7. /\ Answer(p) \in Seq(Row) /\ Len(Answer(p)) = Len(klines)
      /\ \A i \in 1..Len(klines) : Answer(p)[i].open = klines[i].open
      /\ \A i \in 1..(Len(klines) - 1) :
           /\ klines[i].open < today
           /\ Answer(p)[i] = [open |-> klines[i].open, kind |-> klines[i].kind, final |-> TRUE]
  BY AnswerIs DEF PagesInv
\* The first request, and every later one, asks for a prefix of what it is to find.
<1>8. /\ asOf' \in Seq(Row) /\ Len(asOf') \in Nat /\ hi \in 0..Len(asOf')
      /\ SubSeq(Answer(p), 1, hi) = SubSeq(asOf', 1, hi)
      /\ collected = SubSeq(asOf', hi + 1, Len(asOf'))
      /\ Len(collected) = Len(asOf') - hi
      /\ endTime = IF hi < Len(asOf') THEN asOf'[hi + 1].open - 1 ELSE Horizon
  <2>1. CASE collected = <<>>
    <3>1. endTime = Horizon
      BY <1>1, <1>2, <1>4, <2>1 DEF At
    <3>2. hi = Len(klines)
      <4>1. Len(klines) # 0 => Len(klines) <= hi
        <5>1. SUFFICES ASSUME Len(klines) # 0 PROVE Len(klines) <= hi
          OBVIOUS
        <5>2. Len(klines) \in 1..Len(klines)
          BY <1>3, <5>1
        <5>3. klines[Len(klines)].open <= endTime
          BY <1>3, <3>1, <5>2
        <5> QED
          BY <1>2, <5>2, <5>3
      <4> QED
        BY <1>3, <4>1
    <3>3. asOf' = Answer(p)
      BY <1>2, <2>1
    <3>4. SubSeq(Answer(p), hi + 1, hi) = <<>>
      BY <1>3, SubSeqEmpty
    <3> QED
      BY <1>3, <1>7, <2>1, <3>1, <3>2, <3>3, <3>4
  <2>2. CASE collected # <<>>
    <3>1. asOf' = asOf /\ n < Len(asOf)
      BY <1>2, <1>3, <1>4, <2>2
    <3>2. endTime = asOf[n + 1].open - 1
      BY <1>1, <1>2, <3>1 DEF At
    <3>3. asOf[n + 1].open = klines[n + 1].open
      BY <1>3, <3>1 DEF PagesInv, Prefix
    <3>4. hi = n
      <4>1. n + 1 \in 1..Len(klines)
        BY <1>3, <3>1
      <4>2. klines[n + 1].open > endTime
        BY <1>3, <3>2, <3>3, <4>1
      <4>3. hi < n + 1
        BY <1>2, <1>3, <3>2, <3>3, <4>1, <4>2
      <4>4. n # 0 => n <= hi
        <5>1. SUFFICES ASSUME n # 0 PROVE n <= hi
          OBVIOUS
        <5>2. n \in 1..Len(klines) /\ DOMAIN klines = 1..Len(klines)
          BY <1>3, <5>1
        <5>3. klines[n].open < klines[n + 1].open
          BY <4>1, <5>2, n < n + 1 DEF PagesInv, Grown, Ascending
        <5>4. klines[n].open <= endTime
          BY <1>3, <3>2, <3>3, <4>1, <5>2, <5>3
        <5> QED
          BY <1>2, <5>2, <5>4
      <4> QED
        BY <1>3, <4>3, <4>4
    <3>5. SubSeq(Answer(p), 1, hi) = SubSeq(asOf, 1, hi)
      <4>1. ASSUME NEW i \in 1..hi PROVE Answer(p)[i] = asOf[i]
        <5>1. i \in 1..(Len(klines) - 1) /\ i \in 1..(Len(asOf) - 1)
          BY <1>3, <3>1, <3>4
        <5>2. asOf[i] = [open |-> klines[i].open, kind |-> klines[i].kind, final |-> TRUE]
          BY <5>1 DEF PagesInv, Prefix
        <5> QED
          BY <1>7, <5>1, <5>2
      <4>2. /\ SubSeq(Answer(p), 0 + 1, hi) \in Seq(Row)
            /\ Len(SubSeq(Answer(p), 0 + 1, hi)) = hi - 0
            /\ \A i \in 1..(hi - 0) : SubSeq(Answer(p), 0 + 1, hi)[i] = Answer(p)[0 + i]
        BY <1>3, <1>7, PartOf
      <4>3. /\ SubSeq(asOf, 0 + 1, hi) \in Seq(Row)
            /\ Len(SubSeq(asOf, 0 + 1, hi)) = hi - 0
            /\ \A i \in 1..(hi - 0) : SubSeq(asOf, 0 + 1, hi)[i] = asOf[0 + i]
        BY <1>3, <3>1, <3>4, PartOf
      <4>4. 0 + 1 = 1 /\ hi - 0 = hi /\ \A i \in 1..hi : 0 + i = i
        OBVIOUS
      <4>5. \A i \in 1..hi : SubSeq(Answer(p), 1, hi)[i] = SubSeq(asOf, 1, hi)[i]
        BY <4>1, <4>2, <4>3, <4>4
      <4> QED
        BY <4>2, <4>3, <4>4, <4>5, SeqEqual
    <3> QED
      BY <1>1, <1>3, <1>4, <3>1, <3>2, <3>4, <3>5 DEF At
  <2> QED
    BY <2>1, <2>2
<1>9. Prefix'
  <2>1. CASE collected = <<>>
    <3>1. asOf' = Answer(p) /\ klines' = klines /\ today' = today
      BY <1>2, <2>1
    <3>2. Len(Answer(p)) - 1 = Len(klines) - 1 /\ Len(Answer(p)) <= Len(klines)
      BY <1>3, <1>7
    <3> HIDE <1>2, <1>3
    <3> QED
      BY <1>7, <3>1, <3>2 DEF Prefix
  <2>2. CASE collected # <<>>
    <3>1. UNCHANGED <<asOf, klines, today>>
      BY <1>2, <2>2
    <3> QED
      BY <3>1 DEF PagesInv, Prefix
  <2> QED
    BY <2>1, <2>2
<1>10. PICK m \in 0..hi :
         /\ m \in Nat /\ hi \in Nat /\ m <= hi
         /\ m = Cut(hi, limit)
         /\ m = hi <=> hi = 0
         /\ hi - m < limit => m = 0
         /\ hi - m <= limit
  <2>1. hi \in Nat
    BY <1>3
  <2>2. CASE hi > limit
    <3>1. Cut(hi, limit) = hi - limit
      BY <2>2 DEF Cut
    <3> QED
      BY <1>5, <2>1, <2>2, <3>1
  <2>3. CASE ~(hi > limit)
    <3>1. Cut(hi, limit) = 0
      BY <2>3 DEF Cut
    <3> QED
      BY <1>5, <2>1, <2>3, <3>1
  <2> QED
    BY <2>2, <2>3
<1>11. /\ batch = SubSeq(asOf', m + 1, hi) /\ Len(batch) = hi - m
       /\ m < hi => batch[1] = asOf'[m + 1]
  <2>1. batch = LastRows(SubSeq(asOf', 1, hi), limit)
    BY <1>8
  <2>2. batch = SubSeq(asOf', m + 1, hi)
    BY <1>5, <1>8, <2>1, <1>10, LastRowsOfPrefix
  <2>3. /\ Len(SubSeq(asOf', m + 1, hi)) = hi - m
        /\ \A i \in 1..(hi - m) : SubSeq(asOf', m + 1, hi)[i] = asOf'[m + i]
    <3>1. m \in 0..Len(asOf') /\ hi \in m..Len(asOf')
      BY <1>8, <1>10
    <3> QED
      BY <1>8, <3>1, PartOf
  <2>4. m < hi => 1 \in 1..(hi - m)
    BY <1>10
  <2> HIDE DEF batch
  <2> QED
    BY <2>2, <2>3, <2>4
<1>12. collected' = SubSeq(asOf', m + 1, Len(asOf'))
  <2>1. m \in 0..Len(asOf') /\ hi \in m..Len(asOf')
    BY <1>8, <1>10
  <2>2. SubSeq(asOf', m + 1, hi) \o SubSeq(asOf', hi + 1, Len(asOf')) = SubSeq(asOf', m + 1, Len(asOf'))
    BY <1>8, <2>1, PartsMeet
  <2> QED
    BY <1>2, <1>8, <1>11, <2>2
<1>13. batch = <<>> <=> hi = 0
  <2>1. hi # 0 => Len(batch) # 0
    BY <1>10, <1>11
  <2>2. hi = 0 => batch = <<>>
    BY <1>8, <1>10, <1>11, SubSeqEmpty
  <2> HIDE DEF batch
  <2> QED
    BY <2>1, <2>2
<1> HIDE DEF batch
<1>14. At(m)'
  <2>1. Len(asOf') - m <= Wanted
    <3>1. Total > 0 /\ Wanted = Total
      BY <1>2, <1>4, <1>3, <1>5 DEF Wanted
    <3>2. Len(asOf') - hi <= Total - limit
      BY <1>3, <1>4, <1>5, <1>8
    <3> QED
      BY <1>5, <1>8, <1>10, <3>1, <3>2
  <2>2. endTime' = IF m < Len(asOf') THEN asOf'[m + 1].open - 1 ELSE Horizon
    <3>1. CASE hi = 0
      BY <1>2, <1>8, <1>10, <1>13, <3>1
    <3>2. CASE hi # 0
      <4>1. m < hi /\ m < Len(asOf')
        BY <1>8, <1>10, <3>2
      <4> QED
        BY <1>2, <1>11, <1>13, <3>2, <4>1
    <3> QED
      BY <3>1, <3>2
  <2>3. stage' \in {"sorting", "written"} => m = 0
    BY <1>2, <1>10, <1>11
  <2>4. m \in 0..Len(asOf')
    BY <1>8, <1>10
  <2> QED
    BY <1>12, <2>1, <2>2, <2>3, <2>4 DEF At, Wanted
<1>15. stage' \in {"fetching", "sorting"}
  BY <1>2
<1> QED
  BY <1>6, <1>9, <1>10, <1>14, <1>15 DEF PagesInv

LEMMA PagesNext == PagesInv /\ [DownloadNext]_downloadVars => PagesInv'
<1> SUFFICES ASSUME PagesInv, [DownloadNext]_downloadVars PROVE PagesInv'
  OBVIOUS
<1>1. CASE Download
  <2>1. ASSUME NEW p \in Kinds, NEW hi \in 0..Len(klines), FetchBatch(p, hi) PROVE PagesInv'
    BY <2>1, PagesFetchBatch
  <2> QED
    BY <1>1, <2>1, PagesWriteRows DEF Download
<1>2. CASE FetchFails
  BY <1>2, PagesFetchFails
<1>3. CASE MinuteTurns
  BY <1>3, PagesMinuteTurns
<1>4. CASE UNCHANGED downloadVars
  BY <1>4 DEF downloadVars, exchangeVars, pageVars, PagesInv, Grown, Prefix, At, Ascending
<1> QED
  BY <1>1, <1>2, <1>3, <1>4 DEF DownloadNext

LEMMA PagesInvariance == DownloadSpec => []PagesInv
BY PagesInit, PagesNext, PTL DEF DownloadSpec

-----------------------------------------------------------------------------
(* The theorems *)

\* paginate skips, repeats and reorders no kline, whatever the exchange adds between
\* two requests, for every batch size and every number of candles wanted.
THEOREM PagesFitHolds == DownloadSpec => []PagesFit
<1>1. ASSUME PagesInv PROVE PagesFit
  <2>1. PICK n \in Nat : At(n)
    BY <1>1 DEF PagesInv
  <2> QED
    BY <2>1 DEF PagesFit, At
<1> QED
  BY <1>1, PagesInvariance, PTL

\* What fetch.py writes is exactly the most recent candles wanted, as of its first
\* request, all of them final but the newest.
THEOREM DownloadExactHolds == DownloadSpec => []DownloadExact
<1>1. ASSUME PagesInv PROVE DownloadExact
  <2>1. SUFFICES ASSUME stage = "written"
                 PROVE  /\ rows = LastRows(asOf, Wanted)
                        /\ \A i \in 1..(Len(rows) - 1) : rows[i].final
    BY DEF DownloadExact, Wanted
  <2>2. PICK n \in Nat : At(n)
    BY <1>1 DEF PagesInv
  <2>3. asOf \in Seq(Row) /\ Len(asOf) \in Nat /\ n \in 0..Len(asOf)
    BY <1>1, <2>2 DEF PagesInv, Prefix, At
  <2>4. rows = SubSeq(asOf, n + 1, Len(asOf))
    BY <1>1, <2>1, <2>2 DEF PagesInv, At
  <2>5. n = Cut(Len(asOf), Wanted) /\ Wanted \in Nat
    BY <2>1, <2>2, <2>3, DownloadAssumption DEF At, Cut, Wanted
  <2>6. rows = LastRows(asOf, Wanted)
    BY <2>3, <2>4, <2>5, LastRowsIs
  <2>7. Len(rows) = Len(asOf) - n /\ \A i \in 1..(Len(asOf) - n) : rows[i] = asOf[n + i]
    BY <2>3, <2>4, PartOf
  <2>8. ASSUME NEW i \in 1..(Len(rows) - 1) PROVE rows[i].final
    <3>1. i \in 1..(Len(asOf) - n) /\ n + i \in 1..(Len(asOf) - 1)
      BY <2>3, <2>7
    <3>2. asOf[n + i] = [open |-> klines[n + i].open, kind |-> klines[n + i].kind, final |-> TRUE]
      BY <1>1, <3>1 DEF PagesInv, Prefix
    <3> QED
      BY <2>7, <3>1, <3>2
  <2> QED
    BY <2>6, <2>8
<1> QED
  BY <1>1, PagesInvariance, PTL
=============================================================================
