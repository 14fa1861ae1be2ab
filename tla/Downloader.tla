----------------------------- MODULE Downloader -----------------------------
(***************************************************************************)
(* The kline downloader for one symbol (fetch.py): paginate walks back     *)
(* from the newest kline in batches, while the exchange goes on adding     *)
(* klines, and the result is written only when every request succeeded.    *)
(*                                                                         *)
(* A kline is named by the minute it opens at.  The exchange may have none *)
(* for a minute, and the newest one may still be open: it is answered with *)
(* what it holds so far.                                                   *)
(***************************************************************************)
EXTENDS Integers, Sequences, FiniteSets

CONSTANTS
  Total,        \* --total, the candles wanted
  MaxLimit,     \* MAX_LIMIT, the klines of one request
  StartMinute,  \* the minute the download begins in
  Horizon,      \* bound on the wall clock
  Kinds,        \* what a kline may hold
  Histories     \* klines the exchange may have when the download begins

Kline == [open : 0..Horizon, kind : Kinds]
Row   == [open : 0..Horizon, kind : Kinds, final : BOOLEAN]
Ascending(s) == \A i, j \in DOMAIN s : i < j => s[i].open < s[j].open

ASSUME DownloadAssumption ==
  /\ Total \in Int /\ MaxLimit \in Nat \ {0} /\ StartMinute \in 0..Horizon /\ Horizon \in Nat
  /\ \A h \in Histories : /\ h \in Seq(Kline) /\ Ascending(h)
                           /\ \A i \in DOMAIN h : h[i].open <= StartMinute

VARIABLES
  today,      \* the minute of the wall clock
  klines,     \* the exchange's klines of the symbol, oldest first
  stage,      \* where the download is
  collected,  \* the rows collected so far
  endTime,    \* end_time, Horizon for None
  rows,       \* what is written for the symbol
  asOf        \* what one unbounded request would have answered, when the first
              \* request was made

exchangeVars == <<today, klines>>
pageVars     == <<stage, collected, endTime, rows, asOf>>
downloadVars == <<exchangeVars, pageVars>>

AtMost(m, n) == IF m <= n THEN m ELSE n
LastRows(s, n) == SubSeq(s, IF Len(s) > n THEN Len(s) - n + 1 ELSE 1, Len(s))

DownloadInit ==
  /\ klines \in Histories
  /\ today = StartMinute
  /\ stage = "fetching"
  /\ collected = <<>> /\ endTime = Horizon
  /\ rows = <<>> /\ asOf = <<>>

\* The rows of all klines, the open one holding p so far.
Answer(p) ==
  [i \in DOMAIN klines |->
     IF klines[i].open < today
     THEN [open |-> klines[i].open, kind |-> klines[i].kind, final |-> TRUE]
     ELSE [open |-> klines[i].open, kind |-> p, final |-> FALSE]]

\* A minute of the wall clock passes; a kline opens unless the market is halted.
MinuteTurns ==
  /\ stage = "fetching" /\ today < Horizon
  /\ today' = today + 1
  /\ \/ UNCHANGED klines
     \/ \E k \in Kinds : klines' = Append(klines, [open |-> today + 1, kind |-> k])
  /\ UNCHANGED pageVars

\* One request of paginate, answered with the last limit klines up to end_time:
\* those at positions ..hi.  step is taken off the first open time, and enough
\* is the size from which the loop goes on.
Request(limit, step, enough, p, hi) ==
  /\ stage = "fetching"
  /\ Len(collected) < Total
  /\ \A i \in DOMAIN klines : klines[i].open <= endTime <=> i <= hi
  /\ LET batch == LastRows(SubSeq(Answer(p), 1, hi), limit)
     IN /\ collected' = batch \o collected
        /\ endTime' = IF batch = <<>> THEN endTime ELSE batch[1].open - step
        /\ stage' = IF Len(batch) < enough THEN "sorting" ELSE stage
  /\ asOf' = IF collected = <<>> THEN Answer(p) ELSE asOf
  /\ UNCHANGED <<exchangeVars, rows>>

BatchLimit == AtMost(MaxLimit, Total - Len(collected))

\* Faults: the batches overlap by a kline; the loop does not notice the start of
\* the history.
FetchBatchOverlapping(p, hi) == Request(BatchLimit, 0, BatchLimit, p, hi)
FetchBatchForever(p, hi)     == Request(BatchLimit, 1, 0, p, hi)

\* An iteration of paginate; an empty or a short batch ends the loop.
FetchBatch(p, hi) == Request(BatchLimit, 1, BatchLimit, p, hi)

\* by_open_time and the sorted return: of rows with one open time the last in the
\* list stays.
ByOpenTime(s) ==
  LET kept == {i \in DOMAIN s : \A j \in DOMAIN s : j > i => s[j].open # s[i].open}
      rank(i) == Cardinality({j \in kept : s[j].open <= s[i].open})
  IN [n \in 1..Cardinality(kept) |-> s[CHOOSE i \in kept : rank(i) = n]]

\* The loop is over: the rows are sorted and written.
WriteRows ==
  /\ stage = "sorting" \/ (stage = "fetching" /\ Len(collected) >= Total)
  /\ rows' = ByOpenTime(collected)
  /\ stage' = "written"
  /\ UNCHANGED <<exchangeVars, collected, endTime, asOf>>

\* A request fails; main ends with the exception and writes nothing.
FetchFails ==
  /\ stage = "fetching" /\ Len(collected) < Total
  /\ stage' = "failed"
  /\ UNCHANGED <<exchangeVars, collected, endTime, rows, asOf>>

Download ==
  \/ \E p \in Kinds, hi \in 0..Len(klines) : FetchBatch(p, hi)
  \/ WriteRows

DownloadNext == Download \/ FetchFails \/ MinuteTurns

\* The one thread of the program goes on as long as its requests are answered.
DownloadFairness == WF_downloadVars(Download)
DownloadSpec == DownloadInit /\ [][DownloadNext]_downloadVars /\ DownloadFairness

-----------------------------------------------------------------------------
(* Properties *)

\* The rows fit together whatever happens between two requests: what was
\* collected is the end of the history as of the first request, so no kline is
\* skipped, repeated or out of order, however the batches fall.
PagesFit ==
  \E n \in 0..Len(asOf) : collected = SubSeq(asOf, n + 1, Len(asOf))

\* What is written is the most recent Total klines as of the first request
\* (fetch.py, "Collect the most recent total klines"), all of them final but the
\* newest.
DownloadExact ==
  stage = "written" =>
    /\ rows = LastRows(asOf, IF Total > 0 THEN Total ELSE 0)
    /\ \A i \in 1..(Len(rows) - 1) : rows[i].final

\* The download ends, with a file or with an exception, also when the exchange has
\* fewer klines than are wanted, and while it keeps adding new ones.
DownloadEnds == <>(stage \notin {"fetching", "sorting"})
=============================================================================
