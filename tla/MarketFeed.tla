------------------------------ MODULE MarketFeed ------------------------------
(***************************************************************************)
(* The two candle sources of a symbol, and the validation both go through: *)
(* BinanceMarketData.get_closed_candles (exchange/binance_rest.py), which  *)
(* fetches klines and only then reads the clock, and StreamingMarketData   *)
(* (exchange/binance_ws.py), a buffer that is seeded by a REST backfill    *)
(* and then folds the messages of a connection that may drop.              *)
(*                                                                         *)
(* Candle k opens at minute k; what it holds is either final or partial.   *)
(* The exchange does not have one for every minute: a symbol may be newly  *)
(* listed, and in some minutes there is no trade or no trading.            *)
(***************************************************************************)
EXTENDS Integers, Sequences, FiniteSets

CONSTANTS
  Limit,       \* candles a tick asks for
  MaxCandles,  \* StreamingMarketData._max_candles
  MaxMinute,   \* bound on the clock
  MaxChannel   \* bound on the messages in flight

ASSUME FeedAssumption ==
  /\ Limit \in Nat \ {0} /\ MaxCandles \in Nat /\ Limit <= MaxCandles
  /\ MaxMinute \in Nat /\ Limit <= MaxMinute /\ MaxChannel \in Nat

VARIABLES
  now,        \* the minute of the clock
  klines,     \* the minutes the exchange has a kline of, the open one included
  rows,       \* the klines response that is being handled, <<>> if none
  seeding,    \* that response is the backfill of the stream's buffer
  polled,     \* the series the last poll returned
  buffer,     \* StreamingMarketData._candles of the symbol
  connected,  \* the socket is up
  channel,    \* kline messages on their way
  missed      \* closed candles that were lost on the way to the buffer, and not
              \* made good since by a re-sent message or a backfill

vars == <<now, klines, rows, seeding, polled, buffer, connected, channel, missed>>

Candle == [open : 0..MaxMinute, final : BOOLEAN]
Final(k)   == [open |-> k, final |-> TRUE]
Partial(k) == [open |-> k, final |-> FALSE]
Opens(s) == {s[i].open : i \in DOMAIN s}
LastN(s, n) == SubSeq(s, IF Len(s) > n THEN Len(s) - n + 1 ELSE 1, Len(s))

\* The exchange's klines of minutes that are over.
History ==
  IF klines[Len(klines)] = now THEN SubSeq(klines, 1, Len(klines) - 1) ELSE klines
Elements(s) == {s[i] : i \in DOMAIN s}
Ascending(s) == \A i, j \in DOMAIN s : i < j => s[i] < s[j]

\* validate_series, on candles that are closed and of one symbol.
Valid(s) ==
  /\ s # <<>>
  /\ \A i \in 1..(Len(s) - 1) : s[i + 1].open = s[i].open + 1

\* StreamingMarketData.get_closed_candles.
Window == LastN(buffer, Limit)

\* The symbol is listed, for as long as may be.
Init ==
  /\ now = Limit
  /\ klines \in {s \in UNION {[1..n -> 0..Limit] : n \in 1..(Limit + 1)} : Ascending(s)}
  /\ rows = <<>> /\ seeding = FALSE /\ polled = <<>>
  /\ buffer = <<>>
  /\ connected = FALSE /\ channel = <<>>
  /\ missed = Elements(History)

-----------------------------------------------------------------------------
(* REST *)

\* What the exchange answers to a request of that many klines.
Response(count) ==
  LET asked == LastN(klines, count)
  IN [i \in DOMAIN asked |-> IF asked[i] < now THEN Final(asked[i]) ELSE Partial(asked[i])]

\* Fault: only limit klines are asked for.
FetchExact(seed) ==
  /\ rows = <<>>
  /\ seed => ~connected
  /\ rows' = Response(Limit)
  /\ seeding' = seed
  /\ UNCHANGED <<now, klines, polled, buffer, connected, channel, missed>>

\* get_klines: the last limit + 1, the open one among them, if there is one.
Fetch(seed) ==
  /\ rows = <<>>
  /\ seed => ~connected
  /\ rows' = Response(Limit + 1)
  /\ seeding' = seed
  /\ UNCHANGED <<now, klines, polled, buffer, connected, channel, missed>>

\* parse_klines with the clock as it is now: a kline is closed if its minute is
\* over by now, whatever it held when it was fetched.  The response is in the
\* order of time, so the closed klines come first.
ClosedCount == Cardinality({i \in DOMAIN rows : rows[i].open < now})
Closed == LastN(SubSeq(rows, 1, ClosedCount), Limit)

Poll ==
  /\ rows # <<>> /\ ~seeding
  /\ polled' = Closed
  /\ rows' = <<>>
  /\ UNCHANGED <<now, klines, seeding, buffer, connected, channel, missed>>

\* Fault: the backfill is appended to what the buffer holds.
SeedAppends ==
  /\ rows # <<>> /\ seeding
  /\ buffer' = LastN(buffer \o Closed, MaxCandles)
  /\ missed' = missed \ Opens(Closed)
  /\ rows' = <<>> /\ seeding' = FALSE
  /\ UNCHANGED <<now, klines, polled, connected, channel>>

\* seed_candles replaces the buffer, before streaming begins (again).
Seed ==
  /\ rows # <<>> /\ seeding
  /\ buffer' = LastN(Closed, MaxCandles)
  /\ missed' = missed \ Opens(Closed)
  /\ rows' = <<>> /\ seeding' = FALSE
  /\ UNCHANGED <<now, klines, polled, connected, channel>>

-----------------------------------------------------------------------------
(* The stream *)

NewestOpen == IF buffer = <<>> THEN -1 ELSE buffer[Len(buffer)].open

\* Faults: no maxlen; updates of the open candle are stored; a re-sent candle is
\* appended; an older one is.
FoldUnbounded(c) ==
  IF ~c.final \/ c.open < NewestOpen THEN buffer
  ELSE IF c.open = NewestOpen THEN [buffer EXCEPT ![Len(buffer)] = c]
  ELSE Append(buffer, c)
FoldUpdates(c) ==
  IF c.open < NewestOpen THEN buffer
  ELSE IF c.open = NewestOpen THEN [buffer EXCEPT ![Len(buffer)] = c]
  ELSE LastN(Append(buffer, c), MaxCandles)
FoldAppendsResent(c) ==
  IF ~c.final \/ c.open < NewestOpen THEN buffer
  ELSE LastN(Append(buffer, c), MaxCandles)
FoldAppendsOlder(c) ==
  IF ~c.final THEN buffer
  ELSE IF c.open = NewestOpen THEN [buffer EXCEPT ![Len(buffer)] = c]
  ELSE LastN(Append(buffer, c), MaxCandles)

\* apply_kline.
Fold(c) ==
  IF ~c.final \/ c.open < NewestOpen THEN buffer
  ELSE IF c.open = NewestOpen THEN [buffer EXCEPT ![Len(buffer)] = c]
  ELSE LastN(Append(buffer, c), MaxCandles)

Deliver ==
  /\ channel # <<>>
  /\ buffer' = Fold(Head(channel))
  /\ channel' = Tail(channel)
  /\ missed' = missed \ Opens(buffer')
  /\ UNCHANGED <<now, klines, rows, seeding, polled, connected>>

Connect ==
  /\ ~connected /\ ~seeding
  /\ connected' = TRUE
  /\ UNCHANGED <<now, klines, rows, seeding, polled, buffer, channel, missed>>

\* Closed candles on their way that the buffer does not have yet.
Awaited ==
  {channel[j].open : j \in {j \in DOMAIN channel :
                             channel[j].final /\ channel[j].open > NewestOpen}}

\* The connection drops with whatever was on its way.
Disconnect ==
  /\ connected
  /\ connected' = FALSE /\ channel' = <<>>
  /\ missed' = missed \cup Awaited
  /\ UNCHANGED <<now, klines, rows, seeding, polled, buffer>>

\* The exchange pushes an update of the open candle, or a closed one again.
Push ==
  /\ connected /\ Len(channel) < MaxChannel
  /\ \E c \in {Partial(k) : k \in Elements(klines) \ Elements(History)}
            \cup {Final(k) : k \in Elements(LastN(History, Limit))} :
          channel' = Append(channel, c)
  /\ UNCHANGED <<now, klines, rows, seeding, polled, buffer, connected, missed>>

\* The first trade of a minute.
CandleOpens ==
  /\ klines[Len(klines)] # now
  /\ klines' = Append(klines, now)
  /\ UNCHANGED <<now, rows, seeding, polled, buffer, connected, channel, missed>>

\* A minute is over; if it has a candle, the final message of that is sent to
\* whoever is connected.
MinutePasses ==
  /\ now < MaxMinute /\ Len(channel) < MaxChannel
  /\ now' = now + 1
  /\ \/ klines[Len(klines)] # now /\ UNCHANGED <<channel, missed>>
     \/ /\ klines[Len(klines)] = now /\ connected
        /\ channel' = Append(channel, Final(now)) /\ UNCHANGED missed
     \/ /\ klines[Len(klines)] = now /\ ~connected
        /\ missed' = missed \cup {now} /\ UNCHANGED channel
  /\ UNCHANGED <<klines, rows, seeding, polled, buffer, connected>>

-----------------------------------------------------------------------------
Next ==
  \/ \E seed \in BOOLEAN : Fetch(seed)
  \/ Poll
  \/ Seed
  \/ Deliver
  \/ Connect
  \/ Disconnect
  \/ Push
  \/ CandleOpens
  \/ MinutePasses

Spec == Init /\ [][Next]_vars

-----------------------------------------------------------------------------
(* Properties *)

\* Every variable has the type the code gives it.
TypeOK ==
  /\ now \in Nat /\ klines \in Seq(0..MaxMinute)
  /\ rows \in Seq(Candle) /\ polled \in Seq(Candle)
  /\ buffer \in Seq(Candle) /\ Len(buffer) <= MaxCandles
  /\ seeding \in BOOLEAN /\ connected \in BOOLEAN
  /\ channel \in Seq(Candle) /\ Len(channel) <= MaxChannel
  /\ missed \subseteq 0..MaxMinute

\* The buffer is strictly ordered by open time, whatever is re-sent, overtaken by
\* a backfill or delivered late.
BufferOrdered ==
  \A i, j \in DOMAIN buffer : i < j => buffer[i].open < buffer[j].open

\* A poll skips no candle the exchange has, although it drops the open one, and
\* it is only short if there are no more: what the exchange has of the candles a
\* signal needs is always among them.
PollComplete ==
  /\ Len(polled) <= Limit
  /\ \E first \in 0..(Len(klines) - Len(polled)) :
       /\ \A i \in DOMAIN polled : polled[i].open = klines[first + i]
       /\ Len(polled) < Limit => first = 0

\* A window is only refused for a gap, never for a duplicate or for its order, and
\* each minute it skips was lost by the connection or has no candle.
Skipped == (Window[1].open..Window[Len(Window)].open) \ Opens(Window)
GapsAreLosses ==
  Window # <<>> =>
    /\ ~Valid(Window) => Skipped # {}
    /\ Skipped \cap Elements(klines) \subseteq missed

\* The stream heals by itself: once the last Limit candles of the exchange got
\* through, they are the window, whatever was lost before.
StreamHeals ==
  LET last == LastN(History, Limit)
  IN channel = <<>> /\ Elements(last) \cap missed = {} =>
       [i \in DOMAIN Window |-> Window[i].open] = last

\* Partial data gets into the buffer only by way of a backfill, one candle at
\* most; no message of the stream leaves any there.
OnePartialAtMost ==
  Cardinality({i \in DOMAIN buffer : ~buffer[i].final}) <= 1

\* Signals only see candles that are closed (README.md, market/validation.py):
\* what a poll returns as closed has its final data.
OnlyFinalCandles == \A i \in DOMAIN polled : polled[i].final
=============================================================================
