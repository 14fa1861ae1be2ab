------------------------------ MODULE Backtest ------------------------------
(***************************************************************************)
(* A backtest from end to end, for one coin: the klines are downloaded     *)
(* (fetch.py), loaded from the file (cli.py), and replayed row by row      *)
(* through TradingService.tick (backtest/runner.py, backtest/replay.py)    *)
(* with a LedgerAccount and a PaperExecution (runtime/paper.py).  Signal,  *)
(* RSI, prices and profits, inputs of TradingService, are computed from    *)
(* the rows here; nothing but the download can fail.                       *)
(***************************************************************************)
EXTENDS TradingService, Downloader, EntrySignal

CONSTANTS
  CandleOf,          \* the candle of each kind of kline
  Spread,            \* spread_frac, fee_rate, safety_buffer_frac and the two
  Fee, Buffer,       \* profit targets, in thousandths
  ProfitTarget, WithdrawalTarget,
  WithdrawalIndexes  \* candles at which the withdrawal may be requested

Thousand == 1000
Only == 1            \* the one coin

ASSUME BacktestAssumption ==
  /\ NumCoins = 1
  /\ CandleOf \in [Kinds -> [open : Nat, high : Nat, low : Nat,
                             close : Nat \ {0}, volume : Nat]]
  /\ {Spread, Fee, Buffer} \subseteq 0..Thousand
  /\ (OrderQuote[Only] * Fee) \div Thousand <= MaxFee /\ Horizon <= MaxMinute
  /\ ProfitTarget \in Nat /\ WithdrawalTarget \in Nat
  /\ WithdrawalIndexes \subseteq Nat

VARIABLES
  index,         \* ReplayMarketData._index, from 1; 0 before the replay
  ticks,         \* ticks that have ended
  lots,          \* the base quantity of each position
  exits,         \* report.exits of this tick: the position, its net result
                 \* and the mode it was sold in
  trades,        \* the BacktestTrades
  start          \* starting_balance

replayVars == <<index, ticks, lots, exits, trades, start>>
allVars    == <<vars, downloadVars, replayVars>>

BacktestInit ==
  /\ Init /\ DownloadInit
  /\ index = 0 /\ ticks = 0
  /\ lots = [i \in Ids |-> 0]
  /\ exits = <<>> /\ trades = <<>>
  /\ start = balance

-----------------------------------------------------------------------------
(* What the replay shows the service *)

\* parse_klines without a clock: every row counts as closed.
CandleAt(i) ==
  LET c == CandleOf[rows[i].kind]
  IN [minute |-> rows[i].open, open |-> c.open, high |-> c.high, low |-> c.low,
      close |-> c.close, volume |-> c.volume]

\* ReplayMarketData.get_closed_candles: nothing after the index is seen, and all
\* before it is, since run_backtest asks for as many candles as there are.
Window == [i \in 1..index |-> CandleAt(i)]

\* ReplayMarketData.get_order_book: one deep level on each side of the close.
Bid == (CandleAt(index).close * (Thousand - Spread)) \div Thousand
Ask == (CandleAt(index).close * (Thousand + Spread)) \div Thousand

\* The entry decision of the tick, with the gates TradingService leaves open.
Buys ==
  /\ mode = "RUNNING"
  /\ Len(Window) >= MinCandles
  /\ Signal(Window)
  /\ GatesOpen(Only, rows[index].open)

\* The profit target of a position, in thousandths of the money unit.
TargetOf(i, m) ==
  pos[i].invested * (IF m = "RUNNING" THEN ProfitTarget ELSE WithdrawalTarget)

\* Fault: the estimate leaves out the exit fee.
ReachedBeforeFees(i) ==
  lots[i] * Bid * Thousand - pos[i].invested * Thousand >= TargetOf(i, mode)

\* estimate_net_pnl on that book, against the target.
Reached(i) ==
  lots[i] * Bid * (Thousand - Fee - Buffer) - pos[i].invested * Thousand >= TargetOf(i, mode)

-----------------------------------------------------------------------------
(* run_backtest *)

Replaying == stage = "loaded" /\ pc = "idle"

\* load_klines_file, in a process of its own: what the download had collected is
\* gone, and the exchange is of no further interest.
LoadFile ==
  /\ stage = "written" /\ stage' = "loaded"
  /\ today' = 0 /\ klines' = <<>>
  /\ collected' = <<>> /\ endTime' = Horizon /\ asOf' = <<>>
  /\ UNCHANGED <<vars, rows, replayVars>>

\* set_index, advance_to and the withdrawal; the clock stands just after the close.
NextCandle ==
  /\ Replaying /\ ticks = index /\ index < Len(rows)
  /\ index' = index + 1
  /\ minute' = rows[index + 1].open + 1
  /\ \/ UNCHANGED mode
     \/ index + 1 \in WithdrawalIndexes /\ mode' = "WITHDRAWAL_REQUESTED"
  /\ UNCHANGED <<guard, pos, opened, held, account, frame, downloadVars, ticks,
                 lots, exits, trades, start>>

Permissive == [clean |-> TRUE, blocked |-> {}]
BeginTick ==
  /\ Replaying /\ ticks < index
  /\ StartTick(TRUE, Permissive, balance)
  /\ UNCHANGED <<downloadVars, replayVars>>

\* try_enter, as far as the order.
Enter ==
  /\ IF Buys THEN DecideBuy(rows[index].open) ELSE SkipEntry
  /\ UNCHANGED <<downloadVars, replayVars>>

\* PaperExecution.market_buy: the commission is charged on top of the quote.
BacktestBuy ==
  /\ ExecuteBuy(order.quote + (order.quote * Fee) \div Thousand)
  /\ lots' = [lots EXCEPT ![opened + 1] = order.quote \div Ask]
  /\ UNCHANGED <<downloadVars, index, ticks, exits, trades, start>>

LookAtExits ==
  /\ FetchExits(Overbought(Window))
  /\ UNCHANGED <<downloadVars, replayVars>>
TryExit ==
  /\ todo # {} /\ DecideExit(Reached(First(todo)))
  /\ UNCHANGED <<downloadVars, replayVars>>

\* PaperExecution.market_sell.
BacktestSell ==
  /\ pc = "selling"
  /\ LET gross == lots[First(todo)] * Bid
     IN ExecuteSell(gross - (gross * Fee) \div Thousand)
  /\ UNCHANGED <<downloadVars, replayVars>>

\* The service's own steps that need nothing of the replay.
Inner ==
  /\ OpenPosition \/ EndEntries \/ SkipExits \/ KeepStillOpen
  /\ UNCHANGED <<downloadVars, replayVars>>

\* realized_pnl: net proceeds less the invested cost.
BacktestClose ==
  /\ ClosePosition
  /\ LET i == First(todo)
     IN exits' = Append(exits, [id |-> i, net |-> order.fill - pos[i].invested,
                                    mode |-> mode])
  /\ UNCHANGED <<downloadVars, index, ticks, lots, trades, start>>

Ending(cash, finished) ==
  /\ FinishTick(cash)
  /\ ticks' = index
  /\ trades' = finished /\ exits' = <<>>
  /\ UNCHANGED <<downloadVars, index, lots, start>>

\* Fault: the entries of a tick with exits are not debited.
EndTickUndebited ==
  Ending(balance + report.proceeds[Only], trades \o exits)

\* apply_report, and a BacktestTrade for every exit of the report.
EndTick ==
  Ending(balance - report.invested[Only] + report.proceeds[Only], trades \o exits)

Replay ==
  \/ LoadFile \/ NextCandle \/ BeginTick \/ Enter \/ BacktestBuy \/ LookAtExits \/ TryExit
  \/ BacktestSell \/ BacktestClose \/ Inner \/ EndTick

BacktestNext ==
  \/ DownloadNext /\ UNCHANGED <<vars, replayVars>>
  \/ Replay

BacktestSpec == BacktestInit /\ [][BacktestNext]_allVars /\ DownloadFairness

-----------------------------------------------------------------------------
(* Properties *)

\* In every window the service evaluates, the smoothing loops of the indicators
\* leave undefined exactly what is too short, without volume or flat.
IndicatorsAgree ==
  pc = "entries" /\ coin = Only => LoopsAgree(Window)

\* min_candles_for_signal (strategy/parameters.py) covers every warm-up: a window
\* of that size in which every candle trades and moves has all its indicators.
WarmupSuffices ==
  pc = "entries" /\ coin = Only => WarmupCovers(Window)

\* A default backtest looks back over the whole file, so it only enters where
\* everything up to the entry is without a gap and did not begin flat: one
\* missing minute silences the rest of the run.
EntersOnWholeHistory ==
  \A i \in 1..opened, n \in DOMAIN rows :
    rows[n].open = pos[i].candle =>
      /\ \A m \in 1..(n - 1) : rows[m + 1].open = rows[m].open + 1
      /\ \E m \in 2..(AdxPeriod + 1) :
            TrueRange([j \in 1..n |-> CandleAt(j)], m) > 0

\* No simulated trade misses the profit target of the mode it was sold in, fees
\* included (strategy/exit.py, "never sold at a loss"): the book that decides also
\* fills, however many positions were sold before.
TradesMeetTarget ==
  \A n \in DOMAIN trades :
    trades[n].net * Thousand >= TargetOf(trades[n].id, trades[n].mode)

\* What a list of trades or exits has earned.
NetOf(list) == SumOver([n \in DOMAIN list |-> list[n].net], DOMAIN list)

\* BacktestReport adds up after every candle: the balance is the starting balance,
\* the results of the trades, less what the open positions cost; every position
\* sold is one trade.
ReportAddsUp ==
  pc = "idle" =>
    /\ balance = start + NetOf(trades) - SumOver(Cost, OpenOf(Only))
    /\ {trades[n].id : n \in DOMAIN trades} = {i \in Ids : pos[i].state = "CLOSED"}
    /\ Len(trades) + Cardinality(OpenOf(Only)) = opened
=============================================================================
