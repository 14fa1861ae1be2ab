---------------------------- MODULE PaperTrading ----------------------------
(***************************************************************************)
(* The paper loop: run_paper (cli.py) calls TradingService.tick with the   *)
(* permissive status, applies the report to a LedgerAccount                *)
(* (runtime/paper.py), records it in a MetricsTracker and publishes the    *)
(* snapshot that the status server's thread reads (runtime/metrics.py).    *)
(***************************************************************************)
EXTENDS TradingService

VARIABLES
  start,    \* the quote balance the ledger was opened with
  metrics,  \* MetricsTracker: number and net result of the realized trades
  snapshot  \* the StatusSnapshot last published

paperVars == <<start, metrics, snapshot>>
allVars   == <<vars, paperVars>>

Permissive == [clean |-> TRUE, blocked |-> {}]
Total(f) == SumOver(f, Coins)
InvestedIn(S) == SumOver(Cost, S)

\* build_status, from the account, the service's lists and the metrics.
StatusOf(cash, m) ==
  LET open == UNION {held[c] : c \in Coins}
  IN [available |-> cash, open |-> open, invested |-> InvestedIn(open),
      trades |-> m.trades, net |-> m.net]

\* _setup_monitoring primes the snapshot before the loop begins.
PaperInit ==
  /\ Init
  /\ start = balance
  /\ metrics = [trades |-> 0, net |-> 0]
  /\ snapshot = StatusOf(balance, metrics)

PaperBegin == StartTick(TRUE, Permissive, balance) /\ UNCHANGED paperVars

\* PaperExecution.market_buy: the whole quote amount, plus the commission.
PaperBuy(fee) == ExecuteBuy(order.quote + fee) /\ UNCHANGED paperVars

\* PaperExecution.market_sell at the best bid read then, minus the commission.
PaperSell(proceeds) == ExecuteSell(proceeds) /\ UNCHANGED paperVars

\* LedgerAccount.apply_report and MetricsTracker.record_report.
Cash == balance - Total(report.invested) + Total(report.proceeds)
Recorded ==
  [trades |-> metrics.trades + Total(report.closed),
   net |-> metrics.net + Total(report.proceeds) - Total(report.released)]

\* Faults: entries are not debited; the status shows the cash before the tick; the
\* status is not published.
Finishing(cash, shown) ==
  FinishTick(cash) /\ metrics' = Recorded /\ snapshot' = shown /\ UNCHANGED start
PaperFinishUndebited ==
  LET cash == balance + Total(report.proceeds)
  IN Finishing(cash, StatusOf(cash, Recorded))
PaperFinishOldCash     == Finishing(Cash, StatusOf(balance, Recorded))
PaperFinishUnpublished == Finishing(Cash, snapshot)

\* run_paper after tick: apply_report, record_report, build_status.
PaperFinish ==
  /\ FinishTick(Cash)
  /\ metrics' = Recorded
  /\ snapshot' = StatusOf(Cash, Recorded)
  /\ UNCHANGED start

\* build_status prices every position on a fresh order book; when that raises, the
\* report is applied and recorded, nothing is published, and the process ends.
PaperStatusFails ==
  /\ pc = "exits" /\ coin \notin Coins
  /\ slots' = [c \in Coins |->
                 Greater(0, slots[c] + report.opened[c] - report.closed[c])]
  /\ used' = [c \in Coins |->
                used[c] + report.invested[c] - report.released[c]]
  /\ balance' = Cash
  /\ metrics' = Recorded
  /\ pc' = "raised" /\ coin' = 1
  /\ status' = NoStatus /\ report' = NoReport
  /\ UNCHANGED <<service, minute, order, look, todo, kept, start, snapshot>>

\* The steps of the service that reach neither the exchange nor the ledger.
InnerStep ==
  \/ SkipEntry
  \/ \E k \in Candles : DecideBuy(k)
  \/ OpenPosition
  \/ EndEntries
  \/ SkipExits
  \/ \E rsiHigh \in BOOLEAN : FetchExits(rsiHigh)
  \/ \E reached \in BOOLEAN : DecideExit(reached)
  \/ ClosePosition
  \/ KeepStillOpen

PaperNext ==
  \/ PaperBegin
  \/ \E fee \in 0..MaxFee : PaperBuy(fee)
  \/ \E proceeds \in 0..MaxProceeds : PaperSell(proceeds)
  \/ PaperFinish
  \/ PaperStatusFails
  \/ (InnerStep \/ Raise \/ Environment) /\ UNCHANGED paperVars

PaperSpec == PaperInit /\ [][PaperNext]_allVars

-----------------------------------------------------------------------------
(* Properties *)

AllOpen == UNION {OpenOf(c) : c \in Coins}

\* No money appears or vanishes (runtime/paper.py, runtime/metrics.py): cash and
\* the cost of the open positions, less the entries and plus the exits that the
\* ledger has not seen yet, are the opening balance and the results realized.
MoneyConserved ==
  pc # "raised" =>
    balance - Total(report.invested) + Total(report.released) + InvestedIn(AllOpen)
      = start + metrics.net

\* Every position ever opened is either open or counted as one trade.
TradesCounted ==
  pc # "raised" =>
    metrics.trades + Total(report.closed) + Cardinality(AllOpen) = opened

\* The gate reads the balance before the tick's own entries, so the ledger may
\* go negative; it is overdrawn, beyond what it was opened with, by at most one
\* order per further coin, and the commissions.
LargestOrder == Max({OrderQuote[c] : c \in Coins})
OverdraftBound ==
  balance >= Lesser(0, start) - ((NumCoins - 1) * LargestOrder + NumCoins * MaxFee)

\* What another thread reads from the status server adds up, at every moment
\* and also after the loop has died.
SnapshotAddsUp == snapshot.available + snapshot.invested = start + snapshot.net

\* Between ticks the snapshot shows the positions the service really holds.
SnapshotCurrent == pc = "idle" => snapshot.open = AllOpen
=============================================================================
