# Verification of cryptobot v4

TLA+ models, TLC runs and TLAPS proofs for the trading bot in `src/cryptobot`. Paths below
are relative to the repository; `runtime/service.py` stands for
`src/cryptobot/runtime/service.py`.

## 1. Inventory: the system and its parts

The bot is one process with one loop. A loop (`cli.run_paper`, `runtime/live.run_live`,
`TradingService.run` or `backtest.run_backtest`) calls `TradingService.tick`, which walks the
coins twice — entries, then exits — and talks to the outside only through four ports: market
data, account, execution and clock (`runtime/ports.py`). Nothing is persisted and nothing in
the loops catches an exception.

| Part | State | Operations | Correct when |
|---|---|---|---|
| Trading service (`runtime/service.py`, `runtime/orchestrator.py`, `strategy/engine.py`) | mode, guard, position lists | `tick`, `request_withdrawal`, `resume` | limits hold, no position is lost, doubled or sold twice, a tick ends |
| Gates and guard (`execution/gates.py`, `runtime/providers.py`) | seen (coin, candle) pairs | `already_processed`, `mark_processed`, sizing, freshness | a candle buys once; the size respects slots and capital |
| Position (`strategy/position.py`) | OPEN, EXIT_ARMED, CLOSED | `open_position`, `arm_exit`, `mark_closed` | arming is permanent, closing final |
| Exit rules and pricing (`strategy/exit.py`, `execution/pnl.py`, `execution/orderbook.py`) | none | estimate, decide | a sale brings what it was decided on |
| Fills, filters (`exchange/fills.py`, `exchange/filters.py`) | none | aggregate, realize, floor | cost and proceeds are real, an order is acceptable |
| Paper account (`runtime/paper.py`) | cash, used capital, slots | `apply_report` | money is conserved |
| Live account, reconciliation, loop (`runtime/live.py`) | cached balance, used capital, slots | `refresh_balance`, `reconcile_positions`, `run_live` | the exchange holds what the service tracks |
| Metrics and status (`runtime/metrics.py`, `runtime/status_server.py`) | realized trades, last snapshot | `record_report`, `build_status` | the published figures belong together |
| REST market data (`exchange/binance_rest.py`, `exchange/market_data.py`) | none | `get_closed_candles`, `get_order_book` | only closed candles, and enough of them |
| Streaming market data (`exchange/binance_ws.py`) | candle buffer, last book | `seed_candles`, `apply_kline`, `apply_depth` | ordered, bounded, heals after a loss |
| Series validation (`market/validation.py`) | none | `validate_series` | refuses gaps, duplicates, disorder |
| Entry signal, indicators (`strategy/entry.py`, `strategy/indicators.py`, `indicators/`) | none | pure functions of a series | fail closed exactly where something is undefined |
| Downloader (`fetch.py`) | collected rows, end time | `paginate`, write | the rows are the history asked for |
| Backtest (`backtest/runner.py`, `backtest/replay.py`) | replay index, trades | `run_backtest` | same engine; the report adds up |
| CLI, .env, HTTP, signing (`cli.py`, `dotenv.py`, `exchange/http.py`) | none | start-up and I/O | — |

How they interact: the service reads slots, used capital and balance from the account *during*
the tick, but the account learns of the tick's entries and exits only from the `TickReport`
applied *after* it. The mode is a field that a caller may set between two ticks (the backtest
does, nobody else in the repository). The status server's thread reads the last published snapshot. In live trading the exchange is a
second actor that fills orders and can be traded on by its owner at any time. The backtest reads
the file the downloader wrote while the exchange went on adding klines.

What is hard: the stale account during a tick; position lists that are replaced only at the end
of a coin; an exception between a filled order and its bookkeeping; restarts without memory; data fetched at one moment and judged at another (klines
and clock, order book and sale, one page of a download and the next); lost and re-sent stream
messages; commissions, steps, filters and thin books between what is bought and what can be sold.
`PROJECT.json` lists each of these hazards at its line, with the properties that cover it.

Three hazards have no property. The exit loop checks no freshness (`runtime/service.py:202`):
every candle may arm an exit in the models, and nothing in the repository promises more. A
stream buffer smaller than the candles a tick asks for never yields a signal
(`exchange/binance_ws.py:50`): `MarketFeed` assumes it is not, as the default of 1000 grants.
The last row of a downloaded file is the kline that was still open (`exchange/market_data.py:42`):
`DownloadExact` says that no other row can be, and the replay takes it for closed.

## 2. Modules

| Module | Models | Built on |
|---|---|---|
| `PositionBook` | abstract promise about positions: free slot, new candle, armed once, sold for good | — |
| `TradingService` | `tick` with both loops, gates, guard, arming, report; mode; clock; exceptions | refines `PositionBook` |
| `PaperTrading` | `run_paper`, `LedgerAccount`, `PaperExecution`, `MetricsTracker`, `build_status` | extends `TradingService` |
| `LiveTrading` | `run_live`, `BinanceAccount`, `reconcile_positions`, the exchange's wallet, manual sales, restart | extends `TradingService` |
| `MarketFeed` | REST polling and the stream buffer of one symbol, validation | — |
| `ExitPricing` | one coin's exit loop in prices: purchase fills, book (requested or streamed), estimate, flooring, fill, moving market | — |
| `EntrySignal` | the indicators and the entry conditions, in exact fractions | — |
| `Downloader` | `paginate` and the write, against a growing exchange | — |
| `Backtest` | download, loading and `run_backtest` for one coin | `TradingService`, `Downloader`, `EntrySignal` |
| `Sums` | sums over finite sets | — |
| `*Proofs`, `SumTheorems` | theorems | extend the module they are about |
| `MC*` | constant values for TLC | |

**TradingService.** State: `mode`, `guard` (`ProcessedCandleGuard._seen`), `pos` (the position
objects, numbered as they are opened), `held` (`_positions`), the account's `slots`, `used`,
`balance`, and the frame of the running tick (`pc`, loop variable `coin`, `status`, `order`,
`look`, `todo`, `kept`, `report`). Actions follow the code from one port call to the next:
`StartTick` (computes `entries_allowed`), `SkipEntry`/`DecideBuy` (all gates and the guard),
`ExecuteBuy` (the exchange answers), `OpenPosition` (aggregate, open, mark, append),
`FetchExits`, `DecideExit` (arming and the sell decision of one position), `ExecuteSell`,
`ClosePosition`, `KeepStillOpen` (the list is replaced), `FinishTick` (the report is applied),
`Raise`. Between any two of them the clock may advance; the mode changes between ticks. The technical
signal, the RSI comparison and the profit comparison are inputs: any outcome is allowed, so
every property holds whatever the market does.

The report is kept as totals per coin. That is what `apply_report` folds out of it: it applies
all entries before all exits, so the floor `max(0, ...)` at zero slots is reached by the totals
exactly if it is reached by the single steps.

**PaperTrading** adds the opening balance, the metrics and the published snapshot; a BUY costs
the whole quote plus commission. `build_status` fetches order books and may raise after the
report was applied and recorded: `PaperStatusFails`.

**LiveTrading** adds the exchange's wallet and a count of the BUY orders it filled. A BUY
without money and a SELL without coins are rejected, which is an exception. `Restart` starts a
new process with empty memory, as `_run_live` does. Every position is one lot of `LotQty`, so
that holdings can be counted.

**MarketFeed** makes the klines request and its parsing two steps, since the clock is read in
the second. The exchange has a kline of a minute only from its first trade on (`CandleOpens`), so
minutes may be missing and a new listing has few; a request returns the last `limit + 1` there
are, with or without the open one. The stream is a connection that loses what is in flight when it drops, re-sends
closed candles and pushes updates of the open one; a backfill replaces the buffer before the
connection is (re)opened. `missed` is a history variable: the closed candles that were lost on
the way and not made good since.

**ExitPricing** starts from the fills each position was bought with (several fills, commission
in base or quote), prices all positions on the fetched snapshot and fills every sale from the
exchange's bids, which earlier sales and other participants change. The snapshot is requested or
taken from the stream's cache, whose depth payloads arrive late, twice or never; the quantity is
floored to the step where the filters are loaded. The exchange applies its filters in either case
(`QuantityOk` and `NotionalOk`, as `exchange/filters.py` states them, the notional at a market
price of its own) and looks at the balance. The commission of a sale is any of `Charges`, not the
configured `Fee`, which only the estimate uses (`exchange/fills.py:137-141`; `cli.py:106` defaults
it to 0); a commission in a third asset cannot be valued, as the command line sets no
`commission_rates`, and ends the process after the coins were sold (`SellUnvalued`).

**EntrySignal** has one operator per file of `indicators/`: an indicator is a function defined
where the code has a value and undefined where it has `None`, computed by the same running
averages, in exact fractions where the code uses floats. It gives the code's decisions on every
series of six candles of three kinds (the operators were compared with the Python functions on
such series); rounding differences that decide a comparison are outside the model.

**Downloader** is one request per step, against an exchange whose klines have holes, whose
newest kline is still open and which adds klines between two requests; a request may fail.

**Backtest** puts the two together with `TradingService`: the rows that were written are loaded
and replayed, and signal, RSI, prices and profits, free inputs of the service, are computed from
them. `apply_report`, the withdrawal index and the trades list are as in `run_backtest`.

In these modules the definitions under "Fault" are variants of the definition after them, each
with a bug somebody could write there; no specification uses them. Replacing the definition by
its fault makes TLC find the property of section 3 that is about it violated, which is how the
properties were shown to have teeth.

## 3. What TLC checks

| Run (cfg) | Properties | Shows | States |
|---|---|---|---|
| service (`MCTradingService`) | `TypeOK`, `OneBuyPerCandle`, `SlotLimit`, `CapitalOverrun`, `BooksAgree`, `TrackedExactly`, `SellsOpenPosition`, `KeepsBook`, `TickReturns`, `PositionsRevisited` | limits, books and lists of the tick loop; refinement of `PositionBook`; a tick ends and positions are looked at again | 345 thousand |
| paper (`MCPaperTrading`) | `MoneyConserved`, `TradesCounted`, `OverdraftBound`, `SnapshotAddsUp`, `SnapshotCurrent` | ledger, metrics and snapshot belong together; the overdraft is bounded | 772 thousand |
| live (`MCLiveTrading`) | `OneOrderPerProcess`, `HoldingsCovered`, `HoldingsExact`, `NoBuyOnShortfall` | what is tracked is held, across a crash and a restart | 914 thousand |
| feed (`MCMarketFeed`) | `TypeOK`, `BufferOrdered`, `PollComplete`, `GapsAreLosses`, `StreamHeals`, `OnePartialAtMost` | a poll skips nothing; the stream is ordered, refuses only real gaps and heals | 1.7 million |
| exit_pricing (`MCExitPricing`) | `EstimateIsBest`, `SalesAsSeenMeetTarget`, `UnsoldCovered`, `ProfitIsEarned`, `RejectedForCause` | what is priced, ordered, filled and booked | 24 thousand |
| backtest (`MCBacktest`) | `PagesFit`, `DownloadExact`, `DownloadEnds`, `IndicatorsAgree`, `WarmupSuffices`, `EntersOnWholeHistory`, `TradesMeetTarget`, `ReportAddsUp` | from the first request to the last replayed candle | 57 thousand |

Six runs check what the repository says and find the code doing otherwise:

| Run | The text | What the code does |
|---|---|---|
| service_capital: `CapitalCapped` | `README.md:283` "a fixed absolute cap", `docs/KULLANIM.md:129` "en fazla 1000 USDT" (at most) | the last order takes all that remains and its commission comes on top; what holds is `CapitalOverrun`, one commission at most |
| live_duplicate: `OneOrderPerCandle` | `execution/gates.py:9-11` "even across restarts or retries" | the guard is in memory; a restart inside the freshness window buys the candle again |
| live_shared_base: `CleanMeansCovered` | `runtime/live.py:114` "at least the base quantity the bot expects" | each symbol is compared with the same free balance; two symbols of one base hide a missing lot |
| live_dirty_sell: `DirtyPlacesNoOrder` | `runtime/live.py:171` "so no order is placed" | only BUYs are gated, the exit loop reads no status |
| feed_race: `OnlyFinalCandles` | `README.md:65` "only on candles that are closed" | the clock is read after the klines; if the minute turns in between, the open candle passes with partial data |
| exit_loss: `NeverSoldAtLoss` | `strategy/exit.py:134-135` "never sold at a loss" | all positions of a coin are priced on one snapshot; a later sale loses in an unmoved market |

A seventh has no run of its own. `docs/KULLANIM.md:331-332` says order sizes are "validated/rounded"
by the filters (also `README.md:148-151`), but the command line loads none (`cli.py:109-113`), so a
SELL off the step is rejected and ends the process, and with filters a SELL is floored to the step
but compared with none of the other limits. The causes `RejectedForCause` has to allow for are these.

**Bounds.** Two coins are the fewest for a tick's second entry to meet the stale balance and for
two symbols to share a base. One coin has two slots, so that a coin has a second position in its
exit loop; the other has a minimum notional equal to its full order. The balance covers one
order in the service run; `paper` also has one that runs short. `MaxMinute = 2` gives two
closed candles, hence a second, fresh candle for every coin, and lets the clock advance inside a
tick. `MaxPositions` is 2 or 3: enough to buy, sell and buy again while another is open. Order
costs range over 1 to quote + fee and proceeds over loss and profit in units of money. Restarts
and manual sales are bounded by one each. The feed uses a window of two candles in a buffer of
three and messages up to two in flight, over six minutes: enough to lose a candle, heal and
lose again, and every set of missing minutes. Exit pricing has four positions (one too large for
one order), two commissions in quote, as configured and far above it, and one in a third asset, two
prices for the notional, four ladders (deep, thin at the top, thin altogether, empty) and two moves of the market, so a snapshot can be stale by both. The backtest
takes every history of four free minutes (falling, rising, flat without volume) with at most one
missing, a new listing and an empty exchange; batches of three for seven candles make a full, a
full and a short page; periods of two let every warm-up end inside the file. Bounded counters:
`minute`, `opened`, `manual`, `restarts`, `moves`, `now`, `channel`, `today`. The model stops
buying at `MaxPositions`; every other guard is the code's.

Deadlock is not checked where the process ends: by an exception, when all positions are sold, or
at the end of the backtest.

**Fairness.** `FairSpec` says that the loop's thread starts another tick when one has ended and
that, inside a tick, it takes its next step or a call raises. The loops are plain `while` loops
with blocking calls that have timeouts, so this is what a thread that is scheduled at all does.
No fairness is assumed of the operator, the clock or any outcome: a signal may never come and a
target may never be reached, so nothing is claimed about positions ever being sold.
`DownloadFairness` says the same of the downloader's one thread: it goes on with the next request
or the write. `DownloadEnds` needs no more, although the exchange keeps adding klines meanwhile.

## 4. What is proved

All theorems hold for every value of the constants that satisfies the named assumptions of the
module, and TLC evaluates them in every run. `SizesAssumption` and `CoinAssumption`: amounts are
naturals, limits and slot counts positive, as `strategy/parameters.py` enforces.
`ExchangeAssumption`, `FeedAssumption`, `DownloadAssumption`: lots and batches are positive, a
window is no longer than the buffer. `PeriodAssumption`, `ThresholdAssumption`: the validated
ranges of the indicator parameters. `PricingAssumption`: fees, charges, buffer and target are
fractions, step and `minQty` positive, a
purchase has fills of positive price and quantity, and its base commission is not more than was
bought and is worth a whole amount of quote. `BacktestAssumption`: one coin, closes above zero
(`market_buy` divides by the ask), and the bounds `MaxFee` and `MaxMinute` of the service are
large enough for the simulated commission and the last row.

| Module | Theorems |
|---|---|
| `TradingServiceProofs` | `TypeCorrect`, `OneBuyPerCandleHolds`, `SlotLimitHolds`, `CapitalOverrunHolds`, `TrackedExactlyHolds`, `SellsOpenPositionHolds`, `BooksAgreeHolds`, `ImplementsBook` |
| `PaperTradingProofs` | `MoneyConservedHolds`, `TradesCountedHolds`, `OverdraftBoundHolds`, `SnapshotAddsUpHolds`, `SnapshotCurrentHolds` |
| `LiveTradingProofs` | `OneOrderPerProcessHolds`, `HoldingsCoveredHolds`, `HoldingsExactHolds`, `NoBuyOnShortfallHolds` |
| `MarketFeedProofs` | `FeedTypeHolds`, `BufferOrderedHolds`, `PollCompleteHolds`, `OnePartialAtMostHolds`, `GapsAreLossesHolds`, `StreamHealsHolds` |
| `DownloaderProofs` | `PagesFitHolds`, `DownloadExactHolds` |
| `ExitPricingProofs` | `EstimateIsBestHolds`, `SalesAsSeenMeetTargetHolds`, `UnsoldCoveredHolds`, `ProfitIsEarnedHolds`, `RejectedForCauseHolds` |
| `BacktestProofs` | `LoopsAlwaysAgree`, `WarmupAlwaysCovers`, `IndicatorsAgreeHolds`, `WarmupSufficesHolds`, `EntersOnWholeHistoryHolds`, `TradesMeetTargetHolds`, `ReportAddsUpHolds`, `ReplayKeepsPromises` |

**The tick.** None of the properties is inductive. `IInv` adds what they rest on: `FrameInv`
(what the loop variables are at each `pc`; in the entry loop nothing has been closed, and coins
not visited yet have not been entered in this tick), `OrderInv` (an order under way was decided
with a free slot, remaining capital and an unseen candle, all of which are still so),
`NumberedInv` (positions are numbered without gaps and every one has its candle in the guard),
`SlotsInv` (slots plus report are the open positions) and `UsedInv` (used capital stays under
the limit plus a fee). One lemma per action (`InvDecideBuy`, `InvClosePosition`, ...) is joined
in `InvNext`. The slot limit needs the cardinality of the open positions before and after a
step. The refinement maps every step to a step of the book or a stutter: `BookOpen` for a BUY,
`BookStep` for the rest. The lemmas are about `AnyNext`, the service's steps with any input and
any proceeds, and about `Outside`, a step that changes nothing of the service but its clock and
mode, so that they serve the paper, live and backtest loops, too.

**Sums and recursion.** Invested capital and money are sums over sets. The community module's
fold is a recursive function that takes out a chosen element at a time; `SumTheorems` proves that
it exists, that the order makes no difference and how a sum changes with an element or splits
over a partition, each from a smallest set that would be an exception, since no induction over an
operator is available. `IntervalInduction` states induction over an interval for a *set* of
indices and `RecursionExists` that a recursive function over an interval exists for a step given
as a *function*; both can be cited for data that are sets. `BooksAgreeHolds` follows with
`CostInv` (used capital plus report is the sum of the open positions' cost).

**Paper.** Every step of `PaperNext` but `PaperStatusFails` is a step of `AnyNext`, so `IInv`
holds; `PaperInv` adds that balance, metrics and report together account for every position, and
for the overdraft that a tick's entries are bounded coin by coin by the balance they were gated
on (`EntriesBound`, `QuoteBound`).

**Live.** `Surplus(a)`, the wallet's holding of an asset less the lots tracked and in transit
between an exchange fill and the service's books, never falls but by a manual sale and never
changes before one or a restart. `OrdersInv` counts the filled BUYs of a coin and candle against
the guard.

**Feed.** `FeedInv` follows each closed candle: it was lost, or it is on its way with every
earlier one that was not lost ahead of it (`InOrderInv`), or it is in the buffer, or it is older
than a buffer that already holds enough (`HeardInv`). A gap in the window is then a lost candle.
For healing, each buffered candle is mapped to its place among the exchange's klines: a strictly
increasing map that reaches the last `Limit` places ends in them (`Suffix`), so the window is
those candles and no others. `PollComplete` is about the klines the exchange *has*: the closed part
of its answer is again a run of them, and shorter than `Limit` only if it reaches back to the first.

**Download.** `PagesInv`: the collected rows are a suffix of what one unbounded request would
have answered at the beginning, and the next request continues exactly where they begin.

**Exit pricing.** `from_levels` is shown to sort: ranks are a bijection, so the result is a
permutation of the payload with falling prices (`Ladder`). The walk down a ladder takes full
levels until nothing is left, so after each level it has taken at least as much as any split of
the quantity; as prices fall, it has also earned at least as much. `PricingInv` then carries
that every book in play is a ladder, that a position being sold is unsold and was estimated on the
snapshot still held (`ChoiceInv`), and the three books of account together (`SalesInv`): a sale
takes out of the wallet no more than the position may sell, and puts into it what the result is
computed from. `MarketFacts` says so of every order that is carried out, a sale that cannot be
valued included; `SaleAsSeen` bounds by how much a commission beyond fee and buffer can miss the
target.

**Indicators.** The code's loops are recursive functions of sequences here, down to the greatest
common divisor that keeps fractions reduced: each is shown to exist first (`Gcd` by induction over
the larger number) and `Ratio` to lose nothing. The averages of non-negative amounts are zero
exactly when every amount averaged is; that settles where RSI, VWMA, DX, ADX and ADR divide by zero, and
with it where each is defined (`RsiDefined`, `DxDefined`, ...), hence `LoopsAlwaysAgree` and
`WarmupAlwaysCovers` for every series of candles and all periods.

**Replay.** `ReplayInv` extends the service's `IInv` and `CostInv` by the rows (ascending, and
fixed once loaded) and the cursor, an order that is for the candle shown last and sound,
`EntersOnWholeHistory` itself, the trades (every position sold is in the report or in the trades,
once), the ledger (what the account will show when the report is applied is the start plus the
results less what is committed) and the targets. A trade meets its target because the book
that decides also fills, and the safety buffer is never negative.

Only model-checked: the liveness properties (`TickReturns`, `PositionsRevisited`,
`DownloadEnds`; fairness and ENABLED are out of the prover's reach) and the six disagreements of
section 3. The theorems about indicators say where values are defined, not that a signal's
comparison of them comes out one way or the other; nothing in the repository states that apart
from the code itself.

## 5. What is not modelled

- Floating point and `Decimal` rounding: amounts are whole units, indicators exact fractions.
- `+DI` and `-DI` series, win rate and unrealized PnL: displayed, read by nothing.
- `accepts_order` and price rounding of `exchange/filters.py`: called by nothing in the program.
- HTTP, retries of the operator, signing, error codes of the API: a failed call is a `Raise`.
- The status server: it serves the last snapshot by reference; the snapshot is in `PaperTrading`.
- `.env`, JSON and argument parsing: they run once before any loop.
- Several symbols in one download: fetched one after the other, they share nothing.
- A commission of a BUY in a third asset: an amount within `MaxFee` in `TradingService`; one that
  cannot be valued is a `Raise`. That of a SELL is in `ExitPricing`, without `commission_rates`.
- `minQty` and `maxQty` of a BUY: a market BUY is sized in quote, and the gate checks its minimum
  notional only; a rejection is a `Raise`.
