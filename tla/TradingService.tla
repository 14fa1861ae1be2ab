--------------------------- MODULE TradingService ---------------------------
(***************************************************************************)
(* One trading process: TradingService.tick (runtime/service.py) driving   *)
(* TradingRuntime.try_enter and try_exit (runtime/orchestrator.py) against *)
(* an AccountPort whose slots and used capital are brought up to date only *)
(* by apply_report, after the tick has returned.                           *)
(*                                                                         *)
(* Every call to a port (candles, order book, market_buy, market_sell) is  *)
(* a step of its own: the clock may advance there, and the call may raise. *)
(* The callers of tick catch nothing, so an exception ends the process;    *)
(* they change the mode between two ticks only.                            *)
(*                                                                         *)
(* Money is counted in its smallest unit, time in minutes; candle k opens  *)
(* at minute k and is closed from minute k + 1 on.  The technical signal,  *)
(* the RSI comparison and the net-profit comparison are inputs.            *)
(***************************************************************************)
EXTENDS Integers, FiniteSets, FiniteSetsExt, Sums

CONSTANTS
  NumCoins,       \* length of ServiceConfig.coins; coin c is its c-th entry
  SlotCount,      \* slot_count of each coin
  CapitalLimit,   \* capital_limit_usdt of each coin
  OrderQuote,     \* what the SizingPolicy asks for while there is capital for it:
                  \* an equal share per slot, or the fixed amount of a backtest
  MinNotional,    \* SymbolFilters.min_notional of each coin, 0 without filters
  MaxFee,         \* largest entry commission of one order
  Statuses,       \* operational statuses the loop may pass to tick
  Balances,       \* quote balances an account may report
  MaxProceeds,    \* bound on the net proceeds of one sell
  MaxMinute,      \* bound on the clock
  MaxPositions    \* bound on the positions ever opened

Coins     == 1..NumCoins
Ids       == 1..MaxPositions
Candles   == 0..MaxMinute
NoCandle  == -1

\* What the gates read of OperationalStatus: clean is reconciliation_clean,
\* blocked the coins that are inactive or pending delete (all of them without a
\* lease or when the system is not safe).
Status == [clean : BOOLEAN, blocked : SUBSET Coins]
NoStatus == [clean |-> FALSE, blocked |-> {}]

ASSUME SizesAssumption ==
  /\ NumCoins \in Nat \ {0}
  /\ MaxFee \in Nat /\ MaxProceeds \in Nat
  /\ MaxMinute \in Nat /\ MaxPositions \in Nat
  /\ Balances \subseteq Int
  /\ Statuses \subseteq Status
ASSUME CoinAssumption ==
  /\ SlotCount \in [Coins -> Nat \ {0}]
  /\ CapitalLimit \in [Coins -> Nat \ {0}]
  /\ OrderQuote \in [Coins -> Nat]
  /\ MinNotional \in [Coins -> Nat]

VARIABLES
  mode,       \* TradingService._mode
  guard,      \* ProcessedCandleGuard._seen
  pos,        \* the StrategyPosition objects, numbered in the order of opening
  opened,     \* how many were opened
  held,       \* TradingService._positions: the ids in each coin's list
  slots,      \* the account's _slots
  used,       \* the account's _used
  balance,    \* the account's available quote balance
  minute,     \* the wall clock
  pc,         \* where the process is
  coin,       \* the loop variable of the entry and exit loops
  status,     \* the OperationalStatus of this tick
  order,      \* the order being placed
  look,       \* whether the candles fetched for a coin's exits are overbought
  todo, kept, \* the exit loop's remaining positions and its still_open
  report      \* the TickReport

service == <<mode, guard, pos, opened, held>>
account == <<slots, used, balance>>
frame   == <<pc, coin, status, order, look, todo, kept, report>>
vars    == <<service, account, minute, frame>>

-----------------------------------------------------------------------------
(* Positions and the report *)

PositionStates == {"NONE", "OPEN", "EXIT_ARMED", "CLOSED"}
Live == {"OPEN", "EXIT_ARMED"}
Position ==
  [coin : Coins \cup {0}, candle : Candles \cup {NoCandle}, invested : Nat,
   state : PositionStates]
NoPosition ==
  [coin |-> 0, candle |-> NoCandle, invested |-> 0, state |-> "NONE"]

\* The positions of a coin that were opened and not closed.
OpenOf(c) == {i \in Ids : pos[i].coin = c /\ pos[i].state \in Live}

\* What each position cost.
Cost == [i \in Ids |-> pos[i].invested]

\* TickReport, as the totals per coin that apply_report folds out of it.
Report ==
  [opened : [Coins -> Nat], closed : [Coins -> Nat],
   invested : [Coins -> Nat], released : [Coins -> Nat],
   proceeds : [Coins -> Nat]]
NoReport ==
  [opened   |-> [c \in Coins |-> 0], closed   |-> [c \in Coins |-> 0],
   invested |-> [c \in Coins |-> 0], released |-> [c \in Coins |-> 0],
   proceeds |-> [c \in Coins |-> 0]]

Order   == [candle : Candles \cup {NoCandle}, quote : Nat, fill : Nat]
NoOrder == [candle |-> NoCandle, quote |-> 0, fill |-> 0]

First(S) == CHOOSE i \in S : \A j \in S : i <= j
Lesser(m, n)  == IF m <= n THEN m ELSE n
Greater(m, n) == IF m >= n THEN m ELSE n
Plus(f, c, n) == [f EXCEPT ![c] = @ + n]

-----------------------------------------------------------------------------
Init ==
  /\ mode = "RUNNING"
  /\ guard = {}
  /\ pos = [i \in Ids |-> NoPosition]
  /\ opened = 0
  /\ held = [c \in Coins |-> {}]
  /\ slots = [c \in Coins |-> 0]
  /\ used = [c \in Coins |-> 0]
  /\ balance \in Balances
  /\ minute = 1
  /\ pc = "idle" /\ coin = 1
  /\ status = NoStatus /\ order = NoOrder /\ look = FALSE
  /\ todo = {} /\ kept = {} /\ report = NoReport

(* The caller of tick, and the clock *)

RequestWithdrawal ==
  /\ pc = "idle" /\ mode = "RUNNING"
  /\ mode' = "WITHDRAWAL_REQUESTED"
  /\ UNCHANGED <<guard, pos, opened, held, account, minute, frame>>

Resume ==
  /\ pc = "idle" /\ mode = "WITHDRAWAL_REQUESTED"
  /\ mode' = "RUNNING"
  /\ UNCHANGED <<guard, pos, opened, held, account, minute, frame>>

MinutePasses ==
  /\ minute < MaxMinute
  /\ minute' = minute + 1
  /\ UNCHANGED <<service, account, frame>>

-----------------------------------------------------------------------------
(* tick: the entry loop *)

\* The loop calls tick; running stands for runtime_running and trading_enabled
\* of the status, s for the rest of it, b for the balance the account shows.
\* entries_allowed is computed once, here; the exit loop never reads the status.
StartTick(running, s, b) ==
  /\ pc = "idle"
  /\ balance' = b
  /\ IF mode = "RUNNING" /\ running
       THEN pc' = "entries" /\ status' = s
       ELSE pc' = "exits" /\ status' = NoStatus
  /\ coin' = 1
  /\ UNCHANGED <<service, slots, used, minute, order, look, todo, kept, report>>

\* Fault: an order may take the coin's whole capital.
OrderSizeWhole(c) ==
  IF slots[c] >= SlotCount[c] \/ used[c] >= CapitalLimit[c] THEN 0
  ELSE CapitalLimit[c]

\* The sizing policy (equal_slot_quote_amount, _fixed_sizer), called with the
\* account's slots and used capital.
OrderSize(c) ==
  IF slots[c] >= SlotCount[c] \/ used[c] >= CapitalLimit[c] THEN 0
  ELSE Lesser(OrderQuote[c], CapitalLimit[c] - used[c])

\* is_market_data_fresh: the candle closed at most two minutes ago.
IsFresh(k) == k < minute /\ minute <= k + 2

\* ProcessedCandleGuard.already_processed.
AlreadyProcessed(c, k) == <<c, k>> \in guard

\* Faults: without the guard lookup, the balance gate, the reconciliation gate.
GatesOpenUnguarded(c, k) ==
  /\ c \notin status.blocked /\ IsFresh(k)
  /\ OrderSize(c) > 0 /\ balance >= OrderSize(c) /\ OrderSize(c) >= MinNotional[c]
  /\ status.clean
GatesOpenUnfunded(c, k) ==
  /\ c \notin status.blocked /\ IsFresh(k) /\ ~AlreadyProcessed(c, k)
  /\ OrderSize(c) > 0 /\ OrderSize(c) >= MinNotional[c]
  /\ status.clean
GatesOpenUnreconciled(c, k) ==
  /\ c \notin status.blocked /\ IsFresh(k) /\ ~AlreadyProcessed(c, k)
  /\ OrderSize(c) > 0 /\ balance >= OrderSize(c) /\ OrderSize(c) >= MinNotional[c]

\* _build_gates, all_open and the guard lookup of evaluate_buy.
GatesOpen(c, k) ==
  /\ c \notin status.blocked
  /\ IsFresh(k)
  /\ ~AlreadyProcessed(c, k)
  /\ slots[c] < SlotCount[c]
  /\ used[c] < CapitalLimit[c]
  /\ OrderSize(c) > 0 /\ balance >= OrderSize(c)
  /\ OrderSize(c) >= MinNotional[c]
  /\ status.clean

\* The coin has no signal, too few candles, an invalid series or a closed gate.
SkipEntry ==
  /\ pc = "entries" /\ coin \in Coins
  /\ coin' = coin + 1
  /\ UNCHANGED <<service, account, minute, pc, status, order, look, todo, kept,
                 report>>

\* evaluate_buy says buy on closed candle k, with the mode read again.
DecideBuy(k) ==
  /\ pc = "entries" /\ coin \in Coins
  /\ mode = "RUNNING"
  /\ GatesOpen(coin, k)
  /\ opened < MaxPositions
  /\ pc' = "buying"
  /\ order' = [NoOrder EXCEPT !.candle = k, !.quote = OrderSize(coin)]
  /\ UNCHANGED <<service, account, minute, coin, status, look, todo, kept, report>>

\* market_buy returns fills that cost at most the quote, plus commission.
ExecuteBuy(cost) ==
  /\ pc = "buying"
  /\ pc' = "filled"
  /\ order' = [order EXCEPT !.fill = cost]
  /\ UNCHANGED <<service, account, minute, coin, status, look, todo, kept, report>>

\* aggregate_entry, open_position, mark_processed, and the appends in tick.
OpenPosition ==
  /\ pc = "filled"
  /\ opened' = opened + 1
  /\ pos' = [pos EXCEPT ![opened + 1] =
               [coin |-> coin, candle |-> order.candle, invested |-> order.fill,
                state |-> "OPEN"]]
  /\ guard' = guard \cup {<<coin, order.candle>>}
  /\ held' = [held EXCEPT ![coin] = @ \cup {opened + 1}]
  /\ report' = [report EXCEPT !.opened = Plus(@, coin, 1),
                              !.invested = Plus(@, coin, order.fill)]
  /\ order' = NoOrder
  /\ pc' = "entries" /\ coin' = coin + 1
  /\ UNCHANGED <<mode, account, minute, status, look, todo, kept>>

EndEntries ==
  /\ pc = "entries" /\ coin \notin Coins
  /\ pc' = "exits" /\ coin' = 1 /\ status' = NoStatus
  /\ UNCHANGED <<service, account, minute, order, look, todo, kept, report>>

-----------------------------------------------------------------------------
(* tick: the exit loop *)

SkipExits ==
  /\ pc = "exits" /\ coin \in Coins
  /\ held[coin] = {}
  /\ coin' = coin + 1
  /\ UNCHANGED <<service, account, minute, pc, status, order, look, todo, kept,
                 report>>

\* Candles and order book of the coin are fetched once for all its positions.
\* Nothing asks whether the last candle is fresh; rsiHigh says that its RSI is
\* above rsi_overbought, so it is false on an invalid series or undefined RSI.
FetchExits(rsiHigh) ==
  /\ pc = "exits" /\ coin \in Coins
  /\ held[coin] # {}
  /\ pc' = "exiting"
  /\ todo' = held[coin] /\ kept' = {}
  /\ look' = rsiHigh
  /\ UNCHANGED <<service, account, minute, coin, status, order, report>>

\* update_exit_arming on position i, in RUNNING mode only.
Arms(i) == mode = "RUNNING" /\ pos[i].state = "OPEN" /\ look
Armed(i) == IF Arms(i) THEN [pos EXCEPT ![i].state = "EXIT_ARMED"] ELSE pos

\* evaluate_exit on the next position; reached says that the estimated net
\* profit meets the target of the mode.
DecideExit(reached) ==
  /\ pc = "exiting" /\ todo # {}
  /\ LET i == First(todo)
         sell == /\ reached
                 /\ mode = "RUNNING" => Armed(i)[i].state = "EXIT_ARMED"
     IN /\ pos' = Armed(i)
        /\ IF sell THEN pc' = "selling" /\ UNCHANGED <<todo, kept>>
           ELSE pc' = pc /\ todo' = todo \ {i} /\ kept' = kept \cup {i}
  /\ UNCHANGED <<mode, guard, opened, held, account, minute, coin, status, order,
                 look, report>>

\* market_sell returns fills; proceeds are gross minus exit fees.
ExecuteSell(proceeds) ==
  /\ pc = "selling"
  /\ pc' = "sold"
  /\ order' = [order EXCEPT !.fill = proceeds]
  /\ UNCHANGED <<service, account, minute, coin, status, look, todo, kept, report>>

\* Faults: the position is not marked, its capital is not released, its net
\* result is taken for its proceeds.
Closing(marked, released, proceeds) ==
  /\ pc = "sold"
  /\ LET i == First(todo)
     IN /\ pos' = IF marked THEN [pos EXCEPT ![i].state = "CLOSED"] ELSE pos
        /\ todo' = todo \ {i}
        /\ report' = [report EXCEPT !.closed = Plus(@, coin, 1),
                                    !.released = Plus(@, coin, released),
                                    !.proceeds = Plus(@, coin, proceeds)]
  /\ order' = NoOrder
  /\ pc' = "exiting"
  /\ UNCHANGED <<mode, guard, opened, held, account, minute, coin, status, look,
                 kept>>
ClosePositionUnmarked == Closing(FALSE, pos[First(todo)].invested, order.fill)
ClosePositionKeepsCapital == Closing(TRUE, 0, order.fill)
ClosePositionNetted ==
  LET cost == pos[First(todo)].invested IN Closing(TRUE, cost, order.fill - cost)

\* realized_pnl, mark_closed, and the append to report.exits.
ClosePosition ==
  /\ pc = "sold"
  /\ LET i == First(todo)
     IN /\ pos' = [pos EXCEPT ![i].state = "CLOSED"]
        /\ todo' = todo \ {i}
        /\ report' = [report EXCEPT !.closed = Plus(@, coin, 1),
                                    !.released = Plus(@, coin, pos[i].invested),
                                    !.proceeds = Plus(@, coin, order.fill)]
  /\ order' = NoOrder
  /\ pc' = "exiting"
  /\ UNCHANGED <<mode, guard, opened, held, account, minute, coin, status, look,
                 kept>>

\* Faults: the list keeps what was sold, loses what was not, or the loop does not
\* move on.
Keeping(list, next) ==
  /\ pc = "exiting" /\ todo = {}
  /\ held' = [held EXCEPT ![coin] = list]
  /\ kept' = {} /\ look' = FALSE
  /\ pc' = "exits" /\ coin' = next
  /\ UNCHANGED <<mode, guard, pos, opened, account, minute, status, order, todo,
                 report>>
KeepAll   == Keeping(held[coin], coin + 1)
KeepNone  == Keeping({}, coin + 1)
KeepStuck == Keeping(kept, coin)

\* self._positions[symbol] = still_open, only after the coin's last position.
KeepStillOpen ==
  /\ pc = "exiting" /\ todo = {}
  /\ held' = [held EXCEPT ![coin] = kept]
  /\ kept' = {} /\ look' = FALSE
  /\ pc' = "exits" /\ coin' = coin + 1
  /\ UNCHANGED <<mode, guard, pos, opened, account, minute, status, order, todo,
                 report>>

-----------------------------------------------------------------------------
(* The end of a tick *)

\* Fault: only the exits of a report are applied.
FinishTickExitsOnly(b) ==
  /\ pc = "exits" /\ coin \notin Coins
  /\ slots' = [c \in Coins |-> Greater(0, slots[c] - report.closed[c])]
  /\ used' = [c \in Coins |-> used[c] - report.released[c]]
  /\ balance' = b
  /\ pc' = "idle" /\ coin' = 1
  /\ status' = NoStatus /\ report' = NoReport
  /\ UNCHANGED <<service, minute, order, look, todo, kept>>

\* tick returns, and the loop applies the report: the entries first, then the
\* exits; b is the balance the account shows afterwards.
FinishTick(b) ==
  /\ pc = "exits" /\ coin \notin Coins
  /\ slots' = [c \in Coins |->
                 Greater(0, slots[c] + report.opened[c] - report.closed[c])]
  /\ used' = [c \in Coins |->
                used[c] + report.invested[c] - report.released[c]]
  /\ balance' = b
  /\ pc' = "idle" /\ coin' = 1
  /\ status' = NoStatus /\ report' = NoReport
  /\ UNCHANGED <<service, minute, order, look, todo, kept>>

\* A port call or the handling of its answer raises, or the operator interrupts
\* the process: the tick's frame is lost and nothing calls tick again.
Raise ==
  /\ pc # "raised"
  /\ pc' = "raised" /\ coin' = 1
  /\ status' = NoStatus /\ order' = NoOrder /\ look' = FALSE
  /\ todo' = {} /\ kept' = {} /\ report' = NoReport
  /\ UNCHANGED <<service, account, minute>>

-----------------------------------------------------------------------------
\* What the process does by itself inside a tick, whatever its account.
TickStep ==
  \/ SkipEntry
  \/ \E k \in Candles : DecideBuy(k)
  \/ \E cost \in 1..(order.quote + MaxFee) : ExecuteBuy(cost)
  \/ OpenPosition
  \/ EndEntries
  \/ SkipExits
  \/ \E rsiHigh \in BOOLEAN : FetchExits(rsiHigh)
  \/ \E reached \in BOOLEAN : DecideExit(reached)
  \/ \E proceeds \in 0..MaxProceeds : ExecuteSell(proceeds)
  \/ ClosePosition
  \/ KeepStillOpen

Environment == RequestWithdrawal \/ Resume \/ MinutePasses

Begin  ==
  \E running \in BOOLEAN, s \in Statuses, b \in Balances : StartTick(running, s, b)
Finish == \E b \in Balances : FinishTick(b)

Next == Begin \/ TickStep \/ Finish \/ Raise \/ Environment

Spec == Init /\ [][Next]_vars

\* The thread running the loop is never descheduled for ever: it takes its next
\* step, or one of its calls raises.
FairSpec ==
  Spec /\ WF_vars(Begin) /\ WF_vars(TickStep \/ Finish \/ Raise)
-----------------------------------------------------------------------------
(* Properties *)

PCs == {"idle", "entries", "buying", "filled", "exits", "exiting", "selling",
        "sold", "raised"}

\* Every variable has the type the code gives it.
TypeOK ==
  /\ mode \in {"RUNNING", "WITHDRAWAL_REQUESTED"}
  /\ guard \subseteq Coins \X Candles
  /\ pos \in [Ids -> Position] /\ opened \in 0..MaxPositions
  /\ held \in [Coins -> SUBSET Ids]
  /\ slots \in [Coins -> Nat] /\ used \in [Coins -> Int] /\ balance \in Int
  /\ minute \in Nat
  /\ pc \in PCs /\ coin \in 1..(NumCoins + 1)
  /\ status \in Status /\ order \in Order /\ look \in BOOLEAN
  /\ todo \subseteq Ids /\ kept \subseteq Ids /\ report \in Report

\* A coin and closed candle open at most one position in the life of a process
\* (execution/gates.py, "the same coin and the same closed candle must never
\* produce a second BUY"), whatever the feed returns and however often.
OneBuyPerCandle ==
  \A i, j \in 1..opened :
    i # j => <<pos[i].coin, pos[i].candle>> # <<pos[j].coin, pos[j].candle>>

\* At most slot_count positions of a coin are open at any moment, although the
\* account only learns of a tick's entries and exits when the tick has returned.
SlotLimit == \A c \in Coins : Cardinality(OpenOf(c)) <= SlotCount[c]

\* capital_limit_usdt is "a fixed absolute cap" (README.md, KULLANIM.md): what the
\* account's _used will be once the report is applied never exceeds it.  The code
\* does not keep this: the last order takes all that remains, and its commission
\* comes on top.
Committed(c) == used[c] + report.invested[c] - report.released[c]
CapitalCapped == \A c \in Coins : Committed(c) <= CapitalLimit[c]

\* What it does keep: the cap is exceeded by the commission of a single order at
\* most, however many orders, sales and pending reports there are.
CapitalOverrun == \A c \in Coins : Committed(c) <= CapitalLimit[c] + MaxFee

\* The books agree: the account's slots and used capital, together with the
\* report that is not applied yet, are the open positions and their cost.
BooksAgree ==
  pc # "raised" =>
    \A c \in Coins :
      /\ slots[c] + report.opened[c] - report.closed[c] = Cardinality(OpenOf(c))
      /\ Committed(c) = SumOver(Cost, OpenOf(c))

\* The service neither loses an open position nor keeps a closed one: between
\* ticks, and outside a coin's exit loop, its lists are the open positions; in
\* the loop the positions still to visit and those kept are.
TrackedExactly ==
  pc # "raised" =>
    \A c \in Coins :
      OpenOf(c) = IF pc \in {"exiting", "selling", "sold"} /\ c = coin
                  THEN todo \cup kept ELSE held[c]

\* A market SELL is only ever under way for an open position of the coin whose
\* book was fetched, so no position is sold twice in the life of a process.
SellsOpenPosition ==
  pc \in {"selling", "sold"} =>
    todo # {} /\ First(todo) \in OpenOf(coin) /\ First(todo) \notin kept

\* Every tick ends: it returns, or an exception ends the process.
TickReturns == pc # "idle" ~> pc \in {"idle", "raised"}

\* While the process lives, an open position is examined again and again.
PositionsRevisited ==
  \A i \in Ids :
    pos[i].state \in Live ~> (i \in todo \/ pos[i].state = "CLOSED" \/ pc = "raised")

\* The service implements the position book: every step opens a position on a
\* free slot and a new candle, arms an open one, sells a live one, or leaves the
\* positions alone.
Book == INSTANCE PositionBook WITH
  book <- [i \in Ids |-> [coin |-> pos[i].coin, candle |-> pos[i].candle,
                           state |-> pos[i].state]]
KeepsBook == Book!Spec
=============================================================================
