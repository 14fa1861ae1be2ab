----------------------------- MODULE LiveTrading -----------------------------
(***************************************************************************)
(* The live loop: run_live (runtime/live.py) fetches the exchange account, *)
(* refreshes BinanceAccount, reconciles the tracked positions against the  *)
(* free balances and calls TradingService.tick.  The exchange fills market *)
(* orders and keeps the wallet; the owner may sell coins by hand; the      *)
(* process may die between any two steps and be started again, with        *)
(* nothing persisted.  Every position holds one lot of LotQty base units.  *)
(***************************************************************************)
EXTENDS TradingService

CONSTANTS
  Assets,       \* base assets
  BaseOf,       \* split_symbol: the base asset of each coin
  LotQty,       \* sellable_base_qty of a position
  Tolerance,    \* reconcile_tolerance, in percent
  MaxManual,    \* bound on the units the owner sells by hand
  MaxRestarts   \* bound on restarts

ASSUME ExchangeAssumption ==
  /\ BaseOf \in [Coins -> Assets]
  /\ LotQty \in Nat \ {0} /\ Tolerance \in 0..100
  /\ MaxManual \in Nat /\ MaxRestarts \in Nat

VARIABLES
  wallet,    \* the exchange's free balances: quote, and base per asset
  bought,    \* BUY orders the exchange has filled, per coin and candle
  recon,     \* the account snapshot of this tick and its ReconcileResult.clean
  manual,    \* units the owner has sold by hand
  restarts   \* how often the process was started again

liveVars == <<wallet, bought, recon, manual, restarts>>
allVars  == <<vars, liveVars>>

NoRecon == [seen |-> [a \in Assets |-> 0], clean |-> FALSE]

LiveInit ==
  /\ Init
  /\ wallet = [quote |-> balance, base |-> [a \in Assets |-> 0]]
  /\ bought = [ck \in Coins \X Candles |-> 0]
  /\ recon = NoRecon
  /\ manual = 0 /\ restarts = 0

\* refresh_balance: what the account shows until the next tick.
FreeQuote == wallet.quote

\* reconcile_positions: each coin by itself, against the free base balance.
Expected(c) == LotQty * Cardinality(held[c])
Covered(actual, expected) == 100 * actual >= (100 - Tolerance) * expected
Reconciled ==
  \A c \in Coins :
    Expected(c) > 0 => Covered(wallet.base[BaseOf[c]], Expected(c))

\* run_live: account, refresh_balance, reconcile_positions, tick.
LiveBegin ==
  /\ StartTick(TRUE, [clean |-> Reconciled, blocked |-> {}], FreeQuote)
  /\ recon' = [seen |-> wallet.base, clean |-> Reconciled]
  /\ UNCHANGED <<wallet, bought, manual, restarts>>

\* The exchange fills a market BUY it has the money for, spending at most the
\* quote; the commission, taken in the base asset, is valued in quote.  It
\* rejects any other, which is a Raise.
LiveBuy(spent, fee) ==
  /\ ExecuteBuy(spent + fee)
  /\ wallet.quote >= order.quote
  /\ wallet' = [quote |-> wallet.quote - spent,
                base |-> [wallet.base EXCEPT ![BaseOf[coin]] = @ + LotQty]]
  /\ bought' = [bought EXCEPT ![<<coin, order.candle>>] = @ + 1]
  /\ UNCHANGED <<recon, manual, restarts>>

\* The exchange fills a market SELL of a lot it holds and rejects any other.
LiveSell(proceeds) ==
  /\ ExecuteSell(proceeds)
  /\ wallet.base[BaseOf[coin]] >= LotQty
  /\ wallet' = [quote |-> wallet.quote + proceeds,
                base |-> [wallet.base EXCEPT ![BaseOf[coin]] = @ - LotQty]]
  /\ UNCHANGED <<bought, recon, manual, restarts>>

\* BinanceAccount.apply_report leaves the cached balance alone.
LiveFinish ==
  /\ FinishTick(balance)
  /\ recon' = NoRecon
  /\ UNCHANGED <<wallet, bought, manual, restarts>>

\* The owner sells one unit of an asset on the exchange.
ManualSale(a) ==
  /\ manual < MaxManual /\ wallet.base[a] > 0
  /\ manual' = manual + 1
  /\ wallet' = [wallet EXCEPT !.base[a] = @ - 1]
  /\ UNCHANGED <<vars, bought, recon, restarts>>

LiveRaise ==
  /\ Raise
  /\ recon' = NoRecon
  /\ UNCHANGED <<wallet, bought, manual, restarts>>

\* Fault: the positions are restored as they were when the process died.
RestartRestores ==
  /\ pc = "raised" /\ restarts < MaxRestarts
  /\ restarts' = restarts + 1
  /\ mode' = "RUNNING" /\ guard' = {}
  /\ balance' = wallet.quote
  /\ pc' = "idle"
  /\ UNCHANGED <<pos, opened, held, slots, used, minute, coin, status, order, look,
                 todo, kept, report, wallet, bought, recon, manual>>

\* A new process builds a new service and account: no position, no guard, no
\* slot is remembered.
Restart ==
  /\ pc = "raised" /\ restarts < MaxRestarts
  /\ restarts' = restarts + 1
  /\ mode' = "RUNNING" /\ guard' = {}
  /\ pos' = [i \in Ids |-> NoPosition] /\ opened' = 0
  /\ held' = [c \in Coins |-> {}]
  /\ slots' = [c \in Coins |-> 0] /\ used' = [c \in Coins |-> 0]
  /\ balance' = wallet.quote
  /\ pc' = "idle"
  /\ UNCHANGED <<minute, coin, status, order, look, todo, kept, report, wallet,
                 bought, recon, manual>>

\* The steps of the service that do not reach the exchange.
InnerStep ==
  \/ SkipEntry
  \/ \E k \in Candles : DecideBuy(k)
  \/ OpenPosition
  \/ EndEntries
  \/ SkipExits
  \/ \E rsiHigh \in BOOLEAN : FetchExits(rsiHigh)
  \/ \E reached \in BOOLEAN : DecideExit(reached)
  \/ ClosePosition
  \/ KeepStillOpen

LiveNext ==
  \/ LiveBegin
  \/ \E spent \in 1..order.quote, fee \in 0..MaxFee : LiveBuy(spent, fee)
  \/ \E proceeds \in 0..MaxProceeds : LiveSell(proceeds)
  \/ LiveFinish
  \/ LiveRaise
  \/ Restart
  \/ \E a \in Assets : ManualSale(a)
  \/ (InnerStep \/ Environment) /\ UNCHANGED liveVars

LiveSpec == LiveInit /\ [][LiveNext]_allVars

-----------------------------------------------------------------------------
(* Properties *)

\* The exchange never fills two BUY orders of one coin and closed candle
\* (execution/gates.py, "even across restarts or retries").
OneOrderPerCandle == \A ck \in Coins \X Candles : bought[ck] <= 1

\* Until the first restart that promise is kept, a process that died included.
OneOrderPerProcess == restarts = 0 => OneOrderPerCandle

\* Lots of an asset that the service believes to own.
Tracked(a) ==
  Cardinality({i \in Ids : pos[i].state \in Live /\ BaseOf[pos[i].coin] = a})

\* The exchange holds every lot the service tracks, less what the owner sold and
\* the lot of a sale whose answer is being handled: no lot is tracked twice, and
\* none sold is tracked on, in a restarted process either.  A process that raised
\* tracks nothing any more.
HoldingsCovered ==
  \A a \in Assets :
    LET inFlight == IF pc = "sold" /\ BaseOf[coin] = a THEN LotQty ELSE 0
    IN pc # "raised" => wallet.base[a] + manual + inFlight >= LotQty * Tracked(a)

\* While nothing was sold by hand and no process died, the books are exact.
HoldingsExact ==
  (manual = 0 /\ restarts = 0 /\ pc = "idle") =>
    \A a \in Assets : wallet.base[a] = LotQty * Tracked(a)

\* A BUY is under way only in a tick whose account snapshot covered, coin by
\* coin, every position tracked before the tick.
NoBuyOnShortfall ==
  pc \in {"buying", "filled"} =>
    \A c \in Coins :
      Covered(recon.seen[BaseOf[c]], LotQty * (Cardinality(held[c]) - report.opened[c]))

\* A clean reconciliation means that the exchange held "at least the base
\* quantity the bot expects" (runtime/live.py), asset by asset.
CleanMeansCovered ==
  recon.clean /\ pc \in {"entries", "buying", "filled"} =>
    \A a \in Assets :
      Covered(recon.seen[a],
              LotQty * MapThenSumSet(LAMBDA c : Cardinality(held[c]) - report.opened[c],
                                     {c \in Coins : BaseOf[c] = a}))

\* "A dirty reconciliation keeps the gate closed so no order is placed"
\* (runtime/live.py): neither a BUY nor a SELL.
DirtyPlacesNoOrder == pc \in {"buying", "selling"} => recon.clean
=============================================================================
