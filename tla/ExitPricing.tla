----------------------------- MODULE ExitPricing -----------------------------
(***************************************************************************)
(* What the sales of one exit loop are decided on and what they bring:     *)
(* TradingService.tick gets the order book of a coin once, every position  *)
(* is priced on that snapshot (execution/orderbook.py, execution/pnl.py,   *)
(* strategy/exit.py), and every sale is filled by the exchange's book as   *)
(* it is then.  What a position cost and may sell comes from the fills of  *)
(* its purchase (exchange/fills.py), what is ordered from the symbol's     *)
(* filters (exchange/filters.py), the book from a request or from the      *)
(* stream's cache (exchange/binance_ws.py), and the commission of a sale   *)
(* from its own fills: it need not be the one the cost model expects.  All *)
(* positions are eligible: they are armed, or the mode is                  *)
(* WITHDRAWAL_REQUESTED.                                                   *)
(*                                                                         *)
(* Prices and quantities are whole units; sums of money are counted in     *)
(* hundredths of a percent, so that fees and targets stay whole.           *)
(***************************************************************************)
EXTENDS Integers, Sequences, FiniteSets, Sums

CONSTANTS
  Purchases, \* the fills each position was bought with
  Books,     \* bid ladders the market may show: sequences of [price, qty]
  Filters,   \* whether the coin's filters may be loaded, a subset of BOOLEAN
  Streams,   \* whether the book may come from the stream, a subset of BOOLEAN
  Charges,   \* commissions the exchange may charge for a sale
  Marks,     \* prices the exchange may value an order at
  Step,      \* the exchange's stepSize for market orders
  MinQty,    \* its minQty
  MaxQty,    \* its maxQty
  MinNotional, \* its minNotional
  Fee,       \* exit_fee_rate, in hundredths of a percent
  Buffer,    \* safety_buffer_frac, in hundredths of a percent
  Target,    \* minimum net profit, in hundredths of a percent
  MaxMoves   \* bound on the moves of the market

Whole == 10000
Positions == 1..Len(Purchases)
Fill == [price : Nat \ {0}, qty : Nat \ {0}, commission : Nat, asset : {"base", "quote"}]
Level == [price : Nat, qty : Nat]
Charge == [rate : 0..Whole, asset : {"quote", "other"}]

VARIABLES
  filters,   \* whether config.filters has the coin
  streaming, \* whether the market data port is StreamingMarketData
  bids,      \* the exchange's bids of the symbol
  mark,      \* the price it values orders at
  sent,      \* the last depth payload the exchange has sent
  cached,    \* StreamingMarketData._books of the symbol
  snapshot,  \* order_book, as the exit loop fetched it
  wallet,    \* the exchange's balances since the purchases: base, and quote earned
  pc,        \* where the exit loop is
  current,   \* the position it looks at
  sales,     \* of each position sold: its gross_proceeds and net_pnl, the rate that
             \* was charged, whether the bids it was sold into were those of the
             \* snapshot, and the best of them
  moves      \* how often the market has moved

config == <<filters, streaming>>
market == <<bids, mark, sent, moves>>
loop   == <<snapshot, pc, current, sales>>
vars   == <<config, market, cached, wallet, loop>>

-----------------------------------------------------------------------------
(* The purchase *)

\* aggregate_entry and _commission_in_quote: a commission in the base asset is
\* valued at the average price, and is not there to be sold.
Bought(p)     == [i \in DOMAIN Purchases[p] |-> Purchases[p][i].qty]
Paid(p)       == [i \in DOMAIN Purchases[p] |-> Purchases[p][i].price * Purchases[p][i].qty]
FilledBase(p) == SumOver(Bought(p), DOMAIN Purchases[p])
TrueCost(p)   == SumOver(Paid(p), DOMAIN Purchases[p])
Commission(p, asset) ==
  SumOver([i \in DOMAIN Purchases[p] |-> Purchases[p][i].commission],
          {i \in DOMAIN Purchases[p] : Purchases[p][i].asset = asset})
FeesQuote(p)  ==
  Commission(p, "quote") + (Commission(p, "base") * TrueCost(p)) \div FilledBase(p)
Invested(p)   == TrueCost(p) + FeesQuote(p)

\* sellable_base_qty.
Sellable(p) == FilledBase(p) - Commission(p, "base")

\* What the exchange has taken from the wallet for a position.
Spent(p) == TrueCost(p) + Commission(p, "quote")

ASSUME PricingAssumption ==
  /\ Purchases \in Seq(Seq(Fill))
  /\ \A p \in Positions :
       /\ FilledBase(p) > 0 /\ Sellable(p) >= 0
       /\ (Commission(p, "base") * TrueCost(p)) % FilledBase(p) = 0
  /\ Filters \subseteq BOOLEAN /\ Streams \subseteq BOOLEAN
  /\ Charges \subseteq Charge /\ Marks \subseteq Nat
  /\ Step \in Nat \ {0} /\ MinQty \in Nat \ {0} /\ MaxQty \in Nat /\ MinNotional \in Nat
  /\ Fee \in 0..Whole /\ Buffer \in 0..Whole /\ Target \in Nat
  /\ MaxMoves \in Nat
  /\ \A b \in Books : b \in Seq(Level)

-----------------------------------------------------------------------------
(* The order book *)

Lesser(m, n) == IF m <= n THEN m ELSE n

\* Fault: the levels stay in the order of the payload.
FromLevelsUnsorted(b) == b

\* OrderBook.from_levels: best bid first, equal prices as they came.
Before(b, i, j) ==
  b[i].price > b[j].price \/ (b[i].price = b[j].price /\ i < j)
Rank(b, i) == Cardinality({j \in DOMAIN b : Before(b, j, i)}) + 1
FromLevels(b) == [r \in DOMAIN b |-> b[CHOOSE i \in DOMAIN b : Rank(b, i) = r]]

\* The loop of estimate_sell_proceeds: after level i, what is left to sell and
\* what was earned.
Walk(b, quantity) ==
  LET after[i \in 0..Len(b)] ==
        IF i = 0 THEN [left |-> quantity, proceeds |-> 0]
        ELSE LET take == Lesser(after[i - 1].left, b[i].qty)
             IN [left |-> after[i - 1].left - take,
                 proceeds |-> after[i - 1].proceeds + take * b[i].price]
  IN after

Proceeds(b, quantity) == Walk(b, quantity)[Len(b)].proceeds
FilledQty(b, quantity) == quantity - Walk(b, quantity)[Len(b)].left

\* What a market sell leaves of the bids.
Consumed(b, quantity) ==
  [i \in DOMAIN b |->
     [b[i] EXCEPT !.qty = @ - (Walk(b, quantity)[i - 1].left - Walk(b, quantity)[i].left)]]

\* Fault: the whole quantity is priced at the best bid.
EstimatedNetAtBest(p) ==
  IF snapshot = <<>> THEN 0
  ELSE Sellable(p) * snapshot[1].price * (Whole - Fee - Buffer) - Invested(p) * Whole

\* estimate_net_pnl.
EstimatedNet(p) ==
  Proceeds(snapshot, Sellable(p)) * (Whole - Fee - Buffer) - Invested(p) * Whole
TargetNet(p) == Invested(p) * Target

\* Fault: the quantity is rounded up.
RoundQuantityUp(quantity) == ((quantity + Step - 1) \div Step) * Step

\* SymbolFilters.round_quantity.
RoundQuantity(quantity) == (quantity \div Step) * Step

\* Fault: the filters are not applied.
SellQtyUnrounded(p) == Sellable(p)

\* try_exit: what is ordered; without filters, all there is.
SellQty(p) == IF filters THEN RoundQuantity(Sellable(p)) ELSE Sellable(p)

\* SymbolFilters.quantity_ok and notional_ok.  A market order has no price of its
\* own: the exchange takes a recent one of the market.
QuantityOk(quantity) ==
  quantity >= MinQty /\ quantity <= MaxQty /\ quantity % Step = 0
NotionalOk(price, quantity) == price * quantity >= MinNotional

\* The exchange applies its filters, whether the program has loaded them or not,
\* and looks at the balance.
Accepted(quantity) ==
  QuantityOk(quantity) /\ NotionalOk(mark, quantity) /\ quantity <= wallet.base

\* Fault: realized_pnl leaves out the commissions of the sale.
RealizedNetBeforeFees(p, gross, rate) == (gross - Invested(p)) * Whole

\* realized_pnl, the commissions of the sell fills being rate of the proceeds.
RealizedNet(p, gross, rate) == gross * (Whole - rate) - Invested(p) * Whole

-----------------------------------------------------------------------------
Init ==
  /\ filters \in Filters /\ streaming \in Streams
  /\ bids \in {FromLevels(b) : b \in Books}
  /\ mark \in Marks
  /\ sent = <<>> /\ cached = <<>> /\ snapshot = <<>>
  /\ wallet = [base |-> SumOver([p \in Positions |-> Sellable(p)], Positions), quote |-> 0]
  /\ pc = "idle" /\ current = 1
  /\ sales = <<>>
  /\ moves = 0

Unsold == Positions \ DOMAIN sales

\* get_order_book, once for all open positions of the coin.
FetchBook ==
  /\ pc = "idle" /\ Unsold # {}
  /\ snapshot' = IF streaming THEN cached ELSE FromLevels(bids)
  /\ pc' = "deciding" /\ current' = 1
  /\ UNCHANGED <<config, market, cached, wallet, sales>>

\* should_sell_normal of an armed position, should_sell_withdrawal of any.
Decide ==
  /\ pc = "deciding" /\ current \in Positions
  /\ IF current \in Unsold /\ EstimatedNet(current) >= TargetNet(current)
       THEN pc' = "selling" /\ UNCHANGED current
       ELSE pc' = pc /\ current' = current + 1
  /\ UNCHANGED <<config, market, cached, wallet, snapshot, sales>>

\* What market_sell does at the exchange: it sells into its own bids and takes the
\* commission, from the proceeds if it is in quote.
Market(quantity, charge) ==
  /\ pc = "selling" /\ Accepted(quantity) /\ FilledQty(bids, quantity) > 0
  /\ wallet' = [base  |-> wallet.base - FilledQty(bids, quantity),
                quote |-> wallet.quote + Proceeds(bids, quantity)
                            * (Whole - (IF charge.asset = "quote" THEN charge.rate ELSE 0))]
  /\ bids' = Consumed(bids, quantity)

\* market_sell, realized_pnl and mark_closed: the position is closed whatever was
\* filled.
Sell(charge) ==
  LET quantity == SellQty(current)
      gross    == Proceeds(bids, quantity)
  IN /\ charge.asset = "quote" /\ Market(quantity, charge)
     /\ sales' = [p \in DOMAIN sales \cup {current} |->
                     IF p = current
                       THEN [gross |-> gross, net |-> RealizedNet(p, gross, charge.rate),
                             rate |-> charge.rate, asSeen |-> bids = snapshot,
                             best |-> bids[1].price]
                       ELSE sales[p]]
     /\ pc' = "deciding" /\ current' = current + 1
     /\ UNCHANGED <<config, mark, sent, moves, cached, snapshot>>

\* _commission_in_quote raises on a commission in a third asset, as the command line
\* sets no commission_rates: the coins are sold and the process ends.
SellUnvalued(charge) ==
  /\ charge.asset = "other" /\ Market(SellQty(current), charge)
  /\ pc' = "unvalued"
  /\ UNCHANGED <<config, mark, sent, moves, cached, snapshot, current, sales>>

\* The order is rejected, or nothing was filled and realized_pnl raises: the
\* process ends.
SellFails ==
  /\ pc = "selling"
  /\ \/ ~Accepted(SellQty(current)) /\ pc' = "rejected"
     \/ /\ Accepted(SellQty(current)) /\ FilledQty(bids, SellQty(current)) = 0
        /\ pc' = "unfilled"
  /\ UNCHANGED <<config, market, cached, wallet, snapshot, current, sales>>

EndLoop ==
  /\ pc = "deciding" /\ current \notin Positions
  /\ pc' = "idle" /\ snapshot' = <<>>
  /\ UNCHANGED <<config, market, cached, wallet, current, sales>>

\* As long as the process lives.
MarketMoves ==
  /\ moves < MaxMoves /\ pc \in {"idle", "deciding", "selling"}
  /\ moves' = moves + 1
  /\ bids' \in {FromLevels(b) : b \in Books} /\ mark' \in Marks
  /\ UNCHANGED <<config, sent, cached, wallet, loop>>

\* The exchange sends a depth payload when it likes; it is delivered later, twice
\* or never.
DepthSent ==
  /\ streaming
  /\ sent' = bids
  /\ UNCHANGED <<config, bids, mark, moves, cached, wallet, loop>>

\* apply_depth.
DepthArrives ==
  /\ streaming
  /\ cached' = FromLevels(sent)
  /\ UNCHANGED <<config, market, wallet, loop>>

Next ==
  \/ FetchBook \/ Decide \/ SellFails \/ EndLoop
  \/ \E charge \in Charges : Sell(charge) \/ SellUnvalued(charge)
  \/ MarketMoves \/ DepthSent \/ DepthArrives

Spec == Init /\ [][Next]_vars

-----------------------------------------------------------------------------
(* Properties *)

\* The walk down the bids is the best any sale of the quantity could do: no
\* other split over the levels earns more (OrderBook.estimate_sell_proceeds).
Splits(b, quantity) ==
  {f \in [DOMAIN b -> 0..quantity] :
     /\ \A i \in DOMAIN b : f[i] <= b[i].qty
     /\ SumOver(f, DOMAIN b) <= quantity}
Earned(b, f) == SumOver([i \in DOMAIN b |-> f[i] * b[i].price], DOMAIN b)
EstimateIsBest ==
  \A p \in Positions :
    /\ \A f \in Splits(bids, Sellable(p)) : Earned(bids, f) <= Proceeds(bids, Sellable(p))
    /\ \E f \in Splits(bids, Sellable(p)) : Earned(bids, f) = Proceeds(bids, Sellable(p))

\* A sale into the very bids it was priced on misses its target at most by what the
\* exchange charges beyond the fee and the buffer of the cost model, and by the
\* remainder of a step: that is in the estimate (execution/pnl.py), and is cut off
\* the order when the filters are loaded.
Excess(rate) == IF rate > Fee + Buffer THEN rate - (Fee + Buffer) ELSE 0
SalesAsSeenMeetTarget ==
  \A p \in DOMAIN sales :
    sales[p].asSeen =>
      sales[p].net + sales[p].gross * Excess(sales[p].rate)
        + (Sellable(p) - SellQty(p)) * sales[p].best * (Whole - Fee - Buffer)
          >= TargetNet(p)

\* The position whose sale could not be valued: sold, and on the books for ever.
Orphaned == IF pc = "unvalued" THEN {current} ELSE {}

\* Whatever was sold, in full or in part, the exchange holds all of every position
\* that is not: an open position can be sold in full.
UnsoldCovered ==
  wallet.base >= SumOver([p \in Positions |-> Sellable(p)], Unsold \ Orphaned)

\* No profit is reported that was not earned, and none kept quiet unless the process
\* dies of it: the net results of the sales are what the wallet has gained by them,
\* less the worth of the commissions in the base asset, which count as cost although
\* they were never there to be sold.
ProfitIsEarned ==
  LET gained == wallet.quote - Whole * SumOver([p \in Positions |-> Spent(p)], DOMAIN sales)
      net    == SumOver([p \in DOMAIN sales |-> sales[p].net], DOMAIN sales)
      worth  == SumOver([p \in Positions |-> FeesQuote(p) - Commission(p, "quote")],
                        DOMAIN sales)
  IN /\ gained >= net + Whole * worth
     /\ Orphaned = {} => gained = net + Whole * worth

\* An order is only ever rejected for its size, never for want of coins, and for the
\* exchange's grid only where the filters were not loaded.
RejectedForCause ==
  pc = "rejected" =>
    LET quantity == SellQty(current)
    IN \/ quantity < MinQty \/ quantity > MaxQty \/ ~NotionalOk(mark, quantity)
       \/ ~filters /\ quantity % Step # 0

\* Positions are "never sold at a loss" (strategy/exit.py), even if nobody else
\* trades.
NeverSoldAtLoss == moves = 0 => \A p \in DOMAIN sales : sales[p].net >= 0
=============================================================================
