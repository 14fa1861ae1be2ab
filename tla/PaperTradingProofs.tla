-------------------------- MODULE PaperTradingProofs --------------------------
(***************************************************************************)
(* Theorems about PaperTrading: the ledger, the metrics and the published  *)
(* snapshot agree with the positions for any number of coins, positions    *)
(* and ticks.  The service's invariant says what a step does to the        *)
(* positions; sums over coins and positions do the rest.                   *)
(***************************************************************************)
EXTENDS PaperTrading, TradingServiceProofs

-----------------------------------------------------------------------------
(* The paper loop takes the steps of the service *)

LEMMA PermissiveStatus == Permissive \in Status
BY DEF Permissive, Status

LEMMA TotalNat ==
  ASSUME NEW f, \A c \in Coins : f[c] \in Nat
  PROVE  Total(f) \in Nat
<1>1. IsFiniteSet(Coins)
  BY SizesAssumption, FS_Interval DEF Coins
<1> QED
  BY <1>1, SumNat DEF Total

LEMMA ReportTotals ==
  ASSUME TypeOK
  PROVE  /\ Total(report.opened) \in Nat /\ Total(report.closed) \in Nat
         /\ Total(report.invested) \in Nat /\ Total(report.released) \in Nat
         /\ Total(report.proceeds) \in Nat /\ Cash \in Int
<1>1. \A c \in Coins : /\ report.opened[c] \in Nat /\ report.closed[c] \in Nat
                       /\ report.invested[c] \in Nat /\ report.released[c] \in Nat
                       /\ report.proceeds[c] \in Nat
  BY DEF TypeOK, Report
<1>2. /\ Total(report.opened) \in Nat /\ Total(report.closed) \in Nat
      /\ Total(report.invested) \in Nat /\ Total(report.released) \in Nat
      /\ Total(report.proceeds) \in Nat
  BY <1>1, TotalNat
<1>3. balance \in Int
  BY DEF TypeOK
<1> QED
  BY <1>2, <1>3 DEF Cash

LEMMA NoReportTotals ==
  /\ Total(NoReport.opened) = 0 /\ Total(NoReport.closed) = 0
  /\ Total(NoReport.invested) = 0 /\ Total(NoReport.released) = 0
<1>1. IsFiniteSet(Coins)
  BY SizesAssumption, FS_Interval DEF Coins
<1>2. \A f : (\A c \in Coins : f[c] = 0) => SumOver(f, Coins) = 0
  BY <1>1, SumZero
<1> QED
  BY <1>2 DEF NoReport, Total

\* One coin's figure in the report grows.
LEMMA TotalBump ==
  ASSUME NEW f \in [Coins -> Nat], NEW c \in Coins, NEW n \in Nat
  PROVE  Total([f EXCEPT ![c] = @ + n]) = Total(f) + n
<1> DEFINE g == [f EXCEPT ![c] = @ + n]
<1>1. IsFiniteSet(Coins)
  BY SizesAssumption, FS_Interval DEF Coins
<1>2. g[c] = f[c] + n /\ n \in Int
  OBVIOUS
<1>3. \A x \in Coins : x # c => g[x] = f[x]
  OBVIOUS
<1>4. \A x \in Coins : f[x] \in Int
  OBVIOUS
<1>5. SumOver(g, Coins) = SumOver(f, Coins) + n
  <2> HIDE DEF g
  <2> QED
    BY <1>1, <1>2, <1>3, <1>4, SumBump
<1> QED
  BY <1>5 DEF Total

\* Every step but a failing build_status is one the service may take.
LEMMA PaperIsAny ==
  ASSUME IInv, [PaperNext]_allVars, ~PaperStatusFails
  PROVE  [AnyNext]_vars
<1>1. CASE PaperBegin
  <2>1. StartTick(TRUE, Permissive, balance) /\ balance \in Int
    BY <1>1 DEF PaperBegin, IInv, TypeOK
  <2> QED
    BY <2>1, PermissiveStatus DEF AnyNext
<1>2. ASSUME NEW fee \in 0..MaxFee, PaperBuy(fee) PROVE AnyNext
  <2>1. ExecuteBuy(order.quote + fee)
    BY <1>2 DEF PaperBuy
  <2>2. order.quote \in Nat /\ order.quote > 0
    BY <2>1 DEF IInv, TypeOK, Order, OrderInv, ExecuteBuy
  <2>3. order.quote + fee \in 1..(order.quote + MaxFee)
    BY <2>2, SizesAssumption
  <2> QED
    BY <2>1, <2>3 DEF AnyNext, TickStep
<1>3. ASSUME NEW proceeds \in 0..MaxProceeds, PaperSell(proceeds) PROVE AnyNext
  BY <1>3 DEF PaperSell, AnyNext, TickStep
<1>4. CASE PaperFinish
  BY <1>4, ReportTotals DEF IInv, PaperFinish, AnyNext
<1>5. CASE InnerStep \/ Raise \/ Environment
  BY <1>5 DEF InnerStep, AnyNext, TickStep
<1>6. CASE UNCHANGED allVars
  BY <1>6 DEF allVars
<1> QED
  BY <1>1, <1>2, <1>3, <1>4, <1>5, <1>6 DEF PaperNext

LEMMA InvPaperStatusFails ==
  ASSUME IInv, PaperStatusFails
  PROVE  IInv'
<1> USE SizesAssumption, CoinAssumption
<1>1. NumberedInv' /\ OneBuyPerCandle' /\ SlotLimit' /\ \A c : OpenOf(c)' = OpenOf(c)
  BY PositionsKept DEF PaperStatusFails, service
<1>2. report \in Report
  BY DEF IInv, TypeOK
<1>3. ASSUME NEW c \in Coins PROVE slots'[c] \in Nat
  <2>1. slots[c] \in Nat /\ report.opened[c] \in Nat /\ report.closed[c] \in Nat
    BY <1>2 DEF IInv, TypeOK, Report
  <2>2. slots'[c] = Greater(0, slots[c] + report.opened[c] - report.closed[c])
    BY DEF PaperStatusFails
  <2> QED
    BY <2>1, <2>2 DEF Greater
<1>4. ASSUME NEW c \in Coins
      PROVE  used'[c] \in Int /\ used'[c] <= CapitalLimit[c] + MaxFee
  <2>1. used'[c] = used[c] + report.invested[c] - report.released[c]
    BY DEF PaperStatusFails
  <2>2. used[c] \in Int /\ report.invested[c] \in Nat /\ report.released[c] \in Nat
    BY <1>2 DEF IInv, TypeOK, Report
  <2> QED
    BY <2>1, <2>2 DEF IInv, CapitalOverrun, Committed
<1>5. TypeOK'
  <2>1. slots' \in [Coins -> Nat] /\ used' \in [Coins -> Int]
    BY <1>3, <1>4 DEF PaperStatusFails
  <2>2. report' \in Report /\ status' \in Status
    BY DEF PaperStatusFails, Report, NoReport, Status, NoStatus
  <2>3. pc' \in PCs /\ coin' \in 1..(NumCoins + 1) /\ balance' \in Int
    BY ReportTotals DEF IInv, PaperStatusFails, PCs
  <2> QED
    BY <2>1, <2>2, <2>3 DEF IInv, PaperStatusFails, TypeOK, service
<1>6. FrameInv' /\ OrderInv' /\ SellsOpenPosition' /\ SlotsInv' /\ TrackedExactly'
  BY DEF PaperStatusFails, FrameInv, OrderInv, SellsOpenPosition, SlotsInv,
         TrackedExactly, InEntries, InExitLoop
<1>7. UsedInv' /\ CapitalOverrun'
  BY <1>4 DEF PaperStatusFails, UsedInv, CapitalOverrun, Committed, NoReport
<1> QED
  BY <1>1, <1>5, <1>6, <1>7 DEF IInv

LEMMA PaperInvNext == IInv /\ [PaperNext]_allVars => IInv'
BY PaperIsAny, InvNext, InvPaperStatusFails

-----------------------------------------------------------------------------
(* The open positions of all coins *)

LEMMA AllOpenFinite == IsFiniteSet(AllOpen) /\ AllOpen \subseteq Ids
<1>1. AllOpen \subseteq Ids
  BY DEF AllOpen, OpenOf
<1> QED
  BY <1>1, IdsFinite, FS_Subset

LEMMA AllOpenOpens ==
  ASSUME IInv, OpenPosition
  PROVE  /\ AllOpen' = AllOpen \cup {opened + 1}
         /\ opened + 1 \notin AllOpen
<1> DEFINE new == opened + 1
<1>1. coin \in Coins /\ \A c \in Coins : new \notin OpenOf(c)
  BY OpenFacts
<1>2. \A c \in Coins : OpenOf(c)' = IF c = coin THEN OpenOf(c) \cup {new} ELSE OpenOf(c)
  BY OpenFacts
<1> QED
  BY <1>1, <1>2 DEF AllOpen

LEMMA AllOpenCloses ==
  ASSUME IInv, ClosePosition
  PROVE  /\ AllOpen' = AllOpen \ {First(todo)}
         /\ First(todo) \in AllOpen
<1> DEFINE i == First(todo)
<1>1. coin \in Coins /\ i \in OpenOf(coin)
  BY CloseFacts
<1>2. \A c \in Coins : OpenOf(c)' = IF c = coin THEN OpenOf(c) \ {i} ELSE OpenOf(c)
  BY CloseFacts
<1>3. \A c \in Coins : i \in OpenOf(c) => c = coin
  BY <1>1 DEF OpenOf
<1> QED
  BY <1>1, <1>2, <1>3 DEF AllOpen

\* How many they are and what they cost, from one step to the next.
LEMMA OpensCounted ==
  ASSUME IInv, OpenPosition
  PROVE  /\ InvestedIn(AllOpen)' = InvestedIn(AllOpen) + order.fill
         /\ Cardinality(AllOpen)' = Cardinality(AllOpen) + 1
<1> DEFINE new == opened + 1
<1>1. PICK S, T, f, g, n : /\ S = AllOpen /\ T = AllOpen' /\ f = Cost /\ g = Cost'
                           /\ n = opened + 1
  OBVIOUS
<1>2. f \in [Ids -> Nat] /\ S \subseteq Ids /\ IsFiniteSet(S)
  BY <1>1, CostType, AllOpenFinite DEF IInv
<1>3. n \in Ids /\ g = [f EXCEPT ![n] = order.fill] /\ order.fill \in Nat
  BY <1>1, OpenFacts
<1>4. T = S \cup {n} /\ n \notin S
  BY <1>1, AllOpenOpens
<1>5. g[n] = order.fill /\ g[n] \in Int
  BY <1>2, <1>3
<1>6. \A x \in S : f[x] \in Int
  BY <1>2
<1>7. \A x \in S : g[x] = f[x]
  BY <1>2, <1>3, <1>4
<1>8. SumOver(g, S \cup {n}) = SumOver(f, S) + g[n]
  <2>1. IsFiniteSet(S) /\ n \notin S /\ g[n] \in Int
    BY <1>2, <1>4, <1>5
  <2> QED
    BY <1>6, <1>7, <2>1, SumGrows
<1>9. Cardinality(S \cup {n}) = Cardinality(S) + 1
  BY <1>2, <1>4, FS_AddElement
<1> QED
  BY <1>1, <1>4, <1>5, <1>8, <1>9 DEF InvestedIn

LEMMA ClosesCounted ==
  ASSUME IInv, ClosePosition
  PROVE  /\ InvestedIn(AllOpen)' = InvestedIn(AllOpen) - pos[First(todo)].invested
         /\ Cardinality(AllOpen)' = Cardinality(AllOpen) - 1
<1>1. PICK S, T, f, i : /\ S = AllOpen /\ T = AllOpen' /\ f = Cost /\ f = Cost'
                        /\ i = First(todo)
  BY CloseFacts
<1>2. f \in [Ids -> Nat] /\ S \subseteq Ids /\ IsFiniteSet(S)
  BY <1>1, CostType, AllOpenFinite DEF IInv
<1>3. T = S \ {i} /\ i \in S
  BY <1>1, AllOpenCloses
<1>4. \A x \in S : f[x] \in Int
  BY <1>2
<1>5. SumOver(f, S \ {i}) = SumOver(f, S) - f[i]
  BY <1>2, <1>3, <1>4, SumShrinks
<1>6. Cardinality(S \ {i}) = Cardinality(S) - 1
  BY <1>2, <1>3, FS_RemoveElement
<1>7. f[i] = pos[First(todo)].invested
  BY <1>1, <1>2, <1>3 DEF Cost
<1> QED
  BY <1>1, <1>3, <1>5, <1>6, <1>7 DEF InvestedIn

LEMMA InvestedInt ==
  ASSUME TypeOK
  PROVE  InvestedIn(AllOpen) \in Int /\ Cardinality(AllOpen) \in Nat
<1>1. \A x \in AllOpen : Cost[x] \in Int
  BY AllOpenFinite, CostType
<1> QED
  BY <1>1, AllOpenFinite, SumInt, FS_CardinalityType DEF InvestedIn

-----------------------------------------------------------------------------
(* What a step of the paper loop leaves alone *)

LEMMA PaperOpens ==
  ASSUME [PaperNext]_allVars, OpenPosition \/ ClosePosition
  PROVE  UNCHANGED <<balance, start, metrics, snapshot>>
BY DEF PaperNext, PaperBegin, StartTick, PaperBuy, ExecuteBuy, PaperSell, ExecuteSell,
       PaperFinish, FinishTick, PaperStatusFails, OpenPosition, ClosePosition, account,
       allVars, paperVars

LEMMA PaperRaises ==
  ASSUME [PaperNext]_allVars, Raise, ~PaperFinish, ~PaperStatusFails
  PROVE  UNCHANGED <<balance, start, metrics, snapshot>>
<1>1. balance' = balance
  BY DEF Raise, account
<1>2. ~PaperBegin
  BY DEF Raise, PaperBegin, StartTick
<1>3. UNCHANGED paperVars
  BY <1>2 DEF PaperNext, PaperBuy, PaperSell, allVars
<1> QED
  BY <1>1, <1>3 DEF paperVars

LEMMA PaperStays ==
  ASSUME [PaperNext]_allVars, ~OpenPosition, ~ClosePosition, ~Raise, ~PaperFinish,
         ~PaperStatusFails
  PROVE  /\ UNCHANGED <<opened, balance, report, start, metrics, snapshot>>
         /\ pc = "raised" => pc' = "raised"
<1>1. CASE PaperBegin
  BY <1>1 DEF PaperBegin, StartTick, service, paperVars
<1>2. CASE \E fee \in 0..MaxFee : PaperBuy(fee)
  BY <1>2 DEF PaperBuy, ExecuteBuy, service, account, paperVars
<1>3. CASE \E proceeds \in 0..MaxProceeds : PaperSell(proceeds)
  BY <1>3 DEF PaperSell, ExecuteSell, service, account, paperVars
<1>4. CASE InnerStep /\ UNCHANGED paperVars
  BY <1>4 DEF InnerStep, SkipEntry, DecideBuy, EndEntries, SkipExits, FetchExits,
              DecideExit, KeepStillOpen, service, account, paperVars
<1>5. CASE Environment /\ UNCHANGED paperVars
  BY <1>5 DEF Environment, RequestWithdrawal, Resume, MinutePasses, service, account,
              frame, paperVars
<1>6. CASE UNCHANGED allVars
  BY <1>6 DEF allVars, vars, service, account, frame, paperVars
<1> QED
  BY <1>1, <1>2, <1>3, <1>4, <1>5, <1>6 DEF PaperNext

LEMMA PaperOpenStays ==
  ASSUME IInv, [PaperNext]_allVars, ~OpenPosition, ~ClosePosition
  PROVE  /\ Cost' = Cost /\ \A c : OpenOf(c)' = OpenOf(c)
         /\ InvestedIn(AllOpen)' = InvestedIn(AllOpen)
         /\ Cardinality(AllOpen)' = Cardinality(AllOpen) /\ AllOpen' = AllOpen
<1>1. Cost' = Cost /\ \A c : OpenOf(c)' = OpenOf(c)
  <2>1. CASE PaperStatusFails
    BY <2>1 DEF PaperStatusFails, service, Cost, OpenOf
  <2>2. CASE ~PaperStatusFails
    BY <2>2, PaperIsAny, CostStays
  <2> QED
    BY <2>1, <2>2
<1> QED
  BY <1>1 DEF AllOpen, InvestedIn

-----------------------------------------------------------------------------
(* Money and trades *)

PaperTypeOK ==
  /\ start \in Int
  /\ metrics.trades \in Int /\ metrics.net \in Int

LEMMA PaperTypeNext == IInv /\ PaperTypeOK /\ [PaperNext]_allVars => PaperTypeOK'
<1> SUFFICES ASSUME IInv, PaperTypeOK, [PaperNext]_allVars PROVE PaperTypeOK'
  OBVIOUS
<1>1. CASE PaperFinish \/ PaperStatusFails
  <2>1. metrics' = Recorded /\ start' = start
    BY <1>1 DEF PaperFinish, PaperStatusFails
  <2> QED
    BY <2>1, ReportTotals DEF IInv, PaperTypeOK, Recorded
<1>2. CASE OpenPosition \/ ClosePosition
  BY <1>2, PaperOpens DEF PaperTypeOK
<1>3. CASE Raise /\ ~PaperFinish /\ ~PaperStatusFails
  BY <1>3, PaperRaises DEF PaperTypeOK
<1>4. CASE ~(PaperFinish \/ PaperStatusFails \/ OpenPosition \/ ClosePosition \/ Raise)
  BY <1>4, PaperStays DEF PaperTypeOK
<1> QED
  BY <1>1, <1>2, <1>3, <1>4

\* What a tick that comes to its end leaves on the books.
LEMMA FinishFacts ==
  ASSUME IInv, PaperFinish
  PROVE  /\ pc = "exits" /\ pc' = "idle" /\ balance' = Cash
         /\ report' = NoReport /\ opened' = opened /\ start' = start
         /\ metrics' = Recorded /\ snapshot' = StatusOf(Cash, Recorded)
         /\ held' = held
BY DEF PaperFinish, FinishTick, service

LEMMA MoneyNext ==
  IInv /\ PaperTypeOK /\ MoneyConserved /\ [PaperNext]_allVars => MoneyConserved'
<1> SUFFICES ASSUME IInv, PaperTypeOK, MoneyConserved, [PaperNext]_allVars,
                    pc' # "raised"
             PROVE  (balance - Total(report.invested) + Total(report.released)
                       + InvestedIn(AllOpen) = start + metrics.net)'
  BY DEF MoneyConserved
<1> DEFINE worth == balance - Total(report.invested) + Total(report.released)
                      + InvestedIn(AllOpen)
<1>1. /\ Total(report.invested) \in Nat /\ Total(report.released) \in Nat
      /\ Total(report.proceeds) \in Nat /\ balance \in Int /\ InvestedIn(AllOpen) \in Int
      /\ start \in Int /\ metrics.net \in Int /\ report \in Report
  BY ReportTotals, InvestedInt DEF IInv, TypeOK, PaperTypeOK
<1>2. CASE OpenPosition
  <2>1. worth = start + metrics.net
    BY <1>2 DEF MoneyConserved, OpenPosition
  <2>2. /\ report'.invested = [report.invested EXCEPT ![coin] = @ + order.fill]
        /\ report'.released = report.released /\ order.fill \in Nat /\ coin \in Coins
        /\ report.invested \in [Coins -> Nat]
    BY <1>1, <1>2, OpenFacts DEF Report
  <2>3. Total(report'.invested) = Total(report.invested) + order.fill
    BY <2>2, TotalBump
  <2>4. balance' = balance /\ start' = start /\ metrics' = metrics
    BY <1>2, PaperOpens
  <2>5. InvestedIn(AllOpen)' = InvestedIn(AllOpen) + order.fill
    BY <1>2, OpensCounted
  <2>6. Total(report.invested)' = Total(report'.invested)
        /\ Total(report.released)' = Total(report.released)
    BY <2>2 DEF Total
  <2> QED
    BY <1>1, <2>1, <2>2, <2>3, <2>4, <2>5, <2>6
<1>3. CASE ClosePosition
  <2> DEFINE cost == pos[First(todo)].invested
  <2>1. worth = start + metrics.net
    BY <1>3 DEF MoneyConserved, ClosePosition
  <2>2. /\ report'.released = [report.released EXCEPT ![coin] = @ + cost]
        /\ report'.invested = report.invested /\ cost \in Nat /\ coin \in Coins
        /\ report.released \in [Coins -> Nat]
    BY <1>1, <1>3, CloseFacts DEF Report, Position
  <2>3. Total(report'.released) = Total(report.released) + cost
    <3> HIDE DEF cost
    <3> QED
      BY <2>2, TotalBump
  <2>4. balance' = balance /\ start' = start /\ metrics' = metrics
    BY <1>3, PaperOpens
  <2>5. InvestedIn(AllOpen)' = InvestedIn(AllOpen) - cost
    BY <1>3, ClosesCounted
  <2>6. Total(report.released)' = Total(report'.released)
        /\ Total(report.invested)' = Total(report.invested)
    BY <2>2 DEF Total
  <2> HIDE DEF cost
  <2> QED
    BY <1>1, <2>1, <2>2, <2>3, <2>4, <2>5, <2>6
<1>4. CASE PaperFinish
  <2>1. worth = start + metrics.net
    BY <1>4, FinishFacts DEF MoneyConserved
  <2>2. balance' = balance - Total(report.invested) + Total(report.proceeds)
    BY <1>4, FinishFacts DEF Cash
  <2>3. metrics'.net = metrics.net + Total(report.proceeds) - Total(report.released)
    BY <1>4, FinishFacts DEF Recorded
  <2>4. Total(report.invested)' = 0 /\ Total(report.released)' = 0
    <3>1. report' = NoReport
      BY <1>4, FinishFacts
    <3> QED
      BY <3>1, NoReportTotals DEF Total
  <2>5. InvestedIn(AllOpen)' = InvestedIn(AllOpen) /\ start' = start
    BY <1>4, PaperOpenStays, FinishFacts DEF OpenPosition, ClosePosition
  <2>6. balance' + InvestedIn(AllOpen)' = start' + metrics'.net
    BY <1>1, <2>1, <2>2, <2>3, <2>5
  <2>7. balance' \in Int /\ InvestedIn(AllOpen)' \in Int
    BY <1>1, <2>2, <2>5
  <2>8. balance' - 0 + 0 + InvestedIn(AllOpen)' = start' + metrics'.net
    BY <2>6, <2>7
  <2> QED
    BY <2>4, <2>8
<1>5. CASE ~OpenPosition /\ ~ClosePosition /\ ~PaperFinish
  <2>1. ~Raise /\ ~PaperStatusFails
    BY DEF Raise, PaperStatusFails
  <2>2. /\ UNCHANGED <<balance, report, start, metrics>> /\ pc # "raised"
        /\ InvestedIn(AllOpen)' = InvestedIn(AllOpen)
    BY <1>5, <2>1, PaperStays, PaperOpenStays
  <2>3. worth = start + metrics.net
    BY <2>2 DEF MoneyConserved
  <2>4. /\ Total(report.invested)' = Total(report.invested)
        /\ Total(report.released)' = Total(report.released)
    BY <2>2 DEF Total
  <2> QED
    BY <2>2, <2>3, <2>4
<1> QED
  BY <1>2, <1>3, <1>4, <1>5

LEMMA TradesNext ==
  IInv /\ PaperTypeOK /\ TradesCounted /\ [PaperNext]_allVars => TradesCounted'
<1> SUFFICES ASSUME IInv, PaperTypeOK, TradesCounted, [PaperNext]_allVars,
                    pc' # "raised"
             PROVE  (metrics.trades + Total(report.closed) + Cardinality(AllOpen) = opened)'
  BY DEF TradesCounted
<1> DEFINE count == metrics.trades + Total(report.closed) + Cardinality(AllOpen)
<1>1. /\ Total(report.closed) \in Nat /\ Cardinality(AllOpen) \in Nat
      /\ metrics.trades \in Int /\ opened \in Nat /\ report \in Report
  BY ReportTotals, InvestedInt DEF IInv, TypeOK, PaperTypeOK
<1>2. CASE OpenPosition
  <2>1. count = opened
    BY <1>2 DEF TradesCounted, OpenPosition
  <2>2. report'.closed = report.closed /\ opened' = opened + 1 /\ metrics' = metrics
    BY <1>2, OpenFacts, PaperOpens
  <2>3. Cardinality(AllOpen)' = Cardinality(AllOpen) + 1
    BY <1>2, OpensCounted
  <2>4. Total(report.closed)' = Total(report.closed)
    BY <2>2 DEF Total
  <2> QED
    BY <1>1, <2>1, <2>2, <2>3, <2>4
<1>3. CASE ClosePosition
  <2>1. count = opened
    BY <1>3 DEF TradesCounted, ClosePosition
  <2>2. /\ report'.closed = [report.closed EXCEPT ![coin] = @ + 1] /\ coin \in Coins
        /\ report.closed \in [Coins -> Nat] /\ opened' = opened /\ metrics' = metrics
    BY <1>1, <1>3, CloseFacts, PaperOpens DEF Report
  <2>3. Total(report'.closed) = Total(report.closed) + 1
    BY <2>2, TotalBump
  <2>4. Cardinality(AllOpen)' = Cardinality(AllOpen) - 1
    BY <1>3, ClosesCounted
  <2>5. Total(report.closed)' = Total(report'.closed)
    BY DEF Total
  <2> QED
    BY <1>1, <2>1, <2>2, <2>3, <2>4, <2>5
<1>4. CASE PaperFinish
  <2>1. count = opened
    BY <1>4, FinishFacts DEF TradesCounted
  <2>2. metrics'.trades = metrics.trades + Total(report.closed) /\ opened' = opened
    BY <1>4, FinishFacts DEF Recorded
  <2>3. Total(report.closed)' = 0
    <3>1. report' = NoReport
      BY <1>4, FinishFacts
    <3> QED
      BY <3>1, NoReportTotals DEF Total
  <2>4. Cardinality(AllOpen)' = Cardinality(AllOpen)
    BY <1>4, PaperOpenStays, FinishFacts DEF OpenPosition, ClosePosition
  <2> QED
    BY <1>1, <2>1, <2>2, <2>3, <2>4
<1>5. CASE ~OpenPosition /\ ~ClosePosition /\ ~PaperFinish
  <2>1. ~Raise /\ ~PaperStatusFails
    BY DEF Raise, PaperStatusFails
  <2>2. /\ UNCHANGED <<opened, report, metrics>> /\ pc # "raised"
        /\ Cardinality(AllOpen)' = Cardinality(AllOpen)
    BY <1>5, <2>1, PaperStays, PaperOpenStays
  <2>3. count = opened
    BY <2>2 DEF TradesCounted
  <2>4. Total(report.closed)' = Total(report.closed)
    BY <2>2 DEF Total
  <2> QED
    BY <2>2, <2>3, <2>4
<1> QED
  BY <1>2, <1>3, <1>4, <1>5

-----------------------------------------------------------------------------
(* The snapshot *)

\* At the end of a tick the service's lists are the open positions.
LEMMA HeldIsOpen ==
  ASSUME IInv, pc = "exits"
  PROVE  UNION {held[c] : c \in Coins} = AllOpen
<1>1. \A c \in Coins : OpenOf(c) = held[c]
  BY DEF IInv, TrackedExactly
<1> QED
  BY <1>1 DEF AllOpen

LEMMA FinishStatus ==
  ASSUME IInv, PaperFinish
  PROVE  /\ snapshot'.available = balance' /\ snapshot'.net = metrics'.net
         /\ snapshot'.open = AllOpen /\ snapshot'.invested = InvestedIn(AllOpen)
         /\ AllOpen' = AllOpen /\ InvestedIn(AllOpen)' = InvestedIn(AllOpen)
<1>1. snapshot' = StatusOf(Cash, Recorded) /\ balance' = Cash /\ metrics' = Recorded
  BY FinishFacts
<1>2. UNION {held[c] : c \in Coins} = AllOpen
  BY HeldIsOpen, FinishFacts
<1>3. Cost' = Cost /\ \A c : OpenOf(c)' = OpenOf(c)
  BY DEF PaperFinish, FinishTick, service, Cost, OpenOf
<1>4. AllOpen' = AllOpen /\ InvestedIn(AllOpen)' = InvestedIn(AllOpen)
  BY <1>3 DEF AllOpen, InvestedIn
<1> QED
  BY <1>1, <1>2, <1>4 DEF StatusOf

LEMMA SnapshotAddsUpNext ==
  IInv /\ PaperTypeOK /\ MoneyConserved /\ SnapshotAddsUp /\ [PaperNext]_allVars
    => SnapshotAddsUp'
<1> SUFFICES ASSUME IInv, PaperTypeOK, MoneyConserved, SnapshotAddsUp,
                    [PaperNext]_allVars
             PROVE  SnapshotAddsUp'
  OBVIOUS
<1>1. CASE PaperFinish
  <2>1. report' = NoReport /\ pc' = "idle"
    BY <1>1, FinishFacts
  <2>2. Total(report.invested)' = 0 /\ Total(report.released)' = 0
    BY <2>1, NoReportTotals DEF Total
  <2>3. balance' - 0 + 0 + InvestedIn(AllOpen)' = start' + metrics'.net
    BY <2>1, <2>2, MoneyNext DEF MoneyConserved
  <2>4. balance' \in Int /\ InvestedIn(AllOpen)' \in Int
    <3>1. balance' \in Int
      BY PaperInvNext DEF IInv, TypeOK
    <3>2. InvestedIn(AllOpen)' = InvestedIn(AllOpen) /\ InvestedIn(AllOpen) \in Int
      BY <1>1, FinishStatus, InvestedInt DEF IInv
    <3> QED
      BY <3>1, <3>2
  <2>5. balance' + InvestedIn(AllOpen)' = start' + metrics'.net
    BY <2>3, <2>4
  <2>6. /\ snapshot'.available = balance' /\ snapshot'.net = metrics'.net
        /\ snapshot'.invested = InvestedIn(AllOpen)'
    BY <1>1, FinishStatus
  <2> QED
    BY <2>5, <2>6 DEF SnapshotAddsUp
<1>2. CASE PaperStatusFails
  BY <1>2 DEF PaperStatusFails, SnapshotAddsUp
<1>3. CASE ~PaperFinish /\ ~PaperStatusFails
  <2>1. snapshot' = snapshot /\ start' = start
    BY <1>3, PaperOpens, PaperRaises, PaperStays
  <2> QED
    BY <2>1 DEF SnapshotAddsUp
<1> QED
  BY <1>1, <1>2, <1>3

LEMMA SnapshotCurrentNext ==
  IInv /\ SnapshotCurrent /\ [PaperNext]_allVars => SnapshotCurrent'
<1> SUFFICES ASSUME IInv, SnapshotCurrent, [PaperNext]_allVars, pc' = "idle"
             PROVE  snapshot'.open = AllOpen'
  BY DEF SnapshotCurrent
<1>1. CASE PaperFinish
  BY <1>1, FinishStatus
<1>2. CASE ~PaperFinish
  <2>1. ~OpenPosition /\ ~ClosePosition /\ ~Raise /\ ~PaperStatusFails
    BY DEF OpenPosition, ClosePosition, Raise, PaperStatusFails
  <2>2. snapshot' = snapshot /\ AllOpen' = AllOpen
    BY <1>2, <2>1, PaperStays, PaperOpenStays
  <2>3. ~PaperBegin /\ ~InnerStep
    BY DEF PaperBegin, StartTick, InnerStep, SkipEntry, DecideBuy, OpenPosition,
           EndEntries, SkipExits, FetchExits, DecideExit, ClosePosition, KeepStillOpen
  <2>4. /\ \A fee \in 0..MaxFee : ~PaperBuy(fee)
        /\ \A proceeds \in 0..MaxProceeds : ~PaperSell(proceeds)
    BY DEF PaperBuy, ExecuteBuy, PaperSell, ExecuteSell
  <2>5. Environment \/ UNCHANGED allVars
    BY <1>2, <2>1, <2>3, <2>4 DEF PaperNext
  <2>6. pc = "idle"
    BY <2>5 DEF Environment, RequestWithdrawal, Resume, MinutePasses, allVars, vars, frame
  <2> QED
    BY <2>2, <2>6 DEF SnapshotCurrent
<1> QED
  BY <1>1, <1>2

-----------------------------------------------------------------------------
(* The overdraft *)

\* How many coins the entry loop has been through.
Visited == IF InEntries THEN coin - 1 ELSE NumCoins

\* What the entries of this tick may cost: the first order is covered by the
\* balance the gates read, each further one is not.
EntriesBound ==
  pc # "raised" =>
    \/ Total(report.invested) = 0
    \/ /\ Visited >= 1
       /\ Total(report.invested) <= balance + (Visited - 1) * LargestOrder
                                      + Visited * MaxFee

QuoteBound ==
  pc \in {"buying", "filled"} => order.quote <= balance /\ order.quote <= LargestOrder

LEMMA LargestIs ==
  LargestOrder \in Nat /\ \A c \in Coins : OrderQuote[c] <= LargestOrder
<1> DEFINE Q == {OrderQuote[c] : c \in Coins}
<1>1. IsFiniteSet(Coins) /\ 1 \in Coins
  BY SizesAssumption, FS_Interval DEF Coins
<1>2. IsFiniteSet(Q) /\ Q # {} /\ \A x \in Q : x \in Nat
  <2>1. OrderQuote \in [Coins -> Q] /\ \A x \in Q : \E c \in Coins : OrderQuote[c] = x
    BY CoinAssumption
  <2>2. OrderQuote \in Surjection(Coins, Q)
    BY <2>1 DEF Surjection
  <2>3. IsFiniteSet(Q)
    <3> HIDE DEF Q
    <3> QED
      BY <1>1, <2>2, FS_Surjection
  <2> QED
    BY <1>1, <2>3, CoinAssumption
<1>3. Max(Q) \in Q /\ \A y \in Q : y <= Max(Q)
  <2> HIDE DEF Q
  <2> QED
    BY <1>2, MaxIs
<1> QED
  BY <1>2, <1>3 DEF LargestOrder

LEMMA QuoteBoundNext == IInv /\ QuoteBound /\ [PaperNext]_allVars => QuoteBound'
<1> SUFFICES ASSUME IInv, QuoteBound, [PaperNext]_allVars, pc' \in {"buying", "filled"}
             PROVE  (order.quote <= balance /\ order.quote <= LargestOrder)'
  BY DEF QuoteBound
<1>1. ASSUME NEW k \in Candles, DecideBuy(k)
      PROVE  (order.quote <= balance /\ order.quote <= LargestOrder)'
  <2>1. /\ order'.quote = OrderSize(coin) /\ balance' = balance /\ coin \in Coins
        /\ OrderSize(coin) > 0 /\ balance >= OrderSize(coin)
    BY <1>1 DEF DecideBuy, GatesOpen, AlreadyProcessed, NoOrder, account
  <2>2. /\ OrderQuote[coin] \in Int /\ CapitalLimit[coin] \in Int /\ used[coin] \in Int
        /\ balance \in Int
    BY <2>1, CoinAssumption DEF IInv, TypeOK
  <2>3. OrderSize(coin) \in Int /\ OrderSize(coin) <= OrderQuote[coin]
    BY <2>1, <2>2 DEF OrderSize, Lesser
  <2>4. OrderQuote[coin] <= LargestOrder /\ LargestOrder \in Int
    BY <2>1, LargestIs
  <2> QED
    BY <2>1, <2>2, <2>3, <2>4 DEF LargestOrder
<1>2. ASSUME pc \in {"buying", "filled"}, order'.quote = order.quote, balance' = balance
      PROVE  (order.quote <= balance /\ order.quote <= LargestOrder)'
  BY <1>2 DEF QuoteBound, LargestOrder
<1>3. \/ \E k \in Candles : DecideBuy(k)
      \/ pc \in {"buying", "filled"} /\ order'.quote = order.quote /\ balance' = balance
  <2>1. CASE \E fee \in 0..MaxFee : PaperBuy(fee)
    BY <2>1 DEF PaperBuy, ExecuteBuy, account, IInv, TypeOK, Order
  <2>2. CASE Environment \/ UNCHANGED allVars
    BY <2>2 DEF Environment, RequestWithdrawal, Resume, MinutePasses, allVars, vars,
                frame, account
  <2>3. CASE InnerStep
    BY <2>3 DEF InnerStep, SkipEntry, OpenPosition, EndEntries, SkipExits, FetchExits,
                DecideExit, ClosePosition, KeepStillOpen
  <2>4. ~PaperBegin /\ ~PaperFinish /\ ~PaperStatusFails /\ ~Raise
        /\ \A proceeds \in 0..MaxProceeds : ~PaperSell(proceeds)
    BY DEF PaperBegin, StartTick, PaperFinish, FinishTick, PaperStatusFails, Raise,
           PaperSell, ExecuteSell
  <2> QED
    BY <2>1, <2>2, <2>3, <2>4 DEF PaperNext
<1> QED
  BY <1>1, <1>2, <1>3

\* The entry that OpenPosition adds to the report.
LEMMA EntryBound ==
  ASSUME IInv, QuoteBound, EntriesBound, OpenPosition, [PaperNext]_allVars
  PROVE  EntriesBound'
<1>1. /\ coin \in Nat /\ coin >= 1 /\ order.fill \in Nat /\ MaxFee \in Nat
      /\ LargestOrder \in Nat /\ balance \in Int /\ Total(report.invested) \in Nat
  <2>1. coin \in Coins /\ order.fill \in Nat
    BY OpenFacts
  <2>2. coin \in Nat /\ coin >= 1
    BY <2>1, SizesAssumption DEF Coins
  <2>3. balance \in Int /\ Total(report.invested) \in Nat
    BY ReportTotals DEF IInv, TypeOK
  <2> QED
    BY <2>1, <2>2, <2>3, LargestIs, SizesAssumption
<1>2. /\ order.fill <= balance + MaxFee /\ order.fill <= LargestOrder + MaxFee
  <2>1. order.quote \in Nat /\ order.fill <= order.quote + MaxFee
    BY DEF IInv, TypeOK, Order, OrderInv, OpenPosition
  <2>2. order.quote <= balance /\ order.quote <= LargestOrder
    BY DEF QuoteBound, OpenPosition
  <2> QED
    BY <1>1, <2>1, <2>2
<1>3. Total(report'.invested) = Total(report.invested) + order.fill
  <2>1. /\ report'.invested = [report.invested EXCEPT ![coin] = @ + order.fill]
        /\ report.invested \in [Coins -> Nat] /\ coin \in Coins
    BY OpenFacts DEF Report
  <2> QED
    BY <1>1, <2>1, TotalBump
<1>4. Visited = coin - 1 /\ Visited' = coin
  BY <1>1, OpenFacts DEF Visited, InEntries
<1>5. /\ (coin - 1) * LargestOrder \in Nat /\ (coin - 1) * MaxFee \in Nat
      /\ coin * MaxFee = (coin - 1) * MaxFee + MaxFee
      /\ coin - 1 >= 1 => (coin - 1) * LargestOrder = (coin - 2) * LargestOrder + LargestOrder
  <2>1. \A m, n \in Nat : m * n \in Nat /\ (m + 1) * n = m * n + n
    OBVIOUS
  <2>2. coin - 1 \in Nat /\ (coin - 1 >= 1 => coin - 2 \in Nat)
    BY <1>1
  <2> QED
    BY <1>1, <2>1, <2>2
<1>6. /\ Total(report'.invested) <= balance + (coin - 1) * LargestOrder + coin * MaxFee
  <2>1. CASE Total(report.invested) = 0
    BY <1>1, <1>2, <1>3, <1>5, <2>1
  <2>2. CASE /\ coin - 1 >= 1
             /\ Total(report.invested) <= balance + (coin - 2) * LargestOrder
                                            + (coin - 1) * MaxFee
    <3>1. (coin - 2) * LargestOrder \in Int
      BY <1>1
    <3> QED
      BY <1>1, <1>2, <1>3, <1>5, <2>2, <3>1
  <2> QED
    BY <1>1, <1>4, <2>1, <2>2 DEF EntriesBound, OpenPosition
<1>7. balance' = balance /\ Total(report.invested)' = Total(report'.invested)
  BY PaperOpens DEF Total
<1>8. (Total(report.invested) <= balance + (Visited - 1) * LargestOrder + Visited * MaxFee)'
  BY <1>4, <1>6, <1>7 DEF LargestOrder
<1> QED
  BY <1>1, <1>4, <1>8 DEF EntriesBound

LEMMA EntriesBoundNext ==
  IInv /\ QuoteBound /\ EntriesBound /\ [PaperNext]_allVars => EntriesBound'
<1> SUFFICES ASSUME IInv, QuoteBound, EntriesBound, [PaperNext]_allVars PROVE EntriesBound'
  OBVIOUS
<1>1. CASE OpenPosition
  BY <1>1, EntryBound
<1>2. CASE report' = NoReport
  BY <1>2, NoReportTotals DEF EntriesBound, Total
<1>3. ASSUME NEW m \in Nat, NEW n \in Nat, m = Visited, n = Visited', m <= n,
             report'.invested = report.invested, balance' = balance, pc # "raised"
      PROVE  EntriesBound'
  <2>1. Total(report.invested)' = Total(report.invested) /\ LargestOrder' = LargestOrder
    BY <1>3 DEF Total, LargestOrder
  <2>2. CASE Total(report.invested) = 0
    BY <2>1, <2>2 DEF EntriesBound
  <2>3. CASE /\ m >= 1
             /\ Total(report.invested) <= balance + (m - 1) * LargestOrder + m * MaxFee
    <3>1. (m - 1) * LargestOrder <= (n - 1) * LargestOrder /\ m * MaxFee <= n * MaxFee
      <4>1. \A a, b, x \in Nat : a <= b => a * x <= b * x
        OBVIOUS
      <4>2. m \in Nat /\ n \in Nat /\ m <= n /\ m >= 1
        BY <1>3, <2>3
      <4>3. m - 1 \in Nat /\ n - 1 \in Nat /\ m - 1 <= n - 1
        BY <4>2
      <4> QED
        BY <4>1, <4>2, <4>3, LargestIs, SizesAssumption
    <3>2. balance \in Int /\ LargestOrder \in Int /\ MaxFee \in Int
          /\ Total(report.invested) \in Int
      BY LargestIs, SizesAssumption, ReportTotals DEF IInv, TypeOK
    <3>3. /\ (m - 1) * LargestOrder \in Int /\ (n - 1) * LargestOrder \in Int
          /\ m * MaxFee \in Int /\ n * MaxFee \in Int
      BY <3>2
    <3>4. Total(report.invested) <= balance + (n - 1) * LargestOrder + n * MaxFee
      BY <2>3, <3>1, <3>2, <3>3
    <3>5. n >= 1
      BY <1>3, <2>3
    <3> QED
      BY <1>3, <2>1, <3>4, <3>5 DEF EntriesBound
  <2> QED
    BY <1>3, <2>2, <2>3 DEF EntriesBound
<1>4. CASE ~OpenPosition /\ report' # NoReport
  <2>1. ~Raise /\ ~PaperFinish /\ ~PaperStatusFails
    BY <1>4 DEF Raise, PaperFinish, FinishTick, PaperStatusFails
  <2>2. balance' = balance /\ report'.invested = report.invested /\ pc # "raised"
    <3>1. CASE ClosePosition
      BY <3>1, PaperOpens, CloseFacts DEF ClosePosition
    <3>2. CASE ~ClosePosition
      <4>1. report' = report /\ balance' = balance
        BY <1>4, <2>1, <3>2, PaperStays
      <4> QED
        BY <1>4, <4>1 DEF IInv, FrameInv
    <3> QED
      BY <3>1, <3>2
  <2>3. Visited \in Nat /\ Visited' \in Nat /\ Visited' >= Visited
    <3>1. coin \in 1..(NumCoins + 1) /\ NumCoins \in Nat /\ coin' \in 1..(NumCoins + 1)
      BY PaperInvNext, SizesAssumption DEF IInv, TypeOK
    <3>2. \A x \in 1..(NumCoins + 1) : x - 1 \in Nat /\ x - 1 <= NumCoins
      BY <3>1
    <3>3. CASE ~InEntries'
      <4>1. Visited' = NumCoins /\ Visited \in {coin - 1, NumCoins}
        BY <3>3 DEF Visited
      <4> QED
        BY <3>1, <3>2, <4>1
    <3>4. CASE InEntries' /\ InEntries /\ coin' >= coin
      <4>1. Visited = coin - 1 /\ Visited' = coin' - 1
        BY <3>4 DEF Visited
      <4>2. coin \in Int /\ coin' \in Int /\ coin' >= coin
        BY <3>1, <3>4
      <4>3. \A x, y \in Int : y >= x => y - 1 >= x - 1
        OBVIOUS
      <4> QED
        BY <3>1, <3>2, <4>1, <4>2, <4>3
    <3>5. InEntries' => InEntries /\ coin' >= coin
      <4>1. ~PaperBegin
        <5>1. SUFFICES ASSUME PaperBegin PROVE FALSE
          OBVIOUS
        <5>2. pc = "idle" /\ report' = report
          BY <5>1 DEF PaperBegin, StartTick
        <5> QED
          BY <1>4, <5>2 DEF IInv, FrameInv
      <4>2. ~InEntries' \/ (InEntries /\ coin' \in {coin, coin + 1})
        <5>1. CASE Environment \/ UNCHANGED allVars
          BY <5>1 DEF Environment, RequestWithdrawal, Resume, MinutePasses, allVars, vars,
                      frame, InEntries
        <5>2. CASE InnerStep
          BY <1>4, <5>2 DEF InnerStep, SkipEntry, DecideBuy, EndEntries, SkipExits,
                      FetchExits, DecideExit, ClosePosition, KeepStillOpen, InEntries
        <5>3. CASE \E fee \in 0..MaxFee : PaperBuy(fee)
          BY <5>3 DEF PaperBuy, ExecuteBuy, InEntries
        <5>4. CASE \E proceeds \in 0..MaxProceeds : PaperSell(proceeds)
          BY <5>4 DEF PaperSell, ExecuteSell, InEntries
        <5> QED
          BY <2>1, <4>1, <5>1, <5>2, <5>3, <5>4 DEF PaperNext
      <4> QED
        BY <3>1, <4>2
    <3> QED
      BY <3>3, <3>4, <3>5
  <2> QED
    BY <1>3, <2>2, <2>3
<1> QED
  BY <1>1, <1>2, <1>4

\* At the end of the tick the entries are debited and the exits credited.
LEMMA OverdraftNext ==
  IInv /\ PaperTypeOK /\ EntriesBound /\ OverdraftBound /\ [PaperNext]_allVars
    => OverdraftBound'
<1> SUFFICES ASSUME IInv, PaperTypeOK, EntriesBound, OverdraftBound, [PaperNext]_allVars
             PROVE  OverdraftBound'
  OBVIOUS
<1> DEFINE overdraft == (NumCoins - 1) * LargestOrder + NumCoins * MaxFee
<1>1. /\ NumCoins - 1 \in Nat /\ NumCoins \in Nat /\ LargestOrder \in Nat /\ MaxFee \in Nat
      /\ balance \in Int
      /\ Total(report.invested) \in Nat /\ Total(report.proceeds) \in Nat
  <2>1. NumCoins \in Nat /\ NumCoins # 0 /\ MaxFee \in Nat
    BY SizesAssumption
  <2>2. NumCoins - 1 \in Nat
    BY <2>1
  <2>3. balance \in Int
    BY DEF IInv, TypeOK
  <2> QED
    BY <2>1, <2>2, <2>3, LargestIs, ReportTotals DEF IInv
<1>2. overdraft \in Nat
  <2>1. \A m, n \in Nat : m * n \in Nat /\ m + n \in Nat
    OBVIOUS
  <2> QED
    BY <1>1, <2>1
<1> DEFINE low == Lesser(0, start)
<1>3. balance >= low - overdraft /\ low \in Int /\ low <= 0
  BY DEF OverdraftBound, PaperTypeOK, Lesser
<1>4. start' = start /\ (~PaperFinish /\ ~PaperStatusFails => balance' = balance)
  BY PaperOpens, PaperRaises, PaperStays DEF PaperFinish, PaperStatusFails
<1>5. ASSUME balance' = Cash, pc = "exits" PROVE OverdraftBound'
  <2>1. balance' = balance - Total(report.invested) + Total(report.proceeds)
    BY <1>5 DEF Cash
  <2>2. Total(report.invested) = 0 \/ Total(report.invested) <= balance + overdraft
    <3>1. Visited = NumCoins
      BY <1>5 DEF Visited, InEntries
    <3>2. \/ Total(report.invested) = 0
          \/ Total(report.invested) <= balance + (NumCoins - 1) * LargestOrder
                                         + NumCoins * MaxFee
      BY <1>5, <3>1 DEF EntriesBound
    <3>3. (NumCoins - 1) * LargestOrder \in Int /\ NumCoins * MaxFee \in Int
      BY <1>1
    <3> QED
      BY <1>1, <3>2, <3>3
  <2>3. balance' >= low - overdraft
    <3> HIDE DEF overdraft, low
    <3> QED
      BY <1>1, <1>2, <1>3, <2>1, <2>2
  <2> QED
    BY <1>4, <2>3 DEF OverdraftBound, LargestOrder
<1>6. CASE PaperFinish \/ PaperStatusFails
  BY <1>5, <1>6, FinishFacts DEF PaperStatusFails
<1>7. CASE ~PaperFinish /\ ~PaperStatusFails
  BY <1>3, <1>4, <1>7 DEF OverdraftBound, LargestOrder
<1> QED
  BY <1>6, <1>7

-----------------------------------------------------------------------------
(* Theorems *)

PaperInv ==
  /\ IInv /\ PaperTypeOK /\ MoneyConserved /\ TradesCounted
  /\ SnapshotAddsUp /\ SnapshotCurrent
  /\ QuoteBound /\ EntriesBound /\ OverdraftBound

LEMMA PaperInvInit == PaperInit => PaperInv
<1> SUFFICES ASSUME PaperInit PROVE PaperInv
  OBVIOUS
<1>1. IInv /\ Init /\ balance \in Int
  BY InvInit DEF PaperInit, IInv, TypeOK
<1>2. AllOpen = {} /\ UNION {held[c] : c \in Coins} = {}
  BY <1>1 DEF Init, AllOpen, OpenOf, NoPosition, Live
<1>3. InvestedIn({}) = 0 /\ Cardinality({}) = 0
  BY SumUnfold, FS_EmptySet DEF InvestedIn
<1>4. /\ Total(report.opened) = 0 /\ Total(report.closed) = 0
      /\ Total(report.invested) = 0 /\ Total(report.released) = 0
  BY <1>1, NoReportTotals DEF Init
<1>5. /\ start = balance /\ metrics = [trades |-> 0, net |-> 0]
      /\ snapshot.available = balance /\ snapshot.open = {} /\ snapshot.invested = 0
      /\ snapshot.net = 0
  BY <1>2, <1>3 DEF PaperInit, StatusOf
<1>6. PaperTypeOK /\ SnapshotAddsUp
  BY <1>1, <1>5 DEF PaperTypeOK, SnapshotAddsUp
<1>7. MoneyConserved
  <2>1. balance - 0 + 0 + 0 = start + 0
    BY <1>1, <1>5
  <2> QED
    BY <1>2, <1>3, <1>4, <1>5, <2>1 DEF MoneyConserved
<1>8. TradesCounted
  BY <1>1, <1>2, <1>3, <1>4, <1>5 DEF TradesCounted, Init
<1>9. SnapshotCurrent
  BY <1>2, <1>5 DEF SnapshotCurrent
<1>10. QuoteBound /\ EntriesBound
  BY <1>1, <1>4 DEF Init, QuoteBound, EntriesBound
<1>11. OverdraftBound
  <2>1. NumCoins - 1 \in Nat /\ NumCoins \in Nat /\ LargestOrder \in Nat /\ MaxFee \in Nat
    <3>1. NumCoins \in Nat /\ NumCoins # 0 /\ MaxFee \in Nat
      BY SizesAssumption
    <3>2. NumCoins - 1 \in Nat
      BY <3>1
    <3> QED
      BY <3>1, <3>2, LargestIs
  <2>2. (NumCoins - 1) * LargestOrder + NumCoins * MaxFee \in Nat
    <3>1. \A m, n \in Nat : m * n \in Nat /\ m + n \in Nat
      OBVIOUS
    <3> QED
      BY <2>1, <3>1
  <2>3. \A x \in Nat : balance >= Lesser(0, balance) - x
    BY <1>1 DEF Lesser
  <2> QED
    BY <1>5, <2>2, <2>3 DEF OverdraftBound
<1> QED
  BY <1>1, <1>6, <1>7, <1>8, <1>9, <1>10, <1>11 DEF PaperInv

LEMMA PaperInvariance == PaperSpec => []PaperInv
<1>1. PaperInv /\ [PaperNext]_allVars => PaperInv'
  BY PaperInvNext, PaperTypeNext, MoneyNext, TradesNext, SnapshotAddsUpNext,
     SnapshotCurrentNext, QuoteBoundNext, EntriesBoundNext, OverdraftNext DEF PaperInv
<1> QED
  BY <1>1, PaperInvInit, PTL DEF PaperSpec

\* No money appears or vanishes, whatever the coins, prices and commissions
\* (LedgerAccount and MetricsTracker).
THEOREM MoneyConservedHolds == PaperSpec => []MoneyConserved
<1>1. PaperInv => MoneyConserved
  BY DEF PaperInv
<1> QED
  BY <1>1, PaperInvariance, PTL

\* Every position is open or was counted as one trade (MetricsTracker).
THEOREM TradesCountedHolds == PaperSpec => []TradesCounted
<1>1. PaperInv => TradesCounted
  BY DEF PaperInv
<1> QED
  BY <1>1, PaperInvariance, PTL

\* The overdraft of a ledger whose gate reads the balance before the tick: one
\* order for every coin but the first, and the commissions.
THEOREM OverdraftBoundHolds == PaperSpec => []OverdraftBound
<1>1. PaperInv => OverdraftBound
  BY DEF PaperInv
<1> QED
  BY <1>1, PaperInvariance, PTL

\* The published snapshot adds up at every moment (build_status).
THEOREM SnapshotAddsUpHolds == PaperSpec => []SnapshotAddsUp
<1>1. PaperInv => SnapshotAddsUp
  BY DEF PaperInv
<1> QED
  BY <1>1, PaperInvariance, PTL

\* Between ticks it shows the positions the service really holds.
THEOREM SnapshotCurrentHolds == PaperSpec => []SnapshotCurrent
<1>1. PaperInv => SnapshotCurrent
  BY DEF PaperInv
<1> QED
  BY <1>1, PaperInvariance, PTL
=============================================================================
