------------------------ MODULE TradingServiceProofs ------------------------
(***************************************************************************)
(* Theorems about TradingService, for every value of its constants.  One   *)
(* inductive invariant, IInv, carries them all: what the program counter   *)
(* says about the tick's local variables is what makes the account's stale *)
(* view good enough for the slot and capital limits.                       *)
(***************************************************************************)
EXTENDS TradingService, SumTheorems, FiniteSetTheorems, TLAPS

-----------------------------------------------------------------------------
(* The inductive invariant *)

InEntries  == pc \in {"entries", "buying", "filled"}
InExitLoop == pc \in {"exiting", "selling", "sold"}

\* What the place in the tick says about its local variables.
FrameInv ==
  /\ pc \in {"buying", "filled"} \/ InExitLoop => coin \in Coins
  /\ pc \in {"idle", "raised"} => report = NoReport
  /\ InEntries => \A c \in Coins : report.closed[c] = 0 /\ report.released[c] = 0
  /\ InEntries => \A c \in Coins :
       c >= coin => report.opened[c] = 0 /\ report.invested[c] = 0
  /\ InExitLoop => todo \cap kept = {}

\* An order under way still satisfies the gates it was decided on.
OrderInv ==
  pc \in {"buying", "filled"} =>
    /\ opened < MaxPositions
    /\ order.candle \in Candles /\ <<coin, order.candle>> \notin guard
    /\ slots[coin] < SlotCount[coin]
    /\ order.quote > 0 /\ order.quote <= CapitalLimit[coin] - used[coin]
    /\ pc = "filled" => order.fill <= order.quote + MaxFee

\* Positions are numbered in the order of opening, and each is in the guard.
NumberedInv ==
  \A i \in Ids :
    /\ i <= opened => /\ pos[i].state # "NONE" /\ pos[i].coin \in Coins
                      /\ <<pos[i].coin, pos[i].candle>> \in guard
    /\ i > opened => pos[i] = NoPosition

\* The account and the report together count the open positions.
SlotsInv ==
  pc # "raised" =>
    \A c \in Coins :
      slots[c] + report.opened[c] - report.closed[c] = Cardinality(OpenOf(c))

UsedInv == \A c \in Coins : used[c] <= CapitalLimit[c] + MaxFee

IInv ==
  /\ TypeOK /\ FrameInv /\ OrderInv /\ NumberedInv /\ SlotsInv /\ UsedInv
  /\ OneBuyPerCandle /\ SlotLimit /\ CapitalOverrun /\ TrackedExactly
  /\ SellsOpenPosition

-----------------------------------------------------------------------------
(* Lemmas about the operators *)

\* The first of a non-empty set of ids is one of them.
LEMMA FirstIn ==
  ASSUME NEW S \in SUBSET Ids, S # {}
  PROVE  First(S) \in S
<1>1. Ids \subseteq Nat
  BY SizesAssumption DEF Ids
<1>2. PICK m \in S : \A n \in S : m <= n
  <2>1. S \in SUBSET Nat
    BY <1>1
  <2> QED
    BY <2>1, LeastNatural
<1> QED
  BY <1>2 DEF First

\* The size of an order is an integer within the coin's headroom.
LEMMA OrderSizeBound ==
  ASSUME TypeOK, NEW c \in Coins
  PROVE  /\ OrderSize(c) \in Int
         /\ OrderSize(c) > 0 => OrderSize(c) <= CapitalLimit[c] - used[c]
<1>1. CapitalLimit[c] \in Nat /\ SlotCount[c] \in Nat \ {0} /\ used[c] \in Int
  BY CoinAssumption DEF TypeOK
<1>2. OrderQuote[c] \in Int
  BY CoinAssumption
<1> QED
  BY <1>1, <1>2 DEF OrderSize, Lesser

\* The open positions of a coin are finitely many.
LEMMA OpenFinite ==
  ASSUME NEW c
  PROVE  IsFiniteSet(OpenOf(c)) /\ Cardinality(OpenOf(c)) \in Nat
<1>1. IsFiniteSet(Ids)
  BY SizesAssumption, FS_Interval DEF Ids
<1>2. OpenOf(c) \in SUBSET Ids
  BY DEF OpenOf
<1>3. IsFiniteSet(OpenOf(c))
  BY <1>1, <1>2, FS_Subset
<1> QED
  BY <1>3, FS_CardinalityType

\* Init establishes the invariant.
LEMMA InvInit == Init => IInv
<1> SUFFICES ASSUME Init PROVE IInv
  OBVIOUS
<1> USE SizesAssumption, CoinAssumption
<1>1. TypeOK
  <2>1. pos \in [Ids -> Position]
    BY DEF Init, Position, NoPosition, PositionStates
  <2>2. report \in Report
    BY DEF Init, Report, NoReport
  <2>3. status \in Status /\ order \in Order
    BY DEF Init, Status, NoStatus, Order, NoOrder
  <2>4. coin \in 1..(NumCoins + 1) /\ pc \in PCs
    BY DEF Init, PCs
  <2>5. guard \in SUBSET (Coins \X Candles) /\ held \in [Coins -> SUBSET Ids]
    BY DEF Init
  <2>6. /\ slots \in [Coins -> Nat] /\ used \in [Coins -> Int]
        /\ balance \in Int /\ minute \in Nat /\ opened \in 0..MaxPositions
    BY DEF Init
  <2> QED
    BY <2>1, <2>2, <2>3, <2>4, <2>5, <2>6 DEF Init, TypeOK
<1>2. \A c \in Coins : OpenOf(c) = {} /\ Cardinality(OpenOf(c)) = 0
  BY FS_EmptySet DEF Init, OpenOf, NoPosition, Live
<1>3. FrameInv /\ OrderInv
  BY DEF Init, FrameInv, OrderInv, InEntries, InExitLoop
<1>4. NumberedInv /\ OneBuyPerCandle
  BY DEF Init, NumberedInv, OneBuyPerCandle, Ids
<1>5. SlotsInv /\ SlotLimit
  BY <1>2 DEF Init, SlotsInv, SlotLimit, NoReport
<1>6. UsedInv /\ CapitalOverrun
  BY DEF Init, UsedInv, CapitalOverrun, Committed, NoReport
<1>7. TrackedExactly /\ SellsOpenPosition
  BY <1>2 DEF Init, TrackedExactly, SellsOpenPosition
<1> QED
  BY <1>1, <1>3, <1>4, <1>5, <1>6, <1>7 DEF IInv
-----------------------------------------------------------------------------
(* Steps that touch neither the positions nor the account *)

\* What only speaks of the positions survives a step that leaves them alone.
LEMMA PositionsKept ==
  ASSUME IInv, UNCHANGED <<guard, pos, opened>>
  PROVE  NumberedInv' /\ OneBuyPerCandle' /\ SlotLimit' /\ \A c : OpenOf(c)' = OpenOf(c)
<1>1. \A c : OpenOf(c)' = OpenOf(c)
  BY DEF OpenOf
<1>2. SlotLimit'
  BY <1>1 DEF IInv, SlotLimit
<1> QED
  BY <1>1, <1>2 DEF IInv, NumberedInv, OneBuyPerCandle

\* What relates positions, account and report survives a step that leaves all
\* three alone and does not come from a dead process.
LEMMA AccountKept ==
  ASSUME IInv, UNCHANGED <<guard, pos, opened, slots, used, report>>, pc # "raised"
  PROVE  SlotsInv' /\ UsedInv' /\ CapitalOverrun'
<1>1. \A c : OpenOf(c)' = OpenOf(c)
  BY PositionsKept
<1>2. SlotsInv'
  BY <1>1 DEF IInv, SlotsInv
<1> QED
  BY <1>2 DEF IInv, UsedInv, CapitalOverrun, Committed

LEMMA InvStartTick ==
  ASSUME IInv, NEW running \in BOOLEAN, NEW s \in Status, NEW b \in Int,
         StartTick(running, s, b)
  PROVE  IInv'
<1> USE SizesAssumption, CoinAssumption
<1>1. TypeOK'
  <2>1. status' \in Status /\ balance' \in Int
    <3>1. status' = s \/ status' = NoStatus
      BY DEF StartTick
    <3>2. NoStatus \in Status
      BY DEF Status, NoStatus
    <3> QED
      BY <3>1, <3>2 DEF StartTick
  <2>2. pc' \in PCs /\ coin' \in 1..(NumCoins + 1)
    BY DEF StartTick, PCs
  <2> QED
    BY <2>1, <2>2 DEF IInv, StartTick, TypeOK, service
<1>2. NumberedInv' /\ OneBuyPerCandle' /\ SlotLimit' /\ \A c : OpenOf(c)' = OpenOf(c)
  BY PositionsKept DEF StartTick, service
<1>3. SlotsInv' /\ UsedInv' /\ CapitalOverrun'
  BY AccountKept DEF StartTick, service
<1>4. FrameInv'
  BY DEF IInv, FrameInv, StartTick, InEntries, InExitLoop, NoReport
<1>5. OrderInv' /\ SellsOpenPosition'
  BY DEF StartTick, OrderInv, SellsOpenPosition
<1>6. TrackedExactly'
  BY <1>2 DEF IInv, StartTick, service, TrackedExactly
<1> QED
  BY <1>1, <1>2, <1>3, <1>4, <1>5, <1>6 DEF IInv

\* The cursor moves past a coin, or from the entry loop to the exit loop.
LEMMA InvAdvance ==
  ASSUME IInv, SkipEntry \/ EndEntries \/ SkipExits
  PROVE  IInv'
<1> USE SizesAssumption, CoinAssumption
<1>1. TypeOK'
  <2>1. CASE SkipEntry
    BY <2>1 DEF IInv, SkipEntry, TypeOK, service, account, Coins
  <2>2. CASE EndEntries
    BY <2>2 DEF IInv, EndEntries, TypeOK, service, account, PCs, Status, NoStatus
  <2>3. CASE SkipExits
    BY <2>3 DEF IInv, SkipExits, TypeOK, service, account, Coins
  <2> QED
    BY <2>1, <2>2, <2>3
<1>2. NumberedInv' /\ OneBuyPerCandle' /\ SlotLimit' /\ \A c : OpenOf(c)' = OpenOf(c)
  BY PositionsKept DEF SkipEntry, EndEntries, SkipExits, service
<1>3. SlotsInv' /\ UsedInv' /\ CapitalOverrun'
  BY AccountKept DEF SkipEntry, EndEntries, SkipExits, service, account
<1>4. FrameInv'
  <2>1. ASSUME SkipEntry, NEW c \in Coins, c >= coin'
        PROVE  report'.opened[c] = 0 /\ report'.invested[c] = 0
    <3>1. c >= coin
      BY <2>1 DEF SkipEntry, Coins
    <3> QED
      BY <2>1, <3>1 DEF IInv, FrameInv, SkipEntry, InEntries
  <2>2. CASE SkipEntry
    BY <2>1, <2>2 DEF IInv, FrameInv, SkipEntry, InEntries, InExitLoop
  <2>3. CASE EndEntries \/ SkipExits
    BY <2>3 DEF IInv, FrameInv, EndEntries, SkipExits, InEntries, InExitLoop
  <2> QED
    BY <2>2, <2>3
<1>5. OrderInv' /\ SellsOpenPosition'
  BY DEF SkipEntry, EndEntries, SkipExits, OrderInv, SellsOpenPosition
<1>6. TrackedExactly'
  BY <1>2 DEF IInv, SkipEntry, EndEntries, SkipExits, service, TrackedExactly
<1> QED
  BY <1>1, <1>2, <1>3, <1>4, <1>5, <1>6 DEF IInv

LEMMA InvDecideBuy ==
  ASSUME IInv, NEW k \in Candles, DecideBuy(k)
  PROVE  IInv'
<1> USE SizesAssumption, CoinAssumption
<1>1. OrderSize(coin) \in Nat /\ OrderSize(coin) <= CapitalLimit[coin] - used[coin]
  BY OrderSizeBound DEF IInv, DecideBuy, GatesOpen, AlreadyProcessed
<1>2. TypeOK'
  <2>1. order' \in Order
    BY <1>1 DEF DecideBuy, Order, NoOrder
  <2> QED
    BY <2>1 DEF IInv, DecideBuy, TypeOK, service, account, PCs
<1>3. NumberedInv' /\ OneBuyPerCandle' /\ SlotLimit' /\ \A c : OpenOf(c)' = OpenOf(c)
  BY PositionsKept DEF DecideBuy, service
<1>4. SlotsInv' /\ UsedInv' /\ CapitalOverrun'
  BY AccountKept DEF DecideBuy, service, account
<1>5. FrameInv'
  BY DEF IInv, FrameInv, DecideBuy, InEntries, InExitLoop
<1>6. OrderInv'
  BY <1>1 DEF DecideBuy, GatesOpen, AlreadyProcessed, OrderInv, NoOrder, service, account
<1>7. TrackedExactly' /\ SellsOpenPosition'
  BY <1>3 DEF IInv, DecideBuy, service, TrackedExactly, SellsOpenPosition
<1> QED
  BY <1>2, <1>3, <1>4, <1>5, <1>6, <1>7 DEF IInv

LEMMA InvExecuteBuy ==
  ASSUME IInv, NEW cost \in 1..(order.quote + MaxFee), ExecuteBuy(cost)
  PROVE  IInv'
<1> USE SizesAssumption, CoinAssumption
<1>1. order.quote \in Nat /\ cost \in Nat /\ cost <= order.quote + MaxFee
  BY DEF IInv, TypeOK, Order
<1>2. TypeOK'
  <2>1. order' \in Order
    BY <1>1 DEF IInv, ExecuteBuy, Order, TypeOK
  <2> QED
    BY <2>1 DEF IInv, ExecuteBuy, TypeOK, service, account, PCs
<1>3. NumberedInv' /\ OneBuyPerCandle' /\ SlotLimit' /\ \A c : OpenOf(c)' = OpenOf(c)
  BY PositionsKept DEF ExecuteBuy, service
<1>4. SlotsInv' /\ UsedInv' /\ CapitalOverrun'
  BY AccountKept DEF ExecuteBuy, service, account
<1>5. FrameInv'
  BY DEF IInv, FrameInv, ExecuteBuy, InEntries, InExitLoop
<1>6. OrderInv'
  BY <1>1 DEF IInv, TypeOK, Order, ExecuteBuy, OrderInv, service, account
<1>7. TrackedExactly' /\ SellsOpenPosition'
  BY <1>3 DEF IInv, ExecuteBuy, service, TrackedExactly, SellsOpenPosition
<1> QED
  BY <1>2, <1>3, <1>4, <1>5, <1>6, <1>7 DEF IInv

LEMMA InvFetchExits ==
  ASSUME IInv, NEW rsiHigh \in BOOLEAN, FetchExits(rsiHigh)
  PROVE  IInv'
<1> USE SizesAssumption, CoinAssumption
<1>1. TypeOK'
  BY DEF IInv, FetchExits, TypeOK, service, account, PCs
<1>2. NumberedInv' /\ OneBuyPerCandle' /\ SlotLimit' /\ \A c : OpenOf(c)' = OpenOf(c)
  BY PositionsKept DEF FetchExits, service
<1>3. SlotsInv' /\ UsedInv' /\ CapitalOverrun'
  BY AccountKept DEF FetchExits, service, account
<1>4. FrameInv'
  BY DEF IInv, FrameInv, FetchExits, InEntries, InExitLoop
<1>5. OrderInv' /\ SellsOpenPosition'
  BY DEF FetchExits, OrderInv, SellsOpenPosition
<1>6. TrackedExactly'
  BY <1>2 DEF IInv, FetchExits, service, TrackedExactly
<1> QED
  BY <1>1, <1>2, <1>3, <1>4, <1>5, <1>6 DEF IInv

LEMMA InvExecuteSell ==
  ASSUME IInv, NEW proceeds \in Nat, ExecuteSell(proceeds)
  PROVE  IInv'
<1> USE SizesAssumption, CoinAssumption
<1>1. TypeOK'
  <2>1. order' \in Order
    BY DEF IInv, ExecuteSell, Order, TypeOK
  <2> QED
    BY <2>1 DEF IInv, ExecuteSell, TypeOK, service, account, PCs
<1>2. NumberedInv' /\ OneBuyPerCandle' /\ SlotLimit' /\ \A c : OpenOf(c)' = OpenOf(c)
  BY PositionsKept DEF ExecuteSell, service
<1>3. SlotsInv' /\ UsedInv' /\ CapitalOverrun'
  BY AccountKept DEF ExecuteSell, service, account
<1>4. FrameInv'
  BY DEF IInv, FrameInv, ExecuteSell, InEntries, InExitLoop
<1>5. OrderInv' /\ SellsOpenPosition'
  BY <1>2 DEF IInv, ExecuteSell, OrderInv, SellsOpenPosition
<1>6. TrackedExactly'
  BY <1>2 DEF IInv, ExecuteSell, service, TrackedExactly
<1> QED
  BY <1>1, <1>2, <1>3, <1>4, <1>5, <1>6 DEF IInv

LEMMA InvKeepStillOpen ==
  ASSUME IInv, KeepStillOpen
  PROVE  IInv'
<1> USE SizesAssumption, CoinAssumption
<1>1. coin \in Coins
  BY DEF IInv, FrameInv, InExitLoop, KeepStillOpen
<1>2. TypeOK'
  <2>1. coin' \in 1..(NumCoins + 1) /\ pc' \in PCs
    BY <1>1 DEF KeepStillOpen, Coins, PCs
  <2> QED
    BY <2>1 DEF IInv, KeepStillOpen, TypeOK, account
<1>3. NumberedInv' /\ OneBuyPerCandle' /\ SlotLimit' /\ \A c : OpenOf(c)' = OpenOf(c)
  BY PositionsKept DEF KeepStillOpen
<1>4. SlotsInv' /\ UsedInv' /\ CapitalOverrun'
  BY AccountKept DEF KeepStillOpen, account
<1>5. FrameInv' /\ OrderInv' /\ SellsOpenPosition'
  BY DEF IInv, FrameInv, KeepStillOpen, InEntries, InExitLoop, OrderInv,
         SellsOpenPosition
<1>6. TrackedExactly'
  <2>1. OpenOf(coin) = kept /\ \A c \in Coins : c # coin => OpenOf(c) = held[c]
    BY <1>1 DEF IInv, TrackedExactly, KeepStillOpen
  <2>2. held' = [held EXCEPT ![coin] = kept] /\ held \in [Coins -> SUBSET Ids]
    BY DEF KeepStillOpen, IInv, TypeOK
  <2> QED
    BY <1>1, <1>3, <2>1, <2>2 DEF TrackedExactly, KeepStillOpen
<1> QED
  BY <1>2, <1>3, <1>4, <1>5, <1>6 DEF IInv

\* A dead process: the report is lost, the positions and the account stay.
LEMMA InvRaise ==
  ASSUME IInv, Raise
  PROVE  IInv'
<1> USE SizesAssumption, CoinAssumption
<1>1. TypeOK'
  <2>1. report' \in Report
    BY DEF Raise, Report, NoReport
  <2>2. status' \in Status /\ order' \in Order
    BY DEF Raise, Status, NoStatus, Order, NoOrder
  <2>3. pc' \in PCs /\ coin' \in 1..(NumCoins + 1)
    BY DEF Raise, PCs
  <2> QED
    BY <2>1, <2>2, <2>3 DEF IInv, Raise, TypeOK, service, account
<1>2. NumberedInv' /\ OneBuyPerCandle' /\ SlotLimit'
  BY PositionsKept DEF Raise, service
<1>3. CapitalOverrun' /\ UsedInv'
  BY DEF IInv, TypeOK, UsedInv, CapitalOverrun, Committed, Raise, account, NoReport
<1>4. FrameInv' /\ OrderInv' /\ SlotsInv' /\ TrackedExactly' /\ SellsOpenPosition'
  BY DEF Raise, FrameInv, OrderInv, SlotsInv, TrackedExactly, SellsOpenPosition,
         InEntries, InExitLoop
<1> QED
  BY <1>1, <1>2, <1>3, <1>4 DEF IInv

\* The operator changes the mode, time passes, by any amount, or nothing happens.
Outside ==
  /\ mode' \in {"RUNNING", "WITHDRAWAL_REQUESTED"} /\ minute' \in Nat
  /\ UNCHANGED <<guard, pos, opened, held, account, frame>>

LEMMA InvOutside ==
  ASSUME IInv, Environment \/ Outside \/ UNCHANGED vars
  PROVE  IInv'
<1> USE SizesAssumption, CoinAssumption
<1>1. /\ UNCHANGED <<guard, pos, opened, held, slots, used, balance>>
      /\ UNCHANGED <<pc, coin, status, order, look, todo, kept, report>>
      /\ mode' \in {"RUNNING", "WITHDRAWAL_REQUESTED"} /\ minute' \in Nat
  BY DEF IInv, TypeOK, Environment, RequestWithdrawal, Resume, MinutePasses, Outside,
         vars, service, account, frame
<1>2. TypeOK'
  BY <1>1 DEF IInv, TypeOK
<1>3. NumberedInv' /\ OneBuyPerCandle' /\ SlotLimit' /\ \A c : OpenOf(c)' = OpenOf(c)
  BY <1>1, PositionsKept
<1>4. SlotsInv' /\ UsedInv' /\ CapitalOverrun'
  BY <1>1, <1>3 DEF IInv, SlotsInv, UsedInv, CapitalOverrun, Committed
<1>5. FrameInv' /\ OrderInv'
  BY <1>1 DEF IInv, FrameInv, OrderInv, InEntries, InExitLoop
<1>6. TrackedExactly' /\ SellsOpenPosition'
  BY <1>1, <1>3 DEF IInv, TrackedExactly, SellsOpenPosition
<1> QED
  BY <1>2, <1>3, <1>4, <1>5, <1>6 DEF IInv

-----------------------------------------------------------------------------
(* Steps that open, arm or close a position, and the end of the tick *)

\* What opening a position does.
LEMMA OpenFacts ==
  ASSUME IInv, OpenPosition
  PROVE  LET new == opened + 1
         IN
          /\ coin \in Coins /\ new \in Ids /\ opened \in Nat
          /\ pos \in [Ids -> Position] /\ pos[new] = NoPosition
          /\ order.candle \in Candles /\ order.fill \in Nat
          /\ report \in Report /\ held \in [Coins -> SUBSET Ids]
          /\ pos' = [pos EXCEPT ![new] =
                       [coin |-> coin, candle |-> order.candle, invested |-> order.fill,
                       state |-> "OPEN"]]
          /\ guard' = guard \cup {<<coin, order.candle>>}
          /\ held' = [held EXCEPT ![coin] = @ \cup {new}]
          /\ opened' = new /\ pc = "filled" /\ pc' = "entries" /\ coin' = coin + 1
          /\ report'.opened = [report.opened EXCEPT ![coin] = @ + 1]
          /\ report'.invested = [report.invested EXCEPT ![coin] = @ + order.fill]
          /\ report'.closed = report.closed /\ report'.released = report.released
          /\ report' \in Report
          /\ \A c \in Coins : new \notin OpenOf(c)
          /\ \A c \in Coins :
               OpenOf(c)' = IF c = coin THEN OpenOf(c) \cup {new} ELSE OpenOf(c)
          /\ Cost' = [Cost EXCEPT ![new] = order.fill]
<1> DEFINE new == opened + 1
<1> USE SizesAssumption, CoinAssumption
<1>1. /\ coin \in Coins /\ new \in Ids /\ opened \in Nat
      /\ pos \in [Ids -> Position] /\ pos[new] = NoPosition
      /\ order.candle \in Candles /\ order.fill \in Nat
      /\ report \in Report /\ held \in [Coins -> SUBSET Ids]
  <2>1. coin \in Coins
    BY DEF IInv, FrameInv, OpenPosition
  <2>2. opened \in Nat /\ opened < MaxPositions /\ order.candle \in Candles
    BY DEF IInv, OrderInv, OpenPosition, TypeOK
  <2>3. order.fill \in Nat
    BY DEF IInv, TypeOK, Order
  <2>4. new \in Ids
    BY <2>2 DEF Ids
  <2>5. pos[new] = NoPosition
    <3>1. NumberedInv /\ new > opened
      BY <2>2 DEF IInv
    <3> QED
      BY <2>4, <3>1 DEF NumberedInv
  <2> QED
    BY <2>1, <2>2, <2>3, <2>4, <2>5 DEF IInv, TypeOK
<1>2. /\ pos' = [pos EXCEPT ![new] =
                   [coin |-> coin, candle |-> order.candle, invested |-> order.fill,
                    state |-> "OPEN"]]
      /\ guard' = guard \cup {<<coin, order.candle>>}
      /\ held' = [held EXCEPT ![coin] = @ \cup {new}]
      /\ opened' = new /\ pc = "filled" /\ pc' = "entries" /\ coin' = coin + 1
  BY DEF OpenPosition
<1>3. /\ report'.opened = [report.opened EXCEPT ![coin] = @ + 1]
      /\ report'.invested = [report.invested EXCEPT ![coin] = @ + order.fill]
      /\ report'.closed = report.closed /\ report'.released = report.released
      /\ report' \in Report
  <2>1. /\ Plus(report.opened, coin, 1) \in [Coins -> Nat]
        /\ Plus(report.invested, coin, order.fill) \in [Coins -> Nat]
    BY <1>1 DEF Plus, Report
  <2>2. report' = [report EXCEPT !.opened = Plus(report.opened, coin, 1),
                                 !.invested = Plus(report.invested, coin, order.fill)]
    BY DEF OpenPosition
  <2> QED
    BY <1>1, <2>1, <2>2 DEF Plus, Report
<1>4. ASSUME NEW c \in Coins
      PROVE  OpenOf(c)' = IF c = coin THEN OpenOf(c) \cup {new} ELSE OpenOf(c)
  <2>1. /\ \A i \in Ids : i # new => pos'[i] = pos[i]
        /\ pos'[new].coin = coin /\ pos'[new].state \in Live
        /\ pos[new].state \notin Live
    BY <1>1, <1>2 DEF NoPosition, Live
  <2> QED
    BY <1>1, <2>1 DEF OpenOf
<1>5. /\ \A c \in Coins : new \notin OpenOf(c)
      /\ \A c \in Coins :
           OpenOf(c)' = IF c = coin THEN OpenOf(c) \cup {new} ELSE OpenOf(c)
  BY <1>1, <1>4 DEF OpenOf, NoPosition, Live
<1>6. Cost' = [Cost EXCEPT ![new] = order.fill]
  BY <1>1, <1>2 DEF Cost
<1> QED
  BY <1>1, <1>2, <1>3, <1>5, <1>6

LEMMA InvOpenPosition ==
  ASSUME IInv, OpenPosition
  PROVE  IInv'
<1> DEFINE new == opened + 1
<1> USE SizesAssumption, CoinAssumption
<1>1. /\ coin \in Coins /\ new \in Ids /\ opened \in Nat
      /\ pos \in [Ids -> Position] /\ pos[new] = NoPosition
      /\ order.candle \in Candles /\ order.fill \in Nat
      /\ report \in Report /\ held \in [Coins -> SUBSET Ids]
  BY OpenFacts
<1>2. /\ pos' = [pos EXCEPT ![new] =
                   [coin |-> coin, candle |-> order.candle, invested |-> order.fill,
                    state |-> "OPEN"]]
      /\ guard' = guard \cup {<<coin, order.candle>>}
      /\ held' = [held EXCEPT ![coin] = @ \cup {new}]
      /\ opened' = new /\ pc = "filled" /\ pc' = "entries" /\ coin' = coin + 1
  BY OpenFacts
<1>3. /\ report'.opened = [report.opened EXCEPT ![coin] = @ + 1]
      /\ report'.invested = [report.invested EXCEPT ![coin] = @ + order.fill]
      /\ report'.closed = report.closed /\ report'.released = report.released
      /\ report' \in Report
  BY OpenFacts
<1>4. TypeOK'
  <2>1. pos' \in [Ids -> Position]
    BY <1>1, <1>2 DEF Position, PositionStates
  <2>2. order' \in Order
    BY DEF OpenPosition, Order, NoOrder
  <2>3. guard' \subseteq Coins \X Candles
    BY <1>1, <1>2 DEF IInv, TypeOK
  <2>4. held' \in [Coins -> SUBSET Ids] /\ opened' \in 0..MaxPositions
    BY <1>1, <1>2 DEF Ids
  <2>5. pc' \in PCs /\ coin' \in 1..(NumCoins + 1)
    BY <1>1, <1>2 DEF PCs, Coins
  <2> QED
    BY <1>3, <2>1, <2>2, <2>3, <2>4, <2>5 DEF IInv, TypeOK, OpenPosition, account
<1>5. ASSUME NEW c \in Coins
      PROVE  OpenOf(c)' = IF c = coin THEN OpenOf(c) \cup {new} ELSE OpenOf(c)
  BY OpenFacts
<1>6. ASSUME NEW c \in Coins
      PROVE  Cardinality(OpenOf(c)') =
               IF c = coin THEN Cardinality(OpenOf(c)) + 1 ELSE Cardinality(OpenOf(c))
  <2>1. new \notin OpenOf(c)
    BY <1>1 DEF OpenOf, NoPosition, Live
  <2>2. IsFiniteSet(OpenOf(c))
    BY OpenFinite
  <2>3. Cardinality(OpenOf(c) \cup {new}) = Cardinality(OpenOf(c)) + 1
    BY <2>1, <2>2, FS_AddElement
  <2> QED
    BY <1>5, <2>3
<1>7. /\ Cardinality(OpenOf(coin)) = slots[coin] /\ slots[coin] < SlotCount[coin]
      /\ slots[coin] \in Nat /\ SlotCount[coin] \in Nat
  <2>1. slots[coin] \in Nat /\ SlotCount[coin] \in Nat
    BY <1>1 DEF IInv, TypeOK
  <2>2. report.opened[coin] = 0 /\ report.closed[coin] = 0
    <3>1. FrameInv /\ InEntries
      BY <1>2 DEF IInv, InEntries
    <3>2. coin \in Coins /\ coin >= coin
      BY <1>1 DEF Coins
    <3> QED
      BY <3>1, <3>2 DEF FrameInv
  <2> QED
    BY <1>1, <1>2, <2>1, <2>2 DEF IInv, SlotsInv, OrderInv
<1>8. FrameInv'
  <2>1. \A c \in Coins : c >= coin' => c >= coin /\ c # coin
    BY <1>1, <1>2 DEF Coins
  <2>2. /\ report.opened \in [Coins -> Nat] /\ report.invested \in [Coins -> Nat]
    BY <1>1 DEF Report
  <2>3. \A c \in Coins : c >= coin' => report'.opened[c] = 0 /\ report'.invested[c] = 0
    BY <1>2, <1>3, <2>1, <2>2 DEF IInv, FrameInv, InEntries
  <2> QED
    BY <1>2, <1>3, <2>3 DEF IInv, FrameInv, InEntries, InExitLoop
<1>9. NumberedInv'
  <2>1. ASSUME NEW i \in Ids
        PROVE  /\ i <= opened' => /\ pos'[i].state # "NONE" /\ pos'[i].coin \in Coins
                                  /\ <<pos'[i].coin, pos'[i].candle>> \in guard'
               /\ i > opened' => pos'[i] = NoPosition
    <3>1. CASE i = new
      BY <1>1, <1>2, <3>1
    <3>2. CASE i # new
      <4>1. pos'[i] = pos[i] /\ (i <= opened' => i <= opened) /\ (i > opened' => i > opened)
        BY <1>1, <1>2, <3>2 DEF Ids
      <4> QED
        BY <1>2, <4>1 DEF IInv, NumberedInv
    <3> QED
      BY <3>1, <3>2
  <2> QED
    BY <2>1 DEF NumberedInv
<1>10. OneBuyPerCandle'
  <2>1. <<coin, order.candle>> \notin guard
    BY <1>2 DEF IInv, OrderInv
  <2>2. \A i \in 1..opened : i \in Ids /\ i # new /\ pos'[i] = pos[i]
                             /\ <<pos[i].coin, pos[i].candle>> \in guard
    BY <1>1, <1>2 DEF IInv, NumberedInv, Ids
  <2>3. /\ pos'[new].coin = coin /\ pos'[new].candle = order.candle
        /\ \A i \in 1..new : i # new => i \in 1..opened
    BY <1>1, <1>2
  <2>4. ASSUME NEW i \in 1..new, NEW j \in 1..new, i # j
        PROVE  <<pos'[i].coin, pos'[i].candle>> # <<pos'[j].coin, pos'[j].candle>>
    <3>1. CASE i = new
      BY <2>1, <2>2, <2>3, <2>4, <3>1
    <3>2. CASE j = new
      BY <2>1, <2>2, <2>3, <2>4, <3>2
    <3>3. CASE i # new /\ j # new
      BY <2>2, <2>3, <2>4, <3>3 DEF IInv, OneBuyPerCandle
    <3> QED
      BY <3>1, <3>2, <3>3
  <2> QED
    BY <1>2, <2>4 DEF OneBuyPerCandle
<1>11. SlotLimit'
  <2>1. ASSUME NEW c \in Coins PROVE Cardinality(OpenOf(c)') <= SlotCount[c]
    BY <1>6, <1>7, <2>1 DEF IInv, SlotLimit
  <2> QED
    BY <2>1 DEF SlotLimit
<1>12. SlotsInv'
  <2>1. slots' = slots /\ report.opened \in [Coins -> Nat] /\ report.closed \in [Coins -> Nat]
    BY <1>1 DEF OpenPosition, account, Report
  <2>2. ASSUME NEW c \in Coins
        PROVE  slots'[c] + report'.opened[c] - report'.closed[c] = Cardinality(OpenOf(c)')
    <3>1. slots[c] + report.opened[c] - report.closed[c] = Cardinality(OpenOf(c))
      BY <1>2 DEF IInv, SlotsInv
    <3>2. slots[c] \in Nat /\ report.opened[c] \in Nat /\ report.closed[c] \in Nat
      BY <2>1 DEF IInv, TypeOK
    <3>3. CASE c = coin
      <4>1. Cardinality(OpenOf(c)') = Cardinality(OpenOf(c)) + 1
        BY <1>6, <3>3
      <4>2. report'.opened[c] = report.opened[c] + 1 /\ report'.closed[c] = report.closed[c]
        BY <1>3, <2>1, <3>3
      <4> QED
        BY <2>1, <3>1, <3>2, <4>1, <4>2
    <3>4. CASE c # coin
      <4>1. Cardinality(OpenOf(c)') = Cardinality(OpenOf(c))
        BY <1>6, <3>4
      <4>2. report'.opened[c] = report.opened[c] /\ report'.closed[c] = report.closed[c]
        BY <1>3, <2>1, <3>4
      <4> QED
        BY <2>1, <3>1, <4>1, <4>2
    <3> QED
      BY <3>3, <3>4
  <2> QED
    BY <2>2 DEF SlotsInv
<1>13. UsedInv' /\ CapitalOverrun'
  <2>1. /\ used' = used /\ used \in [Coins -> Int]
        /\ report.invested \in [Coins -> Nat] /\ report.released \in [Coins -> Nat]
    BY <1>1 DEF IInv, TypeOK, OpenPosition, account, Report
  <2>2. used[coin] + order.fill <= CapitalLimit[coin] + MaxFee
    <3>1. order.quote \in Nat /\ used[coin] \in Int /\ CapitalLimit[coin] \in Nat
      BY <1>1, <2>1 DEF IInv, TypeOK, Order
    <3>2. order.quote <= CapitalLimit[coin] - used[coin] /\ order.fill <= order.quote + MaxFee
      BY <1>2 DEF IInv, OrderInv
    <3> QED
      BY <1>1, <3>1, <3>2
  <2>3. report.invested[coin] = 0 /\ report.released[coin] = 0
    <3>1. FrameInv /\ InEntries
      BY <1>2 DEF IInv, InEntries
    <3>2. coin \in Coins /\ coin >= coin
      BY <1>1 DEF Coins
    <3> QED
      BY <3>1, <3>2 DEF FrameInv
  <2>4. ASSUME NEW c \in Coins
        PROVE  used'[c] + report'.invested[c] - report'.released[c]
                 <= CapitalLimit[c] + MaxFee
    <3>1. CASE c = coin
      BY <1>1, <1>3, <2>1, <2>2, <2>3, <3>1
    <3>2. CASE c # coin
      BY <1>1, <1>3, <2>1, <3>2 DEF IInv, CapitalOverrun, Committed
    <3> QED
      BY <3>1, <3>2
  <2> QED
    BY <2>1, <2>4 DEF IInv, UsedInv, CapitalOverrun, Committed
<1>14. OrderInv' /\ SellsOpenPosition'
  BY <1>2 DEF OrderInv, SellsOpenPosition
<1>15. TrackedExactly'
  <2>1. \A c \in Coins : OpenOf(c) = held[c]
    BY <1>2 DEF IInv, TrackedExactly
  <2> QED
    BY <1>1, <1>2, <1>5, <2>1 DEF TrackedExactly
<1> QED
  BY <1>4, <1>8, <1>9, <1>10, <1>11, <1>12, <1>13, <1>14, <1>15 DEF IInv

\* Arming changes no set of open positions.
LEMMA ArmingKeepsOpen ==
  ASSUME IInv, DecideExit(TRUE) \/ DecideExit(FALSE)
  PROVE  LET i == First(todo)
         IN /\ i \in Ids /\ i \in todo
            /\ pos' = pos \/ /\ pos[i].state = "OPEN"
                             /\ pos' = [pos EXCEPT ![i].state = "EXIT_ARMED"]
            /\ pos' \in [Ids -> Position]
            /\ \A j \in Ids : /\ pos'[j].coin = pos[j].coin
                              /\ pos'[j].candle = pos[j].candle
                              /\ (pos'[j].state \in Live) = (pos[j].state \in Live)
                              /\ (pos'[j].state = "NONE") = (pos[j].state = "NONE")
                              /\ pos[j].state = "NONE" => pos'[j] = pos[j]
            /\ \A c : OpenOf(c)' = OpenOf(c)
<1> DEFINE i == First(todo)
<1>1. i \in Ids /\ i \in todo
  BY FirstIn DEF DecideExit, IInv, TypeOK
<1>2. pos \in [Ids -> Position]
  BY DEF IInv, TypeOK
<1>3. pos' = pos \/ (pos[i].state = "OPEN" /\ pos' = [pos EXCEPT ![i].state = "EXIT_ARMED"])
  BY DEF DecideExit, Armed, Arms
<1>4. pos' \in [Ids -> Position]
  BY <1>1, <1>2, <1>3 DEF Position, PositionStates
<1>5. \A j \in Ids : /\ pos'[j].coin = pos[j].coin
                     /\ pos'[j].candle = pos[j].candle
                     /\ (pos'[j].state \in Live) = (pos[j].state \in Live)
                     /\ (pos'[j].state = "NONE") = (pos[j].state = "NONE")
                     /\ pos[j].state = "NONE" => pos'[j] = pos[j]
  BY <1>1, <1>2, <1>3 DEF Position, Live
<1>6. \A c : OpenOf(c)' = OpenOf(c)
  BY <1>5 DEF OpenOf
<1> QED
  BY <1>1, <1>3, <1>4, <1>5, <1>6

LEMMA InvDecideExit ==
  ASSUME IInv, NEW reached \in BOOLEAN, DecideExit(reached)
  PROVE  IInv'
<1> DEFINE i == First(todo)
<1> USE SizesAssumption, CoinAssumption
<1>1. /\ i \in Ids /\ i \in todo /\ pos' \in [Ids -> Position]
      /\ \A j \in Ids : /\ pos'[j].coin = pos[j].coin
                        /\ pos'[j].candle = pos[j].candle
                        /\ (pos'[j].state = "NONE") = (pos[j].state = "NONE")
                        /\ pos[j].state = "NONE" => pos'[j] = pos[j]
      /\ \A c : OpenOf(c)' = OpenOf(c)
  <2>1. DecideExit(TRUE) \/ DecideExit(FALSE)
    OBVIOUS
  <2> QED
    BY <2>1, ArmingKeepsOpen
<1>2. /\ UNCHANGED <<mode, guard, opened, held, slots, used, balance, minute, coin>>
      /\ UNCHANGED <<status, order, look, report>>
      /\ pc = "exiting" /\ pc' \in {"exiting", "selling"}
      /\ \/ todo' = todo /\ kept' = kept
         \/ pc' = "exiting" /\ todo' = todo \ {i} /\ kept' = kept \cup {i}
  BY DEF DecideExit, account
<1>3. TypeOK'
  <2>1. todo' \subseteq Ids /\ kept' \subseteq Ids /\ pc' \in PCs
    BY <1>1, <1>2 DEF IInv, TypeOK, PCs
  <2> QED
    BY <1>1, <1>2, <2>1 DEF IInv, TypeOK
<1>4. NumberedInv'
  BY <1>1, <1>2 DEF IInv, NumberedInv, NoPosition
<1>5. OneBuyPerCandle' /\ SlotLimit'
  <2>1. 1..opened \subseteq Ids
    BY DEF IInv, TypeOK, Ids
  <2>2. OneBuyPerCandle'
    BY <1>1, <1>2, <2>1 DEF IInv, OneBuyPerCandle
  <2> QED
    BY <1>1, <2>2 DEF IInv, SlotLimit
<1>6. SlotsInv' /\ UsedInv' /\ CapitalOverrun'
  BY <1>1, <1>2 DEF IInv, SlotsInv, UsedInv, CapitalOverrun, Committed
<1>7. FrameInv' /\ OrderInv'
  BY <1>1, <1>2 DEF IInv, FrameInv, OrderInv, InEntries, InExitLoop
<1>8. TrackedExactly'
  BY <1>1, <1>2 DEF IInv, TrackedExactly
<1>9. SellsOpenPosition'
  <2>1. ASSUME pc' = "selling"
        PROVE  todo' = todo /\ kept' = kept
    BY <1>2, <2>1 DEF DecideExit
  <2>2. coin \in Coins /\ OpenOf(coin) = todo \cup kept /\ todo \cap kept = {}
    BY <1>2 DEF IInv, FrameInv, TrackedExactly, InExitLoop
  <2>3. i \in OpenOf(coin) /\ i \notin kept
    BY <1>1, <2>2
  <2>4. OpenOf(coin)' = OpenOf(coin)
    BY <1>1, <1>2 DEF OpenOf
  <2> QED
    BY <1>1, <1>2, <2>1, <2>3, <2>4 DEF SellsOpenPosition
<1> QED
  BY <1>3, <1>4, <1>5, <1>6, <1>7, <1>8, <1>9 DEF IInv

\* What closing one does.
LEMMA CloseFacts ==
  ASSUME IInv, ClosePosition
  PROVE  LET i == First(todo)
         IN
          /\ coin \in Coins /\ i \in Ids /\ i \in todo /\ i \in OpenOf(coin) /\ i \notin kept
          /\ pos \in [Ids -> Position] /\ report \in Report /\ order.fill \in Nat
          /\ pos' = [pos EXCEPT ![i].state = "CLOSED"]
          /\ todo' = todo \ {i} /\ kept' = kept /\ pc = "sold" /\ pc' = "exiting"
          /\ UNCHANGED <<mode, guard, opened, held, slots, used, balance, minute, coin>>
          /\ UNCHANGED <<status, look>>
          /\ report'.closed = [report.closed EXCEPT ![coin] = @ + 1]
          /\ report'.released = [report.released EXCEPT ![coin] = @ + pos[i].invested]
          /\ report'.opened = report.opened /\ report'.invested = report.invested
          /\ report' \in Report
          /\ \A c \in Coins :
               OpenOf(c)' = IF c = coin THEN OpenOf(c) \ {i} ELSE OpenOf(c)
          /\ Cost' = Cost
<1> DEFINE i == First(todo)
<1> USE SizesAssumption, CoinAssumption
<1>1. /\ coin \in Coins /\ i \in Ids /\ i \in todo /\ i \in OpenOf(coin) /\ i \notin kept
      /\ pos \in [Ids -> Position] /\ report \in Report /\ order.fill \in Nat
  BY FirstIn DEF IInv, TypeOK, FrameInv, InExitLoop, SellsOpenPosition, ClosePosition,
                 Order
<1>2. /\ pos' = [pos EXCEPT ![i].state = "CLOSED"]
      /\ todo' = todo \ {i} /\ kept' = kept /\ pc = "sold" /\ pc' = "exiting"
      /\ UNCHANGED <<mode, guard, opened, held, slots, used, balance, minute, coin>>
      /\ UNCHANGED <<status, look>>
  BY DEF ClosePosition, account
<1>3. /\ report'.closed = [report.closed EXCEPT ![coin] = @ + 1]
      /\ report'.released = [report.released EXCEPT ![coin] = @ + pos[i].invested]
      /\ report'.opened = report.opened /\ report'.invested = report.invested
      /\ report' \in Report
  <2>1. pos[i].invested \in Nat
    BY <1>1 DEF Position
  <2>2. /\ Plus(report.closed, coin, 1) \in [Coins -> Nat]
        /\ Plus(report.released, coin, pos[i].invested) \in [Coins -> Nat]
        /\ Plus(report.proceeds, coin, order.fill) \in [Coins -> Nat]
    BY <1>1, <2>1 DEF Plus, Report
  <2>3. report' = [report EXCEPT !.closed = Plus(report.closed, coin, 1),
                                 !.released = Plus(report.released, coin, pos[i].invested),
                                 !.proceeds = Plus(report.proceeds, coin, order.fill)]
    BY DEF ClosePosition
  <2> QED
    BY <1>1, <2>2, <2>3 DEF Plus, Report
<1>4. ASSUME NEW c \in Coins
      PROVE  OpenOf(c)' = IF c = coin THEN OpenOf(c) \ {i} ELSE OpenOf(c)
  <2>1. /\ \A j \in Ids : j # i => pos'[j] = pos[j]
        /\ pos'[i].coin = pos[i].coin /\ pos'[i].state \notin Live
        /\ pos[i].coin = coin
    BY <1>1, <1>2 DEF OpenOf, Live, Position
  <2> QED
    BY <1>1, <2>1 DEF OpenOf
<1>5. Cost' = Cost
  <2>1. \A j \in Ids : pos'[j].invested = pos[j].invested
    BY <1>1, <1>2 DEF Position
  <2> QED
    BY <2>1 DEF Cost
<1> QED
  BY <1>1, <1>2, <1>3, <1>4, <1>5

LEMMA InvClosePosition ==
  ASSUME IInv, ClosePosition
  PROVE  IInv'
<1> DEFINE i == First(todo)
<1> USE SizesAssumption, CoinAssumption
<1>1. /\ coin \in Coins /\ i \in Ids /\ i \in todo /\ i \in OpenOf(coin) /\ i \notin kept
      /\ pos \in [Ids -> Position] /\ report \in Report /\ order.fill \in Nat
  BY CloseFacts
<1>2. /\ pos' = [pos EXCEPT ![i].state = "CLOSED"]
      /\ todo' = todo \ {i} /\ kept' = kept /\ pc = "sold" /\ pc' = "exiting"
      /\ UNCHANGED <<mode, guard, opened, held, slots, used, balance, minute, coin>>
      /\ UNCHANGED <<status, look>>
  BY CloseFacts
<1>3. /\ report'.closed = [report.closed EXCEPT ![coin] = @ + 1]
      /\ report'.released = [report.released EXCEPT ![coin] = @ + pos[i].invested]
      /\ report'.opened = report.opened /\ report'.invested = report.invested
      /\ report' \in Report
  BY CloseFacts
<1>4. TypeOK'
  <2>1. pos' \in [Ids -> Position]
    BY <1>1, <1>2 DEF Position, PositionStates
  <2>2. order' \in Order /\ pc' \in PCs /\ todo' \subseteq Ids
    BY <1>2 DEF ClosePosition, Order, NoOrder, PCs, IInv, TypeOK
  <2> QED
    BY <1>2, <1>3, <2>1, <2>2 DEF IInv, TypeOK
<1>5. ASSUME NEW c \in Coins
      PROVE  OpenOf(c)' = IF c = coin THEN OpenOf(c) \ {i} ELSE OpenOf(c)
  BY CloseFacts
<1>6. ASSUME NEW c \in Coins
      PROVE  Cardinality(OpenOf(c)') =
               IF c = coin THEN Cardinality(OpenOf(c)) - 1 ELSE Cardinality(OpenOf(c))
  <2>1. IsFiniteSet(OpenOf(c))
    BY OpenFinite
  <2>2. i \in OpenOf(c) => Cardinality(OpenOf(c) \ {i}) = Cardinality(OpenOf(c)) - 1
    BY <2>1, FS_RemoveElement
  <2> QED
    BY <1>1, <1>5, <2>2
<1>7. FrameInv' /\ OrderInv' /\ SellsOpenPosition'
  BY <1>1, <1>2 DEF IInv, FrameInv, OrderInv, SellsOpenPosition, InEntries, InExitLoop
<1>8. NumberedInv' /\ OneBuyPerCandle'
  <2>1. \A j \in Ids : /\ pos'[j].coin = pos[j].coin /\ pos'[j].candle = pos[j].candle
                       /\ pos[j].state # "NONE" => pos'[j].state # "NONE"
                       /\ j # i => pos'[j] = pos[j]
    BY <1>1, <1>2 DEF Position
  <2>2. i <= opened
    <3>1. NumberedInv /\ i \in Int /\ opened \in Int
      BY <1>1 DEF IInv, TypeOK, Ids
    <3>2. pos[i] # NoPosition
      BY <1>1 DEF OpenOf, Live, NoPosition
    <3>3. CASE i > opened
      BY <1>1, <3>1, <3>2, <3>3 DEF NumberedInv
    <3> QED
      BY <3>1, <3>3
  <2>3. 1..opened \subseteq Ids /\ opened \in Nat
    BY DEF IInv, TypeOK, Ids
  <2>4. NumberedInv'
    BY <1>1, <1>2, <2>1, <2>2, <2>3 DEF IInv, NumberedInv, Ids
  <2> QED
    BY <1>2, <2>1, <2>3, <2>4 DEF IInv, OneBuyPerCandle
<1>9. SlotLimit'
  <2>1. ASSUME NEW c \in Coins PROVE Cardinality(OpenOf(c)') <= SlotCount[c]
    <3>1. Cardinality(OpenOf(c)) <= SlotCount[c] /\ SlotCount[c] \in Nat
      BY DEF IInv, SlotLimit
    <3>2. Cardinality(OpenOf(c)) \in Nat
      BY OpenFinite
    <3> QED
      BY <1>6, <3>1, <3>2
  <2> QED
    BY <2>1 DEF SlotLimit
<1>10. SlotsInv'
  <2>1. ASSUME NEW c \in Coins
        PROVE  slots'[c] + report'.opened[c] - report'.closed[c] = Cardinality(OpenOf(c)')
    <3>1. slots[c] + report.opened[c] - report.closed[c] = Cardinality(OpenOf(c))
      BY <1>2 DEF IInv, SlotsInv
    <3>2. /\ slots[c] \in Nat /\ report.opened[c] \in Nat
          /\ report.closed \in [Coins -> Nat] /\ report.closed[c] \in Nat
      BY <1>1 DEF IInv, TypeOK, Report
    <3>3. CASE c = coin
      <4>1. Cardinality(OpenOf(c)') = Cardinality(OpenOf(c)) - 1
        BY <1>6, <3>3
      <4>2. report'.closed[c] = report.closed[c] + 1
        BY <1>3, <3>2, <3>3
      <4> QED
        BY <1>2, <1>3, <3>1, <3>2, <4>1, <4>2
    <3>4. CASE c # coin
      <4>1. Cardinality(OpenOf(c)') = Cardinality(OpenOf(c))
        BY <1>6, <3>4
      <4>2. report'.closed[c] = report.closed[c]
        BY <1>3, <3>2, <3>4
      <4> QED
        BY <1>2, <1>3, <3>1, <4>1, <4>2
    <3> QED
      BY <3>3, <3>4
  <2> QED
    BY <2>1 DEF SlotsInv
<1>11. UsedInv' /\ CapitalOverrun'
  <2>1. ASSUME NEW c \in Coins
        PROVE  used'[c] + report'.invested[c] - report'.released[c]
                 <= CapitalLimit[c] + MaxFee
    <3>1. used[c] + report.invested[c] - report.released[c] <= CapitalLimit[c] + MaxFee
      BY DEF IInv, CapitalOverrun, Committed
    <3>2. /\ used[c] \in Int /\ report.invested[c] \in Nat
          /\ report.released \in [Coins -> Nat] /\ report.released[c] \in Nat
          /\ pos[i].invested \in Nat
      BY <1>1 DEF IInv, TypeOK, Report, Position
    <3>3. report'.released[c] >= report.released[c] /\ report'.released[c] \in Nat
      BY <1>3, <3>2
    <3> QED
      BY <1>2, <1>3, <3>1, <3>2, <3>3
  <2> QED
    BY <1>2, <2>1 DEF IInv, UsedInv, CapitalOverrun, Committed
<1>12. TrackedExactly'
  BY <1>1, <1>2, <1>5 DEF IInv, TrackedExactly, FrameInv, InExitLoop
<1> QED
  BY <1>4, <1>7, <1>8, <1>9, <1>10, <1>11, <1>12 DEF IInv

\* Applying the report brings the account up to date.
LEMMA InvFinishTick ==
  ASSUME IInv, NEW b \in Int, FinishTick(b)
  PROVE  IInv'
<1> USE SizesAssumption, CoinAssumption
<1>1. NumberedInv' /\ OneBuyPerCandle' /\ SlotLimit' /\ \A c : OpenOf(c)' = OpenOf(c)
  BY PositionsKept DEF FinishTick, service
<1>2. report \in Report
  BY DEF IInv, TypeOK
<1>3. ASSUME NEW c \in Coins
      PROVE  slots'[c] = Cardinality(OpenOf(c)) /\ slots'[c] \in Nat
  <2>1. slots[c] + report.opened[c] - report.closed[c] = Cardinality(OpenOf(c))
    BY DEF FinishTick, IInv, SlotsInv
  <2>2. Cardinality(OpenOf(c)) \in Nat
    BY OpenFinite
  <2>3. slots'[c] = Greater(0, slots[c] + report.opened[c] - report.closed[c])
    BY DEF FinishTick
  <2> QED
    BY <2>1, <2>2, <2>3 DEF Greater
<1>4. ASSUME NEW c \in Coins
      PROVE  used'[c] \in Int /\ used'[c] <= CapitalLimit[c] + MaxFee
  <2>1. used'[c] = used[c] + report.invested[c] - report.released[c]
    BY DEF FinishTick
  <2>2. used[c] \in Int /\ report.invested[c] \in Nat /\ report.released[c] \in Nat
    BY <1>2 DEF IInv, TypeOK, Report
  <2> QED
    BY <2>1, <2>2 DEF IInv, CapitalOverrun, Committed
<1>5. TypeOK'
  <2>1. slots' \in [Coins -> Nat] /\ used' \in [Coins -> Int]
    BY <1>3, <1>4 DEF FinishTick
  <2>2. report' \in Report /\ status' \in Status
    BY DEF FinishTick, Report, NoReport, Status, NoStatus
  <2>3. pc' \in PCs /\ coin' \in 1..(NumCoins + 1) /\ balance' \in Int
    BY DEF FinishTick, PCs
  <2> QED
    BY <2>1, <2>2, <2>3 DEF IInv, FinishTick, TypeOK, service
<1>6. FrameInv' /\ OrderInv' /\ SellsOpenPosition'
  BY DEF FinishTick, FrameInv, OrderInv, SellsOpenPosition, InEntries, InExitLoop
<1>7. SlotsInv'
  BY <1>1, <1>3 DEF FinishTick, SlotsInv, NoReport
<1>8. UsedInv' /\ CapitalOverrun'
  BY <1>4 DEF FinishTick, UsedInv, CapitalOverrun, Committed, NoReport
<1>9. TrackedExactly'
  BY <1>1 DEF IInv, FinishTick, service, TrackedExactly
<1> QED
  BY <1>1, <1>5, <1>6, <1>7, <1>8, <1>9 DEF IInv

-----------------------------------------------------------------------------
(* Theorems *)

\* What the process may do under any status, balance, proceeds and clock: the paper
\* loop, the live loop and the backtest supply their own.
AnyNext ==
  \/ \E running \in BOOLEAN, s \in Status, b \in Int : StartTick(running, s, b)
  \/ TickStep
  \/ \E proceeds \in Nat : ExecuteSell(proceeds)
  \/ \E b \in Int : FinishTick(b)
  \/ Raise
  \/ Environment
  \/ Outside

LEMMA NextIsAny == Next => AnyNext
BY SizesAssumption DEF Next, Begin, Finish, AnyNext

\* Every step of the specification preserves the invariant.
LEMMA InvNext == IInv /\ [AnyNext]_vars => IInv'
<1> SUFFICES ASSUME IInv, [AnyNext]_vars PROVE IInv'
  OBVIOUS
<1>1. CASE \E running \in BOOLEAN, s \in Status, b \in Int : StartTick(running, s, b)
  BY <1>1, InvStartTick
<1>2. CASE TickStep
  <2>1. CASE SkipEntry \/ EndEntries \/ SkipExits
    BY <2>1, InvAdvance
  <2>2. CASE \E k \in Candles : DecideBuy(k)
    BY <2>2, InvDecideBuy
  <2>3. CASE \E cost \in 1..(order.quote + MaxFee) : ExecuteBuy(cost)
    BY <2>3, InvExecuteBuy
  <2>4. CASE OpenPosition
    BY <2>4, InvOpenPosition
  <2>5. CASE \E rsiHigh \in BOOLEAN : FetchExits(rsiHigh)
    BY <2>5, InvFetchExits
  <2>6. CASE \E reached \in BOOLEAN : DecideExit(reached)
    BY <2>6, InvDecideExit
  <2>7. CASE \E proceeds \in 0..MaxProceeds : ExecuteSell(proceeds)
    BY <2>7, SizesAssumption, InvExecuteSell
  <2>8. CASE ClosePosition
    BY <2>8, InvClosePosition
  <2>9. CASE KeepStillOpen
    BY <2>9, InvKeepStillOpen
  <2> QED
    BY <1>2, <2>1, <2>2, <2>3, <2>4, <2>5, <2>6, <2>7, <2>8, <2>9 DEF TickStep
<1>3. CASE \E b \in Int : FinishTick(b)
  BY <1>3, InvFinishTick
<1>4. CASE Raise
  BY <1>4, InvRaise
<1>5. CASE Environment \/ Outside \/ UNCHANGED vars
  BY <1>5, InvOutside
<1>6. CASE \E proceeds \in Nat : ExecuteSell(proceeds)
  BY <1>6, InvExecuteSell
<1> QED
  BY <1>1, <1>2, <1>3, <1>4, <1>5, <1>6 DEF AnyNext

LEMMA Invariance == Spec => []IInv
BY InvInit, InvNext, NextIsAny, PTL DEF Spec

\* Type correctness of the trading process (runtime/service.py).
THEOREM TypeCorrect == Spec => []TypeOK
<1>1. IInv => TypeOK
  BY DEF IInv
<1> QED
  BY <1>1, Invariance, PTL

\* One candle of a coin never opens two positions (ProcessedCandleGuard).
THEOREM OneBuyPerCandleHolds == Spec => []OneBuyPerCandle
<1>1. IInv => OneBuyPerCandle
  BY DEF IInv
<1> QED
  BY <1>1, Invariance, PTL

\* slot_count holds at every moment, although the slot gate reads an account
\* that is only updated between ticks.
THEOREM SlotLimitHolds == Spec => []SlotLimit
<1>1. IInv => SlotLimit
  BY DEF IInv
<1> QED
  BY <1>1, Invariance, PTL

\* Committed capital exceeds capital_limit_usdt by at most one commission.
THEOREM CapitalOverrunHolds == Spec => []CapitalOverrun
<1>1. IInv => CapitalOverrun
  BY DEF IInv
<1> QED
  BY <1>1, Invariance, PTL

\* The lists of the service are the open positions (TradingService._positions).
THEOREM TrackedExactlyHolds == Spec => []TrackedExactly
<1>1. IInv => TrackedExactly
  BY DEF IInv
<1> QED
  BY <1>1, Invariance, PTL

\* A SELL is only ever sent for an open position.
THEOREM SellsOpenPositionHolds == Spec => []SellsOpenPosition
<1>1. IInv => SellsOpenPosition
  BY DEF IInv
<1> QED
  BY <1>1, Invariance, PTL

-----------------------------------------------------------------------------
(* The books agree *)

\* Used capital and the pending report add up to the cost of what is open.
CostInv ==
  pc # "raised" => \A c \in Coins : Committed(c) = SumOver(Cost, OpenOf(c))

LEMMA CostType == TypeOK => Cost \in [Ids -> Nat]
BY DEF TypeOK, Cost, Position

LEMMA IdsFinite == IsFiniteSet(Ids)
BY SizesAssumption, FS_Interval DEF Ids

\* What a coin's open positions cost after one was opened.
LEMMA CostOpens ==
  ASSUME IInv, OpenPosition, NEW c \in Coins
  PROVE  SumOver(Cost, OpenOf(c))' =
           SumOver(Cost, OpenOf(c)) + IF c = coin THEN order.fill ELSE 0
<1> DEFINE new == opened + 1
<1>1. PICK S, T, f, g : S = OpenOf(c) /\ T = OpenOf(c)' /\ f = Cost /\ g = Cost'
  OBVIOUS
<1>2. f \in [Ids -> Nat] /\ S \subseteq Ids /\ IsFiniteSet(S)
  BY <1>1, CostType, OpenFinite DEF IInv, OpenOf
<1>3. new \in Ids /\ new \notin S /\ g = [f EXCEPT ![new] = order.fill] /\ order.fill \in Nat
  BY <1>1, OpenFacts
<1>4. T = IF c = coin THEN S \cup {new} ELSE S
  BY <1>1, OpenFacts
<1>5. SumOver(g, S \cup {new}) = SumOver(f, S) + order.fill
  <2>1. g[new] = order.fill /\ g[new] \in Int
    BY <1>2, <1>3
  <2>2. \A x \in S : f[x] \in Int /\ g[x] = f[x]
    BY <1>2, <1>3
  <2> QED
    <3> HIDE DEF new
    <3>1. (\A x \in S : f[x] \in Int) /\ (\A x \in S : g[x] = f[x])
      BY <2>2
    <3>2. IsFiniteSet(S) /\ new \notin S /\ g[new] \in Int
      BY <1>2, <1>3, <2>1
    <3>3. SumOver(g, S \cup {new}) = SumOver(f, S) + g[new]
      BY <3>1, <3>2, SumGrows
    <3> QED
      BY <2>1, <3>3
<1>6. SumOver(g, S) = SumOver(f, S) /\ SumOver(f, S) \in Int
  <2>1. \A x \in S : f[x] = g[x] /\ f[x] \in Int
    BY <1>2, <1>3
  <2> QED
    BY <1>2, <2>1, SumSame, SumInt
<1>7. SumOver(g, T) = SumOver(f, S) + IF c = coin THEN order.fill ELSE 0
  <2>1. CASE c = coin
    BY <1>4, <1>5, <2>1
  <2>2. CASE c # coin
    BY <1>4, <1>6, <2>2
  <2> QED
    BY <2>1, <2>2
<1> QED
  BY <1>1, <1>7

\* What they cost after one was closed.
LEMMA CostCloses ==
  ASSUME IInv, ClosePosition, NEW c \in Coins
  PROVE  SumOver(Cost, OpenOf(c))' =
           SumOver(Cost, OpenOf(c)) - IF c = coin THEN pos[First(todo)].invested ELSE 0
<1> DEFINE i == First(todo)
<1>1. PICK S, T, f : S = OpenOf(c) /\ T = OpenOf(c)' /\ f = Cost /\ f = Cost'
  BY CloseFacts
<1>2. f \in [Ids -> Nat] /\ S \subseteq Ids /\ IsFiniteSet(S)
  BY <1>1, CostType, OpenFinite DEF IInv, OpenOf
<1>3. T = IF c = coin THEN S \ {i} ELSE S
  BY <1>1, CloseFacts
<1>4. SumOver(f, S) \in Int
  BY <1>2, SumInt
<1>5. ASSUME c = coin PROVE SumOver(f, S \ {i}) = SumOver(f, S) - f[i]
  <2>1. i \in S /\ \A x \in S : f[x] \in Int
    BY <1>1, <1>2, <1>5, CloseFacts
  <2> QED
    BY <1>2, <2>1, SumShrinks
<1>6. f[i] = pos[i].invested /\ f[i] \in Nat
  BY <1>1, <1>2, CloseFacts DEF Cost
<1>7. SumOver(f, T) = SumOver(f, S) - IF c = coin THEN pos[i].invested ELSE 0
  <2>1. CASE c = coin
    BY <1>3, <1>4, <1>5, <1>6, <2>1
  <2>2. CASE c # coin
    BY <1>3, <1>4, <2>2
  <2> QED
    BY <2>1, <2>2
<1> QED
  BY <1>1, <1>7

\* Every other step leaves the open positions and their cost alone.
LEMMA CostStays ==
  ASSUME IInv, [AnyNext]_vars, ~OpenPosition, ~ClosePosition
  PROVE  Cost' = Cost /\ \A c : OpenOf(c)' = OpenOf(c)
<1>1. CASE pos' = pos
  BY <1>1 DEF Cost, OpenOf
<1>2. ASSUME NEW reached \in BOOLEAN, DecideExit(reached)
      PROVE  Cost' = Cost /\ \A c : OpenOf(c)' = OpenOf(c)
  <2> DEFINE i == First(todo)
  <2>1. DecideExit(TRUE) \/ DecideExit(FALSE)
    BY <1>2
  <2>2. /\ i \in Ids /\ \A c : OpenOf(c)' = OpenOf(c)
        /\ pos' = pos \/ pos' = [pos EXCEPT ![i].state = "EXIT_ARMED"]
    BY <2>1, ArmingKeepsOpen
  <2>3. pos \in [Ids -> Position]
    BY DEF IInv, TypeOK
  <2>4. \A j \in Ids : pos'[j].invested = pos[j].invested
    BY <2>2, <2>3 DEF Position
  <2> QED
    BY <2>2, <2>4 DEF Cost
<1>3. pos' = pos \/ \E reached \in BOOLEAN : DecideExit(reached)
  BY DEF AnyNext, StartTick, TickStep, SkipEntry, DecideBuy, ExecuteBuy, EndEntries,
         SkipExits, FetchExits, ExecuteSell, KeepStillOpen, FinishTick, Raise,
         Environment, RequestWithdrawal, Resume, MinutePasses, Outside, vars, service
<1> QED
  BY <1>1, <1>2, <1>3

\* A step that neither opens, closes, finishes nor raises keeps the account's
\* figures and the report.
LEMMA FiguresStay ==
  ASSUME [AnyNext]_vars, ~OpenPosition, ~ClosePosition, ~Raise,
         \A b \in Int : ~FinishTick(b)
  PROVE  UNCHANGED <<opened, slots, used, report>> /\ (pc = "raised" => pc' = "raised")
BY DEF AnyNext, StartTick, TickStep, SkipEntry, DecideBuy, ExecuteBuy, EndEntries,
       SkipExits, FetchExits, DecideExit, ExecuteSell, KeepStillOpen, Environment,
       RequestWithdrawal, Resume, MinutePasses, Outside, vars, service, account, frame

LEMMA CostNext == IInv /\ CostInv /\ [AnyNext]_vars => CostInv'
<1> SUFFICES ASSUME IInv, CostInv, [AnyNext]_vars, NEW c \in Coins, pc' # "raised"
             PROVE  Committed(c)' = SumOver(Cost, OpenOf(c))'
  BY DEF CostInv
<1>1. /\ used[c] \in Int /\ report.invested[c] \in Nat /\ report.released[c] \in Nat
      /\ used' \in [Coins -> Int] /\ report \in Report
  BY InvNext DEF IInv, TypeOK, Report
<1>2. CASE OpenPosition
  <2>1. Committed(c) = SumOver(Cost, OpenOf(c))
    BY <1>2 DEF CostInv, OpenPosition
  <2>2. /\ report'.invested = [report.invested EXCEPT ![coin] = @ + order.fill]
        /\ report'.released = report.released /\ used' = used /\ order.fill \in Nat
    BY <1>2, OpenFacts DEF OpenPosition, account
  <2>3. report'.invested[c] = report.invested[c] + IF c = coin THEN order.fill ELSE 0
    BY <1>1, <2>2 DEF Report
  <2>4. Committed(c)' = Committed(c) + IF c = coin THEN order.fill ELSE 0
    BY <1>1, <2>2, <2>3 DEF Committed
  <2> QED
    BY <1>2, <2>1, <2>4, CostOpens
<1>3. CASE ClosePosition
  <2> DEFINE cost == pos[First(todo)].invested
  <2>1. Committed(c) = SumOver(Cost, OpenOf(c))
    BY <1>3 DEF CostInv, ClosePosition
  <2>2. /\ report'.released = [report.released EXCEPT ![coin] = @ + cost]
        /\ report'.invested = report.invested /\ used' = used /\ cost \in Nat
    BY <1>3, CloseFacts DEF ClosePosition, account, Position
  <2>3. report'.released[c] = report.released[c] + IF c = coin THEN cost ELSE 0
    BY <1>1, <2>2 DEF Report
  <2>4. Committed(c)' = Committed(c) - IF c = coin THEN cost ELSE 0
    BY <1>1, <2>2, <2>3 DEF Committed
  <2> QED
    BY <1>3, <2>1, <2>4, CostCloses
<1>4. CASE ~OpenPosition /\ ~ClosePosition
  <2>1. SumOver(Cost, OpenOf(c))' = SumOver(Cost, OpenOf(c))
    BY <1>4, CostStays
  <2>2. CASE \E b \in Int : FinishTick(b)
    <3>1. /\ used'[c] = used[c] + report.invested[c] - report.released[c]
          /\ report' = NoReport /\ pc # "raised"
      BY <2>2 DEF FinishTick
    <3>2. Committed(c)' = Committed(c)
      BY <1>1, <3>1 DEF Committed, NoReport
    <3> QED
      BY <2>1, <3>1, <3>2 DEF CostInv
  <2>3. CASE ~Raise /\ \A b \in Int : ~FinishTick(b)
    <3>1. used' = used /\ report' = report /\ pc # "raised"
      BY <1>4, <2>3, FiguresStay
    <3>2. Committed(c)' = Committed(c)
      BY <3>1 DEF Committed
    <3> QED
      BY <2>1, <3>1, <3>2 DEF CostInv
  <2>4. ~Raise
    BY DEF Raise
  <2> QED
    BY <2>2, <2>3, <2>4
<1> QED
  BY <1>2, <1>3, <1>4

LEMMA CostInit == Init => CostInv
<1> SUFFICES ASSUME Init, NEW c \in Coins PROVE Committed(c) = SumOver(Cost, OpenOf(c))
  BY DEF CostInv
<1>1. OpenOf(c) = {}
  BY DEF Init, OpenOf, NoPosition, Live
<1>2. SumOver(Cost, {}) = 0
  BY SumUnfold, FS_EmptySet
<1> QED
  BY <1>1, <1>2 DEF Init, Committed, NoReport

\* Slots and used capital of the account, together with the report that
\* apply_report has still to fold in, are the open positions and their cost.
THEOREM BooksAgreeHolds == Spec => []BooksAgree
<1>1. IInv /\ CostInv => BooksAgree
  BY DEF IInv, SlotsInv, CostInv, BooksAgree
<1>2. Spec => [](IInv /\ CostInv)
  BY InvInit, InvNext, CostInit, CostNext, NextIsAny, PTL DEF Spec
<1> QED
  BY <1>1, <1>2, PTL

-----------------------------------------------------------------------------
(* The service implements the position book *)

Mapped == [i \in Ids |-> [coin |-> pos[i].coin, candle |-> pos[i].candle,
                          state |-> pos[i].state]]

\* The book counts the open positions the service counts.
LEMMA SameCount == \A c : Book!OpenCount(c) = Cardinality(OpenOf(c))
<1> SUFFICES ASSUME NEW c PROVE Book!OpenCount(c) = Cardinality(OpenOf(c))
  OBVIOUS
<1> DEFINE S == {i \in 1..MaxPositions :
                   /\ Mapped[i].coin = c
                   /\ Mapped[i].state \in {"OPEN", "EXIT_ARMED"}}
<1>1. S = OpenOf(c)
  BY DEF Mapped, OpenOf, Live, Ids
<1>2. Book!OpenCount(c) = Cardinality(S)
  BY Zenon DEF Book!OpenCount, Mapped, Cardinality, Book!Cardinality
<1> QED
  BY <1>1, <1>2

LEMMA BookInit == Init => Book!Init
BY DEF Init, Book!Init, NoPosition, Book!Unopened, Book!Entry, NoCandle, Ids

\* A position is opened as the book allows it.
LEMMA BookOpen ==
  ASSUME IInv, OpenPosition
  PROVE  Book!Next
<1> DEFINE new == opened + 1
<1> USE SizesAssumption
<1>1. /\ coin \in 1..NumCoins /\ order.candle \in 0..MaxMinute
      /\ new \in 1..MaxPositions /\ opened \in Nat
      /\ <<coin, order.candle>> \notin guard
      /\ pos \in [Ids -> Position]
  <2>1. pc = "filled" /\ TypeOK /\ FrameInv /\ OrderInv
    BY DEF IInv, OpenPosition
  <2>2. coin \in 1..NumCoins
    BY <2>1 DEF FrameInv, Coins
  <2>3. /\ order.candle \in 0..MaxMinute /\ <<coin, order.candle>> \notin guard
        /\ opened < MaxPositions
    BY <2>1 DEF OrderInv, Candles
  <2>4. opened \in Nat /\ pos \in [Ids -> Position]
    BY <2>1 DEF TypeOK
  <2>5. new \in 1..MaxPositions
    BY <2>3, <2>4
  <2> QED
    BY <2>2, <2>3, <2>4, <2>5
<1>2. pos[new] = NoPosition
  <2>1. NumberedInv /\ new > opened /\ new \in Ids
    BY <1>1 DEF IInv, Ids
  <2> QED
    BY <2>1 DEF NumberedInv
<1>3. Mapped[new] = Book!Unopened
  BY <1>1, <1>2 DEF Mapped, Ids, NoPosition, NoCandle, Book!Unopened, Book!Entry
<1>4. Book!OpenCount(coin) < SlotCount[coin]
  <2>1. coin \in Coins
    BY <1>1 DEF Coins
  <2>2. slots[coin] \in Nat /\ slots[coin] < SlotCount[coin]
    BY <2>1 DEF IInv, TypeOK, OrderInv, OpenPosition
  <2>3. report.opened[coin] = 0 /\ report.closed[coin] = 0
    BY <1>1, <2>1 DEF IInv, FrameInv, InEntries, OpenPosition
  <2>4. slots[coin] + report.opened[coin] - report.closed[coin] = Cardinality(OpenOf(coin))
    BY <2>1 DEF IInv, SlotsInv, OpenPosition
  <2> QED
    BY <2>2, <2>3, <2>4, SameCount
<1>5. ASSUME NEW j \in 1..MaxPositions
      PROVE  ~(Mapped[j].coin = coin /\ Mapped[j].candle = order.candle)
  <2>1. j \in Ids /\ Mapped[j].coin = pos[j].coin /\ Mapped[j].candle = pos[j].candle
    BY DEF Mapped, Ids
  <2>2. j <= opened \/ j > opened
    BY <1>1
  <2>3. CASE j <= opened
    BY <1>1, <2>1, <2>3 DEF IInv, NumberedInv
  <2>4. CASE j > opened
    BY <1>1, <2>1, <2>4 DEF IInv, NumberedInv, NoPosition
  <2> QED
    BY <2>2, <2>3, <2>4
<1>6. Mapped' = [Mapped EXCEPT ![new] = Book!Entry(coin, order.candle, "OPEN")]
  BY <1>1 DEF Mapped, OpenPosition, Book!Entry, Ids
<1>7. Book!Open(new, coin, order.candle)
  BY <1>3, <1>4, <1>5, <1>6 DEF Book!Open, Mapped
<1>8. PICK i \in 1..MaxPositions, c \in 1..NumCoins, k \in 0..MaxMinute :
        i = new /\ c = coin /\ k = order.candle
  BY <1>1
<1>9. Book!Open(i, c, k)
  BY <1>7, <1>8 DEF Book!Open
<1> QED
  BY <1>9 DEF Book!Next

\* Arming and selling are the book's, every other step leaves it alone.
LEMMA BookStep == IInv /\ IInv' /\ [Next]_vars => [Book!Next]_Mapped
<1> SUFFICES ASSUME IInv, [Next]_vars PROVE Book!Next \/ Mapped' = Mapped
  OBVIOUS
<1>1. CASE OpenPosition
  BY <1>1, BookOpen
<1>2. ASSUME NEW reached \in BOOLEAN, DecideExit(reached)
      PROVE  Book!Next \/ Mapped' = Mapped
  <2> DEFINE i == First(todo)
  <2>1. /\ i \in Ids /\ pos \in [Ids -> Position]
        /\ \/ pos' = pos
           \/ pos[i].state = "OPEN" /\ pos' = [pos EXCEPT ![i].state = "EXIT_ARMED"]
    <3>1. DecideExit(TRUE) \/ DecideExit(FALSE)
      BY <1>2
    <3> QED
      BY <3>1, ArmingKeepsOpen DEF IInv, TypeOK
  <2>2. CASE pos' = pos
    BY <2>2 DEF Mapped
  <2>3. CASE pos[i].state = "OPEN" /\ pos' = [pos EXCEPT ![i].state = "EXIT_ARMED"]
    <3>1. Mapped[i].state = "OPEN"
      BY <2>1, <2>3 DEF Mapped
    <3>2. Mapped' = [Mapped EXCEPT ![i].state = "EXIT_ARMED"]
      BY <2>1, <2>3 DEF Mapped, Position
    <3>3. PICK p \in 1..MaxPositions : p = i
      BY <2>1 DEF Ids
    <3>4. Book!Arm(p)
      BY <3>1, <3>2, <3>3 DEF Book!Arm, Mapped
    <3> QED
      BY <3>4 DEF Book!Next
  <2> QED
    BY <2>1, <2>2, <2>3
<1>3. CASE ClosePosition
  <2> DEFINE i == First(todo)
  <2>1. i \in Ids /\ pos[i].state \in Live /\ pos \in [Ids -> Position]
    BY <1>3 DEF IInv, TypeOK, SellsOpenPosition, ClosePosition, OpenOf
  <2>2. Mapped[i].state \in {"OPEN", "EXIT_ARMED"}
    BY <2>1 DEF Mapped, Live
  <2>3. Mapped' = [Mapped EXCEPT ![i].state = "CLOSED"]
    BY <1>3, <2>1 DEF Mapped, Position, ClosePosition
  <2>4. PICK p \in 1..MaxPositions : p = i
    BY <2>1 DEF Ids
  <2>5. Book!Sell(p)
    BY <2>2, <2>3, <2>4 DEF Book!Sell, Mapped
  <2> QED
    BY <2>5 DEF Book!Next
<1>4. CASE pos' = pos
  BY <1>4 DEF Mapped
<1>5. \/ OpenPosition \/ ClosePosition \/ pos' = pos
      \/ \E reached \in BOOLEAN : DecideExit(reached)
  BY DEF Next, Begin, StartTick, TickStep, SkipEntry, DecideBuy, ExecuteBuy, EndEntries,
         SkipExits, FetchExits, ExecuteSell, KeepStillOpen, Finish, FinishTick, Raise,
         Environment, RequestWithdrawal, Resume, MinutePasses, vars, service
<1> QED
  BY <1>1, <1>2, <1>3, <1>4, <1>5

\* The trading process implements the position book: slots, one position per
\* candle, permanent arming and a single sale (strategy/position.py).
THEOREM ImplementsBook == Spec => KeepsBook
<1>1. Spec => [][Book!Next]_Mapped
  BY Invariance, BookStep, PTL DEF Spec
<1>2. Spec => Book!Init
  BY BookInit DEF Spec
<1> QED
  BY <1>1, <1>2, PTL DEF KeepsBook, Book!Spec, Mapped
=============================================================================
