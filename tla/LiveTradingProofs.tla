-------------------------- MODULE LiveTradingProofs --------------------------
(***************************************************************************)
(* Theorems about LiveTrading: what the exchange holds and has filled,     *)
(* against what the process believes, over manual sales, lost answers and  *)
(* restarts.  The service's invariant holds of the live loop too; on top   *)
(* of it every lot is followed from the fill of its BUY to the fill of its *)
(* SELL.                                                                   *)
(***************************************************************************)
EXTENDS LiveTrading, TradingServiceProofs

-----------------------------------------------------------------------------
(* The live loop takes the steps of the service, and restarts it *)

LiveTypeOK ==
  /\ wallet \in [quote : Int, base : [Assets -> Nat]]
  /\ bought \in [Coins \X Candles -> Nat]
  /\ recon.seen \in [Assets -> Nat]
  /\ manual \in Nat /\ restarts \in Nat

LEMMA LiveIsAny ==
  ASSUME IInv, LiveTypeOK, [LiveNext]_allVars, ~Restart
  PROVE  [AnyNext]_vars
<1>1. CASE LiveBegin
  <2>1. StartTick(TRUE, [clean |-> Reconciled, blocked |-> {}], FreeQuote)
    BY <1>1 DEF LiveBegin
  <2>2. FreeQuote \in Int
    BY DEF LiveTypeOK, FreeQuote
  <2>3. [clean |-> Reconciled, blocked |-> {}] \in Status
    BY DEF Status, Reconciled
  <2> QED
    BY <2>1, <2>2, <2>3 DEF AnyNext
<1>2. ASSUME NEW spent \in 1..order.quote, NEW fee \in 0..MaxFee, LiveBuy(spent, fee)
      PROVE  AnyNext
  <2>1. ExecuteBuy(spent + fee) /\ order.quote \in Nat
    BY <1>2 DEF LiveBuy, IInv, TypeOK, Order
  <2>2. spent + fee \in 1..(order.quote + MaxFee)
    BY <2>1, SizesAssumption
  <2> QED
    BY <2>1, <2>2 DEF AnyNext, TickStep
<1>3. ASSUME NEW proceeds \in 0..MaxProceeds, LiveSell(proceeds) PROVE AnyNext
  BY <1>3 DEF LiveSell, AnyNext, TickStep
<1>4. CASE LiveFinish
  BY <1>4 DEF IInv, TypeOK, LiveFinish, AnyNext
<1>5. CASE InnerStep \/ LiveRaise \/ Environment
  BY <1>5 DEF InnerStep, LiveRaise, AnyNext, TickStep
<1>6. CASE UNCHANGED allVars \/ \E a \in Assets : ManualSale(a)
  BY <1>6 DEF allVars, ManualSale
<1> QED
  BY <1>1, <1>2, <1>3, <1>4, <1>5, <1>6 DEF LiveNext

\* A new process starts from an empty book.
LEMMA InvRestart ==
  ASSUME IInv, LiveTypeOK, Restart
  PROVE  IInv'
<1> USE SizesAssumption, CoinAssumption
<1>1. /\ mode' = "RUNNING" /\ guard' = {} /\ pos' = [i \in Ids |-> NoPosition]
      /\ opened' = 0 /\ held' = [c \in Coins |-> {}]
      /\ slots' = [c \in Coins |-> 0] /\ used' = [c \in Coins |-> 0]
      /\ balance' \in Int /\ pc' = "idle" /\ report' = NoReport
      /\ UNCHANGED <<minute, coin, status, order, look, todo, kept, report>>
  BY DEF Restart, LiveTypeOK, IInv, FrameInv
<1>2. \A c \in Coins : OpenOf(c)' = {} /\ Cardinality(OpenOf(c)') = 0
  BY <1>1, FS_EmptySet DEF OpenOf, NoPosition, Live
<1>3. TypeOK'
  <2>1. pos' \in [Ids -> Position]
    BY <1>1 DEF Position, NoPosition, PositionStates
  <2>2. guard' \subseteq Coins \X Candles /\ held' \in [Coins -> SUBSET Ids]
    BY <1>1
  <2>3. slots' \in [Coins -> Nat] /\ used' \in [Coins -> Int] /\ opened' \in 0..MaxPositions
    BY <1>1
  <2>4. mode' \in {"RUNNING", "WITHDRAWAL_REQUESTED"} /\ pc' \in PCs /\ balance' \in Int
    BY <1>1 DEF PCs
  <2> QED
    BY <1>1, <2>1, <2>2, <2>3, <2>4 DEF IInv, TypeOK
<1>4. FrameInv' /\ OrderInv' /\ SellsOpenPosition'
  BY <1>1 DEF FrameInv, OrderInv, SellsOpenPosition, InEntries, InExitLoop
<1>5. NumberedInv' /\ OneBuyPerCandle'
  BY <1>1 DEF NumberedInv, OneBuyPerCandle, Ids
<1>6. SlotsInv' /\ SlotLimit'
  BY <1>1, <1>2 DEF SlotsInv, SlotLimit, NoReport
<1>7. UsedInv' /\ CapitalOverrun'
  BY <1>1 DEF UsedInv, CapitalOverrun, Committed, NoReport
<1>8. TrackedExactly'
  BY <1>1, <1>2 DEF TrackedExactly
<1> QED
  BY <1>3, <1>4, <1>5, <1>6, <1>7, <1>8 DEF IInv

LEMMA LiveInvNext == IInv /\ LiveTypeOK /\ [LiveNext]_allVars => IInv'
BY LiveIsAny, InvNext, InvRestart

LEMMA LiveTypeNext == IInv /\ LiveTypeOK /\ [LiveNext]_allVars => LiveTypeOK'
<1> SUFFICES ASSUME IInv, LiveTypeOK, [LiveNext]_allVars PROVE LiveTypeOK'
  OBVIOUS
<1>1. /\ wallet \in [quote : Int, base : [Assets -> Nat]]
      /\ BaseOf \in [Coins -> Assets] /\ LotQty \in Nat
  BY ExchangeAssumption DEF LiveTypeOK
<1>2. CASE LiveBegin
  BY <1>1, <1>2 DEF LiveBegin, LiveTypeOK
<1>3. ASSUME NEW spent \in 1..order.quote, NEW fee \in 0..MaxFee, LiveBuy(spent, fee)
      PROVE  LiveTypeOK'
  <2>1. coin \in Coins /\ order.candle \in Candles /\ order.quote \in Nat
    BY <1>3 DEF LiveBuy, ExecuteBuy, IInv, TypeOK, Order, FrameInv, OrderInv
  <2>2. wallet'.base = [wallet.base EXCEPT ![BaseOf[coin]] = @ + LotQty]
        /\ wallet' = [quote |-> wallet.quote - spent, base |-> wallet'.base]
    BY <1>3 DEF LiveBuy
  <2>3. wallet'.base \in [Assets -> Nat] /\ wallet.quote - spent \in Int
    BY <1>1, <2>1, <2>2
  <2>4. wallet' \in [quote : Int, base : [Assets -> Nat]]
    BY <2>2, <2>3
  <2>5. bought' \in [Coins \X Candles -> Nat]
    BY <1>3, <2>1 DEF LiveBuy, LiveTypeOK
  <2> QED
    BY <1>3, <2>4, <2>5 DEF LiveBuy, LiveTypeOK
<1>4. ASSUME NEW proceeds \in 0..MaxProceeds, LiveSell(proceeds) PROVE LiveTypeOK'
  <2>1. coin \in Coins
    BY <1>4 DEF LiveSell, ExecuteSell, IInv, FrameInv, InExitLoop
  <2>2. /\ wallet.base[BaseOf[coin]] >= LotQty
        /\ wallet' = [quote |-> wallet.quote + proceeds,
                      base |-> [wallet.base EXCEPT ![BaseOf[coin]] = @ - LotQty]]
    BY <1>4 DEF LiveSell
  <2>3. [wallet.base EXCEPT ![BaseOf[coin]] = @ - LotQty] \in [Assets -> Nat]
        /\ wallet.quote + proceeds \in Int
    BY <1>1, <2>1, <2>2, SizesAssumption
  <2>4. wallet' \in [quote : Int, base : [Assets -> Nat]]
    BY <2>2, <2>3
  <2> QED
    BY <1>4, <2>4 DEF LiveSell, LiveTypeOK
<1>5. CASE LiveFinish \/ LiveRaise
  BY <1>5 DEF LiveFinish, LiveRaise, NoRecon, LiveTypeOK
<1>6. CASE Restart
  BY <1>6 DEF Restart, LiveTypeOK
<1>7. ASSUME NEW a \in Assets, ManualSale(a) PROVE LiveTypeOK'
  <2>1. wallet' = [wallet EXCEPT !.base[a] = @ - 1] /\ wallet.base[a] > 0
    BY <1>7 DEF ManualSale
  <2>2. wallet' \in [quote : Int, base : [Assets -> Nat]]
    BY <1>1, <2>1
  <2> QED
    BY <1>7, <2>2 DEF ManualSale, LiveTypeOK
<1>8. CASE UNCHANGED liveVars \/ UNCHANGED allVars
  BY <1>8 DEF liveVars, allVars, LiveTypeOK
<1> QED
  BY <1>2, <1>3, <1>4, <1>5, <1>6, <1>7, <1>8 DEF LiveNext

-----------------------------------------------------------------------------
(* Lots: what the exchange holds and what the service tracks *)

Lots(a) == {i \in Ids : pos[i].state \in Live /\ BaseOf[pos[i].coin] = a}

\* A lot that was bought and is not tracked yet, or sold and still tracked.
Transit(a) ==
  (IF pc = "filled" /\ BaseOf[coin] = a THEN 1 ELSE 0)
    - (IF pc = "sold" /\ BaseOf[coin] = a THEN 1 ELSE 0)

\* What the exchange holds beyond the lots it owes to the service.
Surplus(a) == wallet.base[a] - LotQty * (Tracked(a) + Transit(a))

LEMMA LotsFinite ==
  ASSUME NEW a
  PROVE  /\ Tracked(a) = Cardinality(Lots(a)) /\ IsFiniteSet(Lots(a))
         /\ Tracked(a) \in Nat
<1>1. IsFiniteSet(Lots(a))
  <2>1. Lots(a) \in SUBSET Ids
    BY DEF Lots
  <2> QED
    BY <2>1, IdsFinite, FS_Subset
<1> QED
  BY <1>1, FS_CardinalityType DEF Tracked, Lots

\* OpenPosition tracks one lot more of the coin's base asset.
LEMMA LotOpens ==
  ASSUME IInv, OpenPosition, NEW a
  PROVE  Tracked(a)' = Tracked(a) + IF BaseOf[coin] = a THEN 1 ELSE 0
<1> DEFINE new == opened + 1
<1>1. PICK S, T : S = Lots(a) /\ T = Lots(a)'
  OBVIOUS
<1>2. /\ new \in Ids /\ pos \in [Ids -> Position] /\ pos[new].state = "NONE"
      /\ pos' = [pos EXCEPT ![new] = [coin |-> coin, candle |-> order.candle,
                                      invested |-> order.fill, state |-> "OPEN"]]
  BY OpenFacts DEF NoPosition
<1>3. new \notin S /\ T = IF BaseOf[coin] = a THEN S \cup {new} ELSE S
  BY <1>1, <1>2 DEF Lots, Live
<1>4. IsFiniteSet(S) /\ Cardinality(S) = Tracked(a) /\ Cardinality(S) \in Nat
  BY <1>1, LotsFinite
<1>5. Tracked(a)' = Cardinality(T)
  BY <1>1 DEF Tracked, Lots
<1>6. Cardinality(S \cup {new}) = Cardinality(S) + 1
  BY <1>3, <1>4, FS_AddElement
<1> QED
  BY <1>3, <1>4, <1>5, <1>6

\* ClosePosition tracks one lot less.
LEMMA LotCloses ==
  ASSUME IInv, ClosePosition, NEW a
  PROVE  Tracked(a)' = Tracked(a) - IF BaseOf[coin] = a THEN 1 ELSE 0
<1> DEFINE i == First(todo)
<1>1. PICK S, T : S = Lots(a) /\ T = Lots(a)'
  OBVIOUS
<1>2. /\ i \in Ids /\ pos \in [Ids -> Position] /\ i \in OpenOf(coin)
      /\ pos' = [pos EXCEPT ![i].state = "CLOSED"]
  BY CloseFacts
<1>3. pos[i].coin = coin /\ pos[i].state \in Live
  BY <1>2 DEF OpenOf
<1>4. /\ BaseOf[coin] = a => i \in S /\ T = S \ {i}
      /\ BaseOf[coin] # a => T = S
  <2>1. \A j \in Ids : j # i => pos'[j] = pos[j]
    BY <1>2
  <2>2. pos'[i].state = "CLOSED"
    BY <1>2 DEF Position
  <2> QED
    BY <1>1, <1>2, <1>3, <2>1, <2>2 DEF Lots, Live
<1>5. IsFiniteSet(S) /\ Cardinality(S) = Tracked(a) /\ Cardinality(S) \in Nat
  BY <1>1, LotsFinite
<1>6. Tracked(a)' = Cardinality(T)
  BY <1>1 DEF Tracked, Lots
<1>7. i \in S => Cardinality(S \ {i}) = Cardinality(S) - 1
  BY <1>5, FS_RemoveElement
<1>8. CASE BaseOf[coin] = a
  <2>1. Tracked(a)' = Tracked(a) - 1
    BY <1>4, <1>5, <1>6, <1>7, <1>8
  <2> QED
    BY <1>8, <2>1
<1>9. CASE BaseOf[coin] # a
  BY <1>4, <1>5, <1>6, <1>9
<1> QED
  BY <1>8, <1>9

\* Every other step of the service tracks the same lots.
LEMMA LotsStay ==
  ASSUME IInv, [AnyNext]_vars, ~OpenPosition, ~ClosePosition, NEW a
  PROVE  Tracked(a)' = Tracked(a)
<1>1. CASE pos' = pos
  BY <1>1 DEF Tracked
<1>2. ASSUME NEW reached \in BOOLEAN, DecideExit(reached)
      PROVE  Tracked(a)' = Tracked(a)
  <2> DEFINE i == First(todo)
  <2>1. DecideExit(TRUE) \/ DecideExit(FALSE)
    BY <1>2
  <2>2. /\ i \in Ids /\ \A c : OpenOf(c)' = OpenOf(c)
        /\ pos' = pos \/ pos' = [pos EXCEPT ![i].state = "EXIT_ARMED"]
    BY <2>1, ArmingKeepsOpen
  <2>3. pos \in [Ids -> Position]
    BY DEF IInv, TypeOK
  <2>4. \A j \in Ids : pos'[j].coin = pos[j].coin
    BY <2>2, <2>3 DEF Position
  <2>5. \A j \in Ids : pos'[j].state \in Live <=> pos[j].state \in Live
    <3> SUFFICES ASSUME NEW j \in Ids
                 PROVE  pos'[j].state \in Live <=> pos[j].state \in Live
      OBVIOUS
    <3>1. PICK c : c = pos[j].coin /\ c = pos'[j].coin
      BY <2>4
    <3>2. pos[j].state \in Live <=> j \in OpenOf(c)
      BY <3>1 DEF OpenOf
    <3>3. pos'[j].state \in Live <=> j \in OpenOf(c)'
      BY <3>1 DEF OpenOf
    <3> QED
      BY <2>2, <3>2, <3>3
  <2> QED
    BY <2>4, <2>5 DEF Tracked
<1>3. pos' = pos \/ \E reached \in BOOLEAN : DecideExit(reached)
  BY DEF AnyNext, StartTick, TickStep, SkipEntry, DecideBuy, ExecuteBuy, EndEntries,
         SkipExits, FetchExits, ExecuteSell, KeepStillOpen, FinishTick, Raise,
         Environment, RequestWithdrawal, Resume, MinutePasses, Outside, vars, service
<1> QED
  BY <1>1, <1>2, <1>3

\* One lot more or less, in units.
LEMMA LotUnits ==
  \A n \in Int : /\ LotQty * n \in Int
                /\ LotQty * (n + 1) = LotQty * n + LotQty
                /\ LotQty * (n - 1) = LotQty * n - LotQty
<1>1. \A q, n \in Int : q * n \in Int /\ q * (n + 1) = q * n + q /\ q * (n - 1) = q * n - q
  OBVIOUS
<1>2. LotQty \in Int
  BY ExchangeAssumption
<1> QED
  BY <1>1, <1>2

\* Only the owner's sale takes from the surplus, and it is counted.
LEMMA SurplusStep ==
  ASSUME IInv, LiveTypeOK, [LiveNext]_allVars, ~Restart, pc' # "raised", NEW a \in Assets
  PROVE  /\ pc # "raised"
         /\ Surplus(a)' + manual' >= Surplus(a) + manual
         /\ manual' = 0 => manual = 0 /\ Surplus(a)' = Surplus(a)
<1> DEFINE due == Tracked(a) + Transit(a)
<1>1. /\ wallet.base[a] \in Nat /\ wallet'.base[a] \in Nat /\ manual \in Nat /\ manual' \in Nat
      /\ LotQty \in Nat /\ BaseOf \in [Coins -> Assets]
  BY LiveTypeNext, ExchangeAssumption DEF LiveTypeOK
<1>2. Transit(a) \in Int /\ Tracked(a) \in Nat /\ due \in Int
      /\ Transit(a)' \in Int /\ Tracked(a)' \in Nat /\ due' \in Int
  <2>1. Transit(a) \in Int /\ Transit(a)' \in Int
    BY DEF Transit
  <2>2. Tracked(a) \in Nat
    BY LotsFinite
  <2>3. PICK T : T = Lots(a)'
    OBVIOUS
  <2>4. T \in SUBSET Ids /\ Tracked(a)' = Cardinality(T)
    BY <2>3 DEF Lots, Tracked
  <2>5. Cardinality(T) \in Nat
    BY <2>4, IdsFinite, FS_Subset, FS_CardinalityType
  <2> QED
    BY <2>1, <2>2, <2>4, <2>5
<1>3. Surplus(a) = wallet.base[a] - LotQty * due
  BY DEF Surplus
<1>4. Surplus(a)' = wallet'.base[a] - LotQty * due'
  BY DEF Surplus
<1>5. LotQty * due \in Int /\ LotQty * due' \in Int
  BY <1>2, LotUnits
<1>6. ASSUME due' = due, wallet'.base[a] = wallet.base[a], manual' = manual, pc # "raised"
      PROVE  /\ pc # "raised"
             /\ Surplus(a)' + manual' >= Surplus(a) + manual
             /\ manual' = 0 => manual = 0 /\ Surplus(a)' = Surplus(a)
  <2> HIDE DEF due
  <2> QED
    BY <1>1, <1>3, <1>4, <1>5, <1>6
<1>7. ASSUME NEW spent \in 1..order.quote, NEW fee \in 0..MaxFee, LiveBuy(spent, fee)
      PROVE  /\ due' = due + IF BaseOf[coin] = a THEN 1 ELSE 0
             /\ wallet'.base[a] = wallet.base[a] + IF BaseOf[coin] = a THEN LotQty ELSE 0
             /\ manual' = manual /\ pc # "raised"
  <2>1. /\ pc = "buying" /\ pc' = "filled" /\ coin' = coin /\ coin \in Coins
        /\ manual' = manual
        /\ wallet'.base = [wallet.base EXCEPT ![BaseOf[coin]] = @ + LotQty]
    BY <1>7 DEF LiveBuy, ExecuteBuy, IInv, FrameInv
  <2>2. Tracked(a)' = Tracked(a)
    BY <1>7 DEF LiveBuy, ExecuteBuy, service, Tracked
  <2>3. wallet'.base[a] = wallet.base[a] + IF BaseOf[coin] = a THEN LotQty ELSE 0
    BY <1>1, <2>1 DEF LiveTypeOK
  <2>4. Transit(a) = 0 /\ Transit(a)' = IF BaseOf[coin] = a THEN 1 ELSE 0
    BY <2>1 DEF Transit
  <2> QED
    BY <1>2, <2>1, <2>2, <2>3, <2>4
<1>8. ASSUME NEW proceeds \in 0..MaxProceeds, LiveSell(proceeds)
      PROVE  /\ due' = due - IF BaseOf[coin] = a THEN 1 ELSE 0
             /\ wallet'.base[a] = wallet.base[a] - IF BaseOf[coin] = a THEN LotQty ELSE 0
             /\ manual' = manual /\ pc # "raised"
  <2>1. /\ pc = "selling" /\ pc' = "sold" /\ coin' = coin /\ coin \in Coins
        /\ manual' = manual
        /\ wallet'.base = [wallet.base EXCEPT ![BaseOf[coin]] = @ - LotQty]
    BY <1>8 DEF LiveSell, ExecuteSell, IInv, FrameInv, InExitLoop
  <2>2. Tracked(a)' = Tracked(a)
    BY <1>8 DEF LiveSell, ExecuteSell, service, Tracked
  <2>3. wallet'.base[a] = wallet.base[a] - IF BaseOf[coin] = a THEN LotQty ELSE 0
    BY <1>1, <2>1 DEF LiveTypeOK
  <2>4. Transit(a) = 0 /\ Transit(a)' = -(IF BaseOf[coin] = a THEN 1 ELSE 0)
    BY <2>1 DEF Transit
  <2> QED
    BY <1>2, <2>1, <2>2, <2>3, <2>4
<1>9. CASE OpenPosition /\ UNCHANGED liveVars
  <2>1. pc = "filled" /\ pc' = "entries" /\ wallet' = wallet /\ manual' = manual
    BY <1>9, OpenFacts DEF liveVars
  <2>2. Tracked(a)' = Tracked(a) + IF BaseOf[coin] = a THEN 1 ELSE 0
    BY <1>9, LotOpens
  <2>3. Transit(a)' = 0 /\ Transit(a) = IF BaseOf[coin] = a THEN 1 ELSE 0
    BY <2>1 DEF Transit
  <2>4. due' = due
    BY <1>2, <2>2, <2>3
  <2> QED
    BY <1>6, <2>1, <2>4
<1>10. CASE ClosePosition /\ UNCHANGED liveVars
  <2>1. pc = "sold" /\ pc' = "exiting" /\ wallet' = wallet /\ manual' = manual
    BY <1>10, CloseFacts DEF liveVars
  <2>2. Tracked(a)' = Tracked(a) - IF BaseOf[coin] = a THEN 1 ELSE 0
    BY <1>10, LotCloses
  <2>3. Transit(a)' = 0 /\ Transit(a) = -(IF BaseOf[coin] = a THEN 1 ELSE 0)
    BY <2>1 DEF Transit
  <2>4. due' = due
    BY <1>2, <2>2, <2>3
  <2> QED
    BY <1>6, <2>1, <2>4
<1>11. ASSUME NEW b \in Assets, ManualSale(b)
       PROVE  /\ pc # "raised"
              /\ Surplus(a)' + manual' >= Surplus(a) + manual
              /\ manual' = 0 => manual = 0 /\ Surplus(a)' = Surplus(a)
  <2>1. manual' = manual + 1 /\ UNCHANGED vars
        /\ wallet' = [wallet EXCEPT !.base[b] = @ - 1]
    BY <1>11 DEF ManualSale
  <2>2. due' = due /\ pc' = pc
    BY <2>1 DEF vars, service, frame, Tracked, Transit
  <2>3. wallet'.base[a] \in {wallet.base[a], wallet.base[a] - 1}
    BY <2>1, <1>1 DEF LiveTypeOK
  <2> QED
    <3> HIDE DEF due
    <3> QED
      BY <1>1, <1>3, <1>4, <1>5, <2>1, <2>2, <2>3
<1>12. CASE /\ LiveBegin \/ LiveFinish \/ ((InnerStep \/ Environment) /\ UNCHANGED liveVars)
               \/ UNCHANGED allVars
            /\ ~OpenPosition /\ ~ClosePosition
  <2>1. wallet' = wallet /\ manual' = manual
    BY <1>12 DEF LiveBegin, LiveFinish, liveVars, allVars
  <2>2. Tracked(a)' = Tracked(a)
    BY <1>12, LiveIsAny, LotsStay
  <2>3. \/ pc \notin {"filled", "sold", "raised"} /\ pc' \notin {"filled", "sold"}
        \/ pc' = pc /\ coin' = coin
    <3>1. CASE InnerStep
      BY <1>12, <3>1 DEF InnerStep, SkipEntry, DecideBuy, EndEntries, SkipExits, FetchExits,
                        DecideExit, KeepStillOpen
    <3>2. CASE Environment \/ UNCHANGED allVars
      BY <3>2 DEF Environment, RequestWithdrawal, Resume, MinutePasses, allVars, vars, frame
    <3>3. CASE LiveBegin \/ LiveFinish
      BY <3>3 DEF LiveBegin, StartTick, LiveFinish, FinishTick
    <3> QED
      BY <1>12, <3>1, <3>2, <3>3
  <2>4. Transit(a)' = Transit(a) /\ pc # "raised"
    BY <2>3 DEF Transit
  <2>5. due' = due
    BY <2>2, <2>4
  <2> QED
    BY <1>6, <2>1, <2>4, <2>5
<1>13. CASE \E spent \in 1..order.quote, fee \in 0..MaxFee : LiveBuy(spent, fee)
  <2>1. due' = due + (IF BaseOf[coin] = a THEN 1 ELSE 0) /\ manual' = manual /\ pc # "raised"
        /\ wallet'.base[a] = wallet.base[a] + IF BaseOf[coin] = a THEN LotQty ELSE 0
    BY <1>7, <1>13
  <2>2. Surplus(a)' = Surplus(a)
    <3> HIDE DEF due
    <3>1. LotQty * (due + 1) = LotQty * due + LotQty
      BY <1>2, LotUnits
    <3>2. CASE BaseOf[coin] = a
      <4>1. due' = due + 1 /\ wallet'.base[a] = wallet.base[a] + LotQty
        BY <2>1, <3>2
      <4>2. LotQty * due' = LotQty * due + LotQty
        BY <3>1, <4>1
      <4> QED
        BY <1>1, <1>3, <1>4, <1>5, <4>1, <4>2
    <3>3. CASE BaseOf[coin] # a
      <4>1. due' = due /\ wallet'.base[a] = wallet.base[a]
        BY <1>1, <1>2, <2>1, <3>3
      <4> QED
        BY <1>3, <1>4, <4>1
    <3> QED
      BY <3>2, <3>3
  <2>3. Surplus(a) \in Int
    BY <1>1, <1>3, <1>5
  <2> QED
    BY <1>1, <2>1, <2>2, <2>3
<1>14. CASE \E proceeds \in 0..MaxProceeds : LiveSell(proceeds)
  <2>1. due' = due - (IF BaseOf[coin] = a THEN 1 ELSE 0) /\ manual' = manual /\ pc # "raised"
        /\ wallet'.base[a] = wallet.base[a] - IF BaseOf[coin] = a THEN LotQty ELSE 0
    BY <1>8, <1>14
  <2>2. Surplus(a)' = Surplus(a)
    <3> HIDE DEF due
    <3>1. LotQty * (due - 1) = LotQty * due - LotQty
      BY <1>2, LotUnits
    <3>2. CASE BaseOf[coin] = a
      <4>1. due' = due - 1 /\ wallet'.base[a] = wallet.base[a] - LotQty
        BY <2>1, <3>2
      <4>2. LotQty * due' = LotQty * due - LotQty
        BY <3>1, <4>1
      <4> QED
        BY <1>1, <1>3, <1>4, <1>5, <4>1, <4>2
    <3>3. CASE BaseOf[coin] # a
      <4>1. due' = due /\ wallet'.base[a] = wallet.base[a]
        BY <1>1, <1>2, <2>1, <3>3
      <4> QED
        BY <1>3, <1>4, <4>1
    <3> QED
      BY <3>2, <3>3
  <2>3. Surplus(a) \in Int
    BY <1>1, <1>3, <1>5
  <2> QED
    BY <1>1, <2>1, <2>2, <2>3
<1>15. ~LiveRaise
  BY DEF LiveRaise, Raise
<1>16. OpenPosition \/ ClosePosition => ~LiveBegin /\ ~LiveFinish
  BY DEF OpenPosition, ClosePosition, LiveBegin, StartTick, LiveFinish, FinishTick
<1>17. OpenPosition \/ ClosePosition => ~Environment /\ ~UNCHANGED allVars
  <2>1. OpenPosition \/ ClosePosition => pc' # pc
    BY DEF OpenPosition, ClosePosition
  <2> QED
    BY <2>1 DEF Environment, RequestWithdrawal, Resume, MinutePasses, allVars, vars, frame
<1>18. \/ OpenPosition /\ UNCHANGED liveVars
       \/ ClosePosition /\ UNCHANGED liveVars
       \/ \E b \in Assets : ManualSale(b)
       \/ \E spent \in 1..order.quote, fee \in 0..MaxFee : LiveBuy(spent, fee)
       \/ \E proceeds \in 0..MaxProceeds : LiveSell(proceeds)
       \/ /\ LiveBegin \/ LiveFinish \/ ((InnerStep \/ Environment) /\ UNCHANGED liveVars)
             \/ UNCHANGED allVars
          /\ ~OpenPosition /\ ~ClosePosition
  <2>1. CASE OpenPosition \/ ClosePosition
    BY <1>15, <1>16, <1>17, <2>1 DEF LiveNext
  <2>2. CASE ~OpenPosition /\ ~ClosePosition
    BY <1>15, <2>2 DEF LiveNext
  <2> QED
    BY <2>1, <2>2
<1> QED
  BY <1>9, <1>10, <1>11, <1>12, <1>13, <1>14, <1>18

-----------------------------------------------------------------------------
(* The guard, the reconciliation and the theorems *)

\* While the process lives, a filled BUY is in the guard or about to enter it.
OrdersInv ==
  restarts = 0 /\ pc # "raised" =>
    \A ck \in Coins \X Candles :
      bought[ck] > 0 => ck \in guard \/ (pc = "filled" /\ ck = <<coin, order.candle>>)

\* A clean status speaks of the snapshot taken when the tick began.
ReconInv ==
  /\ pc \in {"buying", "filled"} => status.clean
  /\ InEntries /\ status.clean =>
       \A c \in Coins :
         Covered(recon.seen[BaseOf[c]], LotQty * (Cardinality(held[c]) - report.opened[c]))

LotsInv ==
  /\ pc # "raised" => \A a \in Assets : Surplus(a) + manual >= 0
  /\ pc # "raised" /\ manual = 0 /\ restarts = 0 => \A a \in Assets : Surplus(a) = 0

LiveInv ==
  IInv /\ LiveTypeOK /\ LotsInv /\ OrdersInv /\ OneOrderPerProcess /\ ReconInv

\* A tick places at most the one order of a coin and candle.
LEMMA OrdersNext ==
  IInv /\ LiveTypeOK /\ OrdersInv /\ OneOrderPerProcess /\ [LiveNext]_allVars
    => OrdersInv' /\ OneOrderPerProcess'
<1> SUFFICES ASSUME IInv, LiveTypeOK, OrdersInv, OneOrderPerProcess, [LiveNext]_allVars
             PROVE  OrdersInv' /\ OneOrderPerProcess'
  OBVIOUS
<1>1. CASE Restart
  <2>1. restarts' # 0
    BY <1>1 DEF Restart, LiveTypeOK
  <2> QED
    BY <2>1 DEF OrdersInv, OneOrderPerProcess
<1>2. ASSUME NEW spent \in 1..order.quote, NEW fee \in 0..MaxFee, LiveBuy(spent, fee)
      PROVE  OrdersInv' /\ OneOrderPerProcess'
  <2> DEFINE new == <<coin, order.candle>>
  <2>1. /\ pc = "buying" /\ pc' = "filled" /\ guard' = guard /\ coin' = coin
        /\ restarts' = restarts /\ order'.candle = order.candle
        /\ bought' = [bought EXCEPT ![new] = @ + 1]
    BY <1>2 DEF LiveBuy, ExecuteBuy, service, IInv, TypeOK, Order
  <2>2. new \in Coins \X Candles /\ new \notin guard
    BY <2>1 DEF IInv, FrameInv, OrderInv
  <2>3. bought \in [Coins \X Candles -> Nat]
    BY DEF LiveTypeOK
  <2>4. restarts = 0 => bought[new] = 0
    BY <2>1, <2>2, <2>3 DEF OrdersInv
  <2>5. restarts = 0 => \A ck \in Coins \X Candles : bought'[ck] <= 1
    <3>1. bought'[new] = bought[new] + 1
      BY <2>1, <2>2, <2>3
    <3>2. \A ck \in Coins \X Candles : ck # new => bought'[ck] = bought[ck]
      BY <2>1, <2>3
    <3> HIDE DEF new
    <3> QED
      BY <2>2, <2>4, <3>1, <3>2 DEF OneOrderPerProcess, OneOrderPerCandle
  <2>6. OrdersInv'
    BY <2>1, <2>2, <2>3 DEF OrdersInv
  <2> QED
    BY <2>1, <2>5, <2>6 DEF OneOrderPerProcess, OneOrderPerCandle
<1>3. CASE /\ bought' = bought /\ restarts' = restarts /\ guard \subseteq guard'
           /\ pc' # "raised" => pc # "raised"
           /\ (pc = "filled" /\ pc' # "raised") =>
                \/ <<coin, order.candle>> \in guard'
                \/ pc' = "filled" /\ coin' = coin /\ order' = order
  BY <1>3 DEF OrdersInv, OneOrderPerProcess, OneOrderPerCandle
<1>4. CASE LiveBegin \/ LiveFinish \/ LiveRaise
           \/ \E proceeds \in 0..MaxProceeds : LiveSell(proceeds)
  BY <1>3, <1>4 DEF LiveBegin, StartTick, LiveFinish, FinishTick, LiveRaise, Raise, LiveSell,
                   ExecuteSell, service
<1>5. CASE InnerStep /\ UNCHANGED liveVars
  <2>1. CASE OpenPosition
    BY <1>3, <1>5, <2>1 DEF OpenPosition, liveVars
  <2>2. CASE ~OpenPosition
    BY <1>3, <1>5, <2>2 DEF InnerStep, SkipEntry, DecideBuy, EndEntries, SkipExits, FetchExits,
         DecideExit, ClosePosition, KeepStillOpen, liveVars, service
  <2> QED
    BY <2>1, <2>2
<1>6. CASE (Environment /\ UNCHANGED liveVars) \/ UNCHANGED allVars
           \/ \E a \in Assets : ManualSale(a)
  BY <1>3, <1>6 DEF Environment, RequestWithdrawal, Resume, MinutePasses, ManualSale, liveVars,
                   allVars, vars, service, frame
<1> QED
  BY <1>1, <1>2, <1>4, <1>5, <1>6 DEF LiveNext

\* The snapshot is compared when the tick begins; an entry adds to a list and to
\* the report alike.
LEMMA ReconNext ==
  IInv /\ LiveTypeOK /\ ReconInv /\ [LiveNext]_allVars => ReconInv'
<1> SUFFICES ASSUME IInv, LiveTypeOK, ReconInv, [LiveNext]_allVars PROVE ReconInv'
  OBVIOUS
<1>1. CASE LiveBegin
  <2>1. /\ pc = "idle" /\ pc' \in {"entries", "exits"} /\ held' = held /\ pos' = pos
        /\ report' = NoReport /\ recon'.seen = wallet.base
        /\ status'.clean => Reconciled
    BY <1>1 DEF LiveBegin, StartTick, NoStatus, service, IInv, FrameInv
  <2>2. ASSUME NEW c \in Coins, Reconciled
        PROVE  Covered(wallet.base[BaseOf[c]], LotQty * (Cardinality(held[c]) - 0))
    <3>1. Cardinality(held[c]) \in Nat /\ wallet.base[BaseOf[c]] \in Nat
      <4>1. held[c] = OpenOf(c)
        BY <2>1 DEF IInv, TrackedExactly
      <4> QED
        BY <4>1, OpenFinite, ExchangeAssumption DEF LiveTypeOK
    <3>2. LotQty \in Nat /\ Tolerance \in 0..100
      BY ExchangeAssumption
    <3>3. Expected(c) = LotQty * (Cardinality(held[c]) - 0) /\ Expected(c) \in Nat
      <4>1. Cardinality(held[c]) - 0 = Cardinality(held[c])
        BY <3>1
      <4>2. \A m, n \in Nat : m * n \in Nat
        OBVIOUS
      <4> QED
        BY <3>1, <3>2, <4>1, <4>2 DEF Expected
    <3>4. CASE Expected(c) > 0
      BY <2>2, <3>3, <3>4 DEF Reconciled
    <3>5. CASE Expected(c) = 0
      <4>1. (100 - Tolerance) * 0 = 0
        BY <3>2
      <4> QED
        BY <3>1, <3>3, <3>5, <4>1 DEF Covered
    <3> QED
      BY <3>3, <3>4, <3>5
  <2> QED
    BY <2>1, <2>2 DEF ReconInv, NoReport, InEntries
<1>2. CASE OpenPosition /\ UNCHANGED liveVars
  <2> DEFINE new == opened + 1
  <2>1. /\ coin \in Coins /\ held \in [Coins -> SUBSET Ids]
        /\ held' = [held EXCEPT ![coin] = @ \cup {new}] /\ pos[new] = NoPosition
        /\ report'.opened = [report.opened EXCEPT ![coin] = @ + 1]
        /\ report \in Report /\ pc = "filled" /\ pc' = "entries"
    BY <1>2, OpenFacts
  <2>2. status' = status /\ recon' = recon
    BY <1>2 DEF OpenPosition, liveVars
  <2>3. ASSUME NEW c \in Coins
        PROVE  Cardinality(held'[c]) - report'.opened[c] = Cardinality(held[c]) - report.opened[c]
    <3>1. held[c] = OpenOf(c) /\ IsFiniteSet(held[c]) /\ Cardinality(held[c]) \in Nat
      <4>1. held[c] = OpenOf(c)
        BY <2>1 DEF IInv, TrackedExactly
      <4> QED
        BY <4>1, OpenFinite
    <3>2. new \notin held[c]
      BY <2>1, <3>1 DEF OpenOf, NoPosition, Live
    <3>3. Cardinality(held[c] \cup {new}) = Cardinality(held[c]) + 1
      BY <3>1, <3>2, FS_AddElement
    <3>4. report.opened \in [Coins -> Nat] /\ report.opened[c] \in Nat
      BY <2>1 DEF Report
    <3>5. CASE c = coin
      BY <2>1, <3>1, <3>3, <3>4, <3>5
    <3>6. CASE c # coin
      BY <2>1, <3>4, <3>6
    <3> QED
      BY <3>5, <3>6
  <2> QED
    BY <2>1, <2>2, <2>3 DEF ReconInv, InEntries
<1>3. CASE pc' \notin {"entries", "buying", "filled"}
  BY <1>3 DEF ReconInv, InEntries
<1>4. CASE /\ UNCHANGED <<held, report, status>> /\ recon' = recon /\ InEntries
           /\ pc' = "buying" => status.clean
           /\ pc' = "filled" => pc \in {"buying", "filled"}
  BY <1>4 DEF ReconInv, InEntries
<1>5. CASE ~OpenPosition /\ InnerStep /\ UNCHANGED liveVars
  BY <1>3, <1>4, <1>5 DEF InnerStep, SkipEntry, DecideBuy, GatesOpen, EndEntries, SkipExits,
       FetchExits, DecideExit, ClosePosition, KeepStillOpen, liveVars, service, InEntries
<1>6. CASE (Environment /\ UNCHANGED liveVars) \/ UNCHANGED allVars
           \/ \E a \in Assets : ManualSale(a)
  <2>1. UNCHANGED <<held, report, status, pc>> /\ recon' = recon
    BY <1>6 DEF Environment, RequestWithdrawal, Resume, MinutePasses, ManualSale, liveVars,
                allVars, vars, service, frame
  <2> QED
    BY <2>1 DEF ReconInv, InEntries
<1>7. ASSUME NEW spent \in 1..order.quote, NEW fee \in 0..MaxFee, LiveBuy(spent, fee)
      PROVE  ReconInv'
  BY <1>4, <1>7 DEF LiveBuy, ExecuteBuy, service, InEntries
<1>8. CASE LiveFinish \/ LiveRaise \/ Restart
           \/ \E proceeds \in 0..MaxProceeds : LiveSell(proceeds)
  BY <1>3, <1>8 DEF LiveFinish, FinishTick, LiveRaise, Raise, Restart, LiveSell, ExecuteSell
<1> QED
  BY <1>1, <1>2, <1>5, <1>6, <1>7, <1>8 DEF LiveNext

LEMMA LotsNext ==
  IInv /\ LiveTypeOK /\ LotsInv /\ [LiveNext]_allVars => LotsInv'
<1> SUFFICES ASSUME IInv, LiveTypeOK, LotsInv, [LiveNext]_allVars, pc' # "raised"
             PROVE  LotsInv'
  BY DEF LotsInv
<1>1. CASE Restart
  <2>1. /\ pos' = [i \in Ids |-> NoPosition] /\ pc' = "idle" /\ manual' \in Nat
        /\ restarts' # 0 /\ wallet' \in [quote : Int, base : [Assets -> Nat]]
    BY <1>1, LiveTypeNext DEF Restart, LiveTypeOK
  <2>2. ASSUME NEW a \in Assets PROVE Surplus(a)' = wallet'.base[a]
    <3>1. Tracked(a)' = 0
      <4>1. Lots(a)' = {}
        BY <2>1 DEF Lots, NoPosition, Live
      <4> QED
        BY <4>1, FS_EmptySet DEF Lots, Tracked
    <3>2. Transit(a)' = 0
      BY <2>1 DEF Transit
    <3>3. LotQty * 0 = 0
      BY ExchangeAssumption
    <3> QED
      BY <2>1, <3>1, <3>2, <3>3 DEF Surplus
  <2> QED
    BY <2>1, <2>2 DEF LotsInv
<1>2. CASE ~Restart
  <2>1. restarts' = restarts
    BY <1>2 DEF LiveNext, LiveBegin, LiveBuy, LiveSell, LiveFinish, LiveRaise, ManualSale,
                liveVars, allVars
  <2>2. ASSUME NEW a \in Assets
        PROVE  /\ Surplus(a)' + manual' >= 0
               /\ manual' = 0 /\ restarts' = 0 => Surplus(a)' = 0
    <3>1. Surplus(a) \in Int /\ Surplus(a)' \in Int
      <4>1. PICK T : T = Lots(a)'
        OBVIOUS
      <4>2. T \in SUBSET Ids /\ Tracked(a)' = Cardinality(T)
        BY <4>1 DEF Lots, Tracked
      <4>3. Tracked(a) \in Int /\ Tracked(a)' \in Int
        BY <4>2, LotsFinite, IdsFinite, FS_Subset, FS_CardinalityType
      <4>4. Transit(a) \in Int /\ Transit(a)' \in Int
        BY DEF Transit
      <4>5. wallet.base[a] \in Int /\ wallet'.base[a] \in Int
        BY LiveTypeNext DEF LiveTypeOK
      <4>6. /\ LotQty * (Tracked(a) + Transit(a)) \in Int
            /\ LotQty * (Tracked(a)' + Transit(a)') \in Int
        BY <4>3, <4>4, LotUnits
      <4> QED
        BY <4>5, <4>6 DEF Surplus
    <3>2. manual \in Nat /\ manual' \in Nat
      BY LiveTypeNext DEF LiveTypeOK
    <3>3. /\ pc # "raised"
          /\ Surplus(a)' + manual' >= Surplus(a) + manual
          /\ manual' = 0 => manual = 0 /\ Surplus(a)' = Surplus(a)
      BY <1>2, SurplusStep
    <3>4. Surplus(a) + manual >= 0
      BY <3>3 DEF LotsInv
    <3>5. manual = 0 /\ restarts = 0 => Surplus(a) = 0
      BY <3>3 DEF LotsInv
    <3> HIDE DEF Surplus
    <3>6. Surplus(a)' + manual' >= 0
      BY <3>1, <3>2, <3>3, <3>4
    <3> QED
      BY <2>1, <3>3, <3>5, <3>6
  <2> QED
    BY <2>2 DEF LotsInv
<1> QED
  BY <1>1, <1>2

LEMMA LiveInvInit == LiveInit => LiveInv
<1> SUFFICES ASSUME LiveInit PROVE LiveInv
  OBVIOUS
<1>1. Init /\ IInv /\ balance \in Int
  BY InvInit DEF LiveInit, IInv, TypeOK
<1>2. LiveTypeOK
  BY <1>1 DEF LiveInit, LiveTypeOK, NoRecon
<1>3. OrdersInv /\ OneOrderPerProcess
  BY DEF LiveInit, OrdersInv, OneOrderPerProcess, OneOrderPerCandle
<1>4. ReconInv
  BY <1>1 DEF Init, ReconInv, InEntries
<1>5. ASSUME NEW a \in Assets PROVE Surplus(a) = 0
  <2>1. Tracked(a) = 0
    <3>1. Lots(a) = {}
      BY <1>1 DEF Init, Lots, NoPosition, Live
    <3> QED
      BY <3>1, FS_EmptySet DEF Lots, Tracked
  <2>2. Transit(a) = 0 /\ wallet.base[a] = 0
    BY <1>1 DEF Init, LiveInit, Transit
  <2>3. LotQty * 0 = 0
    BY ExchangeAssumption
  <2> QED
    BY <2>1, <2>2, <2>3 DEF Surplus
<1>6. LotsInv
  BY <1>5 DEF LiveInit, LotsInv
<1> QED
  BY <1>1, <1>2, <1>3, <1>4, <1>6 DEF LiveInv

LEMMA LiveInvariance == LiveSpec => []LiveInv
<1>1. LiveInv /\ [LiveNext]_allVars => LiveInv'
  BY LiveInvNext, LiveTypeNext, LotsNext, OrdersNext, ReconNext DEF LiveInv
<1> QED
  BY <1>1, LiveInvInit, PTL DEF LiveSpec

\* Until the first restart the exchange never fills two BUY orders of a coin and
\* closed candle, a dead process included (ProcessedCandleGuard).
THEOREM OneOrderPerProcessHolds == LiveSpec => []OneOrderPerProcess
<1>1. LiveInv => OneOrderPerProcess
  BY DEF LiveInv
<1> QED
  BY <1>1, LiveInvariance, PTL

\* The exchange holds every lot the service tracks, but for what the owner sold
\* and the sale whose answer is being handled (try_enter, try_exit).
THEOREM HoldingsCoveredHolds == LiveSpec => []HoldingsCovered
<1>1. LiveInv => HoldingsCovered
  <2> SUFFICES ASSUME LiveInv, pc # "raised", NEW a \in Assets
               PROVE  wallet.base[a] + manual
                        + (IF pc = "sold" /\ BaseOf[coin] = a THEN LotQty ELSE 0)
                        >= LotQty * Tracked(a)
    BY DEF HoldingsCovered
  <2>1. /\ Surplus(a) + manual >= 0 /\ wallet.base[a] \in Nat /\ manual \in Nat
        /\ Tracked(a) \in Nat /\ LotQty \in Nat
    BY LotsFinite, ExchangeAssumption DEF LiveInv, LotsInv, LiveTypeOK
  <2>2. LotQty * Tracked(a) \in Int
    BY <2>1, LotUnits
  <2>3. CASE Transit(a) = 0
    BY <2>1, <2>2, <2>3 DEF Surplus
  <2>4. CASE Transit(a) = 1
    BY <2>1, <2>2, <2>4, LotUnits DEF Surplus
  <2>5. CASE Transit(a) = -1 /\ pc = "sold" /\ BaseOf[coin] = a
    <3>1. LotQty * (Tracked(a) + Transit(a)) = LotQty * Tracked(a) - LotQty
      <4>1. Tracked(a) + Transit(a) = Tracked(a) - 1
        BY <2>1, <2>5
      <4> QED
        BY <2>1, <4>1, LotUnits
    <3> QED
      BY <2>1, <2>2, <2>5, <3>1 DEF Surplus
  <2> QED
    BY <2>3, <2>4, <2>5 DEF Transit
<1> QED
  BY <1>1, LiveInvariance, PTL

\* Before the first manual sale and the first restart the two agree exactly
\* between ticks.
THEOREM HoldingsExactHolds == LiveSpec => []HoldingsExact
<1>1. LiveInv => HoldingsExact
  <2> SUFFICES ASSUME LiveInv, manual = 0, restarts = 0, pc = "idle", NEW a \in Assets
               PROVE  wallet.base[a] = LotQty * Tracked(a)
    BY DEF HoldingsExact
  <2>1. Surplus(a) = 0 /\ Transit(a) = 0 /\ wallet.base[a] \in Nat /\ Tracked(a) \in Nat
    BY LotsFinite DEF LiveInv, LotsInv, Transit, LiveTypeOK
  <2>2. LotQty * Tracked(a) \in Int
    BY <2>1, LotUnits
  <2>3. Tracked(a) + Transit(a) = Tracked(a)
    BY <2>1
  <2>4. Surplus(a) = wallet.base[a] - LotQty * Tracked(a)
    BY <2>3, Zenon DEF Surplus
  <2> QED
    BY <2>1, <2>2, <2>4
<1> QED
  BY <1>1, LiveInvariance, PTL

\* A BUY is under way only in a tick whose snapshot covered every position
\* tracked before it (run_live, reconcile_positions).
THEOREM NoBuyOnShortfallHolds == LiveSpec => []NoBuyOnShortfall
<1>1. LiveInv => NoBuyOnShortfall
  BY DEF LiveInv, ReconInv, NoBuyOnShortfall, InEntries
<1> QED
  BY <1>1, LiveInvariance, PTL
=============================================================================
