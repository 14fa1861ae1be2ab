---------------------------- MODULE PositionBook ----------------------------
(***************************************************************************)
(* What a trading process promises about its positions, whatever the loop  *)
(* that drives it: a position is opened on a coin with a free slot and on  *)
(* a candle that never opened one before; it is armed at most once; it is  *)
(* sold once, and for good (strategy/position.py, execution/gates.py).     *)
(***************************************************************************)
EXTENDS Integers, FiniteSets

CONSTANTS NumCoins, SlotCount, MaxMinute, MaxPositions

VARIABLE book  \* what became of each position

Entry(c, k, s) == [coin |-> c, candle |-> k, state |-> s]
Unopened == Entry(0, -1, "NONE")
OpenCount(c) ==
  Cardinality({i \in 1..MaxPositions :
                 book[i].coin = c /\ book[i].state \in {"OPEN", "EXIT_ARMED"}})

Init == book = [i \in 1..MaxPositions |-> Unopened]

Open(i, c, k) ==
  /\ book[i] = Unopened
  /\ OpenCount(c) < SlotCount[c]
  /\ \A j \in 1..MaxPositions : ~(book[j].coin = c /\ book[j].candle = k)
  /\ book' = [book EXCEPT ![i] = Entry(c, k, "OPEN")]

Arm(i) ==
  /\ book[i].state = "OPEN"
  /\ book' = [book EXCEPT ![i].state = "EXIT_ARMED"]

Sell(i) ==
  /\ book[i].state \in {"OPEN", "EXIT_ARMED"}
  /\ book' = [book EXCEPT ![i].state = "CLOSED"]

Next ==
  \E i \in 1..MaxPositions :
    \/ \E c \in 1..NumCoins, k \in 0..MaxMinute : Open(i, c, k)
    \/ Arm(i)
    \/ Sell(i)

Spec == Init /\ [][Next]_book
=============================================================================
