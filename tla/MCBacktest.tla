----------------------------- MODULE MCBacktest -----------------------------
(* Constant values for the model checking of Backtest. *)
EXTENDS Backtest

\* A falling, a rising and a flat candle; the flat one is without volume.
MCKinds == {"down", "up", "flat"}
MCCandleOf ==
  [down |-> [open |-> 20, high |-> 20, low |-> 10, close |-> 10, volume |-> 1],
   up   |-> [open |-> 10, high |-> 20, low |-> 5,  close |-> 20, volume |-> 1],
   flat |-> [open |-> 30, high |-> 30, low |-> 30, close |-> 30, volume |-> 0]]

\* Histories of the minutes ..6: those of four minutes of any kind, with at most
\* one of them missing; a new listing; and none.
History(kinds, missing) ==
  LET kind(i) == CASE i <= 2 -> "flat" [] i = 7 -> "down" [] OTHER -> kinds[i]
      all == [i \in 1..7 |-> [open |-> i - 1, kind |-> kind(i)]]
  IN SelectSeq(all, LAMBDA k : k.open # missing)
MCHistories ==
  {History(kinds, missing) : kinds \in [3..6 -> MCKinds], missing \in {-1, 3}}
    \cup {SubSeq(History([i \in 3..6 |-> "down"], -1), 4, 7), <<>>}

\* Amounts that the prices 11, 22 and 33 and the fee divide.
MCSlotCount    == <<2>>
MCCapitalLimit == <<19932>>
MCOrderQuote   == <<13200>>
MCMinNotional  == <<0>>
=============================================================================
