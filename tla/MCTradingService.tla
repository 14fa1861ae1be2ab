--------------------------- MODULE MCTradingService ---------------------------
(* Constant values for the model checking of TradingService. *)
EXTENDS TradingService

\* Coin 1 has two slots; coin 2 has one, and a minimum notional equal to its
\* full order size.
MCSlotCount    == <<2, 1>>
MCCapitalLimit == <<2, 2>>
MCOrderQuote   == <<1, 2>>
MCMinNotional  == <<0, 2>>

\* Everything open, a dirty reconciliation, and one coin inactive.
MCStatuses ==
  {[clean |-> TRUE, blocked |-> {}], [clean |-> FALSE, blocked |-> {}],
   [clean |-> TRUE, blocked |-> {1}]}
=============================================================================
