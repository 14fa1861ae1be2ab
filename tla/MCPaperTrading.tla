--------------------------- MODULE MCPaperTrading ---------------------------
(* Constant values for the model checking of PaperTrading. *)
EXTENDS PaperTrading

\* Three orders of one unit, paid from a balance that covers one or two of them
\* and not their commissions; proceeds for a loss, an even trade and a profit.
MCSlotCount    == <<2, 1>>
MCCapitalLimit == <<2, 1>>
MCOrderQuote   == <<1, 1>>
MCMinNotional  == <<0, 0>>
=============================================================================
