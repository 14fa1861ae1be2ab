---------------------------- MODULE MCLiveTrading ----------------------------
(* Constant values for the model checking of LiveTrading. *)
EXTENDS LiveTrading

\* Two coins with a slot each, orders of one and two units; their bases differ,
\* or are the same asset quoted in two stablecoins.
MCSlotCount    == <<1, 1>>
MCCapitalLimit == <<1, 2>>
MCOrderQuote   == <<1, 2>>
MCMinNotional  == <<0, 0>>
MCBaseOf       == <<"BTC", "ETH">>
MCSharedBase   == <<"BTC", "BTC">>
=============================================================================
