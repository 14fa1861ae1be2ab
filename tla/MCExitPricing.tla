---------------------------- MODULE MCExitPricing ----------------------------
(* Constant values for the model checking of ExitPricing. *)
EXTENDS ExitPricing

Filled(price, qty, commission, asset) ==
  [price |-> price, qty |-> qty, commission |-> commission, asset |-> asset]

\* Four positions of one coin: one that paid its commission in quote, one bought in
\* two fills with a commission in the base asset, which leaves an odd quantity, one
\* of which the commission leaves less than a step, and one too large to be sold in
\* one order.
MCPurchases ==
  <<<<Filled(12, 4, 1, "quote")>>,
    <<Filled(8, 2, 1, "base"), Filled(12, 2, 0, "base")>>,
    <<Filled(5, 2, 1, "base")>>,
    <<Filled(4, 6, 0, "base")>>>>

\* One position of an odd quantity.
MCOdd == <<<<Filled(8, 2, 1, "base"), Filled(12, 2, 0, "base")>>>>

\* Without any commission.
MCWhole ==
  <<<<Filled(10, 2, 0, "base")>>, <<Filled(11, 1, 0, "base")>>,
    <<Filled(12, 2, 0, "base")>>>>

\* What the cost model expects, more than fee and buffer together, and a commission
\* in a third asset; without one.
MCCharges ==
  {[rate |-> 10, asset |-> "quote"], [rate |-> 500, asset |-> "quote"],
   [rate |-> 10, asset |-> "other"]}
MCAsExpected == {[rate |-> 10, asset |-> "quote"]}

\* Ladders in any order of price: deep, thin at the top, thin altogether, and empty.
MCBooks ==
  {<<[price |-> 11, qty |-> 2], [price |-> 17, qty |-> 4]>>,
   <<[price |-> 14, qty |-> 2], [price |-> 8, qty |-> 6], [price |-> 10, qty |-> 2]>>,
   <<[price |-> 17, qty |-> 2]>>,
   <<>>}
=============================================================================
