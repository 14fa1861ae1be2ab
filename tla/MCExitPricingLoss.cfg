SPECIFICATION Spec
CONSTANTS
  Purchases <- MCWhole
  Books <- MCBooks
  Filters = {FALSE}
  Streams = {FALSE}
  Charges <- MCAsExpected
  Marks = {10}
  Step = 1
  MinQty = 1
  MaxQty = 100
  MinNotional = 0
  Fee = 10
  Buffer = 10
  Target = 20
  MaxMoves = 0
INVARIANTS
  NeverSoldAtLoss
\* The coin is done when every position is sold.
CHECK_DEADLOCK FALSE
