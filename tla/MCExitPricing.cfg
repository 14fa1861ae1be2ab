SPECIFICATION Spec
CONSTANTS
  Purchases <- MCPurchases
  Books <- MCBooks
  Filters = {TRUE, FALSE}
  Streams = {TRUE, FALSE}
  Charges <- MCCharges
  Marks = {5, 12}
  Step = 2
  MinQty = 2
  MaxQty = 4
  MinNotional = 12
  Fee = 10
  Buffer = 10
  Target = 20
  MaxMoves = 2
INVARIANTS
  EstimateIsBest
  SalesAsSeenMeetTarget
  
  
  
\* The coin is done when every position is sold, and a failed order ends the process.
CHECK_DEADLOCK FALSE
