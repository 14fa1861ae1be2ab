SPECIFICATION LiveSpec
CONSTANTS
  NumCoins = 2
  SlotCount <- MCSlotCount
  CapitalLimit <- MCCapitalLimit
  OrderQuote <- MCOrderQuote
  MinNotional <- MCMinNotional
  Statuses = {}
  MaxFee = 0
  Balances = {3}
  MaxProceeds = 1
  MaxMinute = 2
  MaxPositions = 2
  Assets = {"BTC", "ETH"}
  BaseOf <- MCBaseOf
  LotQty = 1
  Tolerance = 2
  MaxManual = 0
  MaxRestarts = 1
INVARIANTS
  OneOrderPerCandle
\* An exception ends the process for good once restarts are used up.
CHECK_DEADLOCK FALSE
