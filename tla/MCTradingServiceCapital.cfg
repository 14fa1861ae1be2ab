SPECIFICATION Spec
CONSTANTS
  NumCoins = 2
  SlotCount <- MCSlotCount
  CapitalLimit <- MCCapitalLimit
  OrderQuote <- MCOrderQuote
  MinNotional <- MCMinNotional
  Statuses <- MCStatuses
  MaxFee = 1
  Balances = {1, 2}
  MaxProceeds = 0
  MaxMinute = 2
  MaxPositions = 3
INVARIANTS
  CapitalCapped
\* An exception ends the process for good.
CHECK_DEADLOCK FALSE
