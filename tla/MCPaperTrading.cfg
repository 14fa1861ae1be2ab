SPECIFICATION PaperSpec
CONSTANTS
  NumCoins = 2
  SlotCount <- MCSlotCount
  CapitalLimit <- MCCapitalLimit
  OrderQuote <- MCOrderQuote
  MinNotional <- MCMinNotional
  Statuses = {}
  MaxFee = 1
  Balances = {1, 2}
  MaxProceeds = 2
  MaxMinute = 2
  MaxPositions = 3
INVARIANTS
  MoneyConserved
  TradesCounted
  OverdraftBound
  SnapshotAddsUp
  SnapshotCurrent
\* An exception ends the process for good.
CHECK_DEADLOCK FALSE
