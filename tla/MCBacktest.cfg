SPECIFICATION BacktestSpec
CONSTANTS
  NumCoins = 1
  SlotCount <- MCSlotCount
  CapitalLimit <- MCCapitalLimit
  OrderQuote <- MCOrderQuote
  MinNotional <- MCMinNotional
  Statuses = {}
  MaxFee = 132
  Balances = {30000}
  MaxProceeds = 0
  MaxMinute = 8
  MaxPositions = 2
  Total = 7
  MaxLimit = 3
  StartMinute = 6
  Horizon = 7
  Kinds <- MCKinds
  Histories <- MCHistories
  RsiPeriod = 2
  RsiMaPeriod = 2
  AdxPeriod = 2
  AdrPeriod = 1
  RsiOversold = 80
  RsiOverbought = 60
  AdxLow = 0
  AdxHigh = 100
  CandleOf <- MCCandleOf
  Spread = 100
  Fee = 10
  Buffer = 5
  ProfitTarget = 610
  WithdrawalTarget = 2
  WithdrawalIndexes = {6}
INVARIANTS
  PagesFit
  DownloadExact
  IndicatorsAgree
  WarmupSuffices
  EntersOnWholeHistory
  TradesMeetTarget
  ReportAddsUp
PROPERTIES
  DownloadEnds
\* The program ends.
CHECK_DEADLOCK FALSE
