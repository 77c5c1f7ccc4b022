SPECIFICATION Spec
CONSTANTS
  Digits = 3
  MinOrderNotional <- Usd5
  SlippageRate <- TwoPercent
  MinTradeNotional <- Usd5
  MinTradeFraction <- FifteenPercent
  OrderCeiling <- Usd250
  Symbols <- Pair
  StartingCash <- Usd67
  FirstDecisions = {2, 3}
  FillSlippage <- TwoPercent
  FeeRate <- Usd0
  CashEpsilon <- Epsilon
  Cadence = 2
  BenchmarkDays = 2
  CandidateDays = 2
  MomentumDays = 1
  RiskWeight <- SeventyPercent
  Margin <- FivePoints
  BenchmarkCloses <- Gains
  Bars <- Candles
  MaxBars = 7
INVARIANTS
  RunsComplete
PROPERTIES
  DriftNeverTrades
  RiskOffSells
CHECK_DEADLOCK FALSE
