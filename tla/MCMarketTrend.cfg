SPECIFICATION Spec
CONSTANTS
  Digits = 3
  MinOrderNotional <- Usd5
  SlippageRate <- ATenth
  MinTradeNotional <- Usd5
  MinTradeFraction <- Fifteen
  OrderCeiling <- Usd250
  Symbol = "SPY"
  StartingCash <- USD67_7
  Cadence = 3
  TrendDays = 3
  MomentumDays = 2
  Prices <- Quotes
  FilledParts <- Parts
  MaxBars = 8
INVARIANTS
  TargetsAddUp
  BookStaysValid
  ProposalsConsistent
  CostsReserved
PROPERTIES
  OnlyTransitionsTrade
  RiskOffSells
CHECK_DEADLOCK FALSE
