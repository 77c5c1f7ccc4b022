SPECIFICATION Spec
CONSTANTS
  Digits = 4
  MinOrderNotional <- Usd5
  SlippageRate <- TwoPercent
  MinTradeNotional <- Usd5
  MinTradeFraction <- TwoPercent
  OrderCeiling <- Usd250
  Symbols <- Pair
  Minutes <- Day
  Markets <- Views
  Books <- Starts
  FilledParts <- Parts
  Moves <- Factors
INVARIANTS
  BuysOnlyInCash
PROPERTIES
  ForcedExitsAreWhole
  RotationsPay
CHECK_DEADLOCK FALSE
