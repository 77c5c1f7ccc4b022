SPECIFICATION FairRuntime
CONSTANTS
  k1 = k1
  k2 = k2
  k3 = k3
  SPY = SPY
  USD = USD
  None = None
  Keys = {k1, k2}
  Symbols = {SPY}
  Permitted = {SPY}
  AccountCurrency = USD
  StartingCash = 8
  MaxOrderNotional = 6
  FillPrices = {2}
  CancelsAfterFills = TRUE
  Detours = {"pending_cancel"}
  Proposals <- TwoPurchases
  OwnerModes = {}
  KillSettings = {FALSE}
  MaxRestarts = 1
  MaxBar = 1
  Plans <- PurchasesOnly
  Retiring = {FALSE}
INVARIANTS
  InceptionWhileFlat
  CycleOnSettledBook
PROPERTIES
  OpensOnlyWhenFlat
  DivergenceNoticed
  EveryOrderSettles
  RunsKeepDeciding
