SPECIFICATION RuntimeSpec
CONSTANTS
  k1 = k1
  k2 = k2
  k3 = k3
  SPY = SPY
  USD = USD
  None = None
  Keys = {k1}
  Symbols = {SPY}
  Permitted = {SPY}
  AccountCurrency = USD
  StartingCash = 8
  MaxOrderNotional = 6
  FillPrices = {2}
  CancelsAfterFills = FALSE
  Detours = {"suspended"}
  Proposals <- OnePurchase
  OwnerModes = {}
  KillSettings = {FALSE}
  MaxRestarts = 0
  MaxBar = 1
  Plans <- PurchaseOnly
  Retiring = {FALSE}
INVARIANTS
  CycleOnSettledBook
