SPECIFICATION Spec
CONSTANTS
  k1 = k1
  k2 = k2
  SPY = SPY
  USD = USD
  None = None
  Keys = {k1}
  Symbols = {SPY}
  Permitted = {SPY}
  AccountCurrency = USD
  StartingCash = 6
  MaxOrderNotional = 6
  FillPrices = {4}
  CancelsAfterFills = FALSE
  Detours = {}
  Proposals <- OneBuy
  OwnerModes = {}
  KillSettings = {FALSE}
  MaxRestarts = 0
INVARIANTS
  LedgerReplayable
