SPECIFICATION RuntimeSpec
CONSTANTS
  k1 = k1
  k2 = k2
  k3 = k3
  SPY = SPY
  USD = USD
  None = None
  Keys = {k1, k2, k3}
  Symbols = {SPY}
  Permitted = {SPY}
  AccountCurrency = USD
  StartingCash = 8
  MaxOrderNotional = 6
  FillPrices = {2}
  CancelsAfterFills = TRUE
  Detours = {"held"}
  Proposals <- BuyAndExits
  OwnerModes = {}
  KillSettings = {FALSE}
  MaxRestarts = 1
  MaxBar = 2
  Plans <- BuyThenExits
  Retiring = {FALSE, TRUE}
INVARIANTS
  RuntimeTypeOK
  NeverShort
  BookFollowsVenue
