SPECIFICATION Spec
CONSTANTS
  k1 = k1
  k2 = k2
  SPY = SPY
  USD = USD
  None = None
  Keys = {k1, k2}
  Symbols = {SPY}
  Permitted = {SPY}
  AccountCurrency = USD
  StartingCash = 8
  MaxOrderNotional = 6
  FillPrices = {3}
  CancelsAfterFills = TRUE
  Detours = {"pending_replace", "suspended"}
  Proposals <- BuyAndCancel
  OwnerModes = {"SAFE", "NORMAL", "DEAD"}
  KillSettings = {TRUE, FALSE}
  MaxRestarts = 1
INVARIANTS
  VenueProgressAccepted
  ClosedAsTheVenueSays
PROPERTIES
  ClosedOrdersStayClosed
  RestrictionsHold
  DeadIsForever
