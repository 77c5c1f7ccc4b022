SPECIFICATION Spec
CONSTANTS
  k1 = k1
  k2 = k2
  SPY = SPY
  USD = USD
  None = None
  Keys = {k1, k2}
  Symbols = {SPY}
  Permitted = {SPY}
  AccountCurrency = USD
  StartingCash = 8
  MaxOrderNotional = 6
  FillPrices = {2, 3}
  CancelsAfterFills = FALSE
  Detours = {"held"}
  Proposals <- CompetingBuys
  OwnerModes = {}
  KillSettings = {FALSE}
  MaxRestarts = 1
INVARIANTS
  RestartLosesNothing
  AtMostOneSubmission
  NothingUnrecordedAtVenue
  AuthorityKept
  LedgerReplayable
  SettledBooksMatch
