SPECIFICATION Spec
CONSTANTS
  Digits = 2
  Symbols <- Four
  Bars <- FourBars
  Contexts <- Cases
  Versions = {"1.0.0", "2.0.0", "3.0.0", "4.0.0"}
  Slots = {1, 2}
  RegimeBars = 2
  EntryBars = 2
  ExitBars = 2
  ReplacementBars = 2
INVARIANTS
  TargetsAccepted
PROPERTIES
  DecisionsAtRest
  ChangesHaveCause
  RegimePersists
CHECK_DEADLOCK FALSE
