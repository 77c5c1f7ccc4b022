SPECIFICATION Spec
CONSTANTS
  Payloads = {fill, mode}
  MaxEvents = 5
INVARIANTS
  RefusedForCause
PROPERTIES
  AppendOnly
CHECK_DEADLOCK FALSE
