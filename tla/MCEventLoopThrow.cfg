SPECIFICATION Spec
CONSTANTS
  MaxTime = 2
  MaxCalls = 2
  MaxWakeups = 5
  Delays <- MCDelays
  Hints <- MCHints
  MaxHints = 1
  MaxOps = 1
INVARIANTS
  DeliveryReschedules
CHECK_DEADLOCK FALSE
