SPECIFICATION FairSpec
CONSTANTS
  MaxTime = 2
  MaxCalls = 3
  MaxWakeups = 16
  Delays <- MCDelays
  Hints <- MCHints
  MaxHints = 1
  MaxOps = 2
INVARIANTS
  WakeupNeverLate
  HintsTellTimers
  SettledLeavesNothing
PROPERTIES
  NoDoubleFire
  NoCallbackAfterClear
  DueTimersFire
  OperationsSettle
CHECK_DEADLOCK FALSE
