SPECIFICATION LifecycleSpec
CONSTANTS
  c1 = c1
  c2 = c2
  c3 = c3
  Callers <- MCCallers
  TimedTurns <- MCTimedTurns
INVARIANTS
  SessionConsistent
PROPERTY
  NoTurnAfterPoisonOrDrain
CHECK_DEADLOCK FALSE
