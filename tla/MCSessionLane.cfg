SPECIFICATION FairSpec
CONSTANTS
  c1 = c1
  c2 = c2
  d1 = d1
  cl = cl
  nobody = nobody
  Callers <- MCCallers
  Starters <- MCStarters
  TimedTurns <- MCTimedTurns
  Deliverers <- MCDeliverers
  Closer = cl
  NoThread = nobody
  MaxQueue = 1
  Patience = 1
INVARIANTS
  GateOwnsRuntime
  CountersAreExact
PROPERTIES
  EverybodyLeaves
  DrainedLaneAdmitsNobody
CHECK_DEADLOCK FALSE
