SPECIFICATION FairSpec
CONSTANTS
  w1 = w1
  w2 = w2
  Owner = own
  None = none
  own = own
  none = none
  MaxOps = 2
  Workers <- MCWorkers
INVARIANTS
  CapabilityHeldOnce
  AcceptedStaysQueued
  SettledInOrder
  TokenTellsTheWinner
  CloseReleasesEverything
PROPERTIES
  FirstTerminalWins
  NothingAfterClose
  AcceptedIsSettled
CHECK_DEADLOCK FALSE
