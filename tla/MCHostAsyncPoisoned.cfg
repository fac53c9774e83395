SPECIFICATION Spec
CONSTANTS
  w1 = w1
  w2 = w2
  Owner = own
  None = none
  own = own
  none = none
  MaxOps = 2
  Workers <- MCOneWorker
INVARIANT
  QueuedCompletionKeepsOutcome
CHECK_DEADLOCK FALSE
