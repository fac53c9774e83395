SPECIFICATION FairSpec
CONSTANTS
  Fetches = {f1, f2}
  Signalled = {f1}
  Limit = 1
INVARIANTS
  SlotsAreWorkers
  ResponseIsThere
  LateIsDiscarded
  AbortReachesWorker
PROPERTIES
  NoWorkAfterAbort
  FetchesEnd
CHECK_DEADLOCK FALSE
