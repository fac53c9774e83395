SPECIFICATION FairSpec
CONSTANTS
  Capacity = 2
  MaxBytes = 1
  MaxSends = 2
  MaxFrames = 1
INVARIANTS
  QueuesSound
  EndsWithClose
  BufferedIsUnsent
PROPERTIES
  JoinReturns
  ReportedIsDelivered
  CancelEnds
CHECK_DEADLOCK FALSE
