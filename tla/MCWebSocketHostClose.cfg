SPECIFICATION FairSpec
CONSTANTS
  Capacity = 2
  MaxBytes = 1
  MaxSends = 1
  MaxFrames = 0
PROPERTY
  CloseEnds
CHECK_DEADLOCK FALSE
