SPECIFICATION Spec
CONSTANTS
  p1 = p1
  p2 = p2
  Producers <- MCProducers
  Capacity <- MCCapacity
  FrameCount <- MCFrameCount
INVARIANTS
  MailboxSound
PROPERTY
  EveryFrameDelivered
CHECK_DEADLOCK FALSE
