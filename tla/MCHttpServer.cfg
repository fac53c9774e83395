SPECIFICATION FairSpec
CONSTANTS
  Conns = {c1, c2}
  Requests = {c1}
  Upgrades = {c1}
  Listener = listener
  Nobody = nobody
  MaxPending = 1
  MaxConnections = 1
  Capacity = 1
  MaxCommands = 1
  MaxFrames = 1
  MaxCalls = 1
INVARIANTS
  LimitsHold
  EndIsAnnounced
  NoDataAfterClose
PROPERTIES
  ThreadsEnd
  ServerCloseCompletes
CHECK_DEADLOCK FALSE
