SPECIFICATION FairSpec
CONSTANTS
  Conns = {c1}
  Requests = {c1}
  Upgrades = {}
  Listener = listener
  Nobody = nobody
  MaxPending = 1
  MaxConnections = 1
  Capacity = 1
  MaxCommands = 1
  MaxFrames = 0
  MaxCalls = 1
PROPERTY
  ServerCloseEnds
CHECK_DEADLOCK FALSE
