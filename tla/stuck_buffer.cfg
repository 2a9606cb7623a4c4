SPECIFICATION Spec
CONSTANTS
  Transports <- MCTwoTransports
  KeepAliveBeats = 1
  Calls = {}
  MaxLosses = 0
  MaxSleeps = 0
  Pushes = {}
  MaxChanges = 0
  MaxBroadcasts = 1
INVARIANTS BufferDrained
CHECK_DEADLOCK FALSE
