SPECIFICATION FairSpec
CONSTANTS
  Transports <- MCTransports
  KeepAliveBeats = 1
  Calls = {k1}
  MaxLosses = 2
  MaxSleeps = 1
  Pushes = {p1}
  MaxChanges = 1
  MaxBroadcasts = 1
INVARIANTS OutcomeTrue NothingLeft BoundedReconnect
PROPERTIES StartSettles NoCallHangs
CHECK_DEADLOCK FALSE
