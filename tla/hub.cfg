SPECIFICATION Spec
CONSTANTS
  Transports <- MCTwoTransports
  KeepAliveBeats = 1
  Calls = {}
  MaxLosses = 2
  MaxSleeps = 0
  Pushes = {p1, p2}
  MaxChanges = 2
  MaxBroadcasts = 1
INVARIANTS ExactlyOnce UpToDate
SYMMETRY MCSymmetry
CHECK_DEADLOCK FALSE
