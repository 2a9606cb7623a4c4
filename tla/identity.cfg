SPECIFICATION Spec
CONSTANTS
  Clients = {1, 2, 3}
  MaxCalls = 3
  MaxFaults = 2
  MaxAttempts = 3
INVARIANTS IdsUnique IdsInOrder Persistent
