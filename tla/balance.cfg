SPECIFICATION FairSpec
CONSTANTS
  Clients = {1, 2, 3}
  Deltas <- MCDeltas
  MaxCalls = 4
  MaxFaults = 1
PROPERTIES ImplementsAddition CallsEnd
