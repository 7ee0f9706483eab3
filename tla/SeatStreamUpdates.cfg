CONSTANTS
  Clients = {c1, c2}
  Buffer = 2
  MaxMessages = 3
SPECIFICATION FairSpec
PROPERTIES
  ConnectedClientsObserveUpdates
CHECK_DEADLOCK FALSE
