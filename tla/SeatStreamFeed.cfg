CONSTANTS
  Clients = {c1, c2}
  Buffer = 2
  MaxMessages = 4
SPECIFICATION FairSpec
INVARIANTS
  TypeOK
  NeverPanics
  StreamHasNoGap
PROPERTIES
  EveryStreamEnds
CHECK_DEADLOCK FALSE
