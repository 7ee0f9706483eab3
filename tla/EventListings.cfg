CONSTANTS
  Queries = {k1}
  Readers = {i1, i2}
  Writers = {w1}
  TTL = 2
  MaxDelay = 2
  MaxVersion = 2
SPECIFICATION FairSpec
INVARIANTS
  TypeOK
  StalenessIsBounded
  CountsFollowList
PROPERTIES
  CacheCatchesUp
