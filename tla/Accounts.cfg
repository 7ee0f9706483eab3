CONSTANTS
  Users = {seed, u1}
  Seed = seed
  Logins = {l1, l2}
  Changes = {c1}
  TTL = 2
  MaxStops = 1
SPECIFICATION FairSpec
INVARIANTS
  TypeOK
  RightsLapse
PROPERTIES
  ServerComesBack
