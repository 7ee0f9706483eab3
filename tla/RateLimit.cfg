CONSTANTS
  Users = {u1, u2}
  Ips = {d1, d2}
  Limit = 2
  Window = 3
  MaxStops = 1
SPECIFICATION Spec
INVARIANTS
  TypeOK
  BurstIsBounded
SYMMETRY MCSymmetry
