CONSTANTS
  Users = {u1}
  Ips = {d1, d2}
  Limit = 2
  Window = 3
  MaxStops = 0
SPECIFICATION Spec
INVARIANTS
  UsersAreLimited
SYMMETRY MCSymmetry
