CONSTANTS
  s0 = s0
  e1 = e1
  e2 = e2
  Seats = {s1, s2}
  Events = {e1}
  EventOf <- MCEventOf
  Users = {u1}
  NoUser = NoUser
  Refs = {f1, f2}
  Payments = {p1, p2}
  Cleaner = Cleaner
  Free = Free
  LockDuration = 1
  MaxReservations = 2
  MaxClock = 3
SPECIFICATION Spec
SYMMETRY MCSymmetry
INVARIANTS
  TypeOK
  LocksAreOwned
  ChecksAreStable
  LiveHoldsDisjoint
  LiveHoldIsHonoured
  PaidExactlyOnce
  TimelyTicketsDisjoint
  SingleSeatContentionIsDeadlockFree
PROPERTIES
  SoldIsFinal
  UnexpiredHoldOnlySold
  ImplementsLedger
CHECK_DEADLOCK FALSE
