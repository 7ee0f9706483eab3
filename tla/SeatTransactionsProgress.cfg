CONSTANTS
  s0 = s0
  e1 = e1
  e2 = e2
  Seats = {s0, s1, s2}
  Events = {e1, e2}
  EventOf <- MCEventOf
  Users = {u1}
  NoUser = NoUser
  Refs = {f1}
  Payments = {p1}
  Cleaner = Cleaner
  Free = Free
  LockDuration = 1
  MaxReservations = 2
  MaxClock = 2
SPECIFICATION FairSpec
PROPERTIES
  EveryRequestEnds
  ExpiredHoldIsReturned
CHECK_DEADLOCK FALSE
