CONSTANTS
  a = a
  b = b
  s1 = s1
  s2 = s2
  Seats <- MCSeats
  Events <- MCEvents
  EventOf <- MCEventOf
  NumberOf <- MCNumberOf
  Users = {u1, u2}
  NoUser = nobody
  Refs = {f1, f2}
  Payments = {p1, p2}
  ConfigKeys <- MCConfigKeys
  Configured = 1
  MaxReservations = 2
  MaxClock = 2
SPECIFICATION Spec
SYMMETRY MCSymmetry
INVARIANTS
  TypeOK
  
  TimelyPaymentIsAccepted
  SalesAnnouncedAreTrue
CHECK_DEADLOCK FALSE
