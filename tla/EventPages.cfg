CONSTANTS
  e1 = e1
  e2 = e2
  e3 = e3
  e4 = e4
  Events <- MCEvents
  StartTime <- MCStartTime
  Limits <- MCLimits
  MaxChanges = 3
SPECIFICATION Spec
INVARIANTS
  TypeOK
  WalkIsComplete
  WrongOnlyBehindAShift
CHECK_DEADLOCK FALSE
