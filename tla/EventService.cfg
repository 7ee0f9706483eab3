CONSTANTS
  Events = {e1}
  Requests = {q1, q2, q3}
  MaxStops = 1
SPECIFICATION FairSpec
INVARIANTS
  TypeOK
  StatusTellsOfSeats
  LiveEventHasItsImage
  StopWaitsForTasks
PROPERTIES
  DeletedIsFinal
  StatusMovesForward
  CreationSettles
CHECK_DEADLOCK FALSE
