CONSTANTS
  Durations = {0, 1}
  KeyDuration = 2
  MaxReports = 2
  MaxPermits = 2
SPECIFICATION FairSpec
INVARIANTS
  TypeOK
  KeyNotForgotten
  StateInOrder
PROPERTIES
  StartEnds
  LedGoesOff
CHECK_DEADLOCK FALSE
