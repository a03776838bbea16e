CONSTANTS
  M = 8
  Window = 2
  Day = 3
  Threads = {App, Inm}
  Armings <- MCArmings
  Starts <- MCStarts
  Gaps = {2, 5}
  MaxReports = 2
  MaxEvents = 2
SPECIFICATION Spec
SYMMETRY MCSymmetry
INVARIANTS
  TypeOK
  NoSecondAlarm
  DroppedOnlyIfOld
  DiesOnlyInRace
PROPERTY AlarmIffGuarded
CHECK_DEADLOCK FALSE
