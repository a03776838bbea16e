CONSTANTS
  Fds = {1, 2}
  NoConn = NoConn
  CONNSOCKETCLIENT = CONNSOCKETCLIENT
  CONNSOCKETSERVER = CONNSOCKETSERVER
  Races = FALSE
  Endings = {"eof", "hup"}
  MaxPending = 1
SPECIFICATION Spec
INVARIANTS
  NoAssertionFails
CHECK_DEADLOCK FALSE
