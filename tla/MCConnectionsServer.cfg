CONSTANTS
  Fds = {1, 2}
  NoConn = NoConn
  CONNSOCKETCLIENT = CONNSOCKETCLIENT
  CONNSOCKETSERVER = CONNSOCKETSERVER
  Races = FALSE
  Endings = {"eof", "hup"}
  MaxPending = 0
SPECIFICATION FairSpec
INVARIANTS
  NoAssertionFails
PROPERTIES
  ServerComesBack
  LoginFollows
CHECK_DEADLOCK FALSE
