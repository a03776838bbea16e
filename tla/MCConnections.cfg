CONSTANTS
  Fds = {1, 2}
  NoConn = NoConn
  CONNSOCKETCLIENT = CONNSOCKETCLIENT
  CONNSOCKETSERVER = CONNSOCKETSERVER
  Races = TRUE
  Endings = {"hup"}
  MaxPending = 1
SPECIFICATION Spec
INVARIANTS
  TypeOK
  OneServer
  TreeIsList
  PolledIsOwned
  SocketsOwned
CONSTRAINT OnCourse
CHECK_DEADLOCK FALSE
