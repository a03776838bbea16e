CONSTANTS
  App = App
  Inm = Inm
  Key = Key
  Threads = {App}
  Subsystems = {ZDO}
  Reading = {ZDO}
  NoSys = NoSys
  MaxCalls = 2
  MaxInd = 0
  MaxLost = 0
SPECIFICATION Spec
INVARIANT
  StatusIsOfSrsp
CHECK_DEADLOCK FALSE
