CONSTANTS
  App = App
  Inm = Inm
  Key = Key
  Threads = {App, Inm}
  Subsystems = {ZDO}
  Reading = {ZDO}
  NoSys = NoSys
  MaxCalls = 2
  MaxInd = 2
  MaxLost = 1
SPECIFICATION FairSpec
INVARIANTS
  TypeOK
  SendExclusion
  ExpectedMatchesFlight
  NoFalseWake
  IndicationsInOrder
PROPERTIES
  CallsReturn
  IndicationsServed
CHECK_DEADLOCK FALSE
