CONSTANTS
  Devices = {d1}
  Objs = {o1, o2}
  NoObj = NoObj
  NoRow = NoRow
  Main = Main
  MsgThreads = {m1, m2}
  NumEps = 2
  Armings = {Off, On}
  Zeroed = Off
  Slots = 2
  MaxEps = 3
  MaxAnnces = 2
  MaxDels = 1
  MaxArms = 1
  MaxLost = 1
  MaxBusy = 1
  MaxCrashes = 1
SPECIFICATION FairSpec
INVARIANTS
  TypeOK
  StoredWhole
  ArmKept

  
CHECK_DEADLOCK FALSE
