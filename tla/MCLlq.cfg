CONSTANTS
  Producers = {rx}
  Consumers = {app, inm}
  Messages = {srsp, areq}
  Urgent = {srsp}
  Pending = Pending
  TimedOut = TimedOut
  NoMessage = NoMessage
  MaxLen = 3
SPECIFICATION FairSpec
INVARIANTS
  TypeOK
  AccessExclusion
  TokensBacked
  TokenFindsMessage
PROPERTIES
  OperationsReturn
  ImplementsPrioQueue
CHECK_DEADLOCK FALSE
