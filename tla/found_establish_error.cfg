\* A broker that closes the new connection too.
SPECIFICATION Spec
CONSTANTS
  ClientQoS <- Qos1
  BrokerQoS <- NoMsgs
  MaxId = 1
  Reuse = FALSE
  CleanStart = FALSE
  Filters = {}
  Options = {}
  MaxSubOps = 0
  MaxPings = 0
  MaxDrops = 2
  Faults = {"close"}
  MayLeave = FALSE
  BufferMax = 3
  MaxFreezes = 0
INVARIANT
  SurvivesOutages
CHECK_DEADLOCK FALSE
