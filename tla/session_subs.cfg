\* Three SUBSCRIBE or UNSUBSCRIBE packets over two filters and two options.
SPECIFICATION Spec
CONSTANTS
  ClientQoS <- NoMsgs
  BrokerQoS <- NoMsgs
  MaxId = 3
  Reuse = FALSE
  CleanStart = FALSE
  Filters = {f1, f2}
  Options = {1, 2}
  MaxSubOps = 3
  MaxPings = 0
  MaxDrops = 2
  Faults = {"close", "retryable"}
  MayLeave = FALSE
  BufferMax = 3
  MaxFreezes = 1
INVARIANTS
  SubsRestored NoForeignSuback
CHECK_DEADLOCK FALSE
