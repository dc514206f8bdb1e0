\* A QoS 1 and a QoS 2 message under fairness, with a PINGREQ, every kind of fault, one freeze and a client that may leave.
SPECIFICATION FairSpec
CONSTANTS
  ClientQoS <- Qos12
  BrokerQoS <- NoMsgs
  MaxId = 2
  Reuse = FALSE
  CleanStart = FALSE
  Filters = {}
  Options = {}
  MaxSubOps = 0
  MaxPings = 1
  MaxDrops = 1
  Faults = {"close", "retryable", "fault"}
  MayLeave = TRUE
  BufferMax = 1
  MaxFreezes = 1
INVARIANTS
  PingAnsweredOnce AdminDisconnectHidden
PROPERTY
  EventuallyAcked
CHECK_DEADLOCK FALSE
