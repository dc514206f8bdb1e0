\* QoS 2, 1 and 0 messages of the client, two broken connections, one shed.
SPECIFICATION Spec
CONSTANTS
  ClientQoS <- Qos210
  BrokerQoS <- NoMsgs
  MaxId = 2
  Reuse = FALSE
  CleanStart = FALSE
  Filters = {}
  Options = {}
  MaxSubOps = 0
  MaxPings = 0
  MaxDrops = 2
  Faults = {"close", "retryable"}
  MayLeave = FALSE
  BufferMax = 2
  MaxFreezes = 1
INVARIANTS
  IInv NoFalseAck Retained PathInv
  RoutedOnce RoutedInOrder DupToBroker ClientSettled
PROPERTY
  ClientToBrokerDelivery
CHECK_DEADLOCK FALSE
