\* QoS 2, 0 and 1 messages of the broker, one broken connection and one shed.
SPECIFICATION Spec
CONSTANTS
  ClientQoS <- NoMsgs
  BrokerQoS <- Qos201
  MaxId = 2
  Reuse = FALSE
  CleanStart = FALSE
  Filters = {}
  Options = {}
  MaxSubOps = 0
  MaxPings = 0
  MaxDrops = 1
  Faults = {"close", "retryable"}
  MayLeave = FALSE
  BufferMax = 3
  MaxFreezes = 1
INVARIANTS
  IInv ReturnInv NoFalseBrokerAck DeliveredInOrder DupToClient BrokerSettled
PROPERTY
  BrokerToClientDelivery ProxyMovesOnly
CHECK_DEADLOCK FALSE
