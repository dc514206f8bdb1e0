\* Keepalive 10 asked for and 8 assigned, two outages, one freeze, stalls of one tick, delays of 1, 2 and 3; the client's packets are further apart than the longest delay.
SPECIFICATION Spec
CONSTANTS
  KeepAlive = 10
  ServerKeepAlive = 8
  RetryInitial = 1
  RetryMax = 3
  ConnectTime = 1
  Answers = TRUE
  MaxBlock = 1
  MinGap = 4
  MaxDrops = 2
  MaxFreezes = 1
  Horizon = 21
INVARIANTS
  IInv DroppedOnlyIfSilent BackoffSchedule
PROPERTY
  SilentDropped Reconnects
CHECK_DEADLOCK FALSE
