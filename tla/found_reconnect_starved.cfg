\* The same session with a client that sends a packet every tick.
SPECIFICATION Spec
CONSTANTS
  KeepAlive = 6
  ServerKeepAlive <- NotAssigned
  RetryInitial = 1
  RetryMax = 3
  ConnectTime = 1
  Answers = TRUE
  MaxBlock = 1
  MinGap = 1
  MaxDrops = 1
  MaxFreezes = 0
  Horizon = 13
PROPERTY
  Reconnects
CHECK_DEADLOCK FALSE
