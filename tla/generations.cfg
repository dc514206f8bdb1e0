\* Up to three processes in either mode, two connections, two signals, sent with care.
SPECIFICATION Spec
CONSTANTS
  MaxGens = 3
  Conns = {c1, c2}
  Modes = {"drain", "migrate"}
  Signals = {"USR2", "TERM"}
  MaxSignals = 2
  Calm = TRUE
INVARIANTS
  IInv ExitsLast StaysUp GracefulExit
PROPERTY
  StopStops
CHECK_DEADLOCK FALSE
