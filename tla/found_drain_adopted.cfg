\* A migrate shed, then a stop of the child.
SPECIFICATION Spec
CONSTANTS
  MaxGens = 2
  Conns = {c1, c2}
  Modes = {"migrate"}
  Signals = {"USR2", "TERM"}
  MaxSignals = 2
  Calm = TRUE
INVARIANT
  DrainWaitsForAll
CHECK_DEADLOCK FALSE
