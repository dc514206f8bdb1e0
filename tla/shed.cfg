\* One shed of three sessions, one with an oversized snapshot, that may be stuck with their broker.
SPECIFICATION Spec
CONSTANTS
  Sessions = {s1, s2, s3}
  Big = {s3}
  NoSession = NoSession
  END = END
  MaxSheds = 1
INVARIANTS
  IInv AtMostOneServer HandoffComplete RollbackComplete
PROPERTY
  SentNeverResumed FrozenKept FrozenReleased TransfersOwnership
CHECK_DEADLOCK FALSE
