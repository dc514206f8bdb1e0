\* A handoff that fails after the first session.
SPECIFICATION Spec
CONSTANTS
  Sessions = {s1, s2, s3}
  Big = {s3}
  NoSession = NoSession
  END = END
  MaxSheds = 1
SYMMETRY Symmetry
INVARIANT
  NoOrphans
CHECK_DEADLOCK FALSE
