CONSTANTS
  Boards = {b1}
  Requests = {r1, r2}
  Kinds = {"boot", "ignore", "resume", "target", "send"}
  DiskFaults = TRUE
  BusMoves = "any"
SPECIFICATION Spec
SYMMETRY RequestSymmetry
INVARIANTS
  NoLostWakeup
  MirrorFollowsStore
