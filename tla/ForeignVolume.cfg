CONSTANTS
  Boards = {b1, b2}
  Requests = {r1}
  Kinds = {"flash"}
SPECIFICATION Spec
SYMMETRY HostSymmetry
INVARIANT
  OwnVolumeOnly
CHECK_DEADLOCK FALSE
