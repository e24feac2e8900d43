CONSTANTS
  Boards = {b1, b2}
  Requests = {r1, r2}
  Kinds = {"flash", "boot", "cli"}
SPECIFICATION Spec
SYMMETRY HostSymmetry
INVARIANT
  TypeOK
PROPERTIES
  FlashIsHonest
  
