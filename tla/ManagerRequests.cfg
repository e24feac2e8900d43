CONSTANTS
  Boards = {b1}
  Requests = {r1, r2}
  Kinds = {"flash", "ignore", "debug", "stop"}
  DiskFaults = TRUE
  BusMoves = "any"
SPECIFICATION Spec
SYMMETRY RequestSymmetry
INVARIANTS
  TypeOK
  BoardsAreOwned
  
  NoConsoleUnderOperation
  
  StoppedHoldsNothing
