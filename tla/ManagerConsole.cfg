CONSTANTS
  Boards = {b1}
  Requests = {r1, r2}
  Kinds = {"flash", "ignore"}
  DiskFaults = FALSE
  BusMoves = "noticed"
SPECIFICATION FairSpec
PROPERTIES
  ConsoleCaptured
  IgnoreHonoured
  BoardsHaveOwners

  
CHECK_DEADLOCK FALSE
