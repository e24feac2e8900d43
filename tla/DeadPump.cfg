CONSTANTS
  Boards = {b1}
  Requests = {r1}
  Kinds = {}
  DiskFaults = FALSE
  BusMoves = "any"
SPECIFICATION FairSpec
PROPERTY
  ConsoleCaptured
CHECK_DEADLOCK FALSE
