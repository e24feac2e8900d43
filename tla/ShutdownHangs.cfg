CONSTANTS
  Boards = {b1}
  Requests = {r1}
  Kinds = {"debug"}
  DiskFaults = FALSE
  BusMoves = "never"
SPECIFICATION FairSpec
PROPERTY
  RunReturns
CHECK_DEADLOCK FALSE
