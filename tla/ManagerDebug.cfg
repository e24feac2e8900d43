CONSTANTS
  Boards = {b1}
  Requests = {r1, r2}
  Kinds = {"debug", "ignore"}
  DiskFaults = FALSE
  BusMoves = "never"
SPECIFICATION FairSpec
PROPERTIES
  RequestReturns
  RunReturnsWhenSettled
CHECK_DEADLOCK FALSE
