CONSTANTS
  Stoppers = {c1, c2}
  Start = c0
SPECIFICATION FairSpec
INVARIANTS
  TypeOK
  NothingLeftBehind
  ExitIsJudged
PROPERTIES
  IsSession
  CallsReturn
CHECK_DEADLOCK FALSE
