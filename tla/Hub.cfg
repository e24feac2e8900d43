CONSTANTS
  Publishers = {p1, p2}
  Clients = {c1, c2}
  Cap = 1
  MaxSent = 2
SPECIFICATION FairSpec
INVARIANTS
  TypeOK
  NoSendOnClosed
  InOrder
  
PROPERTIES
  PublishReturns
  GoneIsReaped
CHECK_DEADLOCK FALSE
