CONSTANTS
  MaxSessions = 3
  MaxLog = 2
  MaxCrashes = 1
  Deleters = {d1, d2}
  DiskFaults = TRUE
SPECIFICATION Spec
SYMMETRY DeleterSymmetry
INVARIANTS
  TypeOK
  SeqFollowsStart
  LiveLogIsKept
  LengthRecorded
  OneLive
  NoOrphanLogs
  
