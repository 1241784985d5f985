SPECIFICATION MCSpec
CONSTANTS
  Inodes = {i1, i2}
  Shapes <- MCShapes
  MaxJoined = 2
  MaxEvents = 2
  BatchSize = 1
  Streams = {out}
  MaxRecords = 2
  MaxCrashes = 0
  JournalRecords = 0
  FewRecords = 2
INVARIANT OversizeStaysAlone
CHECK_DEADLOCK FALSE
