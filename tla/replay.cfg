SPECIFICATION MCSpec
CONSTANTS
  Inodes = {i1, i2}
  Shapes <- FittingShapes
  MaxJoined = 2
  MaxEvents = 2
  BatchSize = 1
  Streams = {out, err}
  MaxRecords = 2
  MaxCrashes = 1
  JournalRecords = 0
  FewRecords = 2
INVARIANT FragmentsAreReplayed
CHECK_DEADLOCK FALSE
