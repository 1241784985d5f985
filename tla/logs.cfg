SPECIFICATION MCSpec
CONSTANTS
  Inodes = {i1, i2}
  Shapes <- MCShapes
  MaxJoined = 2
  MaxEvents = 2
  BatchSize = 1
  Streams = {out, err}
  MaxRecords = 3
  MaxCrashes = 1
  JournalRecords = 4
  FewRecords = 2
INVARIANTS ApartRecordsAreWhole ReadOnce JournalIsTaken OnlyForeseen
PROPERTY RecordsArrive
CHECK_DEADLOCK FALSE
