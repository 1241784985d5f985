SPECIFICATION MCSpec
CONSTANTS
  Students = {s1, s2}
  Mapped = {s1, s2}
  MaxEdits = 1
  MaxBackups = 2
  MaxWindows = 2
  Reachable = TRUE
INVARIANTS CopiesAreAsSaid RunsCanBeUndone
PROPERTIES NothingOverwritten WindowsEndRunning
CHECK_DEADLOCK FALSE
