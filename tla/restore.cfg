SPECIFICATION MCSpec
CONSTANTS
  Cutoff = 1
  Databases <- MCDatabases
  Bundles <- MCBundles
  Targets <- MCTargets
  Unused = {"w"}
  Frozen = TRUE
  Answers = FALSE
  MaxRuns = 2
INVARIANT FailedRestoresObjects
CHECK_DEADLOCK FALSE
