SPECIFICATION ProgramsSpec
CONSTANTS
  Packages = {a, b, c}
  MaxSteps = 2
  MaxFaults = 2
  Sections = {s1, s2, s3, s4, s5, s6, s7, s8}
  Requests = {r1, r2, r3}
  Window = 2
  Keep = 4
  Capacity = 2
  MaxSkew = 3
  MaxTime = 7
  Cutoff = 1
  Databases <- MCDatabases
  Bundles <- MCBundles
  Targets <- MCTargets
  Unused = {"w"}
  Frozen = TRUE
  Answers = FALSE
  MaxRuns = 2
INVARIANTS OnlyConfirmedSteps NeverDeniedHalfway SuccessIsWhole ReadersAreSafe NothingIsLeftLocked PlanIsExact SuccessIsTrue ChangesAreUndone
PROPERTY StartedOnce
CHECK_DEADLOCK FALSE
