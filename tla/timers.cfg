SPECIFICATION TimersSpec
CONSTANTS
  Leases = {l1, l2}
  NoLease = NoLease
  PriorAge = 1
  MaxUpgrades = 2
  MaxStarts = 2
  Horizon = 4
  Items = {cert}
  MaxTime = 2
  MaxRenewals = 3
  MaxCrashes = 1
INVARIANTS NoOrphan OldProcessOwes RestartsAreFew PendingIsNotYounger
PROPERTIES HeldStaysShut ImplementsAtomicFence BarrierExpires DebtIsSettled
  FailedActivationIsKept MismatchIsTold
CHECK_DEADLOCK FALSE
