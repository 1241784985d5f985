CONSTANTS
  Leases = {l1, l2}
  NoLease = NoLease
  Slots = {s1, s2}
  NoSlot = NoSlot
  PeerSlots = {p1, p2}
  MaxSteps = 2
  MaxFaults = 1
SPECIFICATION Spec
INVARIANTS UnsafeWorkIsBarred HoldBelongsToLease IInv
PROPERTY ImplementsExclusive
SYMMETRY Symmetry
CHECK_DEADLOCK FALSE
