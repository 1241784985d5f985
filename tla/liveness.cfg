CONSTANTS
  Leases = {l1}
  NoLease = NoLease
  Slots = {s1, s2}
  NoSlot = NoSlot
  PeerSlots = {p1}
  MaxSteps = 2
  MaxFaults = 1
SPECIFICATION FairSpec
INVARIANT NativeWorkIsBarred
PROPERTIES RunEnds CabinetsReopen LeaseEnds
CHECK_DEADLOCK FALSE
