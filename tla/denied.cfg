CONSTANTS
  Leases = {l1}
  NoLease = NoLease
  Slots = {s1}
  NoSlot = NoSlot
  PeerSlots = {p1}
  MaxSteps = 1
  MaxFaults = 1
SPECIFICATION Spec
PROPERTY DeniedProofIsNotStranded
CHECK_DEADLOCK FALSE
