-------------------------- MODULE MCHostMaintenance --------------------------
EXTENDS HostMaintenanceInvariant, TLC

Symmetry == Permutations(Slots) \cup Permutations(PeerSlots)
              \cup Permutations(Leases)
============================================================================
