---------------------------- MODULE AtomicFence ----------------------------
(***************************************************************************)
(* The admission fence of one host as the control plane sees it: which     *)
(* lease it is recorded for, whether it is held, and whether the host is   *)
(* shut to new sessions.  Its actions are the fence operations of the      *)
(* ControlPlane module.                                                    *)
(***************************************************************************)
CONSTANTS Leases, NoLease

VARIABLES lease, committed, up

Init == lease = NoLease /\ committed = FALSE /\ up = FALSE

\* The record comes first; the barrier may follow in a later step, or never.
Close(l) ==
  /\ lease \in {NoLease, l}
  /\ lease' = l
  /\ up' \in BOOLEAN
  /\ up => up'
  /\ UNCHANGED committed

Hold ==
  /\ up /\ lease # NoLease
  /\ committed' = TRUE
  /\ UNCHANGED <<lease, up>>

Open == lease' = NoLease /\ committed' = FALSE /\ up' = FALSE

\* An opening that has not reached the record yet.
OpenPartly == lease # NoLease /\ up' = FALSE /\ UNCHANGED <<lease, committed>>

\* The host goes down: whatever is recorded is up when it serves again.
Reboot == up' = (lease # NoLease) /\ UNCHANGED <<lease, committed>>

Next == (\E l \in Leases : Close(l)) \/ Hold \/ Open \/ OpenPartly \/ Reboot

Spec == Init /\ [][Next]_<<lease, committed, up>>
============================================================================
