------------------------------ MODULE PeerAgent ------------------------------
(***************************************************************************)
(* The Selectel agent's fence endpoints (agent.py): ask the coordinator    *)
(* whether the lease is in the phase this operation belongs to, then act   *)
(* on the local fence.  Between the two the lease may have moved on.       *)
(***************************************************************************)
EXTENDS ControlPlane

ExpectedPhase == [close |-> "fencing", hold |-> "committing",
                  open |-> "releasing"]

\* The handler answers the AX41 handler that still waits for it.
PeerEnd(p, code) ==
  /\ peer' = [peer EXCEPT ![p] = FreePeer]
  /\ call' = IF peer[p].caller = NoSlot THEN call
             ELSE [call EXCEPT ![peer[p].caller].code = code]

PeerDeny(p) == PeerEnd(p, "denied") /\ UNCHANGED fence

\* POST /lease/assert back to AX41, and its refusal.
PeerAssert(p) ==
  /\ peer[p].pc = "assert"
  /\ \/ PeerDeny(p)
     \/ /\ coord.lease = peer[p].lease
        /\ coord.phase = ExpectedPhase[peer[p].op]
        /\ peer' = [peer EXCEPT ![p].pc = "act"]
        /\ UNCHANGED <<call, fence>>
  /\ UNCHANGED <<coord, worker, used, granted, faults>>

PeerAct(p) ==
  /\ peer[p].pc = "act"
  /\ \/ PeerDeny(p)
     \/ /\ peer[p].op = "close"
        /\ FenceFreeFor("selectel", peer[p].lease)
        /\ \/ CloseFence("selectel", peer[p].lease, TRUE) /\ PeerEnd(p, "ok")
           \/ /\ \E up \in BOOLEAN : CloseFence("selectel", peer[p].lease, up)
              /\ PeerEnd(p, "denied")
     \/ /\ peer[p].op = "hold"
        /\ Holdable("selectel", peer[p].lease)
        /\ HoldFence("selectel")
        /\ PeerEnd(p, "ok")
     \/ /\ peer[p].op = "open"
        /\ worker["selectel"].phase \notin UnsafePhases
        /\ FenceFreeFor("selectel", peer[p].lease)
        /\ \/ OpenFence("selectel") /\ PeerEnd(p, "ok")
           \/ OpenFencePartly("selectel") /\ PeerEnd(p, "denied")
  /\ UNCHANGED <<coord, worker, used, granted, faults>>

\* fence_busy on Selectel
PeerFenceBusy(p) ==
  /\ peer[p].pc = "act"
  /\ PeerEnd(p, "busy")
  /\ Fault
  /\ UNCHANGED <<coord, fence, worker, used, granted>>

Answering(p) == PeerAssert(p) \/ PeerAct(p)
============================================================================
