-------------------------- MODULE CoordinatorAgent --------------------------
(***************************************************************************)
(* The AX41 agent (agent.py): one action per section of a handler that     *)
(* runs under the coordinator lock, the fence lock or a peer request.      *)
(* Handlers of different requests interleave between those sections.       *)
(*                                                                         *)
(* Activity, clocks and health are the environment: a validation may be    *)
(* refused at any time ("denied"), or answered with one of the codes that  *)
(* the worker waits out ("retry").                                         *)
(***************************************************************************)
EXTENDS ControlPlane

AtCall(s, pc) == call[s].pc = pc

\* The snapshot's own demands on the control plane: both barriers closed.
FencedPhases == {"fenced", "committing", "step_running", "verifying"}
SnapshotFenced == BothUp /\ coord.phase \in FencedPhases

\* Where a handler waits for the peer request it sends.
WaitAfter == [armPeer |-> "armWait", stepPeer |-> "stepWait",
              releasePeer |-> "releaseWait"]

\* Send /fence/<op> to Selectel and wait.
PeerSend(s, op) ==
  \E p \in PeerSlots :
    /\ peer[p].pc = "free"
    /\ peer' = [peer EXCEPT ![p] = [pc |-> "assert", op |-> op,
                                    lease |-> call[s].lease, caller |-> s]]
    /\ call' = [call EXCEPT ![s].pc = WaitAfter[@], ![s].code = "waiting"]

PeerAnswered(s, pc, codes) == AtCall(s, pc) /\ call[s].code \in codes

\* The peer's error is this handler's answer.
PeerRefused(s, pc) ==
  /\ PeerAnswered(s, pc, {"busy", "denied"})
  /\ Finish(s, call[s].code)
  /\ UNCHANGED <<coord, fence, peer>>

Deny(s) == Finish(s, "denied") /\ UNCHANGED <<coord, fence, peer>>

Static == UNCHANGED <<used, granted, faults>>

----------------------------------------------------------------------------
(* /lease/claim: a complete quiet snapshot, then reserve() *)

\* Mutant: reserve() keeps the verification of the previous lease.
ClaimKeepsVerified(s) ==
  /\ AtCall(s, "claim")
  /\ \/ Deny(s)
     \/ /\ coord.phase = "idle"
        /\ coord' = [coord EXCEPT !.owner = call[s].actor,
                        !.lease = call[s].lease, !.phase = "reserved",
                        !.destructive = FALSE]
        /\ Finish(s, "ok")
        /\ UNCHANGED <<fence, peer>>
  /\ Static

Claim(s) ==
  /\ AtCall(s, "claim")
  /\ \/ Deny(s)
     \/ /\ coord.phase = "idle"
        /\ coord' = [coord EXCEPT !.owner = call[s].actor,
                        !.lease = call[s].lease, !.phase = "reserved",
                        !.destructive = FALSE, !.releaseVerified = FALSE]
        /\ Finish(s, "ok")
        /\ UNCHANGED <<fence, peer>>
  /\ Static

----------------------------------------------------------------------------
(* /lease/fence: arm() *)

ArmBegin(s) ==
  /\ AtCall(s, "arm")
  /\ \/ Deny(s)
     \/ /\ Owns(s)
        /\ coord.phase = "reserved"
        /\ coord' = [coord EXCEPT !.phase = "fencing"]
        /\ Goto(s, "armClose")
        /\ UNCHANGED <<fence, worker, peer>>
  /\ Static

ArmClose(s) ==
  /\ AtCall(s, "armClose")
  /\ \/ Deny(s)
     \/ /\ FenceFreeFor("ax41", call[s].lease)
        /\ CloseFence("ax41", call[s].lease, TRUE)
        /\ Goto(s, "armPeer")
        /\ UNCHANGED <<coord, worker, peer>>
     \/ /\ FenceFreeFor("ax41", call[s].lease)
        /\ \E up \in BOOLEAN : CloseFence("ax41", call[s].lease, up)
        /\ Finish(s, "denied")
        /\ UNCHANGED <<coord, peer>>
  /\ Static

ArmPeer(s) ==
  /\ AtCall(s, "armPeer")
  /\ PeerSend(s, "close")
  /\ UNCHANGED <<coord, fence, worker>> /\ Static

ArmEnd(s) ==
  /\ \/ PeerRefused(s, "armWait")
     \/ PeerAnswered(s, "armWait", {"ok"}) /\ ~Owns(s) /\ Deny(s)
     \/ /\ PeerAnswered(s, "armWait", {"ok"})
        /\ Owns(s)
        /\ \/ coord.phase # "fencing" /\ Deny(s)
           \/ /\ coord.phase = "fencing"
              /\ coord' = [coord EXCEPT !.phase = "fenced"]
              /\ Finish(s, "ok")
              /\ UNCHANGED <<fence, peer>>
  /\ Static

----------------------------------------------------------------------------
(* /lease/step: observe_zero, commit, hold both barriers, re-read, grant *)

StepObserve(s) ==
  /\ AtCall(s, "step")
  /\ \/ Deny(s)
     \/ /\ Owns(s)
        /\ SnapshotFenced
        /\ \/ Finish(s, "retry")
           \/ /\ coord.phase \in {"fenced", "verifying"}
              /\ Goto(s, "stepCommit")
              /\ UNCHANGED worker
        /\ UNCHANGED <<coord, fence, peer>>
  /\ Static

StepCommit(s) ==
  /\ AtCall(s, "stepCommit")
  /\ \/ /\ ~(Owns(s) /\ coord.phase \in {"fenced", "verifying"})
        /\ Deny(s)
     \/ /\ Owns(s)
        /\ coord.phase \in {"fenced", "verifying"}
        /\ coord' = [coord EXCEPT !.phase = "committing"]
        /\ Goto(s, "stepHold")
        /\ UNCHANGED <<fence, worker, peer>>
  /\ Static

\* A Deferred inside the try block: remember its code for after the rollback.
StepAbandon(s, code) ==
  /\ call' = [call EXCEPT ![s].pc = "stepRollback", ![s].code = code]
  /\ UNCHANGED <<coord, fence, worker, peer>>

StepHold(s) ==
  /\ AtCall(s, "stepHold")
  /\ \/ StepAbandon(s, "denied")
     \/ /\ Holdable("ax41", call[s].lease)
        /\ HoldFence("ax41")
        /\ Goto(s, "stepPeer")
        /\ UNCHANGED <<coord, worker, peer>>
  /\ Static

StepPeer(s) ==
  /\ AtCall(s, "stepPeer")
  /\ PeerSend(s, "hold")
  /\ UNCHANGED <<coord, fence, worker>> /\ Static

StepValidate(s) ==
  /\ \/ /\ PeerAnswered(s, "stepWait", {"busy", "denied"})
        /\ StepAbandon(s, call[s].code)
     \/ /\ PeerAnswered(s, "stepWait", {"ok"})
        /\ \/ StepAbandon(s, "denied")
           \/ SnapshotFenced /\ StepAbandon(s, "retry")
           \/ /\ SnapshotFenced
              /\ Goto(s, "stepGrant")
              /\ UNCHANGED <<coord, fence, worker, peer>>
  /\ Static

StepRollback(s) ==
  /\ AtCall(s, "stepRollback")
  /\ \/ ~Owns(s) /\ Deny(s)
     \/ /\ Owns(s)
        /\ coord' = IF coord.phase # "committing" THEN coord
                    ELSE [coord EXCEPT !.phase =
                            IF coord.destructive THEN "verifying" ELSE "fenced"]
        /\ Finish(s, call[s].code)
        /\ UNCHANGED <<fence, peer>>
  /\ Static

StepGrant(s) ==
  /\ AtCall(s, "stepGrant")
  /\ \/ ~(Owns(s) /\ coord.phase = "committing") /\ Deny(s) /\ UNCHANGED granted
     \/ /\ Owns(s)
        /\ coord.phase = "committing"
        /\ granted' = granted + 1
        /\ coord' = [coord EXCEPT !.phase = "step_running",
                        !.step = granted', !.destructive = TRUE]
        /\ call' = [call EXCEPT ![s] = FreeCall]
        /\ worker' = IF call[s].live
                     THEN [worker EXCEPT ![call[s].actor].reply = "ok",
                                         ![call[s].actor].step = granted']
                     ELSE worker
        /\ UNCHANGED <<fence, peer>>
  /\ UNCHANGED <<used, faults>>

----------------------------------------------------------------------------
(* /lease/preflight, /lease/complete-step, /lease/verify *)

Preflight(s) ==
  /\ AtCall(s, "preflight")
  /\ \/ Deny(s)
     \/ /\ Owns(s)
        /\ coord.phase = "step_running"
        /\ coord.step = call[s].step
        /\ SnapshotFenced
        /\ Finish(s, "ok")
        /\ UNCHANGED <<coord, fence, peer>>
  /\ Static

AlreadyCompleted(s) ==
  coord.doneStep = call[s].step /\ coord.doneOk = call[s].ok

Complete(s) ==
  /\ AtCall(s, "complete")
  /\ \/ ~Owns(s) /\ Deny(s)
     \/ /\ Owns(s)
        /\ AlreadyCompleted(s)
        /\ Finish(s, "ok")
        /\ UNCHANGED <<coord, fence, peer>>
     \/ /\ Owns(s)
        /\ ~AlreadyCompleted(s)
        /\ coord.step # call[s].step \/ coord.phase # "step_running"
        /\ Deny(s)
     \/ /\ Owns(s)
        /\ ~AlreadyCompleted(s)
        /\ coord.step = call[s].step
        /\ coord.phase = "step_running"
        /\ coord' = [coord EXCEPT !.doneStep = call[s].step,
                        !.doneOk = call[s].ok,
                        !.phase = IF call[s].ok THEN "verifying"
                                                ELSE "failed_unsafe"]
        /\ Finish(s, "ok")
        /\ UNCHANGED <<fence, peer>>
  /\ Static

Verify(s) ==
  /\ AtCall(s, "verify")
  /\ \/ Deny(s)
     \/ Owns(s) /\ Finish(s, "retry") /\ UNCHANGED <<coord, fence, peer>>
     \/ /\ Owns(s)
        /\ \/ /\ coord.phase \in {"fenced", "verifying", "verified"}
              /\ coord' = [coord EXCEPT !.phase = "verified"]
           \/ /\ coord.phase = "releasing"
              /\ coord.releaseVerified
              /\ UNCHANGED coord
        /\ Finish(s, "ok")
        /\ UNCHANGED <<fence, peer>>
  /\ Static

----------------------------------------------------------------------------
(* /lease/release *)

RuntimeVerified == coord.phase = "verified" \/ coord.releaseVerified

ReleaseBegin(s) ==
  /\ AtCall(s, "release")
  /\ \/ /\ coord.released = call[s].lease
        /\ Finish(s, "ok")
        /\ UNCHANGED <<coord, fence, peer>>
     \/ /\ coord.released # call[s].lease
        /\ \/ ~Owns(s)
           \/ coord.phase = "step_running"
           \/ coord.destructive /\ ~RuntimeVerified
        /\ Deny(s)
     \/ /\ coord.released # call[s].lease
        /\ Owns(s)
        /\ coord.phase # "step_running"
        /\ coord.destructive => RuntimeVerified
        /\ coord' = [coord EXCEPT !.phase = "releasing",
                        !.releaseVerified = RuntimeVerified]
        /\ Goto(s, "releaseRead")
        /\ UNCHANGED <<fence, worker, peer>>
  /\ Static

\* The journal is read again without the lock.
ReleaseRead(s) ==
  /\ AtCall(s, "releaseRead")
  /\ Goto(s, IF coord.destructive THEN "releasePeer" ELSE "releaseOpen")
  /\ UNCHANGED <<coord, fence, worker, peer>> /\ Static

\* fence.open of the AX41 barrier, before and after the peer's.
ReleaseLocal(s, here, next) ==
  /\ AtCall(s, here)
  /\ \/ Deny(s)
     \/ /\ FenceFreeFor("ax41", call[s].lease)
        /\ OpenFence("ax41")
        /\ Goto(s, next)
        /\ UNCHANGED <<coord, worker, peer>>
     \/ /\ FenceFreeFor("ax41", call[s].lease)
        /\ OpenFencePartly("ax41")
        /\ Finish(s, "denied")
        /\ UNCHANGED <<coord, peer>>
  /\ Static

ReleaseOpen(s) == ReleaseLocal(s, "releaseOpen", "releasePeer")

ReleasePeer(s) ==
  /\ AtCall(s, "releasePeer")
  /\ PeerSend(s, "open")
  /\ UNCHANGED <<coord, fence, worker>> /\ Static

ReleaseCheck(s) ==
  /\ \/ PeerRefused(s, "releaseWait")
     \/ PeerAnswered(s, "releaseWait", {"ok"}) /\ Deny(s)
     \/ /\ PeerAnswered(s, "releaseWait", {"ok"})
        /\ worker["ax41"].phase \notin UnsafePhases
        /\ Goto(s, "releaseFinal")
        /\ UNCHANGED <<coord, fence, worker, peer>>
  /\ Static

ReleaseFinal(s) == ReleaseLocal(s, "releaseFinal", "releaseDone")

ReleaseEnd(s) ==
  /\ AtCall(s, "releaseDone")
  /\ \/ ~Owns(s) /\ Deny(s)
     \/ /\ Owns(s)
        /\ coord' = [coord EXCEPT !.phase = "idle", !.released = call[s].lease]
        /\ Finish(s, "ok")
        /\ UNCHANGED <<fence, peer>>
  /\ Static

----------------------------------------------------------------------------
(* Contention: sections under a non-blocking lock may find it taken by the *)
(* heartbeat or by another handler (lock_busy), by the collector's expiry  *)
(* or by another fence operation (fence_busy).                             *)

CoordinatorLockPcs == {"claim", "arm", "armWait", "step", "stepCommit",
                       "stepRollback", "stepGrant", "complete", "verify",
                       "release", "releaseDone"}
FenceLockPcs == {"armClose", "releaseOpen", "releaseFinal"}

LockBusy(s) ==
  /\ call[s].pc \in CoordinatorLockPcs \cup FenceLockPcs
  /\ call[s].pc = "armWait" => call[s].code = "ok"
  /\ Finish(s, "busy")
  /\ Fault
  /\ UNCHANGED <<coord, fence, peer, used, granted>>

HoldBusy(s) ==
  /\ AtCall(s, "stepHold")
  /\ StepAbandon(s, "busy")
  /\ Fault
  /\ UNCHANGED <<used, granted>>

\* The peer request is refused, as it is when Selectel serves all it can, or
\* not answered within ten seconds; a handler that runs there goes on alone.
PeerTimeout(s) ==
  /\ \/ call[s].pc \in DOMAIN WaitAfter
        /\ call' = [call EXCEPT ![s].pc = WaitAfter[@], ![s].code = "busy"]
     \/ PeerAnswered(s, call[s].pc, {"waiting"})
        /\ call' = [call EXCEPT ![s].code = "busy"]
  /\ peer' = [p \in PeerSlots |-> IF peer[p].caller = s
                                  THEN [peer[p] EXCEPT !.caller = NoSlot]
                                  ELSE peer[p]]
  /\ \/ Fault
     \/ /\ call[s].pc \in DOMAIN WaitAfter
        /\ \A p \in PeerSlots : peer[p].pc # "free"
        /\ UNCHANGED faults
  /\ UNCHANGED <<coord, fence, worker, used, granted>>

Handling(s) ==
  \/ Claim(s)
  \/ ArmBegin(s) \/ ArmClose(s) \/ ArmPeer(s) \/ ArmEnd(s)
  \/ StepObserve(s) \/ StepCommit(s) \/ StepHold(s) \/ StepPeer(s)
  \/ StepValidate(s) \/ StepRollback(s) \/ StepGrant(s)
  \/ Preflight(s) \/ Complete(s) \/ Verify(s)
  \/ ReleaseBegin(s) \/ ReleaseRead(s) \/ ReleaseOpen(s) \/ ReleasePeer(s)
  \/ ReleaseCheck(s) \/ ReleaseFinal(s) \/ ReleaseEnd(s)

Contending(s) == LockBusy(s) \/ HoldBusy(s) \/ PeerTimeout(s)
============================================================================
