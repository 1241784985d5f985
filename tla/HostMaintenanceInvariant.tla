---------------------- MODULE HostMaintenanceInvariant ----------------------
(***************************************************************************)
(* The inductive invariant behind UnsafeWorkIsBarred, HoldBelongsToLease   *)
(* and the refinement of ExclusiveMaintenance.  Its parts say what the     *)
(* handlers that may still be in flight can no longer do.  All but the     *)
(* last one, CoreInv, also survive the operator's recovery of a failed     *)
(* step (HostRecovery).                                                    *)
(***************************************************************************)
EXTENDS HostMaintenance

ArmPcs == {"arm", "armClose", "armPeer", "armWait"}
StepPcs == {"step", "stepCommit", "stepHold", "stepPeer", "stepWait",
            "stepRollback", "stepGrant"}
CommitPcs == StepPcs \ {"step", "stepCommit"}
OpenPcs == {"releaseRead", "releaseOpen", "releasePeer", "releaseWait",
            "releaseFinal", "releaseDone"}

\* The handler sections that serve a request of each kind.
Serving == [claim |-> {"claim"}, arm |-> ArmPcs, step |-> StepPcs,
            preflight |-> {"preflight"}, complete |-> {"complete"},
            verify |-> {"verify"}, release |-> {"release"} \cup OpenPcs]

PeerDoing(p, op, l) == peer[p].pc # "free" /\ peer[p].op = op /\ peer[p].lease = l

----------------------------------------------------------------------------
\* A handler with a client serves the request that client waits for.
ClientsWait ==
  \A s \in Slots : call[s].live =>
    LET w == worker[call[s].actor] IN
    /\ w.reply = "waiting"
    /\ w.lease = call[s].lease
    /\ w.pc \in DOMAIN Path
    /\ call[s].pc \in Serving[Path[w.pc]]
    /\ \A t \in Slots : call[t].live /\ call[t].actor = call[s].actor => t = s

\* The caller of each kind of peer request waits at this section.
WaitPc == [close |-> "armWait", hold |-> "stepWait", open |-> "releaseWait"]

\* A peer handler that has a caller serves the request that caller waits for.
CallersWait ==
  /\ \A p \in PeerSlots :
       /\ peer[p].pc = "free" => peer[p].caller = NoSlot
       /\ peer[p].caller # NoSlot =>
            LET s == peer[p].caller IN
            /\ call[s].pc = WaitPc[peer[p].op]
            /\ call[s].lease = peer[p].lease
            /\ call[s].code = "waiting"
  /\ \A p, q \in PeerSlots :
       peer[p].caller = peer[q].caller => p = q \/ peer[p].caller = NoSlot

\* No journal, fence or peer handler mentions the lease.
Unknown(l) ==
  /\ coord.lease # l /\ coord.released # l
  /\ \A h \in Hosts : fence[h].lease # l
  /\ \A p \in PeerSlots : peer[p].lease # l

\* Tokens are fresh until drawn, and a claim is the first use of its token.
LeasesFresh ==
  /\ \A l \in Leases \ used :
       /\ Unknown(l)
       /\ \A s \in Slots : call[s].lease # l
       /\ \A h \in Hosts : worker[h].lease # l
  /\ \A g, h \in Hosts : worker[g].lease = worker[h].lease =>
                           g = h \/ worker[g].lease = NoLease
  /\ \A h \in Hosts : worker[h].pc # "off" => worker[h].lease \in Leases

ClaimsFirst ==
  /\ \A h \in Hosts : worker[h].pc = "claim" /\ worker[h].reply = "unsent" =>
       /\ Unknown(worker[h].lease)
       /\ \A s \in Slots : call[s].lease # worker[h].lease
  /\ \A s \in Slots : call[s].pc = "claim" =>
       /\ Unknown(call[s].lease)
       /\ \A t \in Slots : call[t].lease = call[s].lease => t = s
       /\ \A h \in Hosts : worker[h].lease = call[s].lease =>
            \/ worker[h].pc = "off"
            \/ worker[h].pc = "claim" /\ worker[h].reply \in {"waiting", "busy"}

\* No handler can still hold a barrier for the lease.
NoHold(l) ==
  /\ \A s \in Slots : call[s].pc \in CommitPcs => call[s].lease # l
  /\ \A p \in PeerSlots : ~PeerDoing(p, "hold", l)

\* A handler can still close a barrier for the lease.
Arming(l) ==
  \/ \E s \in Slots : call[s].pc \in ArmPcs /\ call[s].lease = l
  \/ \E p \in PeerSlots : PeerDoing(p, "close", l)

\* A lease that is being armed has no commit behind it, and nobody has been told
\* that it is armed.
ArmingFits ==
  \A l \in Leases : Arming(l) =>
    /\ NoHold(l)
    /\ coord.lease = l =>
         coord.phase \in {"idle", "reserved", "fencing", "releasing"}
    /\ \A h \in Hosts : worker[h].lease = l =>
         \/ worker[h].pc \in {"abort", "off"}
         \/ worker[h].pc = "arm" /\ worker[h].reply \notin {"ok", "unsent"}

\* One handler and one peer handler at most arm a lease, the second for the first.
OneArming ==
  /\ \A s, t \in Slots : call[s].pc \in ArmPcs /\ call[t].pc \in ArmPcs
                         /\ call[s].lease = call[t].lease => s = t
  /\ \A p, q \in PeerSlots : \A l \in Leases :
       PeerDoing(p, "close", l) /\ PeerDoing(q, "close", l) => p = q
  /\ \A s \in Slots : \A p \in PeerSlots :
       call[s].pc \in ArmPcs /\ PeerDoing(p, "close", call[s].lease) =>
         call[s].pc = "armWait" /\ call[s].code # "ok"

\* Nobody arms a lease before its worker asks for it.
NotYetArmed ==
  \A h \in Hosts :
    \/ worker[h].pc = "claim" /\ worker[h].reply = "ok"
    \/ worker[h].pc = "arm" /\ worker[h].reply = "unsent"
    => /\ ~Arming(worker[h].lease)
       /\ NoHold(worker[h].lease)
       /\ coord.lease = worker[h].lease =>
            coord.phase \in {"idle", "reserved", "releasing"}

\* A lease is armed by one request, at most once, and never after a commit.
ArmedOnce == ArmingFits /\ OneArming /\ NotYetArmed

\* Past its commit, a handler of the current lease is alone with it, unless a
\* release has overtaken it.
CommitsAlone ==
  /\ \A s \in Slots : call[s].pc \in CommitPcs /\ call[s].lease = coord.lease =>
       coord.phase \in {"committing", "releasing", "idle"}
  /\ coord.phase = "committing" =>
       \A s, t \in Slots :
         /\ call[s].pc \in CommitPcs /\ call[s].lease = coord.lease
         /\ call[t].pc \in CommitPcs /\ call[t].lease = coord.lease
         => s = t
  /\ \A p \in PeerSlots : PeerDoing(p, "hold", coord.lease) =>
       coord.phase \notin {"reserved", "fencing"}

\* What a committing handler has already held stays held.
CommitsHeld ==
  coord.phase = "committing" =>
    \A s \in Slots : call[s].lease = coord.lease =>
      /\ call[s].pc \in {"stepPeer", "stepWait", "stepGrant"} =>
           HeldFor("ax41", coord.lease)
      /\ \/ call[s].pc = "stepGrant"
         \/ call[s].pc = "stepWait" /\ call[s].code = "ok"
         => HeldFor("selectel", coord.lease)

\* After a grant both barriers stay held until a verified release.
DestructiveHeld ==
  /\ coord.phase \in {"step_running", "failed_unsafe"} => coord.destructive
  /\ coord.phase \in {"reserved", "fencing", "fenced"} => ~coord.destructive
  /\ coord.releaseVerified => coord.phase \in {"releasing", "idle"}
  /\ coord.phase = "releasing" /\ coord.destructive => coord.releaseVerified
  /\ coord.destructive /\ coord.phase \notin {"idle", "releasing"} =>
       \A h \in Hosts : HeldFor(h, coord.lease)

\* A barrier that carries a lease out of force is uncommitted for good.
Clear(h, l) == fence[h].lease = l => ~fence[h].committed /\ NoHold(l)

OutOfForce(l) == coord.lease # l \/ coord.phase \in {"idle", "reserved", "fencing"}

OldBarriersExpire ==
  \A l \in Leases : OutOfForce(l) => \A h \in Hosts : Clear(h, l)

\* Handlers that may open barriers belong to a lease being released.
ReleasesOpen ==
  /\ \A s \in Slots : call[s].pc \in OpenPcs =>
       /\ call[s].lease = coord.lease => coord.phase \in {"releasing", "idle"}
       /\ \/ call[s].pc = "releaseWait" /\ call[s].code = "ok"
          \/ call[s].pc \in {"releaseFinal", "releaseDone"}
          => Clear("selectel", call[s].lease)
       /\ call[s].pc = "releaseDone" => Clear("ax41", call[s].lease)
  /\ \A p \in PeerSlots :
       peer[p].pc = "act" /\ peer[p].op = "open" /\ peer[p].lease = coord.lease
         => coord.phase \in {"releasing", "idle"}

\* The coordinator has the worker's step of the worker's lease open.
StepOpen(h) ==
  /\ coord.owner = h
  /\ coord.lease = worker[h].lease
  /\ coord.step = worker[h].step

\* The coordinator still has the step open, or knows that it failed.
StepKept(h) ==
  /\ StepOpen(h) /\ coord.phase \in {"step_running", "failed_unsafe"}
  /\ \A s \in Slots : call[s].pc = "complete" /\ call[s].ok =>
       call[s].lease # worker[h].lease \/ call[s].step # worker[h].step

\* The record says that native work may be running.
RunningPhases == UnsafePhases \ {"failed_unsafe"}
Running(h) == worker[h].phase \in RunningPhases

\* From the answer to its grant until it completes the step, the worker is in
\* agreement with the coordinator, and no completion of that step is under way.
StepAgreed ==
  /\ coord.step <= granted
  /\ \A h \in Hosts : worker[h].step <= granted
  /\ \A s \in Slots : call[s].step <= granted
  /\ \A h \in Hosts :
       /\ \/ worker[h].pc = "step" /\ worker[h].reply = "ok"
          \/ worker[h].pc \in {"preflight", "native"}
          => /\ StepOpen(h) /\ coord.phase = "step_running"
             /\ \A s \in Slots : call[s].pc = "complete" =>
                  call[s].lease # worker[h].lease \/ call[s].step # worker[h].step
       /\ Running(h) => StepKept(h)

\* So is a worker whose record says that native work failed.
FailuresAgree ==
  \A h \in Hosts : worker[h].phase = "failed_unsafe" => StepKept(h)

----------------------------------------------------------------------------
(* What the parts above need to survive every step *)

\* A process that has a request to send or awaits an answer is at a point that
\* issues requests.
Asking == \A h \in Hosts :
            worker[h].reply \in {"unsent", "waiting"} => worker[h].pc \in DOMAIN Path

\* A rollback answers with the failure it remembers, never with a grant.
RollbacksFail == \A s \in Slots : call[s].pc = "stepRollback" => call[s].code \in Failures

\* Whoever acts, acts for a lease; an open fence carries none.
Named ==
  /\ \A s \in Slots : call[s].pc # "free" => call[s].lease \in Leases
  /\ \A p \in PeerSlots : peer[p].pc # "free" => peer[p].lease \in Leases
  /\ coord.phase # "idle" => coord.lease \in Leases
  /\ \A h \in Hosts : fence[h].lease = NoLease => ~fence[h].committed /\ ~fence[h].up

Resting == {"idle", "deferred"}

\* Only a process that has not yet been granted a lease has a resting record.
PhasesFit ==
  \A h \in Hosts :
    /\ worker[h].pc = "claim" => worker[h].phase \in Resting
    /\ worker[h].pc \notin {"off", "claim"} => worker[h].phase \notin Resting
    /\ worker[h].pc \in {"complete", "completeRaise"} =>
         worker[h].phase \in {"verifying", "failed_unsafe"}

\* A released lease is over, and so is one whose release was acknowledged.
ReleasesEnd ==
  /\ coord.released = coord.lease => coord.phase = "idle"
  /\ \A h \in Hosts :
       /\ worker[h].pc \in {"release1", "release2", "abort"} /\ worker[h].reply = "ok"
       /\ coord.lease = worker[h].lease
       => coord.phase = "idle"

\* The lease of a resting record is over, or is a reservation nobody works on.
RestsSpent ==
  \A h \in Hosts :
    /\ worker[h].pc \in {"off", "claim"} /\ worker[h].phase \in Resting
    /\ coord.lease = worker[h].lease
    => \/ coord.phase = "idle"
       \/ /\ coord.phase = "reserved"
          /\ \A s \in Slots : call[s].lease # worker[h].lease

CoreInv ==
  /\ TypeOK /\ ClientsWait /\ CallersWait /\ LeasesFresh /\ ClaimsFirst
  /\ ArmedOnce
  /\ CommitsAlone /\ CommitsHeld /\ DestructiveHeld /\ OldBarriersExpire
  /\ ReleasesOpen /\ StepAgreed
  /\ Asking /\ RollbacksFail /\ Named /\ PhasesFit /\ ReleasesEnd /\ RestsSpent
  /\ FinishedRunHoldsNoLease

IInv == CoreInv /\ FailuresAgree
============================================================================
