--------------------------- MODULE HostMaintenance ---------------------------
(***************************************************************************)
(* The two-host maintenance control plane: the executors of AX41 and       *)
(* Selectel, the coordinator agent of AX41 and the fence agent of          *)
(* Selectel, with late, lost and refused requests, contended locks, fence  *)
(* expiry, agent restarts and host reboots.                                *)
(***************************************************************************)
EXTENDS MaintenanceWorker, CoordinatorAgent, PeerAgent

----------------------------------------------------------------------------
(* Transport between a worker and the coordinator *)

\* The server gives the request a handler.
Accept(h, s) ==
  /\ worker[h].reply = "unsent"
  /\ call[s].pc = "free"
  /\ call' = [call EXCEPT ![s] =
                [pc |-> Path[worker[h].pc], actor |-> h,
                 lease |-> worker[h].lease, step |-> worker[h].step,
                 ok |-> worker[h].phase # "failed_unsafe",
                 live |-> TRUE, code |-> "none"]]
  /\ worker' = [worker EXCEPT ![h].reply = "waiting"]
  /\ UNCHANGED <<coord, fence, peer, used, granted, faults>>

\* The request never reaches a handler: no connection, no free server slot,
\* or the replay journal is locked by another request.
Refuse(h) ==
  /\ worker[h].reply = "unsent"
  /\ worker' = [worker EXCEPT ![h].reply = "busy"]
  /\ \/ Fault
     \/ (\A s \in Slots : call[s].pc # "free") /\ UNCHANGED faults
  /\ UNCHANGED <<coord, fence, call, peer, used, granted>>

\* Ten seconds without an answer; the handler goes on without its client.
Timeout(s) ==
  /\ call[s].live
  /\ call' = [call EXCEPT ![s].live = FALSE]
  /\ worker' = [worker EXCEPT ![call[s].actor].reply = "busy"]
  /\ Fault
  /\ UNCHANGED <<coord, fence, peer, used, granted>>

----------------------------------------------------------------------------
(* The hosts *)

\* Mutant: the collector does not look at the committed flag.
ExpireAnyFence(h) ==
  /\ fence[h].lease # NoLease
  /\ OpenFence(h) \/ OpenFencePartly(h)
  /\ UNCHANGED <<coord, worker, call, peer, used, granted, faults>>

\* Mutant: barriers expire only while a lease is in force.
ExpireWhileLeased(h) ==
  /\ fence[h].lease # NoLease
  /\ ~fence[h].committed
  /\ coord.phase # "idle"
  /\ OpenFence(h) \/ OpenFencePartly(h)
  /\ UNCHANGED <<coord, worker, call, peer, used, granted, faults>>

\* The collector opens a barrier that stayed uncommitted for 60 seconds.
Expire(h) ==
  /\ fence[h].lease # NoLease
  /\ ~fence[h].committed
  /\ OpenFence(h) \/ OpenFencePartly(h)
  /\ UNCHANGED <<coord, worker, call, peer, used, granted, faults>>

\* The executor is killed or ends in an unexpected exception.  KillMode=process
\* spares its native work; its request, if any, goes on without a client.
Crash(h) ==
  /\ worker[h].pc # "off"
  /\ Stop(h, worker[h].phase)
  /\ call' = [s \in Slots |-> [call[s] EXCEPT !.live = @ /\ call[s].actor # h]]
  /\ Fault
  /\ UNCHANGED <<coord, fence, peer, used, granted>>

\* Every handler of the AX41 agent dies; waiting workers see a lost connection.
KillCoordinatorHandlers(down) ==
  /\ call' = [s \in Slots |-> FreeCall]
  /\ peer' = [p \in PeerSlots |-> [peer[p] EXCEPT !.caller = NoSlot]]
  /\ worker' = [h \in Hosts |->
       IF h \in down THEN [worker[h] EXCEPT !.pc = "off", !.reply = "none"]
       ELSE IF worker[h].reply = "waiting" THEN [worker[h] EXCEPT !.reply = "busy"]
       ELSE worker[h]]

\* Every handler of the Selectel agent dies; their callers see an error.  The
\* requests of a worker that goes down lose their client.
KillPeerHandlers(down) ==
  /\ peer' = [p \in PeerSlots |-> FreePeer]
  /\ call' = [s \in Slots |->
       [call[s] EXCEPT
          !.live = @ /\ call[s].actor \notin down,
          !.code = IF \E p \in PeerSlots : peer[p].pc # "free" /\ peer[p].caller = s
                   THEN "busy" ELSE @]]
  /\ worker' = [h \in Hosts |->
       IF h \in down THEN [worker[h] EXCEPT !.pc = "off", !.reply = "none"]
       ELSE worker[h]]

KillHandlers(h, down) ==
  IF h = "ax41" THEN KillCoordinatorHandlers(down) ELSE KillPeerHandlers(down)

\* The agent service fails and systemd starts it again.
AgentRestart(h) ==
  /\ KillHandlers(h, {})
  /\ Fault
  /\ UNCHANGED <<coord, fence, used, granted>>

\* The host reboots: executor, native work and agent end, and restore() puts a
\* recorded barrier up before nginx, TURN and virtualization start.
Reboot(h) ==
  /\ KillHandlers(h, {h})
  /\ fence' = [fence EXCEPT ![h].up = fence[h].lease # NoLease]
  /\ Fault
  /\ UNCHANGED <<coord, used, granted>>

----------------------------------------------------------------------------
Next ==
  \/ \E h \in Hosts :
        \/ \E l \in Leases : Start(h, l)
        \/ Working(h)
        \/ \E s \in Slots : Accept(h, s)
        \/ Refuse(h)
        \/ Expire(h)
        \/ Crash(h)
        \/ AgentRestart(h)
        \/ Reboot(h)
  \/ \E s \in Slots : Handling(s) \/ Contending(s) \/ Timeout(s)
  \/ \E p \in PeerSlots : Answering(p) \/ PeerFenceBusy(p)

Spec == Init /\ [][Next]_vars

----------------------------------------------------------------------------
(* Properties *)

UnsafeWork(h) == worker[h].phase \in UnsafePhases

HeldFor(h, l) == fence[h].lease = l /\ fence[h].committed /\ fence[h].up

\* While a host's worker record says that native work may be running or has
\* failed, the coordinator still has exactly that step of that lease open, and
\* both admission barriers are up and held for it: across late handlers, lost
\* acknowledgements, agent restarts and reboots.
UnsafeWorkIsBarred ==
  \A h \in Hosts : UnsafeWork(h) =>
    /\ coord.phase \in {"step_running", "failed_unsafe"}
    /\ coord.owner = h
    /\ coord.lease = worker[h].lease
    /\ coord.step = worker[h].step
    /\ \A g \in Hosts : HeldFor(g, coord.lease)

\* A barrier that never expires always belongs to the lease in force, so that
\* lease's release can lift it: no late close or hold leaves one behind.
HoldBelongsToLease ==
  \A h \in Hosts : fence[h].committed =>
    /\ fence[h].lease = coord.lease
    /\ coord.phase \notin {"idle", "reserved", "fencing"}

\* A worker record that lets the timer start again holds no lease, except a bare
\* reservation whose claim was never acknowledged: no barrier, no step.
FinishedRunHoldsNoLease ==
  \A h \in Hosts :
    /\ worker[h].pc = "off"
    /\ worker[h].phase \in {"idle", "deferred"}
    /\ coord.owner = h
    /\ coord.lease = worker[h].lease
    => coord.phase \in {"idle", "reserved"}

Exclusive == INSTANCE ExclusiveMaintenance WITH
  held <- {h \in Hosts : fence[h].committed},
  native <- {h \in Hosts : UnsafeWork(h)},
  proved <- ~coord.destructive \/ coord.releaseVerified \/ coord.phase = "verified"

\* The control plane implements exclusive maintenance.
ImplementsExclusive == Exclusive!Spec

\* A worker process left a record that stops the timer until an operator acts.
NeedsRecovery ==
  \E h \in Hosts : worker[h].pc = "off"
                   /\ worker[h].phase \notin {"idle", "deferred"}

\* Every started run ends, whatever was lost, refused or restarted.
RunEnds == \A h \in Hosts : worker[h].pc # "off" ~> worker[h].pc = "off"

\* Closed cabinets reopen, or a worker record asks for recovery.
CabinetsReopen ==
  \A h \in Hosts : fence[h].up ~> (~fence[h].up \/ NeedsRecovery)

\* A lease that went beyond its reservation ends, or asks for recovery.
LeaseEnds == (coord.phase \notin {"idle", "reserved"})
               ~> (coord.phase = "idle" \/ NeedsRecovery)

\* docs/host-maintenance-control.md:29: a pre-grant commit failure "must not
\* strand committing after a denied new activity proof".
DeniedProofIsNotStranded ==
  [][\A s \in Slots :
       /\ call[s].pc = "stepRollback" /\ call[s].code = "denied" /\ Owns(s)
       /\ Handling(s) \/ Contending(s)
       => coord'.phase # "committing"]_vars
============================================================================
