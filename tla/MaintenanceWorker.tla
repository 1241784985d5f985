-------------------------- MODULE MaintenanceWorker --------------------------
(***************************************************************************)
(* The nightly executor of one host (worker.py).  It issues one request at *)
(* a time; an answer "busy" stands for control_unavailable, lock_busy and  *)
(* fence_busy, the codes acknowledge() retries until its deadline.         *)
(***************************************************************************)
EXTENDS ControlPlane

\* The control request that each waiting point of the worker issues.
Path == [claim |-> "claim", arm |-> "arm", step |-> "step",
         preflight |-> "preflight", complete |-> "complete",
         completeRaise |-> "complete", verify1 |-> "verify",
         verify2 |-> "verify", release1 |-> "release",
         release2 |-> "release", abort |-> "release"]

\* Record a phase in worker.json and issue the request of point pc.
Ask(h, phase, pc) ==
  worker' = [worker EXCEPT ![h].phase = phase, ![h].pc = pc,
                           ![h].reply = "unsent"]

\* The process ends leaving a phase in worker.json.
Stop(h, phase) ==
  worker' = [worker EXCEPT ![h].phase = phase, ![h].pc = "off",
                           ![h].reply = "none"]

Continue(h, phase) ==
  worker' = [worker EXCEPT ![h].phase = phase, ![h].pc = "work",
                           ![h].reply = "none"]

At(h, pc, replies) == worker[h].pc = pc /\ worker[h].reply \in replies

\* Mutant: a failed arming records its deferral without releasing the lease.
RaiseWithoutRelease(h, phase) ==
  \/ phase = "reserved" /\ Stop(h, "deferred")
  \/ phase = "fenced" /\ Ask(h, phase, "abort")
  \/ phase \in UnsafePhases /\ Stop(h, phase)
  \/ phase \notin {"reserved", "fenced"} \cup UnsafePhases
     /\ Ask(h, phase, "verify2")

\* A Deferred raised between fencing and verify_release, phase as recorded.
Raise(h, phase) ==
  \/ phase \in {"reserved", "fenced"} /\ Ask(h, phase, "abort")
  \/ phase \in UnsafePhases /\ Stop(h, phase)
  \/ phase \notin {"reserved", "fenced"} \cup UnsafePhases
     /\ Ask(h, phase, "verify2")

Rest == UNCHANGED <<coord, fence, call, peer, granted, faults>>

----------------------------------------------------------------------------
\* A timer starts the executor; only an idle or deferred record may go on.
Start(h, l) ==
  /\ At(h, "off", {"none"})
  /\ worker[h].phase \in {"idle", "deferred"}
  /\ l \notin used
  /\ used' = used \cup {l}
  /\ worker' = [worker EXCEPT ![h].pc = "claim", ![h].reply = "unsent",
                              ![h].lease = l, ![h].destructive = FALSE]
  /\ Rest

\* Before the claim is acknowledged nothing is released: the run only records
\* its deferral, whatever the coordinator did with the request.
Claimed(h) ==
  /\ \/ At(h, "claim", {"ok"}) /\ Ask(h, "reserved", "arm")
     \/ At(h, "claim", {"busy", "denied"}) /\ Stop(h, "deferred")
  /\ UNCHANGED used /\ Rest

Armed(h) ==
  /\ \/ At(h, "arm", {"ok"}) /\ Continue(h, "fenced")
     \/ At(h, "arm", {"busy", "denied"}) /\ Raise(h, "reserved")
  /\ UNCHANGED used /\ Rest

\* install() or restart() of the next unit needs a grant.
BeginStep(h) ==
  /\ At(h, "work", {"none"})
  /\ granted < MaxSteps
  /\ Ask(h, worker[h].phase, "step")
  /\ UNCHANGED used /\ Rest

\* Package lock, integrity, service health or window refuses before a proof.
LocalDefer(h) ==
  /\ At(h, "work", {"none"})
  /\ Raise(h, worker[h].phase)
  /\ UNCHANGED used /\ Rest

\* Nothing left to do: verify_release, remembering whether a step ran.
EndOfPlan(h) ==
  /\ At(h, "work", {"none"})
  /\ worker' = [worker EXCEPT ![h].pc = "verify1", ![h].reply = "unsent",
                  ![h].destructive = worker[h].phase # "fenced"]
  /\ UNCHANGED used /\ Rest

\* proof(): a fresh grant is used at once, the install first; a stale one is
\* completed unused.
Proved(h) ==
  /\ At(h, "step", {"ok"})
  /\ \/ worker[h].phase = "fenced" /\ Ask(h, "installing", "preflight")
     \/ Ask(h, "preparing_restart", "preflight")
     \/ Ask(h, "verifying", "completeRaise")
  /\ UNCHANGED used /\ Rest

\* The immediate re-check: from systemctl restart's caller, or from APT's
\* Pre-Invoke hook while APT owns its frontend lock.
Preflighted(h) ==
  /\ \/ /\ At(h, "preflight", {"ok"})
        /\ worker' = [worker EXCEPT ![h].pc = "native", ![h].reply = "none",
                        ![h].phase = IF @ = "preparing_restart"
                                     THEN "restarting" ELSE @]
     \/ /\ At(h, "preflight", {"busy", "denied"})
        /\ Ask(h, "verifying", "completeRaise")
     \* a refused install whose versions changed, or left no clean database
     \/ /\ At(h, "preflight", {"busy", "denied"})
        /\ worker[h].phase \in {"installing", "overrun"}
        /\ \/ Ask(h, "failed_unsafe", "completeRaise")
           \/ Raise(h, worker[h].phase)
  /\ UNCHANGED used /\ Rest

\* An install still running at 05:00 is recorded, never killed.
Overrun(h) ==
  /\ worker[h].pc \in {"preflight", "native"}
  /\ worker[h].phase = "installing"
  /\ worker' = [worker EXCEPT ![h].phase = "overrun"]
  /\ UNCHANGED used /\ Rest

NativeDone(h) ==
  /\ At(h, "native", {"none"})
  /\ \/ Ask(h, "verifying", "complete")
     \/ Ask(h, "failed_unsafe", "completeRaise")
  /\ UNCHANGED used /\ Rest

\* acknowledge('/lease/complete-step')
Completed(h) ==
  /\ \/ At(h, "complete", {"ok"}) /\ Continue(h, worker[h].phase)
     \/ At(h, "completeRaise", {"ok"}) /\ Raise(h, worker[h].phase)
  /\ UNCHANGED used /\ Rest

Verified(h) ==
  /\ \/ At(h, "verify1", {"ok"}) /\ Ask(h, "verified", "release1")
     \/ At(h, "verify2", {"ok"}) /\ Ask(h, "verified", "release2")
  /\ UNCHANGED used /\ Rest

ReleaseAcked(h) ==
  /\ \/ \E pc \in {"release1", "release2"} :
           At(h, pc, {"ok"}) /\ Stop(h, "idle")
     \/ At(h, "abort", {"ok"}) /\ Stop(h, "deferred")
  /\ UNCHANGED used /\ Rest

\* The loops of proof(), acknowledge() and verify_release(): the codes that a
\* waiting point asks again for.  A lost grant is never asked for twice.
Retried == [step |-> {"retry"}, complete |-> {"busy"},
            completeRaise |-> {"busy"}, verify1 |-> {"retry", "busy"},
            verify2 |-> {"retry", "busy"}, release1 |-> {"busy"},
            release2 |-> {"busy"}, abort |-> {"busy"}]

Again(h) ==
  /\ worker[h].pc \in DOMAIN Retried
  /\ worker[h].reply \in Retried[worker[h].pc]
  /\ worker' = [worker EXCEPT ![h].reply = "unsent"]
  /\ UNCHANGED used /\ Rest

Failures == {"retry", "busy", "denied"}

\* verify_release of the try block failed: the except block takes over.
ReleaseFailed(h) ==
  Ask(h, worker[h].phase, IF worker[h].destructive THEN "verify2" ELSE "abort")

\* Mutant: proof() has no deadline.
GiveUpUnbounded(h) ==
  /\ \/ \E pc \in {"complete", "completeRaise"} :
           At(h, pc, Failures) /\ Raise(h, worker[h].phase)
     \/ \E pc \in {"verify1", "release1"} :
           At(h, pc, Failures) /\ ReleaseFailed(h)
     \/ \E pc \in {"verify2", "release2", "abort"} :
           At(h, pc, Failures) /\ Stop(h, "recovery_required")
  /\ UNCHANGED used /\ Rest

\* A refusal, or a retried code at the end of the loop's time bound.
GiveUp(h) ==
  /\ \/ \E pc \in {"step", "complete", "completeRaise"} :
           At(h, pc, Failures) /\ Raise(h, worker[h].phase)
     \/ \E pc \in {"verify1", "release1"} :
           At(h, pc, Failures) /\ ReleaseFailed(h)
     \/ \E pc \in {"verify2", "release2", "abort"} :
           At(h, pc, Failures) /\ Stop(h, "recovery_required")
  /\ UNCHANGED used /\ Rest

Working(h) ==
  \/ Claimed(h) \/ Armed(h) \/ BeginStep(h) \/ LocalDefer(h) \/ EndOfPlan(h)
  \/ Proved(h) \/ Preflighted(h) \/ Overrun(h) \/ NativeDone(h)
  \/ Completed(h) \/ Verified(h) \/ ReleaseAcked(h) \/ Again(h) \/ GiveUp(h)
============================================================================
