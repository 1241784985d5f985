---------------------------- MODULE HostRecovery ----------------------------
(***************************************************************************)
(* The operator's recovery of a stranded lease: the tool                   *)
(* recover-host-maintenance.py, run on Selectel and on AX41 by its         *)
(* playbook, beside the control plane and the native work it reopens the   *)
(* cabinets after.                                                         *)
(*                                                                         *)
(* Which package or service a step is about is not part of the model: any  *)
(* failed step may be the restart of libvirtd, any completed one the       *)
(* restart of coturn, that the tool accepts.  Health, clocks and package   *)
(* locks may refuse it anywhere; then it does not take its next step.      *)
(***************************************************************************)
EXTENDS HostMaintenance

VARIABLES native,       \* hosts where a started transaction or unit job runs
          tool,         \* how far the tool has come on each host: "off",
                        \* "restarted", "prepared" or "finishing"
          quarantined   \* hosts whose timer and configuration are disabled

recoveryVars == <<native, tool, quarantined>>
allVars == <<vars, recoveryVars>>

RecoveryInit ==
  /\ Init
  /\ native = {}
  /\ tool = [h \in Hosts |-> "off"]
  /\ quarantined = {}

ToolAt(h, at) == tool[h] = at

Moves(h, at) == tool' = [tool EXCEPT ![h] = at]

----------------------------------------------------------------------------
(* The tool *)

\* worker.json and coordinator.json name the same lease and step.
SameStep(h) ==
  /\ coord.owner = h
  /\ coord.lease = worker[h].lease
  /\ coord.step = worker[h].step

\* expected_failure: AX41's own failed step, known to both records.
ExpectedFailure ==
  /\ coord.phase = "failed_unsafe"
  /\ worker["ax41"].phase = "failed_unsafe"
  /\ SameStep("ax41")

\* expected_completed_commit: Selectel completed its step and could not verify,
\* and a further commit was left without a grant.  A lease that had a step
\* is one whose worker asks for recovery as runtime_not_verified.
ExpectedCommit ==
  /\ coord.phase = "committing"
  /\ coord.destructive
  /\ worker["selectel"].phase = "recovery_required"
  /\ SameStep("selectel")
  /\ coord.doneStep = coord.step /\ coord.doneOk

Settled(h) == worker[h].phase \in {"idle", "deferred"}

\* Mutant: the tool does not ask systemd for running jobs.
NativeIdleByRecord(h) == ~UnsafeWork(h) \/ worker[h].phase = "failed_unsafe"

\* The executor's lock is free and nothing native runs.
NativeIdle(h) == h \notin native

LockFree(h) == worker[h].pc = "off" /\ ToolAt(h, "off")

\* The identities that --recover goes on with.
Supported(h) ==
  \/ h = "ax41" /\ ExpectedFailure
  \/ h = "ax41" /\ ExpectedCommit /\ Settled("ax41")
  \/ h = "selectel" /\ Settled("selectel")
  \/ /\ h = "selectel"
     /\ worker["selectel"].phase = "recovery_required"
     /\ coord.owner = "selectel" /\ coord.lease = worker["selectel"].lease
     /\ coord.phase \in {"committing", "verifying"}

\* --recover up to the restart of the agent, with the timer and the
\* configuration disabled; on Selectel that is all.
Quarantine(h) ==
  /\ NeedsRecovery          \* the operator has been asked to act
  /\ LockFree(h) /\ NativeIdle(h) /\ Supported(h)
  /\ quarantined' = quarantined \cup {h}
  /\ KillHandlers(h, {})
  /\ Moves(h, IF h = "ax41" THEN "restarted" ELSE "off")
  /\ h \notin quarantined   \* bound: one attempt on each host
  /\ UNCHANGED <<coord, fence, used, granted, faults, native>>

\* Same lease, same step: the coordinator's record goes back to verification.
Prepare ==
  /\ ToolAt("ax41", "restarted")
  /\ \/ ExpectedFailure /\ Moves("ax41", "prepared")
     \/ ExpectedCommit /\ Moves("ax41", "off")
  /\ coord' = [coord EXCEPT !.phase = "verifying"]
  /\ UNCHANGED <<fence, worker, call, peer, used, granted, faults, native,
                 quarantined>>

\* --finish-selectel, once AX41 has prepared the commit.
FinishCheck ==
  /\ LockFree("selectel")
  /\ NativeIdle("selectel")
  /\ "selectel" \in quarantined
  /\ worker["selectel"].phase = "recovery_required"
  /\ coord.owner = "selectel" /\ coord.lease = worker["selectel"].lease
  /\ coord.phase = "verifying"
  /\ Moves("selectel", "prepared")
  /\ UNCHANGED <<vars, native, quarantined>>

\* A Worker of the same lease verifies and releases: verify_release().
Resume(h) ==
  /\ ToolAt(h, "prepared")
  /\ Ask(h, "verifying", "verify2")
  /\ Moves(h, "finishing")
  /\ UNCHANGED <<coord, fence, call, peer, used, granted, faults, native,
                 quarantined>>

\* The tool gives up: a check fails, a lock is taken, or it is killed.
Leave(h) ==
  /\ tool[h] \in {"restarted", "prepared"}
  /\ Moves(h, "off")
  /\ UNCHANGED <<vars, native, quarantined>>

----------------------------------------------------------------------------
(* The worker of the tool: verify_release() alone, with nothing behind it *)

ToolGivesUp(h) ==
  /\ ToolAt(h, "finishing")
  /\ \E pc \in {"verify2", "release2"} : At(h, pc, Failures)
  /\ Stop(h, worker[h].phase)
  /\ Moves(h, "off")
  /\ UNCHANGED <<used, native, quarantined>> /\ Rest

Finishing(h) ==
  \/ /\ ToolAt(h, "finishing")
     /\ \/ (Verified(h) \/ Again(h)) /\ UNCHANGED tool
        \/ ReleaseAcked(h) /\ Moves(h, "off")
     /\ UNCHANGED <<native, quarantined>>
  \/ ToolGivesUp(h)

----------------------------------------------------------------------------
(* The control plane beside it *)

\* The job or transaction is let go ahead.
NativeBegins(h) == worker[h].pc = "preflight" /\ worker'[h].pc = "native"

\* The worker has seen it end; of a restart it only knows that it waited 120 s.
NativeSeenToEnd(h) ==
  /\ worker[h].pc = "native" /\ worker'[h].pc # "native"
  /\ worker[h].phase = "restarting" => worker'[h].phase = "verifying"

Executing(h) ==
  /\ ~ToolAt(h, "finishing")
  /\ Working(h)
  /\ NativeSeenToEnd(h) => h \notin native
  /\ native' = IF NativeBegins(h) THEN native \cup {h} ELSE native
  /\ UNCHANGED <<tool, quarantined>>

GivingUp(h) == ~ToolAt(h, "finishing") /\ GiveUp(h) /\ UNCHANGED recoveryVars

NativeEnds(h) ==
  /\ h \in native
  /\ native' = native \ {h}
  /\ UNCHANGED <<vars, tool, quarantined>>

\* Native work outlives its executor; APT also when its helper has yet to be
\* let through.
Killed(h) ==
  /\ Crash(h)
  /\ \/ UNCHANGED native
     \/ /\ worker[h].pc = "preflight"
        /\ worker[h].phase \in {"installing", "overrun"}
        /\ native' = native \cup {h}
  /\ Moves(h, "off")
  /\ UNCHANGED quarantined

Rebooted(h) ==
  /\ Reboot(h)
  /\ native' = native \ {h}
  /\ Moves(h, "off")
  /\ UNCHANGED quarantined

\* The timer and the configuration of a quarantined host are disabled, and the
\* tool holds the executor's lock.
Starts(h) ==
  /\ h \notin quarantined /\ ToolAt(h, "off")
  /\ \E l \in Leases : Start(h, l)

\* An agent restarted with execution disabled refuses every claim.
Serves(s) ==
  /\ Handling(s)
  /\ AtCall(s, "claim") /\ "ax41" \in quarantined => UNCHANGED coord

RecoveryNext ==
  \/ \E h \in Hosts :
        \/ Quarantine(h) \/ Resume(h) \/ Leave(h)
        \/ Finishing(h) \/ Executing(h) \/ NativeEnds(h)
        \/ Killed(h) \/ Rebooted(h)
        \/ /\ \/ Starts(h)
              \/ \E s \in Slots : Accept(h, s)
              \/ Refuse(h) \/ Expire(h) \/ AgentRestart(h)
           /\ UNCHANGED recoveryVars
  \/ Prepare \/ FinishCheck
  \/ /\ \/ \E s \in Slots : Serves(s) \/ Contending(s) \/ Timeout(s)
        \/ \E p \in PeerSlots : Answering(p) \/ PeerFenceBusy(p)
     /\ UNCHANGED recoveryVars

RecoverySpec == RecoveryInit /\ [][RecoveryNext]_allVars

\* Threads and loops make progress; a retry loop ends at its deadline, the tool's
\* own too; APT and systemd finish what they started; the collector runs every
\* three seconds.  Nobody has to call the tool, or to go on with it.
Fairness ==
  /\ \A h \in Hosts : /\ WF_allVars(Executing(h)) /\ SF_allVars(GivingUp(h))
                      /\ WF_allVars(Finishing(h)) /\ SF_allVars(ToolGivesUp(h))
                      /\ WF_allVars(NativeEnds(h))
                      /\ WF_allVars((\E s \in Slots : Accept(h, s)) /\ UNCHANGED recoveryVars)
                      /\ WF_allVars(Expire(h) /\ OpenFence(h) /\ UNCHANGED recoveryVars)
  /\ \A s \in Slots : WF_allVars(Serves(s) /\ UNCHANGED recoveryVars)
  /\ \A p \in PeerSlots : WF_allVars(Answering(p) /\ UNCHANGED recoveryVars)

FairSpec == RecoverySpec /\ Fairness

----------------------------------------------------------------------------
(* Properties *)

\* While native work really runs on a host, whatever its executor recorded or
\* did not live to record, and whatever an operator recovers meanwhile, the lease
\* it was begun under is in force and both admission barriers are held for it.
NativeWorkIsBarred ==
  \A h \in native :
    /\ coord.lease = worker[h].lease
    /\ coord.phase \notin {"idle", "releasing"}
    /\ \A g \in Hosts : HeldFor(g, coord.lease)
=============================================================================
