----------------------- MODULE HostMaintenanceProofs -----------------------
(***************************************************************************)
(* The control plane is well typed, and its invariant is inductive.  What  *)
(* follows from that: unsafe work is barred, a held barrier belongs to the *)
(* lease in force, a finished run holds no lease, and the control plane    *)
(* implements exclusive maintenance.                                       *)
(*                                                                         *)
(* Types come first, with a summary of what a step of the worker and one   *)
(* of a handler do.  Then the parts of CoreInv.  Most steps take something *)
(* away: a handler ends or goes on with the same request, a client stops   *)
(* waiting, a barrier expires.  HandlersFade, JournalStays and             *)
(* BarriersStay say what such a step leaves alone; FadingSafe, JournalSafe *)
(* and BarriersSafe, which part of CoreInv each keeps.  Then there is a    *)
(* lemma for every step that moves the journal, one for every move of a    *)
(* barrier, one for every step that sends something; and one for each      *)
(* group of actions that puts these together.                              *)
(***************************************************************************)
EXTENDS HostMaintenanceInvariant, HostRecovery, TLAPS

----------------------------------------------------------------------------
(* What a worker step does to its own process, whichever step it is *)

\* The process of h now has this position, phase and pending answer.
Moved(h, pc, phase, reply) ==
  /\ worker' \in [Hosts -> Process]
  /\ \A g \in Hosts : g # h => worker'[g] = worker[g]
  /\ worker'[h].pc = pc
  /\ worker'[h].phase = phase
  /\ worker'[h].reply = reply
  /\ worker'[h].lease = worker[h].lease
  /\ worker'[h].step = worker[h].step

\* A request is asked for: the process waits to send it.
LEMMA AskMoves ==
  ASSUME worker \in [Hosts -> Process], NEW h \in Hosts,
         NEW phase \in WorkerPhase, NEW pc \in WorkerPc, Ask(h, phase, pc)
  PROVE  Moved(h, pc, phase, "unsent")
<1>1. "unsent" \in Reply BY DEF Reply
<1> QED BY <1>1 DEF Ask, Moved, Process

\* The process ends with a phase in its record.
LEMMA StopMoves ==
  ASSUME worker \in [Hosts -> Process], NEW h \in Hosts,
         NEW phase \in WorkerPhase, Stop(h, phase)
  PROVE  Moved(h, "off", phase, "none")
<1>1. "none" \in Reply /\ "off" \in WorkerPc BY DEF Reply, WorkerPc
<1> QED BY <1>1 DEF Stop, Moved, Process

\* The process goes on to its next unit of work.
LEMMA ContinueMoves ==
  ASSUME worker \in [Hosts -> Process], NEW h \in Hosts,
         NEW phase \in WorkerPhase, Continue(h, phase)
  PROVE  Moved(h, "work", phase, "none")
<1>1. "none" \in Reply /\ "work" \in WorkerPc BY DEF Reply, WorkerPc
<1> QED BY <1>1 DEF Continue, Moved, Process

\* The step token of a granted or entered step is in the worker's hands.
HasGrant(h) == \/ worker[h].pc = "step" /\ worker[h].reply = "ok"
               \/ worker[h].pc \in {"preflight", "native"}

\* The release of the worker's lease has been acknowledged.
Acknowledged(h) ==
  worker[h].pc \in {"release1", "release2", "abort"} /\ worker[h].reply = "ok"

\* The move from pc to the process's new position keeps to the run's order.
InOrder(h) ==
  /\ worker[h].pc # "off" /\ worker[h].reply # "waiting"
  /\ worker'[h].pc # "claim" /\ worker'[h].reply \in {"none", "unsent"}
  /\ worker'[h].reply = "unsent" => worker'[h].pc \in DOMAIN Path
  /\ worker'[h].pc = "arm" => worker[h].pc = "claim" /\ worker[h].reply = "ok"
  /\ worker[h].pc = "claim" /\ worker[h].reply # "ok" => worker'[h].pc = "off"
  /\ worker[h].pc = "arm" /\ worker[h].reply # "ok" => worker'[h].pc = "abort"
  /\ worker[h].pc = "abort" => worker'[h].pc \in {"abort", "off"}
  /\ worker'[h].pc = "preflight" => HasGrant(h)
  /\ worker'[h].pc = "native" => HasGrant(h)
  /\ worker'[h].phase \in UnsafePhases =>
       HasGrant(h) \/ worker[h].phase \in UnsafePhases
  /\ Running(h)' => HasGrant(h) \/ Running(h)
  /\ worker'[h].pc # "off" =>
       \/ worker'[h].phase \notin Resting
       \/ worker'[h].phase = worker[h].phase /\ worker[h].pc # "claim"
  /\ worker'[h].pc \in {"complete", "completeRaise"} =>
       \/ worker'[h].phase \in {"verifying", "failed_unsafe"}
       \/ worker'[h].phase = worker[h].phase /\ worker'[h].pc = worker[h].pc
  /\ worker'[h].pc = "off" /\ worker'[h].phase \in Resting =>
       worker[h].pc = "claim" \/ Acknowledged(h)

\* The process of h moves in order, and nothing else does.
WorkerStep(h) ==
  /\ worker' \in [Hosts -> Process]
  /\ \A g \in Hosts : g # h => worker'[g] = worker[g]
  /\ worker'[h].lease = worker[h].lease /\ worker'[h].step = worker[h].step
  /\ InOrder(h)
  /\ UNCHANGED <<coord, fence, call, peer, used, granted, faults>>

\* A move that keeps to the order, with nothing else changed, is such a step.
LEMMA MovedStep ==
  ASSUME NEW h \in Hosts, NEW pc, NEW phase, NEW reply,
         Moved(h, pc, phase, reply),
         pc # "claim", reply \in {"none", "unsent"}, pc # "native",
         reply = "unsent" => pc \notin {"off", "work"},
         worker[h].pc # "off", worker[h].reply # "waiting",
         pc = "arm" => worker[h].pc = "claim" /\ worker[h].reply = "ok",
         worker[h].pc = "claim" /\ worker[h].reply # "ok" => pc = "off",
         worker[h].pc = "arm" /\ worker[h].reply # "ok" => pc = "abort",
         worker[h].pc = "abort" => pc \in {"abort", "off"},
         pc = "preflight" => HasGrant(h),
         phase \in UnsafePhases => HasGrant(h) \/ worker[h].phase \in UnsafePhases,
         phase \in RunningPhases => HasGrant(h) \/ Running(h),
         pc # "off" => \/ phase \notin Resting
                       \/ phase = worker[h].phase /\ worker[h].pc # "claim",
         pc \in {"complete", "completeRaise"} =>
           phase \in {"verifying", "failed_unsafe"},
         pc = "off" /\ phase \in Resting =>
           worker[h].pc = "claim" \/ Acknowledged(h),
         UNCHANGED <<coord, fence, call, peer, used, granted, faults>>
  PROVE  WorkerStep(h)
<1>1. pc \in WorkerPc BY DEF Moved, Process
<1>2. reply = "unsent" => pc \in DOMAIN Path BY <1>1 DEF WorkerPc, Path
<1> QED BY <1>2 DEF Moved, WorkerStep, InOrder, Running

\* So is the handling of a Deferred, from wherever it is raised.
LEMMA RaiseStep ==
  ASSUME TypeOK, NEW h \in Hosts, NEW phase \in WorkerPhase, Raise(h, phase),
         worker[h].pc \notin {"off", "claim", "abort"},
         worker[h].reply # "waiting",
         phase \in UnsafePhases => HasGrant(h) \/ worker[h].phase \in UnsafePhases,
         phase \in RunningPhases => HasGrant(h) \/ Running(h),
         worker[h].pc = "arm" => phase = "reserved",
         phase \notin Resting \/ phase = worker[h].phase,
         UNCHANGED <<coord, fence, call, peer, used, granted, faults>>
  PROVE  WorkerStep(h)
<1> USE DEF WorkerPc, Resting, UnsafePhases, RunningPhases
<1>1. CASE phase \in {"reserved", "fenced"} /\ Ask(h, phase, "abort")
  <2>1. Moved(h, "abort", phase, "unsent") BY <1>1, AskMoves DEF TypeOK
  <2> QED BY <1>1, <2>1, MovedStep
<1>2. CASE phase \in UnsafePhases /\ Stop(h, phase)
  <2>1. Moved(h, "off", phase, "none") BY <1>2, StopMoves DEF TypeOK
  <2>2. worker[h].pc # "arm" BY <1>2 DEF UnsafePhases
  <2> QED BY <1>2, <2>1, <2>2, MovedStep
<1>3. CASE /\ phase \notin {"reserved", "fenced"} \cup UnsafePhases
           /\ Ask(h, phase, "verify2")
  <2>1. Moved(h, "verify2", phase, "unsent") BY <1>3, AskMoves DEF TypeOK
  <2> QED BY <1>3, <2>1, MovedStep
<1> QED BY <1>1, <1>2, <1>3 DEF Raise

\* Every step of the executor is one, except the mark that the window has ended.
LEMMA WorkingStep ==
  ASSUME TypeOK, NEW h \in Hosts, Working(h), ~Overrun(h)
  PROVE  WorkerStep(h)
<1> DEFINE phase == worker[h].phase
<1> USE DEF Resting, Acknowledged, Running, RunningPhases
<1>0. phase \in WorkerPhase BY DEF TypeOK, Process
<1>1. CASE Claimed(h)
  <2>1. CASE At(h, "claim", {"ok"}) /\ Ask(h, "reserved", "arm")
    <3>1. Moved(h, "arm", "reserved", "unsent")
      BY <2>1, AskMoves DEF TypeOK, WorkerPhase, WorkerPc
    <3> QED BY <1>1, <2>1, <3>1, MovedStep DEF At, Claimed, Rest, UnsafePhases
  <2>2. CASE At(h, "claim", {"busy", "denied"}) /\ Stop(h, "deferred")
    <3>1. Moved(h, "off", "deferred", "none")
      BY <2>2, StopMoves DEF TypeOK, WorkerPhase
    <3> QED BY <1>1, <2>2, <3>1, MovedStep DEF At, Claimed, Rest, UnsafePhases
  <2> QED BY <1>1, <2>1, <2>2 DEF Claimed
<1>2. CASE Armed(h)
  <2>1. CASE At(h, "arm", {"ok"}) /\ Continue(h, "fenced")
    <3>1. Moved(h, "work", "fenced", "none")
      BY <2>1, ContinueMoves DEF TypeOK, WorkerPhase
    <3> QED BY <1>2, <2>1, <3>1, MovedStep DEF At, Armed, Rest, UnsafePhases
  <2>2. CASE At(h, "arm", {"busy", "denied"}) /\ Raise(h, "reserved")
    <3>1. "reserved" \in WorkerPhase BY DEF WorkerPhase
    <3> QED BY <1>2, <2>2, <3>1, RaiseStep DEF At, Armed, Rest, UnsafePhases
  <2> QED BY <1>2, <2>1, <2>2 DEF Armed
<1>3. CASE BeginStep(h)
  <2>1. Moved(h, "step", phase, "unsent")
    BY <1>0, <1>3, AskMoves DEF BeginStep, TypeOK, WorkerPc
  <2> QED BY <1>3, <2>1, MovedStep DEF At, BeginStep, Rest
<1>4. CASE LocalDefer(h)
  BY <1>0, <1>4, RaiseStep DEF At, LocalDefer, Rest
<1>5. CASE EndOfPlan(h)
  BY <1>0, <1>5 DEF At, EndOfPlan, Rest, WorkerStep, InOrder, HasGrant, TypeOK,
                    Process, WorkerPc, Reply, Path
<1>6. CASE Proved(h)
  <2>1. CASE phase = "fenced" /\ Ask(h, "installing", "preflight")
    <3>1. Moved(h, "preflight", "installing", "unsent")
      BY <2>1, AskMoves DEF TypeOK, WorkerPhase, WorkerPc
    <3> QED BY <1>6, <3>1, MovedStep DEF At, Proved, Rest, HasGrant
  <2>2. CASE Ask(h, "preparing_restart", "preflight")
    <3>1. Moved(h, "preflight", "preparing_restart", "unsent")
      BY <2>2, AskMoves DEF TypeOK, WorkerPhase, WorkerPc
    <3> QED BY <1>6, <3>1, MovedStep DEF At, Proved, Rest, HasGrant, UnsafePhases
  <2>3. CASE Ask(h, "verifying", "completeRaise")
    <3>1. Moved(h, "completeRaise", "verifying", "unsent")
      BY <2>3, AskMoves DEF TypeOK, WorkerPhase, WorkerPc
    <3> QED BY <1>6, <3>1, MovedStep DEF At, Proved, Rest, UnsafePhases
  <2> QED BY <1>6, <2>1, <2>2, <2>3 DEF Proved
<1>7. CASE Preflighted(h)
  <2>1. CASE At(h, "preflight", {"ok"})
    BY <1>7, <2>1 DEF At, Preflighted, Rest, WorkerStep, InOrder, HasGrant,
                      TypeOK, Process, WorkerPc, WorkerPhase, Reply
  <2>2. CASE At(h, "preflight", {"busy", "denied"}) /\ Ask(h, "verifying", "completeRaise")
    <3>1. Moved(h, "completeRaise", "verifying", "unsent")
      BY <2>2, AskMoves DEF TypeOK, WorkerPhase, WorkerPc
    <3> QED BY <1>7, <2>2, <3>1, MovedStep DEF At, Preflighted, Rest, UnsafePhases
  <2>3. CASE At(h, "preflight", {"busy", "denied"}) /\ Raise(h, phase)
    BY <1>0, <1>7, <2>3, RaiseStep DEF At, Preflighted, Rest, HasGrant
  <2>4. CASE At(h, "preflight", {"busy", "denied"})
             /\ Ask(h, "failed_unsafe", "completeRaise")
    <3>1. Moved(h, "completeRaise", "failed_unsafe", "unsent")
      BY <2>4, AskMoves DEF TypeOK, WorkerPhase, WorkerPc
    <3> QED BY <1>7, <2>4, <3>1, MovedStep DEF At, Preflighted, Rest, HasGrant
  <2> QED BY <1>7, <2>1, <2>2, <2>3, <2>4 DEF Preflighted, At
<1>9. CASE NativeDone(h)
  <2>1. CASE Ask(h, "verifying", "complete")
    <3>1. Moved(h, "complete", "verifying", "unsent")
      BY <2>1, AskMoves DEF TypeOK, WorkerPhase, WorkerPc
    <3> QED BY <1>9, <3>1, MovedStep DEF At, NativeDone, Rest, UnsafePhases
  <2>2. CASE Ask(h, "failed_unsafe", "completeRaise")
    <3>1. Moved(h, "completeRaise", "failed_unsafe", "unsent")
      BY <2>2, AskMoves DEF TypeOK, WorkerPhase, WorkerPc
    <3> QED BY <1>9, <3>1, MovedStep DEF At, NativeDone, Rest, HasGrant
  <2> QED BY <1>9, <2>1, <2>2 DEF NativeDone
<1>10. CASE Completed(h)
  <2>1. CASE At(h, "complete", {"ok"}) /\ Continue(h, phase)
    <3>1. Moved(h, "work", phase, "none") BY <1>0, <2>1, ContinueMoves DEF TypeOK
    <3> QED BY <1>10, <2>1, <3>1, MovedStep DEF At, Completed, Rest
  <2>2. CASE At(h, "completeRaise", {"ok"}) /\ Raise(h, phase)
    BY <1>0, <1>10, <2>2, RaiseStep DEF At, Completed, Rest
  <2> QED BY <1>10, <2>1, <2>2 DEF Completed
<1>11. CASE Verified(h)
  <2>1. PICK pc \in {"release1", "release2"} : Ask(h, "verified", pc)
    BY <1>11 DEF Verified
  <2>2. Moved(h, pc, "verified", "unsent")
    BY <2>1, AskMoves DEF TypeOK, WorkerPhase, WorkerPc
  <2>3. worker[h].pc \in {"verify1", "verify2"} /\ worker[h].reply = "ok"
    BY <1>11 DEF Verified, At
  <2> QED BY <1>11, <2>2, <2>3, MovedStep DEF Verified, Rest, UnsafePhases
<1>12. CASE ReleaseAcked(h)
  <2>1. PICK ph \in {"idle", "deferred"} : Stop(h, ph)
    BY <1>12 DEF ReleaseAcked
  <2>2. Moved(h, "off", ph, "none")
    BY <2>1, StopMoves DEF TypeOK, WorkerPhase
  <2>3. worker[h].pc \in {"release1", "release2", "abort"} /\ worker[h].reply = "ok"
    BY <1>12 DEF ReleaseAcked, At
  <2> QED BY <1>12, <2>2, <2>3, MovedStep DEF ReleaseAcked, Rest, UnsafePhases
<1>13. CASE Again(h)
  <2>1. worker[h].pc \in {"step", "complete", "completeRaise", "verify1",
                          "verify2", "release1", "release2", "abort"}
    BY <1>13 DEF Again, Retried
  <2>2. worker[h].reply \in {"retry", "busy"}
    BY <1>13, <2>1 DEF Again, Retried
  <2>3. worker[h].pc \in DOMAIN Path BY <2>1 DEF Path
  <2> QED BY <1>13, <2>1, <2>2, <2>3 DEF Again, Rest, WorkerStep, InOrder, HasGrant,
                                   TypeOK, Process, Reply
<1>14. CASE GiveUp(h)
  <2>0. worker[h].reply \in {"retry", "busy", "denied"}
    BY <1>14 DEF GiveUp, At, Failures
  <2>1. CASE worker[h].pc \in {"step", "complete", "completeRaise"} /\ Raise(h, phase)
    BY <1>0, <1>14, <2>0, <2>1, RaiseStep DEF GiveUp, Rest
  <2>2. CASE worker[h].pc \in {"verify1", "release1"} /\ ReleaseFailed(h)
    <3>1. PICK pc \in {"verify2", "abort"} : Ask(h, phase, pc)
      BY <2>2 DEF ReleaseFailed
    <3>2. Moved(h, pc, phase, "unsent")
      BY <1>0, <3>1, AskMoves DEF TypeOK, WorkerPc
    <3> QED BY <1>14, <2>0, <2>2, <3>2, MovedStep DEF GiveUp, Rest
  <2>3. CASE /\ worker[h].pc \in {"verify2", "release2", "abort"}
             /\ Stop(h, "recovery_required")
    <3>1. Moved(h, "off", "recovery_required", "none")
      BY <2>3, StopMoves DEF TypeOK, WorkerPhase
    <3> QED BY <1>14, <2>0, <2>3, <3>1, MovedStep DEF GiveUp, Rest, UnsafePhases
  <2> QED BY <1>14, <2>1, <2>2, <2>3 DEF GiveUp, At
<1> QED BY <1>1, <1>2, <1>3, <1>4, <1>5, <1>6, <1>7, <1>9, <1>10, <1>11,
           <1>12, <1>13, <1>14 DEF Working

\* An install that passes the end of the window only changes its record.
LEMMA OverrunStep ==
  ASSUME TypeOK, NEW h \in Hosts, Overrun(h)
  PROVE  /\ worker' \in [Hosts -> Process]
         /\ \A g \in Hosts : worker'[g] = IF g = h
                                        THEN [worker[h] EXCEPT !.phase = "overrun"]
                                        ELSE worker[g]
         /\ UNCHANGED <<coord, fence, call, peer, used, granted, faults>>
<1>1. "overrun" \in WorkerPhase BY DEF WorkerPhase
<1> QED BY <1>1 DEF Overrun, Rest, TypeOK, Process

----------------------------------------------------------------------------
(* What a handler step does to the calls and to the waiting worker *)

\* The handler of s is gone; its client, if any, has an answer.
Ended(s, code) ==
  /\ call' \in [Slots -> Call] /\ worker' \in [Hosts -> Process]
  /\ call'[s] = FreeCall
  /\ \A t \in Slots : t # s => call'[t] = call[t]
  /\ \A h \in Hosts :
       /\ worker'[h].pc = worker[h].pc
       /\ worker'[h].phase = worker[h].phase
       /\ worker'[h].lease = worker[h].lease
       /\ worker'[h].reply = IF call[s].live /\ h = call[s].actor
                             THEN code ELSE worker[h].reply

\* No process is given a step.
KeepsSteps == \A h \in Hosts : worker'[h].step = worker[h].step

\* The handler of s is at section pc with its request unchanged.
Advanced(s, pc, code) ==
  /\ call' \in [Slots -> Call]
  /\ \A t \in Slots : t # s => call'[t] = call[t]
  /\ call'[s] = [call[s] EXCEPT !.pc = pc, !.code = code]

\* A slot without a handler is well typed.
LEMMA FreeCallType == FreeCall \in Call
  BY DEF FreeCall, Call, CallPc, Hosts, Reply

\* Finish ends the handler and answers its client.
LEMMA FinishEnds ==
  ASSUME TypeOK, NEW s \in Slots, NEW code \in Reply, Finish(s, code)
  PROVE  Ended(s, code) /\ KeepsSteps
<1>1. call \in [Slots -> Call] /\ worker \in [Hosts -> Process] BY DEF TypeOK
<1>2. call[s].actor \in Hosts /\ call[s].live \in BOOLEAN BY <1>1 DEF Call
<1>3. call' \in [Slots -> Call] /\ call'[s] = FreeCall
      /\ \A t \in Slots : t # s => call'[t] = call[t]
  BY <1>1, FreeCallType DEF Finish
<1>4. CASE call[s].live
  <2>1. worker' = [worker EXCEPT ![call[s].actor].reply = code]
    BY <1>4 DEF Finish
  <2> QED BY <1>1, <1>2, <1>3, <1>4, <2>1 DEF Ended, KeepsSteps, Process
<1>5. CASE ~call[s].live
  <2>1. worker' = worker BY <1>5 DEF Finish
  <2> QED BY <1>1, <1>2, <1>3, <1>5, <2>1 DEF Ended, KeepsSteps, Process
<1> QED BY <1>2, <1>4, <1>5

\* Goto moves the handler on and changes nothing else of it.
LEMMA GotoAdvances ==
  ASSUME TypeOK, NEW s \in Slots, NEW pc \in CallPc, Goto(s, pc)
  PROVE  Advanced(s, pc, call[s].code)
  BY DEF TypeOK, Goto, Advanced, Call
\* Type correctness from what the step did to each variable.
Elsewhere == /\ coord' \in Journal
             /\ fence' \in [Hosts -> Fence]
             /\ peer' \in [PeerSlots -> Peer]
             /\ UNCHANGED <<used, faults>>
             /\ granted' \in Nat

\* A handler that ends keeps the types, if the other variables do.
LEMMA EndType ==
  ASSUME TypeOK, NEW s \in Slots, NEW code \in {"ok", "retry", "busy", "denied"},
         Finish(s, code), Elsewhere
  PROVE  TypeOK'
<1>1. code \in Reply BY DEF Reply
<1> QED BY <1>1, FinishEnds DEF Ended, TypeOK, Elsewhere

\* So does one that goes on.
LEMMA AdvanceType ==
  ASSUME TypeOK, NEW s \in Slots, NEW pc \in CallPc, Goto(s, pc),
         worker' = worker, Elsewhere
  PROVE  TypeOK'
  BY GotoAdvances DEF Advanced, TypeOK, Elsewhere

\* What a coordinator section may write to the journal.
LEMMA PhaseType ==
  ASSUME coord \in Journal, NEW ph \in LeasePhase,
         coord' = [coord EXCEPT !.phase = ph]
  PROVE  coord' \in Journal
  BY DEF Journal

\* Every operation on a barrier leaves a well-typed barrier.
LEMMA FenceType ==
  ASSUME fence \in [Hosts -> Fence], NEW h \in Hosts, NEW l \in Leases \cup {NoLease},
         \/ \E up \in BOOLEAN : CloseFence(h, l, up)
         \/ HoldFence(h) \/ OpenFence(h) \/ OpenFencePartly(h)
  PROVE  fence' \in [Hosts -> Fence]
<1> USE DEF Fence
<1>1. ASSUME NEW up \in BOOLEAN, CloseFence(h, l, up)
      PROVE  fence' \in [Hosts -> Fence]
  BY <1>1 DEF CloseFence
<1>2. CASE OpenFencePartly(h) BY <1>2 DEF OpenFencePartly
<1>3. CASE HoldFence(h) BY <1>3 DEF HoldFence
<1>4. CASE OpenFence(h) BY <1>4 DEF OpenFence, Open
<1> QED BY <1>1, <1>2, <1>3, <1>4

\* A request to Selectel fills a free slot there and a waiting handler here.
LEMMA PeerSendType ==
  ASSUME TypeOK, NEW s \in Slots, NEW op \in {"close", "hold", "open"},
         call[s].pc \in DOMAIN WaitAfter, PeerSend(s, op)
  PROVE  call' \in [Slots -> Call] /\ peer' \in [PeerSlots -> Peer]
<1>1. WaitAfter[call[s].pc] \in CallPc BY DEF WaitAfter, CallPc
<1>2. "waiting" \in Reply BY DEF Reply
<1>3. call' \in [Slots -> Call]
  <2>1. call' = [call EXCEPT ![s].pc = WaitAfter[call[s].pc], ![s].code = "waiting"]
    BY DEF PeerSend
  <2> QED BY <1>1, <1>2, <2>1 DEF TypeOK, Call
<1>4. peer' \in [PeerSlots -> Peer] BY DEF PeerSend, TypeOK, Peer, Call
<1> QED BY <1>3, <1>4

\* A commit that is abandoned remembers an answer.
LEMMA AbandonType ==
  ASSUME TypeOK, NEW s \in Slots, NEW code \in Reply, StepAbandon(s, code),
         granted' \in Nat, UNCHANGED used, faults' \in Nat
  PROVE  TypeOK'
<1>1. "stepRollback" \in CallPc BY DEF CallPc
<1>2. call' \in [Slots -> Call] BY <1>1 DEF StepAbandon, TypeOK, Call
<1> QED BY <1>2 DEF StepAbandon, TypeOK

\* Every section of a handler leaves the variables well-typed.
LEMMA HandlingType ==
  ASSUME TypeOK, NEW s \in Slots, Handling(s)
  PROVE  TypeOK'
<1>0. /\ coord \in Journal /\ fence \in [Hosts -> Fence]
      /\ peer \in [PeerSlots -> Peer] /\ granted \in Nat
      /\ call[s] \in Call /\ call[s].lease \in Leases \cup {NoLease}
      /\ call[s].actor \in Hosts /\ call[s].step \in Nat /\ call[s].ok \in BOOLEAN
      /\ call[s].code \in Reply
  BY DEF TypeOK, Call
<1>d. CASE Deny(s) /\ Static
  BY <1>0, <1>d, EndType DEF Deny, Static, Elsewhere
<1> USE <1>0, <1>d DEF AtCall, Elsewhere, Static
<1>1. CASE Claim(s)
  <2>1. CASE Finish(s, "ok") /\ coord' = [coord EXCEPT !.owner = call[s].actor,
                        !.lease = call[s].lease, !.phase = "reserved",
                        !.destructive = FALSE, !.releaseVerified = FALSE]
    <3>1. coord' \in Journal BY <2>1 DEF Journal, LeasePhase
    <3> QED BY <1>1, <2>1, <3>1, EndType DEF Claim
  <2> QED BY <1>1, <2>1 DEF Claim
<1>2. CASE ArmBegin(s)
  <2>1. CASE coord' = [coord EXCEPT !.phase = "fencing"] /\ Goto(s, "armClose")
    BY <1>2, <2>1, PhaseType, AdvanceType DEF ArmBegin, LeasePhase, CallPc
  <2> QED BY <1>2, <2>1 DEF ArmBegin
<1>3. CASE ArmClose(s)
  <2>1. CASE CloseFence("ax41", call[s].lease, TRUE) /\ Goto(s, "armPeer")
             /\ UNCHANGED <<coord, worker, peer>>
    BY <1>3, <2>1, FenceType, AdvanceType DEF ArmClose, CallPc, Hosts
  <2>2. CASE /\ \E up \in BOOLEAN : CloseFence("ax41", call[s].lease, up)
             /\ Finish(s, "denied") /\ UNCHANGED <<coord, peer>>
    BY <1>3, <2>2, FenceType, EndType DEF ArmClose, Hosts
  <2> QED BY <1>3, <2>1, <2>2 DEF ArmClose
<1>4. CASE ArmPeer(s)
  BY <1>4, PeerSendType DEF ArmPeer, WaitAfter, TypeOK
<1>5. CASE ArmEnd(s)
  <2>1. CASE PeerRefused(s, "armWait")
    BY <1>5, <2>1, EndType DEF ArmEnd, PeerRefused, PeerAnswered
  <2>2. CASE coord' = [coord EXCEPT !.phase = "fenced"] /\ Finish(s, "ok") /\ UNCHANGED <<fence, peer>>
    BY <1>5, <2>2, PhaseType, EndType DEF ArmEnd, LeasePhase
  <2> QED BY <1>5, <2>1, <2>2 DEF ArmEnd
<1>6. CASE StepObserve(s)
  <2>1. CASE Finish(s, "retry") /\ UNCHANGED <<coord, fence, peer>>
    BY <1>6, <2>1, EndType DEF StepObserve
  <2>2. CASE Goto(s, "stepCommit") /\ UNCHANGED worker /\ UNCHANGED <<coord, fence, peer>>
    BY <1>6, <2>2, AdvanceType DEF StepObserve, CallPc
  <2> QED BY <1>6, <2>1, <2>2 DEF StepObserve
<1>7. CASE StepCommit(s)
  <2>1. CASE coord' = [coord EXCEPT !.phase = "committing"] /\ Goto(s, "stepHold")
             /\ UNCHANGED <<fence, worker, peer>>
    BY <1>7, <2>1, PhaseType, AdvanceType DEF StepCommit, LeasePhase, CallPc
  <2> QED BY <1>7, <2>1 DEF StepCommit
<1>8. CASE StepHold(s)
  <2>1. CASE StepAbandon(s, "denied")
    BY <1>8, <2>1, AbandonType DEF StepHold, TypeOK, Reply
  <2>2. CASE HoldFence("ax41") /\ Goto(s, "stepPeer") /\ UNCHANGED <<coord, worker, peer>>
    BY <1>8, <2>2, FenceType, AdvanceType DEF StepHold, Hosts, CallPc
  <2> QED BY <1>8, <2>1, <2>2 DEF StepHold
<1>9. CASE StepPeer(s)
  BY <1>9, PeerSendType DEF StepPeer, WaitAfter, TypeOK
<1>10. CASE StepValidate(s)
  <2>1. CASE \E code \in {"busy", "denied", "retry"} : StepAbandon(s, code)
    BY <1>10, <2>1, AbandonType DEF StepValidate, TypeOK, Reply
  <2>2. CASE Goto(s, "stepGrant") /\ UNCHANGED <<coord, fence, worker, peer>>
    BY <1>10, <2>2, AdvanceType DEF StepValidate, CallPc
  <2> QED BY <1>10, <2>1, <2>2 DEF StepValidate, PeerAnswered
<1>11. CASE StepRollback(s)
  <2>1. CASE coord' \in Journal /\ Finish(s, call[s].code) /\ UNCHANGED <<fence, peer>>
    BY <1>11, <2>1, FinishEnds DEF StepRollback, Ended, TypeOK
  <2>2. coord' \in Journal \/ Deny(s)
    BY <1>11, PhaseType DEF StepRollback, LeasePhase
  <2> QED BY <1>11, <2>1, <2>2 DEF StepRollback
<1>12. CASE StepGrant(s)
  <2>1. CASE /\ granted' = granted + 1
             /\ coord' = [coord EXCEPT !.phase = "step_running",
                             !.step = granted', !.destructive = TRUE]
             /\ call' = [call EXCEPT ![s] = FreeCall]
             /\ worker' = IF call[s].live
                     THEN [worker EXCEPT ![call[s].actor].reply = "ok",
                                         ![call[s].actor].step = granted']
                     ELSE worker
             /\ UNCHANGED <<fence, peer>>
    <3>1. granted' \in Nat BY <2>1
    <3>2. coord' \in Journal BY <2>1, <3>1 DEF Journal, LeasePhase
    <3>3. call' \in [Slots -> Call] BY <2>1, FreeCallType DEF TypeOK
    <3>4. worker' \in [Hosts -> Process]
      <4>1. worker \in [Hosts -> Process] /\ "ok" \in Reply BY DEF TypeOK, Reply
      <4>2. CASE call[s].live BY <2>1, <3>1, <4>1, <4>2 DEF Process
      <4>3. CASE ~call[s].live BY <2>1, <4>1, <4>3
      <4> QED BY <4>2, <4>3
    <3>5. UNCHANGED <<used, faults>> BY <1>12 DEF StepGrant
    <3> QED BY <2>1, <3>1, <3>2, <3>3, <3>4, <3>5 DEF TypeOK
  <2> QED BY <1>12, <2>1 DEF StepGrant
<1>13. CASE Preflight(s)
  <2>1. CASE Finish(s, "ok") /\ UNCHANGED <<coord, fence, peer>>
    BY <1>13, <2>1, EndType DEF Preflight
  <2> QED BY <1>13, <2>1 DEF Preflight
<1>14. CASE Complete(s)
  <2>1. CASE Finish(s, "ok") /\ UNCHANGED <<coord, fence, peer>>
    BY <1>14, <2>1, EndType DEF Complete
  <2>2. CASE Finish(s, "ok") /\ UNCHANGED <<fence, peer>>
             /\ coord' = [coord EXCEPT !.doneStep = call[s].step,
                        !.doneOk = call[s].ok,
                        !.phase = IF call[s].ok THEN "verifying"
                                                ELSE "failed_unsafe"]
    <3>1. coord' \in Journal BY <2>2 DEF Journal, LeasePhase
    <3> QED BY <1>14, <2>2, <3>1, EndType DEF Complete
  <2> QED BY <1>14, <2>1, <2>2 DEF Complete
<1>15. CASE Verify(s)
  <2>1. CASE Finish(s, "retry") /\ UNCHANGED <<coord, fence, peer>>
    BY <1>15, <2>1, EndType DEF Verify
  <2>2. CASE Finish(s, "ok") /\ UNCHANGED <<fence, peer>> /\ coord' \in Journal
    BY <1>15, <2>2, EndType DEF Verify
  <2>3. coord' \in Journal
    BY <1>15, PhaseType DEF Verify, LeasePhase, Deny
  <2> QED BY <1>15, <2>1, <2>2, <2>3 DEF Verify
<1>16. CASE ReleaseBegin(s)
  <2>1. CASE Finish(s, "ok") /\ UNCHANGED <<coord, fence, peer>>
    BY <1>16, <2>1, EndType DEF ReleaseBegin
  <2>2. CASE coord' = [coord EXCEPT !.phase = "releasing",
                                   !.releaseVerified = RuntimeVerified]
             /\ Goto(s, "releaseRead") /\ UNCHANGED <<fence, worker, peer>>
    <3>1. coord' \in Journal BY <2>2 DEF Journal, LeasePhase, RuntimeVerified
    <3> QED BY <1>16, <2>2, <3>1, AdvanceType DEF ReleaseBegin, CallPc
  <2> QED BY <1>16, <2>1, <2>2 DEF ReleaseBegin
<1>17. CASE ReleaseRead(s)
  BY <1>17, AdvanceType DEF ReleaseRead, CallPc
<1>18. ASSUME NEW here, NEW next \in CallPc, ReleaseLocal(s, here, next)
       PROVE  TypeOK'
  <2>1. CASE OpenFence("ax41") /\ Goto(s, next) /\ UNCHANGED <<coord, worker, peer>>
    BY <1>18, <2>1, FenceType, AdvanceType DEF ReleaseLocal, Hosts
  <2>2. CASE OpenFencePartly("ax41") /\ Finish(s, "denied") /\ UNCHANGED <<coord, peer>>
    BY <1>18, <2>2, FenceType, EndType DEF ReleaseLocal, Hosts
  <2> QED BY <1>18, <2>1, <2>2 DEF ReleaseLocal
<1>19. CASE ReleaseOpen(s) \/ ReleaseFinal(s)
  BY <1>18, <1>19 DEF ReleaseOpen, ReleaseFinal, CallPc
<1>20. CASE ReleasePeer(s)
  BY <1>20, PeerSendType DEF ReleasePeer, WaitAfter, TypeOK
<1>21. CASE ReleaseCheck(s)
  <2>1. CASE PeerRefused(s, "releaseWait")
    BY <1>21, <2>1, EndType DEF ReleaseCheck, PeerRefused, PeerAnswered
  <2>2. CASE Goto(s, "releaseFinal") /\ UNCHANGED <<coord, fence, worker, peer>>
    BY <1>21, <2>2, AdvanceType DEF ReleaseCheck, CallPc
  <2> QED BY <1>21, <2>1, <2>2 DEF ReleaseCheck
<1>22. CASE ReleaseEnd(s)
  <2>1. CASE coord' = [coord EXCEPT !.phase = "idle", !.released = call[s].lease]
             /\ Finish(s, "ok") /\ UNCHANGED <<fence, peer>>
    <3>1. coord' \in Journal BY <2>1 DEF Journal, LeasePhase
    <3> QED BY <1>22, <2>1, <3>1, EndType DEF ReleaseEnd
  <2> QED BY <1>22, <2>1 DEF ReleaseEnd
<1> QED BY <1>1, <1>2, <1>3, <1>4, <1>5, <1>6, <1>7, <1>8, <1>9, <1>10, <1>11,
           <1>12, <1>13, <1>14, <1>15, <1>16, <1>17, <1>19, <1>20, <1>21, <1>22
        DEF Handling

----------------------------------------------------------------------------
(* The steps of the peer, of the transport and of the hosts *)

\* A handler of Selectel that ends keeps the types.
LEMMA PeerEndType ==
  ASSUME TypeOK, NEW p \in PeerSlots, NEW code \in {"ok", "busy", "denied"},
         PeerEnd(p, code)
  PROVE  call' \in [Slots -> Call] /\ peer' \in [PeerSlots -> Peer]
<1>1. FreePeer \in Peer BY DEF FreePeer, Peer
<1>2. peer' \in [PeerSlots -> Peer] BY <1>1 DEF PeerEnd, TypeOK
<1>3. code \in Reply BY DEF Reply
<1>4. peer[p].caller \in Slots \cup {NoSlot} BY DEF TypeOK, Peer
<1>5. call' \in [Slots -> Call] BY <1>3, <1>4 DEF PeerEnd, TypeOK, Call
<1> QED BY <1>2, <1>5

\* Every section of a handler of Selectel keeps the types.
LEMMA AnsweringType ==
  ASSUME TypeOK, NEW p \in PeerSlots, Answering(p) \/ PeerFenceBusy(p)
  PROVE  TypeOK'
<1>0. fence \in [Hosts -> Fence] /\ peer[p].lease \in Leases \cup {NoLease}
      /\ "selectel" \in Hosts
  BY DEF TypeOK, Peer, Hosts
<1>1. CASE PeerAssert(p)
  <2>1. CASE PeerDeny(p)
    BY <1>1, <2>1, PeerEndType DEF PeerAssert, PeerDeny, TypeOK
  <2>2. CASE peer' = [peer EXCEPT ![p].pc = "act"] /\ UNCHANGED <<call, fence>>
    <3>1. peer' \in [PeerSlots -> Peer] BY <2>2 DEF TypeOK, Peer
    <3> QED BY <1>1, <2>2, <3>1 DEF PeerAssert, TypeOK
  <2> QED BY <1>1, <2>1, <2>2 DEF PeerAssert
<1>2. CASE PeerAct(p)
  <2>1. \E code \in {"ok", "denied"} : PeerEnd(p, code)
    BY <1>2 DEF PeerAct, PeerDeny
  <2>2. \/ UNCHANGED fence
        \/ \E up \in BOOLEAN : CloseFence("selectel", peer[p].lease, up)
        \/ HoldFence("selectel")
        \/ OpenFence("selectel")
        \/ OpenFencePartly("selectel")
    BY <1>2 DEF PeerAct, PeerDeny
  <2>3. fence' \in [Hosts -> Fence] BY <1>0, <2>2, FenceType
  <2>4. call' \in [Slots -> Call] /\ peer' \in [PeerSlots -> Peer]
    BY <2>1, PeerEndType
  <2> QED BY <1>2, <2>3, <2>4 DEF PeerAct, TypeOK
<1>3. CASE PeerFenceBusy(p)
  <2>1. call' \in [Slots -> Call] /\ peer' \in [PeerSlots -> Peer]
    BY <1>3, PeerEndType DEF PeerFenceBusy
  <2> QED BY <1>3, <2>1 DEF PeerFenceBusy, TypeOK, Fault
<1> QED BY <1>1, <1>2, <1>3 DEF Answering

\* A lock found taken and a peer that does not answer keep the types.
LEMMA ContendingType ==
  ASSUME TypeOK, NEW s \in Slots, Contending(s) \/ Timeout(s)
  PROVE  TypeOK'
<1>0. "busy" \in Reply BY DEF Reply
<1>1. CASE LockBusy(s)
  <2>1. call' \in [Slots -> Call] /\ worker' \in [Hosts -> Process]
    BY <1>0, <1>1, FinishEnds DEF LockBusy, Ended
  <2> QED BY <1>1, <2>1 DEF LockBusy, Fault, TypeOK
<1>2. CASE HoldBusy(s)
  BY <1>0, <1>2, AbandonType DEF HoldBusy, Fault, TypeOK
<1>3. CASE PeerTimeout(s)
  <2>1. call' \in [Slots -> Call]
    <3>1. CASE /\ call[s].pc \in DOMAIN WaitAfter
               /\ call' = [call EXCEPT ![s].pc = WaitAfter[@], ![s].code = "busy"]
      <4>1. WaitAfter[call[s].pc] \in CallPc BY <3>1 DEF WaitAfter, CallPc
      <4>2. call' = [call EXCEPT ![s].pc = WaitAfter[call[s].pc], ![s].code = "busy"]
        BY <3>1
      <4> QED BY <1>0, <4>1, <4>2 DEF TypeOK, Call
    <3>2. CASE call' = [call EXCEPT ![s].code = "busy"]
      BY <1>0, <3>2 DEF TypeOK, Call
    <3> QED BY <1>3, <3>1, <3>2 DEF PeerTimeout
  <2>2. peer' \in [PeerSlots -> Peer] BY <1>3 DEF PeerTimeout, TypeOK, Peer
  <2>3. faults' \in Nat BY <1>3 DEF PeerTimeout, Fault, TypeOK
  <2> QED BY <1>3, <2>1, <2>2, <2>3 DEF PeerTimeout, TypeOK
<1>4. CASE Timeout(s)
  <2>1. call' \in [Slots -> Call] BY <1>4 DEF Timeout, TypeOK, Call
  <2>2. worker' \in [Hosts -> Process]
    BY <1>0, <1>4 DEF Timeout, TypeOK, Call, Process
  <2> QED BY <1>4, <2>1, <2>2 DEF Timeout, Fault, TypeOK
<1> QED BY <1>1, <1>2, <1>3, <1>4 DEF Contending

\* A request that is given a handler keeps the types.
LEMMA AcceptType ==
  ASSUME TypeOK, NEW h \in Hosts, NEW s \in Slots, Accept(h, s),
         worker[h].pc \in DOMAIN Path
  PROVE  TypeOK'
<1>1. worker[h] \in Process BY DEF TypeOK
<1>2. Path[worker[h].pc] \in CallPc BY DEF Path, CallPc
<1>3. "none" \in Reply /\ "waiting" \in Reply BY DEF Reply
<1>4. [pc |-> Path[worker[h].pc], actor |-> h,
       lease |-> worker[h].lease, step |-> worker[h].step,
       ok |-> worker[h].phase # "failed_unsafe",
       live |-> TRUE, code |-> "none"] \in Call
  BY <1>1, <1>2, <1>3 DEF Process, Call
<1>5. call' \in [Slots -> Call] BY <1>4 DEF Accept, TypeOK
<1>6. worker' \in [Hosts -> Process] BY <1>3 DEF Accept, TypeOK, Process
<1> QED BY <1>5, <1>6 DEF Accept, TypeOK

\* So does the end of an agent's handlers, with or without the host.
LEMMA KillType ==
  ASSUME TypeOK, NEW h \in Hosts, NEW down \in SUBSET Hosts, KillHandlers(h, down)
  PROVE  /\ call' \in [Slots -> Call] /\ peer' \in [PeerSlots -> Peer]
         /\ worker' \in [Hosts -> Process]
<1>0. /\ worker \in [Hosts -> Process] /\ call \in [Slots -> Call]
      /\ peer \in [PeerSlots -> Peer]
      /\ "busy" \in Reply /\ "none" \in Reply /\ "off" \in WorkerPc
  BY DEF TypeOK, Reply, WorkerPc
<1>1. CASE KillCoordinatorHandlers(down)
  <2>1. call' \in [Slots -> Call]
    BY <1>1, FreeCallType DEF KillCoordinatorHandlers
  <2>2. peer' \in [PeerSlots -> Peer]
    BY <1>0, <1>1 DEF KillCoordinatorHandlers, Peer
  <2>3. worker' \in [Hosts -> Process]
    BY <1>0, <1>1 DEF KillCoordinatorHandlers, Process
  <2> QED BY <2>1, <2>2, <2>3
<1>2. CASE KillPeerHandlers(down)
  <2>1. peer' \in [PeerSlots -> Peer]
    BY <1>2 DEF KillPeerHandlers, FreePeer, Peer
  <2>2. worker' \in [Hosts -> Process]
    <3>1. ASSUME NEW g \in Hosts PROVE worker'[g] \in Process
      BY <1>0, <1>2, <3>1 DEF KillPeerHandlers, Process
    <3> QED BY <1>2, <3>1 DEF KillPeerHandlers
  <2>3. call' \in [Slots -> Call]
    <3>1. ASSUME NEW s \in Slots PROVE call'[s] \in Call
      <4>1. PICK live \in BOOLEAN, code \in {"busy", call[s].code} :
              call'[s] = [call[s] EXCEPT !.live = live, !.code = code]
        BY <1>2 DEF KillPeerHandlers
      <4> QED BY <1>0, <4>1 DEF Call
    <3> QED BY <1>2, <3>1 DEF KillPeerHandlers
  <2> QED BY <2>1, <2>2, <2>3
<1> QED BY <1>1, <1>2 DEF KillHandlers

\* What happens to a host keeps the types.
LEMMA HostsType ==
  ASSUME TypeOK, NEW h \in Hosts,
         \/ \E l \in Leases : Start(h, l)
         \/ Refuse(h) \/ Expire(h) \/ Crash(h) \/ AgentRestart(h) \/ Reboot(h)
  PROVE  TypeOK'
<1>0. /\ fence \in [Hosts -> Fence] /\ worker \in [Hosts -> Process]
      /\ call \in [Slots -> Call] /\ peer \in [PeerSlots -> Peer] /\ faults \in Nat
      /\ "unsent" \in Reply /\ "busy" \in Reply /\ "none" \in Reply
      /\ "claim" \in WorkerPc /\ "off" \in WorkerPc
  BY DEF TypeOK, Reply, WorkerPc
<1>1. ASSUME NEW l \in Leases, Start(h, l) PROVE TypeOK'
  <2>1. worker[h] \in Process BY <1>0
  <2>2. [worker[h] EXCEPT !.pc = "claim", !.reply = "unsent", !.lease = l,
                          !.destructive = FALSE] \in Process
    BY <1>0, <2>1 DEF Process
  <2>3. worker' = [worker EXCEPT ![h] =
                     [worker[h] EXCEPT !.pc = "claim", !.reply = "unsent",
                                       !.lease = l, !.destructive = FALSE]]
    BY <1>0, <1>1 DEF Start
  <2>4. worker' \in [Hosts -> Process] BY <1>0, <2>2, <2>3
  <2> QED BY <1>1, <2>4 DEF Start, Rest, TypeOK
<1>2. CASE Refuse(h)
  <2>1. worker' \in [Hosts -> Process] BY <1>0, <1>2 DEF Refuse, Process
  <2>2. faults' \in Nat BY <1>0, <1>2 DEF Refuse, Fault
  <2> QED BY <1>2, <2>1, <2>2 DEF Refuse, TypeOK
<1>3. CASE Expire(h)
  <2>1. fence' \in [Hosts -> Fence] BY <1>0, <1>3, FenceType DEF Expire
  <2> QED BY <1>3, <2>1 DEF Expire, TypeOK
<1>4. CASE AgentRestart(h)
  BY <1>4, KillType DEF AgentRestart, Fault, TypeOK
<1>5. CASE Reboot(h)
  <2>1. PICK up \in BOOLEAN : fence' = [fence EXCEPT ![h].up = up]
    BY <1>5 DEF Reboot
  <2>2. fence' \in [Hosts -> Fence] BY <1>0, <2>1 DEF Fence
  <2> QED BY <1>5, <2>2, KillType DEF Reboot, Fault, TypeOK
<1>6. CASE Crash(h)
  <2>1. worker' \in [Hosts -> Process] BY <1>0, <1>6 DEF Crash, Stop, Process
  <2>2. call' \in [Slots -> Call]
    <3>1. ASSUME NEW s \in Slots PROVE call'[s] \in Call
      <4>1. PICK live \in BOOLEAN : call'[s] = [call[s] EXCEPT !.live = live]
        BY <1>6 DEF Crash
      <4> QED BY <1>0, <4>1 DEF Call
    <3> QED BY <1>6, <3>1 DEF Crash
  <2> QED BY <1>6, <2>1, <2>2 DEF Crash, Fault, TypeOK
<1> QED BY <1>1, <1>2, <1>3, <1>4, <1>5, <1>6

----------------------------------------------------------------------------
(* TypeOK, strengthened to an inductive invariant: Accept looks the request *)
(* up in Path, and StepRollback answers with the code it finds.             *)

\* What a handler may answer.
Answers == {"ok", "retry", "busy", "denied"}

\* A handler that rolls back remembers an answer, not a pending request.
Remembering ==
  \A s \in Slots : call[s].pc = "stepRollback" => call[s].code \in Answers

\* The types, with what keeps them inductive.
Typed == TypeOK /\ Asking /\ Remembering

\* The request that a handler serves.
SameRequest(s) ==
  /\ call'[s].actor = call[s].actor /\ call'[s].lease = call[s].lease
  /\ call'[s].step = call[s].step /\ call'[s].ok = call[s].ok
  /\ call'[s].live = call[s].live

\* A handler step answers its client, or goes on without touching a worker.
HandlerStep(s) ==
  \/ \E code \in Answers : Ended(s, code)
  \/ /\ worker' = worker
     /\ \A t \in Slots : t # s => call'[t] = call[t]
     /\ SameRequest(s)
     /\ call'[s].pc = "stepRollback" => call'[s].code \in Answers

\* Finish answers the client.
LEMMA AnsweringStep ==
  ASSUME Typed, NEW s \in Slots, NEW code \in Answers, Finish(s, code)
  PROVE  HandlerStep(s)
  BY FinishEnds DEF Answers, Reply, Typed, HandlerStep

\* A handler that changes its section and code goes on with its request.
LEMMA GoingOn ==
  ASSUME Typed, NEW s \in Slots, NEW pc, NEW code, worker' = worker,
         call' = [call EXCEPT ![s].pc = pc, ![s].code = code],
         pc = "stepRollback" => code \in Answers
  PROVE  HandlerStep(s)
<1>1. call \in [Slots -> Call] BY DEF Typed, TypeOK
<1>2. call'[s] = [call[s] EXCEPT !.pc = pc, !.code = code] BY <1>1
<1>3. \A t \in Slots : t # s => call'[t] = call[t] BY <1>1
<1>4. call[s] \in Call BY <1>1
<1>5. SameRequest(s)
  <2>1. call'[s].actor = call[s].actor /\ call'[s].lease = call[s].lease
    BY <1>2, <1>4 DEF Call
  <2>2. call'[s].step = call[s].step BY <1>2, <1>4 DEF Call
  <2>3. call'[s].ok = call[s].ok BY <1>2, <1>4 DEF Call
  <2>4. call'[s].live = call[s].live BY <1>2, <1>4 DEF Call
  <2> QED BY <2>1, <2>2, <2>3, <2>4 DEF SameRequest
<1>6. call'[s].pc = pc BY <1>2, <1>4 DEF Call
<1>7. call'[s].code = code BY <1>2, <1>4 DEF Call
<1>8. call'[s].pc = "stepRollback" => call'[s].code \in Answers BY <1>6, <1>7
<1> QED BY <1>3, <1>5, <1>8 DEF HandlerStep

\* So does one that only changes its section.
LEMMA GoingTo ==
  ASSUME Typed, NEW s \in Slots, NEW pc, worker' = worker, Goto(s, pc),
         pc # "stepRollback"
  PROVE  HandlerStep(s)
<1>1. call \in [Slots -> Call] BY DEF Typed, TypeOK
<1>2. call'[s] = [call[s] EXCEPT !.pc = pc] BY <1>1 DEF Goto
<1>3. \A t \in Slots : t # s => call'[t] = call[t] BY <1>1 DEF Goto
<1>4. call[s] \in Call BY <1>1
<1>5. SameRequest(s) /\ call'[s].pc = pc
  BY <1>2, <1>4 DEF SameRequest, Call
<1> QED BY <1>3, <1>5 DEF HandlerStep

\* Every section of a handler, except the grant, is a handler step.
LEMMA HandlingStep ==
  ASSUME Typed, NEW s \in Slots, Handling(s) \/ Contending(s), ~StepGrant(s)
  PROVE  HandlerStep(s)
<1>0. "ok" \in Answers /\ "retry" \in Answers /\ "busy" \in Answers
      /\ "denied" \in Answers
  BY DEF Answers
<1>d. CASE Deny(s) BY <1>0, <1>d, AnsweringStep DEF Deny
<1>a. ASSUME NEW code \in Answers, StepAbandon(s, code) PROVE HandlerStep(s)
  BY <1>a, GoingOn DEF StepAbandon
<1>p. ASSUME NEW op, PeerSend(s, op), worker' = worker,
             call[s].pc \in DOMAIN WaitAfter
      PROVE  HandlerStep(s)
  <2>1. call' = [call EXCEPT ![s].pc = WaitAfter[call[s].pc], ![s].code = "waiting"]
    BY <1>p DEF PeerSend
  <2>2. WaitAfter[call[s].pc] # "stepRollback" BY <1>p DEF WaitAfter
  <2> QED BY <1>p, <2>1, <2>2, GoingOn
<1>r. ASSUME NEW pc, PeerRefused(s, pc) PROVE HandlerStep(s)
  BY <1>0, <1>r, AnsweringStep DEF PeerRefused, PeerAnswered
<1> USE DEF AtCall
<1>1. CASE Claim(s) BY <1>0, <1>d, <1>1, AnsweringStep DEF Claim
<1>2. CASE ArmBegin(s) BY <1>d, <1>2, GoingTo DEF ArmBegin
<1>3. CASE ArmClose(s) BY <1>0, <1>d, <1>3, GoingTo, AnsweringStep DEF ArmClose
<1>4. CASE ArmPeer(s) BY <1>p, <1>4 DEF ArmPeer, WaitAfter
<1>5. CASE ArmEnd(s) BY <1>0, <1>d, <1>5, <1>r, AnsweringStep DEF ArmEnd
<1>6. CASE StepObserve(s)
  BY <1>0, <1>d, <1>6, AnsweringStep, GoingTo DEF StepObserve
<1>7. CASE StepCommit(s) BY <1>d, <1>7, GoingTo DEF StepCommit
<1>8. CASE StepHold(s) BY <1>0, <1>a, <1>8, GoingTo DEF StepHold
<1>9. CASE StepPeer(s) BY <1>p, <1>9 DEF StepPeer, WaitAfter
<1>10. CASE StepValidate(s)
  <2>1. CASE PeerAnswered(s, "stepWait", {"busy", "denied"}) /\ StepAbandon(s, call[s].code)
    BY <1>0, <1>a, <2>1 DEF PeerAnswered
  <2> QED BY <1>0, <1>a, <1>10, <2>1, GoingTo DEF StepValidate
<1>11. CASE StepRollback(s)
  <2>1. call[s].code \in Answers BY <1>11 DEF StepRollback, Typed, Remembering
  <2> QED BY <1>d, <1>11, <2>1, AnsweringStep DEF StepRollback
<1>12. CASE Preflight(s) BY <1>0, <1>d, <1>12, AnsweringStep DEF Preflight
<1>13. CASE Complete(s) BY <1>0, <1>d, <1>13, AnsweringStep DEF Complete
<1>14. CASE Verify(s) BY <1>0, <1>d, <1>14, AnsweringStep DEF Verify
<1>15. CASE ReleaseBegin(s)
  BY <1>0, <1>d, <1>15, AnsweringStep, GoingTo DEF ReleaseBegin
<1>16. CASE ReleaseRead(s)
  <2>1. PICK pc \in {"releasePeer", "releaseOpen"} : Goto(s, pc)
    BY <1>16 DEF ReleaseRead
  <2> QED BY <1>16, <2>1, GoingTo DEF ReleaseRead
<1>17. ASSUME NEW here, NEW next \in {"releasePeer", "releaseDone"},
              ReleaseLocal(s, here, next)
       PROVE  HandlerStep(s)
  BY <1>0, <1>d, <1>17, AnsweringStep, GoingTo DEF ReleaseLocal
<1>18. CASE ReleaseOpen(s) \/ ReleaseFinal(s)
  BY <1>17, <1>18 DEF ReleaseOpen, ReleaseFinal
<1>19. CASE ReleasePeer(s) BY <1>p, <1>19 DEF ReleasePeer, WaitAfter
<1>20. CASE ReleaseCheck(s) BY <1>d, <1>20, <1>r, GoingTo DEF ReleaseCheck
<1>21. CASE ReleaseEnd(s) BY <1>0, <1>d, <1>21, AnsweringStep DEF ReleaseEnd
<1>22. CASE LockBusy(s) BY <1>0, <1>22, AnsweringStep DEF LockBusy
<1>23. CASE HoldBusy(s) BY <1>0, <1>23, <1>a DEF HoldBusy
<1>24. CASE PeerTimeout(s)
  <2>1. CASE /\ call[s].pc \in DOMAIN WaitAfter
             /\ call' = [call EXCEPT ![s].pc = WaitAfter[@], ![s].code = "busy"]
    <3>1. call' = [call EXCEPT ![s].pc = WaitAfter[call[s].pc], ![s].code = "busy"]
      BY <2>1
    <3>2. WaitAfter[call[s].pc] # "stepRollback" BY <2>1 DEF WaitAfter
    <3> QED BY <1>24, <3>1, <3>2, GoingOn DEF PeerTimeout
  <2>2. CASE call' = [call EXCEPT ![s].code = "busy"]
    <3>1. call' = [call EXCEPT ![s].pc = call[s].pc, ![s].code = "busy"]
      BY <2>2 DEF Typed, TypeOK, Call
    <3> QED BY <1>0, <1>24, <3>1, GoingOn DEF PeerTimeout
  <2> QED BY <1>24, <2>1, <2>2 DEF PeerTimeout
<1> QED BY <1>1, <1>2, <1>3, <1>4, <1>5, <1>6, <1>7, <1>8, <1>9, <1>10, <1>11,
           <1>12, <1>13, <1>14, <1>15, <1>16, <1>18, <1>19, <1>20, <1>21,
           <1>22, <1>23, <1>24
        DEF Handling, Contending
\* Typed survives a step that answers or drops requests.
LEMMA HandlerTyped ==
  ASSUME Typed, NEW s \in Slots, HandlerStep(s) \/ StepGrant(s)
  PROVE  Asking' /\ Remembering'
<1>1. CASE \E code \in Answers : Ended(s, code)
  <2>1. Remembering' BY <1>1 DEF Typed, Remembering, Ended, FreeCall
  <2>2. Asking' BY <1>1 DEF Typed, Asking, Ended, Answers
  <2> QED BY <2>1, <2>2
<1>2. CASE ~(\E code \in Answers : Ended(s, code)) /\ HandlerStep(s)
  <2>1. Remembering' BY <1>2 DEF Typed, Remembering, HandlerStep
  <2>2. Asking' BY <1>2 DEF Typed, Asking, HandlerStep
  <2> QED BY <2>1, <2>2
<1>3. CASE StepGrant(s)
  <2>1. CASE Deny(s)
    BY <1>1, <1>2, <2>1, AnsweringStep DEF Deny, Answers
  <2>2. CASE /\ call' = [call EXCEPT ![s] = FreeCall]
             /\ worker' = IF call[s].live
                     THEN [worker EXCEPT ![call[s].actor].reply = "ok",
                                         ![call[s].actor].step = granted']
                     ELSE worker
    <3>1. Remembering' BY <2>2 DEF Typed, TypeOK, Remembering, FreeCall
    <3>2. \A g \in Hosts : /\ worker'[g].pc = worker[g].pc
                           /\ worker'[g].reply \in {worker[g].reply, "ok"}
      BY <2>2 DEF Typed, TypeOK, Process
    <3>3. Asking' BY <3>2 DEF Typed, Asking
    <3> QED BY <3>1, <3>3
  <2> QED BY <1>3, <2>1, <2>2 DEF StepGrant
<1> QED BY <1>1, <1>2, <1>3

\* No request appears when handlers die.
LEMMA KillTyped ==
  ASSUME Typed, NEW h \in Hosts, NEW down \in SUBSET Hosts, KillHandlers(h, down)
  PROVE  Asking' /\ Remembering'
<1> USE DEF Typed
<1>1. \A g \in Hosts : worker'[g].reply \in {"unsent", "waiting"} =>
        /\ worker[g].reply \in {"unsent", "waiting"}
        /\ worker'[g].pc = worker[g].pc
  <2>1. CASE KillCoordinatorHandlers(down)
    BY <2>1 DEF KillCoordinatorHandlers, TypeOK, Process
  <2>2. CASE KillPeerHandlers(down)
    BY <2>2 DEF KillPeerHandlers, TypeOK, Process
  <2> QED BY <2>1, <2>2 DEF KillHandlers
<1>2. Remembering'
  <2>1. CASE KillCoordinatorHandlers(down)
    BY <2>1 DEF KillCoordinatorHandlers, Remembering, FreeCall
  <2>2. CASE KillPeerHandlers(down)
    <3>1. \A s \in Slots : /\ call'[s].pc = call[s].pc
                           /\ call'[s].code \in {"busy", call[s].code}
      BY <2>2 DEF KillPeerHandlers, TypeOK, Call
    <3> QED BY <3>1 DEF Remembering, Answers
  <2> QED BY <2>1, <2>2 DEF KillHandlers
<1> QED BY <1>1, <1>2 DEF Asking

\* The strengthened type invariant is inductive: no interleaving of workers,
\* handlers, timeouts and restarts leaves it.
THEOREM TypedInductive == Typed /\ [Next]_vars => Typed'
<1> SUFFICES ASSUME Typed, [Next]_vars PROVE Typed'
  OBVIOUS
<1> USE DEF Typed
<1>1. ASSUME NEW h \in Hosts, Working(h) PROVE Typed'
  <2>1. CASE Overrun(h)
    <3>1. TypeOK' BY <2>1, OverrunStep DEF TypeOK
    <3>2. \A g \in Hosts : worker'[g].pc = worker[g].pc /\ worker'[g].reply = worker[g].reply
      BY <2>1, OverrunStep DEF TypeOK, Process
    <3> QED BY <2>1, <3>1, <3>2, OverrunStep DEF Asking, Remembering
  <2>2. CASE ~Overrun(h)
    <3>1. WorkerStep(h) BY <1>1, <2>2, WorkingStep
    <3>2. TypeOK' BY <3>1 DEF WorkerStep, TypeOK
    <3>3. Asking' BY <3>1 DEF WorkerStep, InOrder, Asking
    <3>4. Remembering' BY <3>1 DEF WorkerStep, Remembering
    <3> QED BY <3>2, <3>3, <3>4
  <2> QED BY <2>1, <2>2
<1>2. ASSUME NEW s \in Slots, Handling(s) \/ Contending(s) PROVE Typed'
  <2>1. TypeOK' BY <1>2, HandlingType, ContendingType
  <2>2. Asking' /\ Remembering' BY <1>2, HandlingStep, HandlerTyped
  <2> QED BY <2>1, <2>2
<1>3. ASSUME NEW p \in PeerSlots, Answering(p) \/ PeerFenceBusy(p) PROVE Typed'
  <2>1. worker' = worker
    BY <1>3 DEF Answering, PeerAssert, PeerAct, PeerFenceBusy
  <2>2. PICK code \in Answers : call' = call \/ PeerEnd(p, code)
    BY <1>3 DEF Answering, PeerAssert, PeerAct, PeerFenceBusy, PeerDeny, Answers
  <2>3. \A t \in Slots : /\ call'[t].pc = call[t].pc
                         /\ call'[t].code \in {call[t].code, code}
    BY <2>2 DEF PeerEnd, TypeOK, Call
  <2>4. Remembering' BY <2>3 DEF Remembering
  <2> QED BY <1>3, <2>1, <2>4, AnsweringType DEF Asking
<1>4. ASSUME NEW h \in Hosts, NEW s \in Slots, Accept(h, s) PROVE Typed'
  <2>1. worker[h].pc \in DOMAIN Path BY <1>4 DEF Accept, Asking
  <2>2. TypeOK' BY <1>4, <2>1, AcceptType
  <2>3. Asking' BY <1>4, <2>1 DEF Accept, Asking, TypeOK, Process
  <2>4. Path[worker[h].pc] # "stepRollback" BY <2>1 DEF Path
  <2>5. Remembering' BY <1>4, <2>4 DEF Accept, Remembering, TypeOK
  <2> QED BY <2>2, <2>3, <2>5
<1>5. ASSUME NEW s \in Slots, Timeout(s) PROVE Typed'
  <2>1. Asking' BY <1>5 DEF Timeout, Asking, TypeOK, Process, Call
  <2>2. Remembering' BY <1>5 DEF Timeout, Remembering, TypeOK, Call
  <2> QED BY <1>5, <2>1, <2>2, ContendingType
<1>6. ASSUME NEW h \in Hosts,
             \/ \E l \in Leases : Start(h, l)
             \/ Refuse(h) \/ Expire(h)
      PROVE  Typed'
  <2>1. TypeOK' BY <1>6, HostsType
  <2>2. call' = call BY <1>6 DEF Start, Refuse, Expire, Rest
  <2>3. Asking'
    <3>1. ASSUME NEW l \in Leases, Start(h, l) PROVE Asking'
      BY <3>1 DEF Start, Asking, TypeOK, Process, Path
    <3>2. CASE Refuse(h) BY <3>2 DEF Refuse, Asking, TypeOK, Process
    <3>3. CASE Expire(h) BY <3>3 DEF Expire, Asking
    <3> QED BY <1>6, <3>1, <3>2, <3>3
  <2> QED BY <2>1, <2>2, <2>3 DEF Remembering
<1>7. ASSUME NEW h \in Hosts, AgentRestart(h) \/ Reboot(h) PROVE Typed'
  <2>1. TypeOK' BY <1>7, HostsType
  <2>2. PICK down \in SUBSET Hosts : KillHandlers(h, down)
    BY <1>7 DEF AgentRestart, Reboot
  <2> QED BY <2>1, <2>2, KillTyped
<1>8. ASSUME NEW h \in Hosts, Crash(h) PROVE Typed'
  <2>1. TypeOK' BY <1>8, HostsType
  <2>2. Asking' BY <1>8 DEF Crash, Stop, Asking, TypeOK, Process
  <2>3. \A s \in Slots : call'[s].pc = call[s].pc /\ call'[s].code = call[s].code
    BY <1>8 DEF Crash, TypeOK, Call
  <2> QED BY <2>1, <2>2, <2>3 DEF Remembering
<1>9. CASE UNCHANGED vars
  BY <1>9 DEF vars, TypeOK, Asking, Remembering
<1> QED BY <1>1, <1>2, <1>3, <1>4, <1>5, <1>6, <1>7, <1>8, <1>9 DEF Next

\* The journals, fences, worker records and handlers of the control plane only
\* ever hold values of their types (the enumerated phases and codes of
\* worker.py, agent.py and model.py), for any number of leases and handlers.
THEOREM TypeCorrect == Spec => []TypeOK
<1>1. Init => Typed
  <2> SUFFICES ASSUME Init PROVE Typed
    OBVIOUS
  <2>1. FreeCall \in Call BY FreeCallType
  <2>2. Released \in Journal BY DEF Released, Journal, LeasePhase
  <2>3. Open \in Fence BY DEF Open, Fence
  <2>4. Off \in Process BY DEF Off, Process, WorkerPc, WorkerPhase, Reply
  <2>5. FreePeer \in Peer BY DEF FreePeer, Peer
  <2>6. TypeOK BY <2>1, <2>2, <2>3, <2>4, <2>5 DEF Init, TypeOK
  <2>7. Asking BY DEF Init, Asking, Off
  <2>8. Remembering BY DEF Init, Remembering, FreeCall
  <2> QED BY <2>6, <2>7, <2>8 DEF Typed
<1>2. Typed => TypeOK BY DEF Typed
<1> QED BY <1>1, <1>2, TypedInductive, PTL DEF Spec

----------------------------------------------------------------------------
(* The parts of CoreInv: those about clients and leases, those that tie    *)
(* the journal to handlers and workers, those about the barriers.          *)

\* What is said of clients, callers and lease tokens.
Steady == /\ ClientsWait /\ CallersWait /\ LeasesFresh /\ ClaimsFirst
          /\ OneArming /\ RollbacksFail /\ PhasesFit

\* What ties the journal to its handlers and workers.
Tracked == /\ ArmingFits /\ NotYetArmed /\ CommitsAlone /\ StepAgreed
           /\ ReleasesEnd /\ RestsSpent

\* What is said of the barriers.
Barred == /\ CommitsHeld /\ DestructiveHeld /\ OldBarriersExpire
          /\ ReleasesOpen /\ Named

----------------------------------------------------------------------------
(* Steps that take something away *)

\* The request of s is still the same; it may have lost its client.
KeepsRequest(s) ==
  /\ call'[s].actor = call[s].actor /\ call'[s].lease = call[s].lease
  /\ call'[s].step = call[s].step /\ call'[s].ok = call[s].ok
  /\ call'[s].live => call[s].live

\* The handler's section is of the same kind as before.
KeepsStage(s) ==
  /\ call'[s].pc = "free" <=> call[s].pc = "free"
  /\ \A k \in DOMAIN Serving : call[s].pc \in Serving[k] => call'[s].pc \in Serving[k]
  /\ call'[s].pc \in {"claim", "complete"} => call'[s].pc = call[s].pc
  /\ call'[s].pc \in ArmPcs =>
       /\ call[s].pc \in ArmPcs
       /\ call[s].pc = "armWait" /\ call[s].code # "ok" =>
            \/ call'[s].pc = "armWait" /\ call'[s].code # "ok"
            \/ \A p \in PeerSlots : ~PeerDoing(p, "close", call[s].lease)'
  /\ call'[s].pc = "stepRollback" => call'[s].code \in Failures

\* The handler is gone, or goes on with the same request.
CallFades(s) == call'[s] = FreeCall \/ (KeepsRequest(s) /\ KeepsStage(s))

\* So does a handler of Selectel; it may have lost its caller.
PeerFades(p) ==
  \/ peer'[p] = FreePeer
  \/ /\ peer'[p].op = peer[p].op /\ peer'[p].lease = peer[p].lease
     /\ peer'[p].caller \in {peer[p].caller, NoSlot}
     /\ peer'[p].pc = "free" <=> peer[p].pc = "free"

\* A caller that is still waited for has not moved.
CallersStay ==
  \A p \in PeerSlots : \A s \in Slots : peer'[p].caller = s =>
    /\ call'[s].pc = call[s].pc /\ call'[s].lease = call[s].lease
    /\ call'[s].code = call[s].code

\* A worker goes down, or its request is answered or fails.
WorkerFades(h) ==
  /\ worker'[h].phase = worker[h].phase /\ worker'[h].lease = worker[h].lease
  /\ \/ worker'[h].pc = worker[h].pc /\ worker'[h].reply = worker[h].reply
     \/ /\ \/ worker'[h].pc = "off" /\ worker'[h].reply = "none"
           \/ /\ worker'[h].pc = worker[h].pc
              /\ worker[h].reply \in {"unsent", "waiting"}
              /\ worker'[h].reply = "busy"
           \/ /\ worker'[h].pc = worker[h].pc
              /\ worker'[h].reply \in Answers
              /\ \E s \in Slots : /\ call[s].live /\ call[s].actor = h
                                  /\ call'[s] = FreeCall
        /\ \A s \in Slots : call'[s].live => call'[s].actor # h

\* A lease that a handler past its claim acts for.
Known(l) ==
  \/ l = NoLease
  \/ \E s \in Slots : call[s].pc \notin {"free", "claim"} /\ call[s].lease = l
  \/ \E p \in PeerSlots : peer[p].pc # "free" /\ peer[p].lease = l

\* No lease appears where none was, except one that some handler acts for.
LeasesKept ==
  /\ used' = used /\ coord'.lease = coord.lease
  /\ coord'.released = coord.released \/ Known(coord'.released)
  /\ \A h \in Hosts : fence'[h].lease = fence[h].lease \/ Known(fence'[h].lease)

\* A step that gives nobody anything new to do.
HandlersFade ==
  /\ LeasesKept
  /\ \A s \in Slots : CallFades(s)
  /\ \A p \in PeerSlots : PeerFades(p)
  /\ \A h \in Hosts : WorkerFades(h)
  /\ CallersStay

\* No handler comes past its commit.
CommitsFade ==
  \A s \in Slots : call'[s].pc \in CommitPcs => call[s].pc \in CommitPcs

\* The request of s is one that is confirmed without a change of the journal.
Confirmed(s) ==
  \/ call[s].pc \in {"preflight", "complete", "verify"}
  \/ call[s].pc = "release" /\ coord.released = call[s].lease

\* The journal stays; success is told only to a request that changes nothing.
JournalStays ==
  /\ UNCHANGED <<coord, granted>> /\ CommitsFade
  /\ \A h \in Hosts :
       /\ worker'[h].step = worker[h].step
       /\ worker'[h].reply = "ok" =>
            \/ worker[h].reply = "ok"
            \/ \E s \in Slots : call[s].live /\ call[s].actor = h /\ Confirmed(s)

\* Sections that follow the holding of the AX41 barrier.
HeldPcs == {"stepPeer", "stepWait", "stepGrant"}
\* The handler knows that Selectel's barrier is held too.
BothHeld(c) == \/ c.pc = "stepGrant"
               \/ c.pc = "stepWait" /\ c.code = "ok"
\* The handler knows that Selectel's barrier has been opened.
BothOpen(c) == \/ c.pc = "releaseWait" /\ c.code = "ok"
               \/ c.pc \in {"releaseFinal", "releaseDone"}

\* The handler relies on no barrier that it did not rely on before, unless that
\* barrier is now as it should be.
KeepsBarriers(s) ==
  /\ call'[s].pc \in HeldPcs =>
       call[s].pc \in HeldPcs \/ HeldFor("ax41", call[s].lease)'
  /\ BothHeld(call'[s]) =>
       BothHeld(call[s]) \/ HeldFor("selectel", call[s].lease)'
  /\ call'[s].pc \in OpenPcs => call[s].pc \in OpenPcs
  /\ BothOpen(call'[s]) =>
       BothOpen(call[s]) \/ Clear("selectel", call[s].lease)'
  /\ call'[s].pc = "releaseDone" =>
       call[s].pc = "releaseDone" \/ Clear("ax41", call[s].lease)'

\* A held barrier stays, and no record appears.
FenceFades(h) ==
  \/ fence'[h] = fence[h]
  \/ ~fence[h].committed /\ fence'[h] = Open
  \/ /\ fence'[h].lease = fence[h].lease
     /\ fence'[h].committed = fence[h].committed
     /\ fence[h].lease = NoLease => ~fence'[h].up
     /\ fence[h].committed /\ fence[h].up => fence'[h].up

\* The barrier stays clear of the leases it is clear of, and held for the lease
\* in force; an open one carries no lease.
FenceFits(h) ==
  /\ \A l \in Leases : Clear(h, l) => Clear(h, l)'
  /\ HeldFor(h, coord.lease) =>
       \/ coord.phase \in {"idle", "reserved", "fencing", "releasing"}
       \/ HeldFor(h, coord.lease)'
  /\ fence'[h].lease = NoLease => ~fence'[h].committed /\ ~fence'[h].up

\* Only a handler of a lease being released comes to open a barrier.
OpensFit ==
  \A p \in PeerSlots :
    peer'[p].pc = "act" /\ peer'[p].op = "open" =>
      \/ peer[p].pc = "act"
      \/ peer'[p].lease = coord.lease => coord.phase = "releasing"

\* A step that leaves what is relied on of the barriers alone.
BarriersStay ==
  /\ coord' = coord /\ CommitsFade
  /\ \A h \in Hosts : FenceFits(h)
  /\ \A s \in Slots : KeepsBarriers(s)
  /\ OpensFit

\* Where the client of a handler waits.
LEMMA ClientAt ==
  ASSUME ClientsWait, NEW s \in Slots, call[s].live
  PROVE  LET w == worker[call[s].actor] IN
         /\ w.reply = "waiting" /\ w.lease = call[s].lease
         /\ call[s].pc = "claim" <=> w.pc = "claim"
         /\ call[s].pc \in ArmPcs <=> w.pc = "arm"
         /\ call[s].pc \in StepPcs <=> w.pc = "step"
         /\ call[s].pc = "preflight" <=> w.pc = "preflight"
         /\ call[s].pc = "complete" <=> w.pc \in {"complete", "completeRaise"}
         /\ call[s].pc = "verify" <=> w.pc \in {"verify1", "verify2"}
         /\ call[s].pc \in {"release"} \cup OpenPcs <=>
              w.pc \in {"release1", "release2", "abort"}
         /\ w.pc \in DOMAIN Path
<1> DEFINE w == worker[call[s].actor]
<1>1. /\ w.reply = "waiting" /\ w.lease = call[s].lease
      /\ w.pc \in DOMAIN Path /\ call[s].pc \in Serving[Path[w.pc]]
  BY DEF ClientsWait
<1> USE <1>1 DEF Path, Serving, ArmPcs, StepPcs, OpenPcs
<1>2. CASE w.pc = "claim" BY <1>2
<1>3. CASE w.pc = "arm" BY <1>3
<1>4. CASE w.pc = "step" BY <1>4
<1>5. CASE w.pc = "preflight" BY <1>5
<1>6. CASE w.pc \in {"complete", "completeRaise"} BY <1>6
<1>7. CASE w.pc \in {"verify1", "verify2"} BY <1>7
<1>8. CASE w.pc \in {"release1", "release2", "abort"} BY <1>8
<1> QED BY <1>2, <1>3, <1>4, <1>5, <1>6, <1>7, <1>8

\* What HandlersFade says of a handler,
LEMMA CallFacts ==
  ASSUME HandlersFade
  PROVE  \A s \in Slots : call'[s] = FreeCall \/ (KeepsRequest(s) /\ KeepsStage(s))
  BY DEF HandlersFade, CallFades

\* of a handler of Selectel,
LEMMA PeerFacts ==
  ASSUME HandlersFade
  PROVE  \A p \in PeerSlots :
           \/ peer'[p] = FreePeer
           \/ /\ peer'[p].op = peer[p].op /\ peer'[p].lease = peer[p].lease
              /\ peer'[p].caller \in {peer[p].caller, NoSlot}
              /\ peer'[p].pc = "free" <=> peer[p].pc = "free"
  BY DEF HandlersFade, PeerFades

\* and of a process, by the points at which the prover needs it.
LEMMA WorkerFacts ==
  ASSUME CoreInv, HandlersFade
  PROVE  \A h \in Hosts :
           /\ worker'[h].phase = worker[h].phase
           /\ worker'[h].lease = worker[h].lease
           /\ worker'[h].pc \in {worker[h].pc, "off"}
           /\ worker'[h].reply \in {"unsent", "waiting"} =>
                worker'[h].reply = worker[h].reply
           /\ worker'[h].reply \notin {worker[h].reply, "none"} =>
                worker[h].reply \in {"unsent", "waiting"}
           /\ \A s \in Slots : call'[s].live /\ call'[s].actor = h =>
                worker'[h].pc = worker[h].pc /\ worker'[h].reply = worker[h].reply
           /\ worker'[h].reply \notin {"none", "busy", worker[h].reply} =>
                \E s \in Slots : call[s].live /\ call[s].actor = h
                                 /\ call'[s] = FreeCall
  BY ClientAt DEF HandlersFade, WorkerFades, Answers, CoreInv

\* Whatever fades, clients and callers stay right and leases stay fresh.
LEMMA FadingSafe ==
  ASSUME CoreInv, HandlersFade
  PROVE  Steady'
<1> USE LeaseAssumption, SlotAssumption DEF CoreInv, FreeCall, FreePeer, KeepsRequest,
        KeepsStage
<1>1. CallersWait'
  BY CallFacts, PeerFacts DEF HandlersFade, CallersWait, CallersStay, TypeOK, Peer
<1>2. ASSUME NEW l \in Leases, Known(l)
      PROVE  l \in used /\ \A h \in Hosts : worker[h].pc = "claim" /\ worker[h].reply = "unsent" => worker[h].lease # l
  BY <1>2 DEF Known, LeasesFresh, ClaimsFirst, Unknown
<1>3. ASSUME NEW l \in Leases, Unknown(l), ~Known(l) PROVE Unknown(l)'
  BY <1>3, PeerFacts DEF HandlersFade, LeasesKept, Unknown
<1>4. LeasesFresh'
  BY <1>2, <1>3, CallFacts, WorkerFacts DEF HandlersFade, LeasesKept, LeasesFresh
<1>5. RollbacksFail'
  BY CallFacts DEF RollbacksFail
<1>6. PhasesFit'
  BY WorkerFacts DEF PhasesFit
<1>7. OneArming'
  <2>1. \A s, t \in Slots : call'[s].pc \in ArmPcs /\ call'[t].pc \in ArmPcs
                            /\ call'[s].lease = call'[t].lease => s = t
    BY CallFacts DEF OneArming, ArmedOnce, ArmPcs
  <2>2. \A p \in PeerSlots : \A l : PeerDoing(p, "close", l)' => PeerDoing(p, "close", l)
    BY PeerFacts DEF PeerDoing
  <2> QED BY <2>1, <2>2, CallFacts DEF OneArming, ArmedOnce, ArmPcs, PeerDoing
<1>8. ClientsWait'
  <2>1. ASSUME NEW s \in Slots, call'[s].live
        PROVE  LET w == worker'[call'[s].actor] IN
               /\ w.reply = "waiting"
               /\ w.lease = call'[s].lease
               /\ w.pc \in DOMAIN Path
               /\ call'[s].pc \in Serving[Path[w.pc]]
               /\ \A t \in Slots : call'[t].live /\ call'[t].actor = call'[s].actor => t = s
    <3>1. KeepsRequest(s) /\ KeepsStage(s) BY <2>1, CallFacts
    <3>2. call[s].live /\ call[s].actor \in Hosts BY <2>1, <3>1 DEF TypeOK, Call
    <3> DEFINE w == worker[call[s].actor]
    <3>3. Path[w.pc] \in DOMAIN Serving BY <3>2, ClientAt DEF Path, Serving
    <3>4. w.pc \in DOMAIN Path /\ call[s].pc \in Serving[Path[w.pc]]
      BY <3>2 DEF ClientsWait
    <3>5. /\ worker'[call[s].actor].pc = w.pc
          /\ worker'[call[s].actor].reply = "waiting"
          /\ worker'[call[s].actor].lease = call[s].lease
      BY <2>1, <3>1, <3>2, WorkerFacts DEF ClientsWait
    <3>6. \A t \in Slots : call'[t].live /\ call'[t].actor = call'[s].actor => t = s
      BY <3>1, <3>2, CallFacts DEF ClientsWait
    <3> QED BY <3>1, <3>3, <3>4, <3>5, <3>6
  <2> QED BY <2>1 DEF ClientsWait
<1>9. ClaimsFirst'
  <2>1. ASSUME NEW h \in Hosts, worker'[h].pc = "claim", worker'[h].reply = "unsent"
        PROVE  /\ Unknown(worker[h].lease)'
               /\ \A s \in Slots : call'[s].lease # worker'[h].lease
    <3>1. worker[h].pc = "claim" /\ worker[h].reply = "unsent"
      BY <2>1, WorkerFacts
    <3>2. worker'[h].lease = worker[h].lease /\ worker[h].lease \in Leases
      BY <3>1, WorkerFacts DEF LeasesFresh
    <3>3. Unknown(worker[h].lease) /\ ~Known(worker[h].lease)
      BY <1>2, <3>1, <3>2 DEF ClaimsFirst
    <3>4. Unknown(worker[h].lease)'
      BY <3>2, <3>3, PeerFacts DEF HandlersFade, LeasesKept, Unknown
    <3> QED BY <3>1, <3>2, <3>4, CallFacts DEF ClaimsFirst
  <2>2. ASSUME NEW s \in Slots, call'[s].pc = "claim"
        PROVE  /\ Unknown(call[s].lease)'
               /\ \A t \in Slots : call'[t].lease = call'[s].lease => t = s
               /\ \A h \in Hosts : worker'[h].lease = call'[s].lease =>
                    \/ worker'[h].pc = "off"
                    \/ /\ worker'[h].pc = "claim"
                       /\ worker'[h].reply \in {"waiting", "busy"}
    <3>1. /\ call[s].pc = "claim" /\ call'[s].lease = call[s].lease
          /\ call[s].lease \in Leases /\ call'[s] # FreeCall
      BY <2>2, CallFacts DEF Named
    <3>2. Unknown(call[s].lease) /\ ~Known(call[s].lease)
      BY <3>1 DEF ClaimsFirst, Known, Unknown
    <3>3. Unknown(call[s].lease)'
      BY <3>1, <3>2, PeerFacts DEF HandlersFade, LeasesKept, Unknown
    <3>4. \A t \in Slots : call'[t].lease = call'[s].lease => t = s
      BY <3>1, CallFacts DEF ClaimsFirst
    <3>5. ASSUME NEW h \in Hosts, worker'[h].lease = call'[s].lease,
                 worker'[h].pc # "off"
          PROVE  worker'[h].pc = "claim" /\ worker'[h].reply \in {"waiting", "busy"}
      <4>1. /\ worker[h].pc = "claim" /\ worker[h].reply \in {"waiting", "busy"}
            /\ worker'[h].pc = "claim"
        BY <3>1, <3>5, WorkerFacts DEF ClaimsFirst
      <4>2. \A t \in Slots : call[t].live /\ call[t].actor = h => call'[t] # FreeCall
        BY <3>1, <3>5, WorkerFacts DEF ClaimsFirst, ClientsWait
      <4>3. worker'[h].reply # "none"
        BY <3>5, <4>1, <4>2 DEF HandlersFade, WorkerFades, Answers
      <4> QED BY <4>1, <4>2, <4>3, WorkerFacts
    <3> QED BY <3>3, <3>4, <3>5
  <2> QED BY <2>1, <2>2 DEF ClaimsFirst, Unknown
<1> QED BY <1>1, <1>4, <1>5, <1>6, <1>7, <1>8, <1>9 DEF Steady

\* What arms or holds a lease after the step did so before.
LEMMA ArmingFades ==
  ASSUME HandlersFade, NEW l \in Leases
  PROVE  Arming(l)' => Arming(l)
  BY LeaseAssumption, CallFacts, PeerFacts
  DEF Arming, PeerDoing, ArmPcs, FreeCall, FreePeer, KeepsRequest, KeepsStage

\* A lease that nobody can hold a barrier for stays so, if no commit begins.
LEMMA HoldingFades ==
  ASSUME HandlersFade, CommitsFade, NEW l \in Leases, NoHold(l)
  PROVE  NoHold(l)'
  BY LeaseAssumption, CallFacts, PeerFacts
  DEF CommitsFade, NoHold, PeerDoing, CommitPcs, StepPcs, FreeCall, FreePeer,
      KeepsRequest, KeepsStage

\* While the journal stays, so does everything that ties it to its lease's handlers.
LEMMA JournalSafe ==
  ASSUME CoreInv, HandlersFade, JournalStays
  PROVE  Tracked'
<1> USE LeaseAssumption DEF CoreInv, JournalStays
<1>1. ASSUME NEW h \in Hosts, worker'[h].reply = "ok"
      PROVE  \/ worker[h].reply = "ok"
             \/ worker[h].pc \in {"preflight", "complete", "completeRaise",
                                  "verify1", "verify2"}
             \/ /\ worker[h].pc \in {"release1", "release2", "abort"}
                /\ coord.released = worker[h].lease
  BY <1>1, ClientAt DEF Confirmed
<1>2. CommitsAlone'
  BY CallFacts, PeerFacts DEF CommitsFade, CommitsAlone, CommitPcs, StepPcs,
     PeerDoing, FreeCall, FreePeer, KeepsRequest, KeepsStage
<1>3. StepAgreed'
  <2>1. \A s \in Slots : call'[s].step <= granted
    BY CallFacts DEF StepAgreed, StepKept, TypeOK, FreeCall, KeepsRequest
  <2>2. ASSUME NEW h \in Hosts
        PROVE  /\ worker'[h].pc \in {worker[h].pc, "off"}
               /\ worker'[h].pc = "step" /\ worker'[h].reply = "ok" =>
                    worker[h].pc = "step" /\ worker[h].reply = "ok"
               /\ Running(h)' = Running(h)
               /\ StepOpen(h)' = StepOpen(h)
    BY <1>1, WorkerFacts DEF Running, StepKept, StepOpen
  <2>3. \A s \in Slots : call'[s].pc = "complete" =>
          /\ call[s].pc = "complete" /\ call'[s].lease = call[s].lease
          /\ call'[s].step = call[s].step /\ call'[s].ok = call[s].ok
    BY CallFacts DEF FreeCall, KeepsRequest, KeepsStage
  <2> QED BY <2>1, <2>2, <2>3, WorkerFacts DEF StepAgreed, StepKept
<1>4. ArmingFits'
  BY <1>1, ArmingFades, HoldingFades, WorkerFacts DEF ArmingFits, ArmedOnce
<1>5. NotYetArmed'
  BY <1>1, ArmingFades, HoldingFades, WorkerFacts DEF NotYetArmed, ArmedOnce, LeasesFresh
<1>6. ReleasesEnd'
  BY <1>1, WorkerFacts DEF ReleasesEnd
<1>7. RestsSpent'
  BY CallFacts, WorkerFacts DEF RestsSpent, PhasesFit, Named, FreeCall, KeepsRequest
<1> QED BY <1>2, <1>3, <1>4, <1>5, <1>6, <1>7 DEF Tracked

\* A barrier that is clear of a lease stays clear of it.
LEMMA ClearFades ==
  ASSUME HandlersFade, CommitsFade, NEW h \in Hosts, FenceFades(h),
         NEW l \in Leases, Clear(h, l)
  PROVE  Clear(h, l)'
  BY LeaseAssumption, HoldingFades DEF Clear, FenceFades, Open

\* A barrier that fades still fits everything relied on.
LEMMA FadedFits ==
  ASSUME CoreInv, HandlersFade, CommitsFade, coord' = coord,
         NEW h \in Hosts, FenceFades(h)
  PROVE  FenceFits(h)
<1> USE DEF FenceFades, Open
<1>1. \A l \in Leases : Clear(h, l) => Clear(h, l)'
  BY ClearFades
<1>2. HeldFor(h, coord.lease) => HeldFor(h, coord.lease)'
  BY DEF HeldFor
<1>3. fence'[h].lease = NoLease => ~fence'[h].committed /\ ~fence'[h].up
  BY DEF CoreInv, Named
<1> QED BY <1>1, <1>2, <1>3 DEF FenceFits

\* While the journal and the held barriers stay, so does what relies on them.
LEMMA BarriersSafe ==
  ASSUME CoreInv, HandlersFade, BarriersStay
  PROVE  Barred'
<1> USE LeaseAssumption DEF CoreInv, BarriersStay
<1>1. ASSUME NEW h \in Hosts, HeldFor(h, coord.lease),
             coord.phase \notin {"idle", "reserved", "fencing", "releasing"}
      PROVE  HeldFor(h, coord.lease)'
  BY <1>1 DEF FenceFits
<1>2. CommitsHeld'
  <2>1. ASSUME coord.phase = "committing", NEW s \in Slots,
               call'[s].lease = coord.lease, call'[s].pc \in HeldPcs
        PROVE  /\ HeldFor("ax41", coord.lease)'
               /\ BothHeld(call'[s]) => HeldFor("selectel", coord.lease)'
    <3>1. call[s].lease = coord.lease
      BY <2>1, CallFacts DEF HeldPcs, FreeCall, KeepsRequest
    <3>2. /\ call[s].pc \in HeldPcs => HeldFor("ax41", coord.lease)
          /\ BothHeld(call[s]) => HeldFor("selectel", coord.lease)
      BY <2>1, <3>1 DEF CommitsHeld, BothHeld, HeldPcs
    <3>3. /\ call[s].pc \in HeldPcs \/ HeldFor("ax41", coord.lease)'
          /\ BothHeld(call'[s]) =>
               BothHeld(call[s]) \/ HeldFor("selectel", coord.lease)'
      BY <2>1 DEF KeepsBarriers, HeldFor
    <3> QED BY <1>1, <2>1, <3>2, <3>3 DEF Hosts
  <2> QED BY <2>1 DEF CommitsHeld, HeldPcs, BothHeld, HeldFor
<1>3. DestructiveHeld'
  BY <1>1 DEF DestructiveHeld, HeldFor
<1>4. OldBarriersExpire'
  BY DEF FenceFits, OldBarriersExpire, OutOfForce
<1>5. ReleasesOpen'
  <2>1. ASSUME NEW s \in Slots, call'[s].pc \in OpenPcs,
               NEW l \in Leases, l = call'[s].lease
        PROVE  /\ l = coord.lease => coord.phase \in {"releasing", "idle"}
               /\ BothOpen(call'[s]) => Clear("selectel", l)'
               /\ call'[s].pc = "releaseDone" => Clear("ax41", l)'
    <3>1. call[s].pc \in OpenPcs /\ call[s].lease = l
      BY <2>1, CallFacts DEF KeepsBarriers, FreeCall, KeepsRequest, OpenPcs
    <3>2. /\ l = coord.lease => coord.phase \in {"releasing", "idle"}
          /\ BothOpen(call[s]) => Clear("selectel", l)
          /\ call[s].pc = "releaseDone" => Clear("ax41", l)
      BY <3>1 DEF ReleasesOpen, BothOpen
    <3>3. /\ BothOpen(call'[s]) => BothOpen(call[s]) \/ Clear("selectel", l)'
          /\ call'[s].pc = "releaseDone" =>
               call[s].pc = "releaseDone" \/ Clear("ax41", l)'
      BY <2>1 DEF KeepsBarriers, Clear, NoHold, PeerDoing
    <3> QED BY <3>2, <3>3 DEF FenceFits, Hosts
  <2>2. \A p \in PeerSlots :
          peer'[p].pc = "act" /\ peer'[p].op = "open" /\ peer'[p].lease = coord.lease
            => coord.phase \in {"releasing", "idle"}
    BY PeerFacts DEF OpensFit, ReleasesOpen, FreePeer
  <2>3. \A s \in Slots : call'[s].pc \in OpenPcs => call'[s].lease \in Leases
    BY CallFacts DEF Named, OpenPcs, FreeCall, KeepsRequest, KeepsStage
  <2> QED BY <2>1, <2>2, <2>3
          DEF ReleasesOpen, BothOpen, Clear, NoHold, PeerDoing
<1>6. Named'
  BY CallFacts, PeerFacts
  DEF Named, FenceFits, FreeCall, FreePeer, KeepsRequest, KeepsStage
<1> QED BY <1>2, <1>3, <1>4, <1>5, <1>6 DEF Barred

----------------------------------------------------------------------------
(* Steps that move the coordinator's journal *)

\* Only the phase of the journal moves, and no step is granted.
OnlyPhase(ph) ==
  /\ granted' = granted
  /\ coord'.phase = ph
  /\ coord'.owner = coord.owner /\ coord'.lease = coord.lease
  /\ coord'.step = coord.step /\ coord'.destructive = coord.destructive
  /\ coord'.releaseVerified = coord.releaseVerified
  /\ coord'.released = coord.released

\* The handler of s goes on with its request.
GoesOn(s, pc, code) ==
  /\ worker' = worker
  /\ \A t \in Slots : t # s => call'[t] = call[t]
  /\ call'[s].pc = pc /\ call'[s].code = code /\ SameRequest(s)

\* The barriers and the peer's handlers stay.
OnlyJournal == UNCHANGED <<fence, peer>>

\* A step under a lease that nobody releases leaves the openings of other
\* leases alone.
LEMMA OpensElsewhere ==
  ASSUME CoreInv, HandlersFade, OnlyJournal, coord.phase \notin {"releasing", "idle"},
         \A s \in Slots : call'[s] = call[s] \/ call'[s].pc \notin OpenPcs,
         \A l \in Leases : l # coord.lease /\ NoHold(l) => NoHold(l)'
  PROVE  ReleasesOpen'
<1> USE DEF CoreInv, OnlyJournal
<1>1. ASSUME NEW l \in Leases, l # coord.lease, NEW h \in Hosts, Clear(h, l)
      PROVE  Clear(h, l)'
  BY <1>1 DEF Clear
<1>2. ASSUME NEW s \in Slots, call'[s].pc \in OpenPcs
      PROVE  /\ call'[s] = call[s] /\ call[s].lease \in Leases
             /\ call[s].lease # coord.lease
  BY <1>2 DEF Named, OpenPcs, ReleasesOpen
<1>3. ASSUME NEW s \in Slots, call'[s].pc \in OpenPcs,
             NEW l \in Leases, l = call'[s].lease
      PROVE  /\ BothOpen(call'[s]) => Clear("selectel", l)'
             /\ call'[s].pc = "releaseDone" => Clear("ax41", l)'
  BY <1>1, <1>2, <1>3 DEF ReleasesOpen, BothOpen, Hosts
<1>4. \A p \in PeerSlots :
        ~(peer[p].pc = "act" /\ peer[p].op = "open" /\ peer[p].lease = coord.lease)
  BY DEF ReleasesOpen
<1>5. coord'.lease = coord.lease BY DEF HandlersFade, LeasesKept
<1> QED BY <1>2, <1>3, <1>4, <1>5 DEF ReleasesOpen, BothOpen, Clear, NoHold, PeerDoing

\* A step of a release adds no claim that a barrier is open.
LEMMA OpensKept ==
  ASSUME CoreInv, HandlersFade, OnlyJournal, CommitsFade,
         coord'.phase \in {"releasing", "idle"},
         \A s \in Slots : /\ BothOpen(call'[s]) => call'[s] = call[s]
                          /\ call'[s].pc = "releaseDone" => call'[s] = call[s]
  PROVE  ReleasesOpen'
<1> USE DEF CoreInv, OnlyJournal
<1>1. ASSUME NEW s \in Slots, BothOpen(call'[s]),
             NEW l \in Leases, l = call'[s].lease
      PROVE  /\ Clear("selectel", l)'
             /\ call'[s].pc = "releaseDone" => Clear("ax41", l)'
  BY <1>1, ClearFades DEF ReleasesOpen, BothOpen, Hosts, FenceFades, OpenPcs
<1>2. \A s \in Slots : BothOpen(call'[s]) => call'[s].lease \in Leases
  BY DEF Named, BothOpen
<1> QED BY <1>1, <1>2 DEF ReleasesOpen, BothOpen, Clear, NoHold, PeerDoing

\* /lease/fence records that the barriers are being closed: the lease is the handler's.
LEMMA ArmBeginSafe ==
  ASSUME CoreInv, HandlersFade, OnlyJournal, NEW s \in Slots,
         call[s].pc = "arm", Owns(s), coord.phase = "reserved",
         OnlyPhase("fencing"), GoesOn(s, "armClose", call[s].code)
  PROVE  Tracked' /\ Barred'
<1> USE LeaseAssumption DEF CoreInv, OnlyJournal, Owns, OnlyPhase, GoesOn, SameRequest
<1>1. coord.lease \in Leases /\ call[s].lease = coord.lease /\ Arming(coord.lease)
  BY DEF Named, Arming, ArmPcs
<1>2. NoHold(coord.lease) BY <1>1 DEF ArmingFits, ArmedOnce
<1>3. CommitsFade BY DEF CommitsFade, CommitPcs, StepPcs
<1>4. ArmingFits' BY <1>3, ArmingFades, HoldingFades DEF ArmingFits, ArmedOnce
<1>5. NotYetArmed' BY <1>1, <1>3, ArmingFades, HoldingFades
  DEF NotYetArmed, ArmedOnce, LeasesFresh
<1>6. CommitsAlone' BY <1>2, <1>3 DEF CommitsAlone, CommitsFade, NoHold, PeerDoing
<1>7. StepAgreed' BY DEF StepAgreed, Running, StepKept, StepOpen
<1>8. ReleasesEnd' BY DEF ReleasesEnd
<1>9. RestsSpent' BY <1>1 DEF RestsSpent
<1>10. CommitsHeld' BY DEF CommitsHeld
<1>11. DestructiveHeld' BY DEF DestructiveHeld, HeldFor
<1>12. OldBarriersExpire' BY <1>3, ClearFades DEF OldBarriersExpire, OutOfForce, FenceFades
<1>13. ReleasesOpen' BY <1>3, HoldingFades, OpensElsewhere DEF OpenPcs
<1>14. Named' BY DEF Named, FreeCall
<1> QED BY <1>4, <1>5, <1>6, <1>7, <1>8, <1>9, <1>10, <1>11, <1>12, <1>13, <1>14
        DEF Tracked, Barred

\* Both barriers are closed: nothing can still close one for the lease.
LEMMA ArmEndSafe ==
  ASSUME CoreInv, HandlersFade, OnlyJournal, NEW s \in Slots,
         call[s].pc = "armWait", call[s].code = "ok", Owns(s),
         coord.phase = "fencing", OnlyPhase("fenced"), Ended(s, "ok"), KeepsSteps
  PROVE  Tracked' /\ Barred'
<1> USE LeaseAssumption DEF CoreInv, OnlyJournal, Owns, OnlyPhase, Ended, KeepsSteps
<1>1. /\ coord.lease \in Leases /\ call[s].lease = coord.lease /\ Arming(coord.lease)
      /\ NoHold(coord.lease)
  BY DEF Named, Arming, ArmPcs, ArmingFits, ArmedOnce
<1>2. CommitsFade BY DEF CommitsFade, CommitPcs, StepPcs, FreeCall
<1>3. ~Arming(coord.lease)'
  BY <1>1 DEF Arming, PeerDoing, ArmPcs, FreeCall, OneArming, ArmedOnce
<1>4. \A h \in Hosts : worker'[h].reply # worker[h].reply =>
        worker[h].pc = "arm" /\ worker[h].lease = coord.lease
  BY <1>1, ClientAt DEF ArmPcs
<1>5. ArmingFits' BY <1>2, <1>3, <1>4, ArmingFades, HoldingFades
  DEF ArmingFits, ArmedOnce
<1>6. NotYetArmed' BY <1>1, <1>2, <1>4, ArmingFades, HoldingFades
  DEF NotYetArmed, ArmedOnce, LeasesFresh
<1>7. CommitsAlone' BY <1>1, <1>2 DEF CommitsAlone, CommitsFade, NoHold, PeerDoing, FreeCall
<1>8. StepAgreed' BY <1>4 DEF StepAgreed, Running, StepKept, StepOpen, FreeCall, TypeOK
<1>9. ReleasesEnd' BY <1>4 DEF ReleasesEnd
<1>10. RestsSpent' BY DEF RestsSpent
<1>11. CommitsHeld' BY DEF CommitsHeld
<1>12. DestructiveHeld' BY DEF DestructiveHeld, HeldFor
<1>13. OldBarriersExpire' BY <1>2, ClearFades DEF OldBarriersExpire, OutOfForce, FenceFades
<1>14. ReleasesOpen' BY <1>2, HoldingFades, OpensElsewhere DEF OpenPcs, FreeCall
<1>15. Named' BY DEF Named, FreeCall
<1> QED BY <1>5, <1>6, <1>7, <1>8, <1>9, <1>10, <1>11, <1>12, <1>13, <1>14, <1>15
        DEF Tracked, Barred

\* A commit begins: no other handler of the lease is past its own.
LEMMA StepCommitSafe ==
  ASSUME CoreInv, HandlersFade, OnlyJournal, NEW s \in Slots,
         call[s].pc = "stepCommit", Owns(s), coord.phase \in {"fenced", "verifying"},
         OnlyPhase("committing"), GoesOn(s, "stepHold", call[s].code)
  PROVE  Tracked' /\ Barred'
<1> USE LeaseAssumption DEF CoreInv, OnlyJournal, Owns, OnlyPhase, GoesOn, SameRequest
<1>1. /\ coord.lease \in Leases /\ call[s].lease = coord.lease /\ ~Arming(coord.lease)
  BY DEF Named, ArmingFits, ArmedOnce
<1>2. \A l \in Leases : l # coord.lease /\ NoHold(l) => NoHold(l)'
  BY <1>1 DEF NoHold, PeerDoing, CommitPcs, StepPcs
<1>3. ArmingFits' BY <1>1, <1>2, ArmingFades DEF ArmingFits, ArmedOnce
<1>4. NotYetArmed' BY <1>1, <1>2, ArmingFades DEF NotYetArmed, ArmedOnce, LeasesFresh
<1>5. CommitsAlone' BY DEF CommitsAlone, PeerDoing, CommitPcs, StepPcs
<1>6. StepAgreed' BY DEF StepAgreed, Running, StepKept, StepOpen
<1>7. ReleasesEnd' BY DEF ReleasesEnd
<1>8. RestsSpent' BY DEF RestsSpent
<1>9. CommitsHeld' BY DEF CommitsHeld, CommitsAlone, CommitPcs, StepPcs, HeldFor
<1>10. DestructiveHeld' BY DEF DestructiveHeld, HeldFor
<1>11. OldBarriersExpire' BY <1>2 DEF OldBarriersExpire, OutOfForce, Clear
<1>12. ReleasesOpen' BY <1>2, OpensElsewhere DEF OpenPcs
<1>13. Named' BY DEF Named, FreeCall
<1> QED BY <1>3, <1>4, <1>5, <1>6, <1>7, <1>8, <1>9, <1>10, <1>11, <1>12, <1>13
        DEF Tracked, Barred

\* A commit is undone by the only handler that is past it.
LEMMA StepRollbackSafe ==
  ASSUME CoreInv, HandlersFade, OnlyJournal, NEW s \in Slots,
         call[s].pc = "stepRollback", Owns(s), coord.phase = "committing",
         OnlyPhase(IF coord.destructive THEN "verifying" ELSE "fenced"),
         NEW code \in Failures, Ended(s, code), KeepsSteps
  PROVE  Tracked' /\ Barred'
<1> USE LeaseAssumption DEF CoreInv, OnlyJournal, Owns, OnlyPhase, Ended, KeepsSteps, Failures
<1>1. /\ coord.lease \in Leases /\ call[s].lease = coord.lease /\ ~Arming(coord.lease)
  BY DEF Named, ArmingFits, ArmedOnce
<1>2. CommitsFade BY DEF CommitsFade, CommitPcs, StepPcs, FreeCall
<1>3. ArmingFits' BY <1>1, <1>2, ArmingFades, HoldingFades DEF ArmingFits, ArmedOnce
<1>4. NotYetArmed' BY <1>1, <1>2, ArmingFades, HoldingFades
  DEF NotYetArmed, ArmedOnce, LeasesFresh
<1>5. CommitsAlone' BY <1>1, <1>2 DEF CommitsAlone, CommitsFade, CommitPcs, StepPcs, PeerDoing, FreeCall
<1>6. StepAgreed' BY DEF StepAgreed, Running, StepKept, StepOpen, FreeCall, TypeOK
<1>7. ReleasesEnd' BY DEF ReleasesEnd
<1>8. RestsSpent' BY DEF RestsSpent
<1>9. CommitsHeld' BY DEF CommitsHeld
<1>10. DestructiveHeld' BY DEF DestructiveHeld, HeldFor
<1>11. OldBarriersExpire' BY <1>2, ClearFades DEF OldBarriersExpire, OutOfForce, FenceFades
<1>12. ReleasesOpen' BY <1>2, HoldingFades, OpensElsewhere DEF OpenPcs, FreeCall
<1>13. Named' BY DEF Named, FreeCall
<1> QED BY <1>3, <1>4, <1>5, <1>6, <1>7, <1>8, <1>9, <1>10, <1>11, <1>12, <1>13
        DEF Tracked, Barred

\* The step that is completed is the one that runs, and its worker knows it.
LEMMA CompleteSafe ==
  ASSUME CoreInv, HandlersFade, OnlyJournal, NEW s \in Slots,
         call[s].pc = "complete", Owns(s), coord.phase = "step_running",
         coord.step = call[s].step,
         OnlyPhase(IF call[s].ok THEN "verifying" ELSE "failed_unsafe"),
         Ended(s, "ok"), KeepsSteps
  PROVE  Tracked' /\ Barred'
<1> USE LeaseAssumption DEF CoreInv, OnlyJournal, Owns, OnlyPhase, Ended, KeepsSteps
<1>1. /\ coord.lease \in Leases /\ call[s].lease = coord.lease /\ ~Arming(coord.lease)
  BY DEF Named, ArmingFits, ArmedOnce
<1>2. CommitsFade BY DEF CommitsFade, CommitPcs, StepPcs, FreeCall
<1>3. \A h \in Hosts : worker'[h].reply # worker[h].reply =>
        worker[h].pc \in {"complete", "completeRaise"}
  BY ClientAt
<1>4. ArmingFits' BY <1>1, <1>2, <1>3, ArmingFades, HoldingFades
  DEF ArmingFits, ArmedOnce
<1>5. NotYetArmed' BY <1>1, <1>2, <1>3, ArmingFades, HoldingFades
  DEF NotYetArmed, ArmedOnce, LeasesFresh
<1>6. CommitsAlone' BY <1>1, <1>2 DEF CommitsAlone, CommitsFade, CommitPcs, StepPcs, PeerDoing, FreeCall
<1>7. StepAgreed' BY <1>1, <1>3 DEF StepAgreed, Running, StepKept, StepOpen, FreeCall, TypeOK
<1>8. ReleasesEnd' BY <1>3 DEF ReleasesEnd
<1>9. RestsSpent' BY DEF RestsSpent
<1>10. CommitsHeld' BY DEF CommitsHeld
<1>11. DestructiveHeld' BY DEF DestructiveHeld, HeldFor
<1>12. OldBarriersExpire' BY <1>2, ClearFades DEF OldBarriersExpire, OutOfForce, FenceFades
<1>13. ReleasesOpen' BY <1>2, HoldingFades, OpensElsewhere DEF OpenPcs, FreeCall
<1>14. Named' BY DEF Named, FreeCall
<1> QED BY <1>4, <1>5, <1>6, <1>7, <1>8, <1>9, <1>10, <1>11, <1>12, <1>13, <1>14
        DEF Tracked, Barred

\* A verification finds no native work open and changes the phase alone.
LEMMA VerifySafe ==
  ASSUME CoreInv, HandlersFade, OnlyJournal, NEW s \in Slots,
         call[s].pc = "verify", Owns(s),
         coord.phase \in {"fenced", "verifying", "verified"},
         OnlyPhase("verified"), Ended(s, "ok"), KeepsSteps
  PROVE  Tracked' /\ Barred'
<1> USE LeaseAssumption DEF CoreInv, OnlyJournal, Owns, OnlyPhase, Ended, KeepsSteps
<1>1. /\ coord.lease \in Leases /\ call[s].lease = coord.lease /\ ~Arming(coord.lease)
  BY DEF Named, ArmingFits, ArmedOnce
<1>2. CommitsFade BY DEF CommitsFade, CommitPcs, StepPcs, FreeCall
<1>3. \A h \in Hosts : worker'[h].reply # worker[h].reply =>
        worker[h].pc \in {"verify1", "verify2"}
  BY ClientAt
<1>4. ArmingFits' BY <1>1, <1>2, <1>3, ArmingFades, HoldingFades
  DEF ArmingFits, ArmedOnce
<1>5. NotYetArmed' BY <1>1, <1>2, <1>3, ArmingFades, HoldingFades
  DEF NotYetArmed, ArmedOnce, LeasesFresh
<1>6. CommitsAlone' BY <1>1, <1>2 DEF CommitsAlone, CommitsFade, CommitPcs, StepPcs, PeerDoing, FreeCall
<1>7. StepAgreed' BY <1>1, <1>3 DEF StepAgreed, Running, StepKept, StepOpen, FreeCall, TypeOK
<1>8. ReleasesEnd' BY <1>3 DEF ReleasesEnd
<1>9. RestsSpent' BY DEF RestsSpent
<1>10. CommitsHeld' BY DEF CommitsHeld
<1>11. DestructiveHeld' BY DEF DestructiveHeld, HeldFor
<1>12. OldBarriersExpire' BY <1>2, ClearFades DEF OldBarriersExpire, OutOfForce, FenceFades
<1>13. ReleasesOpen' BY <1>2, HoldingFades, OpensElsewhere DEF OpenPcs, FreeCall
<1>14. Named' BY DEF Named, FreeCall
<1> QED BY <1>4, <1>5, <1>6, <1>7, <1>8, <1>9, <1>10, <1>11, <1>12, <1>13, <1>14
        DEF Tracked, Barred

\* A grant finds both barriers held by the handler that makes it.
LEMMA StepGrantSafe ==
  ASSUME CoreInv, HandlersFade, OnlyJournal, NEW s \in Slots,
         call[s].pc = "stepGrant", Owns(s), coord.phase = "committing",
         coord'.phase = "step_running", coord'.owner = coord.owner,
         coord'.lease = coord.lease, coord'.released = coord.released,
         coord'.releaseVerified = coord.releaseVerified,
         coord'.destructive = TRUE, granted' = granted + 1, coord'.step = granted',
         call'[s] = FreeCall, \A t \in Slots : t # s => call'[t] = call[t],
         \A h \in Hosts : IF call[s].live /\ h = call[s].actor
           THEN worker'[h].reply = "ok" /\ worker'[h].step = granted'
           ELSE worker'[h] = worker[h],
         \A h \in Hosts : /\ worker'[h].pc = worker[h].pc
                         /\ worker'[h].phase = worker[h].phase
                         /\ worker'[h].lease = worker[h].lease
  PROVE  Tracked' /\ Barred'
<1> USE LeaseAssumption DEF CoreInv, OnlyJournal, Owns, FreeCall
<1>1. /\ coord.lease \in Leases /\ call[s].lease = coord.lease /\ ~Arming(coord.lease)
  BY DEF Named, ArmingFits, ArmedOnce
<1>2. CommitsFade BY DEF CommitsFade, CommitPcs, StepPcs
<1>3. \A h \in Hosts : worker'[h].reply # worker[h].reply =>
        worker[h].pc = "step" /\ worker[h].lease = coord.lease
  BY <1>1, ClientAt DEF StepPcs
<1>4. ArmingFits' BY <1>1, <1>2, <1>3, ArmingFades, HoldingFades
  DEF ArmingFits, ArmedOnce
<1>5. NotYetArmed' BY <1>1, <1>2, <1>3, ArmingFades, HoldingFades
  DEF NotYetArmed, ArmedOnce, LeasesFresh
<1>6. CommitsAlone' BY <1>1, <1>2 DEF CommitsAlone, CommitsFade, CommitPcs, StepPcs, PeerDoing
<1>7. StepAgreed'
  <2>1. /\ coord'.step <= granted'
        /\ \A t \in Slots : call'[t].step <= granted'
        /\ \A t \in Slots : call[t].step # granted'
        /\ \A h \in Hosts : worker'[h].step <= granted'
    BY DEF StepAgreed, StepKept, TypeOK, Journal, Process, Call
  <2>2. \A h \in Hosts :
          /\ ~Running(h) /\ worker[h].pc \notin {"preflight", "native"}
          /\ ~(worker[h].pc = "step" /\ worker[h].reply = "ok")
    BY DEF StepAgreed, StepKept
  <2>3. \A h \in Hosts : ~Running(h)' BY <2>2 DEF Running
  <2>4. ASSUME NEW h \in Hosts,
               \/ worker'[h].pc = "step" /\ worker'[h].reply = "ok"
               \/ worker'[h].pc \in {"preflight", "native"}
        PROVE  call[s].live /\ h = call[s].actor
    BY <2>2, <2>4
  <2>5. ASSUME NEW h \in Hosts, call[s].live, h = call[s].actor PROVE StepOpen(h)'
    BY <1>1, <2>5, ClientAt DEF StepOpen
  <2>6. \A t \in Slots : call'[t].pc = "complete" => call'[t].step # granted'
    BY <2>1
  <2> QED BY <2>1, <2>3, <2>4, <2>5, <2>6 DEF StepAgreed, StepKept, StepOpen
<1>8. ReleasesEnd' BY <1>3 DEF ReleasesEnd
<1>9. RestsSpent' BY DEF RestsSpent
<1>10. CommitsHeld' BY DEF CommitsHeld
<1>11. DestructiveHeld' BY DEF DestructiveHeld, CommitsHeld, HeldFor, Hosts
<1>12. OldBarriersExpire' BY <1>2, ClearFades DEF OldBarriersExpire, OutOfForce, FenceFades
<1>13. ReleasesOpen' BY <1>2, HoldingFades, OpensElsewhere DEF OpenPcs
<1>14. Named' BY DEF Named, FreeCall
<1> QED BY <1>4, <1>5, <1>6, <1>7, <1>8, <1>9, <1>10, <1>11, <1>12, <1>13, <1>14
        DEF Tracked, Barred

\* A release begins without native work, after a verification if there was a grant.
LEMMA ReleaseBeginSafe ==
  ASSUME CoreInv, HandlersFade, OnlyJournal, NEW s \in Slots,
         call[s].pc = "release", Owns(s), coord.phase # "step_running",
         coord.released # call[s].lease, coord.destructive => RuntimeVerified,
         coord'.phase = "releasing", coord'.releaseVerified = RuntimeVerified,
         coord'.owner = coord.owner, coord'.lease = coord.lease,
         coord'.step = coord.step, coord'.destructive = coord.destructive,
         coord'.released = coord.released, granted' = granted,
         GoesOn(s, "releaseRead", call[s].code)
  PROVE  Tracked' /\ Barred'
<1> USE LeaseAssumption DEF CoreInv, OnlyJournal, Owns, GoesOn, SameRequest
<1>1. coord.lease \in Leases /\ call[s].lease = coord.lease BY DEF Named
<1>2. CommitsFade BY DEF CommitsFade, CommitPcs, StepPcs
<1>3. ArmingFits' BY <1>2, ArmingFades, HoldingFades DEF ArmingFits, ArmedOnce
<1>4. NotYetArmed' BY <1>2, ArmingFades, HoldingFades
  DEF NotYetArmed, ArmedOnce, LeasesFresh
<1>5. CommitsAlone' BY <1>2 DEF CommitsAlone, CommitsFade, CommitPcs, StepPcs, PeerDoing
<1>6. StepAgreed' BY DEF StepAgreed, Running, StepKept, StepOpen, DestructiveHeld, RuntimeVerified
<1>7. ReleasesEnd' BY DEF ReleasesEnd
<1>8. RestsSpent'
  <2>1. ASSUME NEW h \in Hosts, worker[h].pc \in {"off", "claim"},
               worker[h].phase \in Resting, worker[h].lease = coord.lease
        PROVE  FALSE
    BY <1>1, <2>1 DEF RestsSpent
  <2> QED BY <2>1 DEF RestsSpent
<1>9. CommitsHeld' BY DEF CommitsHeld
<1>10. DestructiveHeld' BY DEF DestructiveHeld, RuntimeVerified
<1>11. OldBarriersExpire' BY <1>2, ClearFades DEF OldBarriersExpire, OutOfForce, FenceFades
<1>12. ReleasesOpen' BY <1>1, <1>2, OpensKept DEF ReleasesOpen, BothOpen, OpenPcs
<1>13. Named' BY DEF Named, FreeCall
<1> QED BY <1>3, <1>4, <1>5, <1>6, <1>7, <1>8, <1>9, <1>10, <1>11, <1>12, <1>13
        DEF Tracked, Barred

\* The lease ends: both barriers are clear of it.
LEMMA ReleaseEndSafe ==
  ASSUME CoreInv, HandlersFade, OnlyJournal, NEW s \in Slots,
         call[s].pc = "releaseDone", Owns(s),
         coord'.phase = "idle", coord'.released = call[s].lease,
         coord'.owner = coord.owner, coord'.lease = coord.lease,
         coord'.step = coord.step, coord'.destructive = coord.destructive,
         coord'.releaseVerified = coord.releaseVerified, granted' = granted,
         Ended(s, "ok"), KeepsSteps
  PROVE  Tracked' /\ Barred'
<1> USE LeaseAssumption DEF CoreInv, OnlyJournal, Owns, Ended, KeepsSteps
<1>1. /\ coord.lease \in Leases /\ call[s].lease = coord.lease
      /\ coord.phase = "releasing"
  BY DEF Named, ReleasesOpen, OpenPcs
<1>2. CommitsFade BY DEF CommitsFade, CommitPcs, StepPcs, FreeCall
<1>3. \A h \in Hosts : worker'[h].reply # worker[h].reply =>
        worker[h].pc \in {"release1", "release2", "abort"}
  BY ClientAt DEF OpenPcs
<1>4. \A h \in Hosts : Clear(h, coord.lease)
  BY <1>1 DEF ReleasesOpen, OpenPcs, Hosts
<1>5. ArmingFits' BY <1>2, <1>3, ArmingFades, HoldingFades DEF ArmingFits, ArmedOnce
<1>6. NotYetArmed' BY <1>2, <1>3, ArmingFades, HoldingFades
  DEF NotYetArmed, ArmedOnce, LeasesFresh
<1>7. CommitsAlone' BY <1>2 DEF CommitsAlone, CommitsFade, CommitPcs, StepPcs, PeerDoing, FreeCall
<1>8. StepAgreed' BY <1>1, <1>3 DEF StepAgreed, Running, StepKept, StepOpen, FreeCall, TypeOK
<1>9. ReleasesEnd' BY DEF ReleasesEnd
<1>10. RestsSpent' BY <1>1 DEF RestsSpent
<1>11. CommitsHeld' BY DEF CommitsHeld
<1>12. DestructiveHeld' BY DEF DestructiveHeld, HeldFor
<1>13. OldBarriersExpire' BY <1>1, <1>2, <1>4, ClearFades DEF OldBarriersExpire, OutOfForce, FenceFades
<1>14. ReleasesOpen' BY <1>1, <1>2, OpensKept DEF ReleasesOpen, BothOpen, OpenPcs, FreeCall
<1>15. Named' BY DEF Named, FreeCall
<1> QED BY <1>5, <1>6, <1>7, <1>8, <1>9, <1>10, <1>11, <1>12, <1>13, <1>14, <1>15
        DEF Tracked, Barred

\* The claim that is granted is the first thing the control plane learns of its
\* lease, so nothing in flight can act for it.
LEMMA ClaimSafe ==
  ASSUME CoreInv, NEW s \in Slots, call[s].pc = "claim", coord.phase = "idle",
         coord' = [coord EXCEPT !.owner = call[s].actor, !.lease = call[s].lease,
                     !.phase = "reserved", !.destructive = FALSE,
                     !.releaseVerified = FALSE],
         Ended(s, "ok"), KeepsSteps, UNCHANGED <<fence, peer, used, granted>>
  PROVE  Steady' /\ Tracked' /\ Barred'
<1> DEFINE l == call[s].lease
<1> USE LeaseAssumption DEF CoreInv, Ended, KeepsSteps, FreeCall
<1>1. /\ l \in Leases /\ l \in used /\ Unknown(l)
      /\ \A t \in Slots : call[t].lease = l => t = s
      /\ \A h \in Hosts : worker[h].lease = l =>
           \/ worker[h].pc = "off"
           \/ worker[h].pc = "claim" /\ worker[h].reply \in {"waiting", "busy"}
  BY DEF ClaimsFirst, LeasesFresh, Named
<1>2. /\ coord'.lease = l /\ coord'.phase = "reserved"
      /\ coord'.released = coord.released /\ coord'.step = coord.step
      /\ coord'.destructive = FALSE /\ coord'.releaseVerified = FALSE
  BY DEF TypeOK, Journal
<1>3. \A h \in Hosts : worker'[h].reply # worker[h].reply =>
        worker[h].pc = "claim" /\ worker[h].lease = l /\ worker'[h].reply = "ok"
  BY ClientAt
<1>4. \A m : m # l /\ Unknown(m) => Unknown(m)'
  BY <1>2 DEF Unknown
<1>5. \A m \in Leases : /\ Arming(m)' => Arming(m)
                        /\ NoHold(m) => NoHold(m)'
  BY DEF Arming, NoHold, PeerDoing, ArmPcs, CommitPcs, StepPcs
<1>6. ~Arming(l) /\ NoHold(l)
  BY <1>1 DEF Arming, NoHold, PeerDoing, Unknown, ArmPcs, CommitPcs, StepPcs
<1>7. ClientsWait'
  <2>1. ASSUME NEW t \in Slots, call'[t].live
        PROVE  /\ call'[t] = call[t] /\ call[t].live /\ call[t].actor \in Hosts
               /\ ~(call[s].live /\ call[t].actor = call[s].actor)
    BY <2>1 DEF ClientsWait, TypeOK, Call
  <2> QED BY <2>1 DEF ClientsWait
<1>8. CallersWait' BY DEF CallersWait, WaitPc, TypeOK, Peer
<1>9. LeasesFresh' BY <1>1, <1>4 DEF LeasesFresh
<1>10. ClaimsFirst'
  <2>1. ASSUME NEW h \in Hosts, worker'[h].pc = "claim", worker'[h].reply = "unsent"
        PROVE  /\ worker[h].pc = "claim" /\ worker[h].reply = "unsent"
               /\ worker[h].lease # l /\ worker[h].lease \in Leases
    BY <1>1, <1>3, <2>1 DEF LeasesFresh
  <2>2. \A h \in Hosts : worker'[h].pc = "claim" /\ worker'[h].reply = "unsent" =>
          /\ Unknown(worker[h].lease)'
          /\ \A t \in Slots : call'[t].lease # worker'[h].lease
    BY <1>2, <2>1 DEF ClaimsFirst, Unknown
  <2>3. ASSUME NEW t \in Slots, call'[t].pc = "claim"
        PROVE  t # s /\ call'[t] = call[t] /\ call[t].lease # l
    BY <1>1, <2>3
  <2>4. ASSUME NEW t \in Slots, call'[t].pc = "claim"
        PROVE  /\ Unknown(call[t].lease)'
               /\ \A u \in Slots : call'[u].lease = call'[t].lease => u = t
               /\ \A h \in Hosts : worker'[h].lease = call'[t].lease =>
                    \/ worker'[h].pc = "off"
                    \/ /\ worker'[h].pc = "claim"
                       /\ worker'[h].reply \in {"waiting", "busy"}
    <3>1. Unknown(call[t].lease)' BY <1>2, <2>3, <2>4 DEF ClaimsFirst, Unknown
    <3>2. \A u \in Slots : call'[u].lease = call'[t].lease => u = t
      BY <2>3, <2>4 DEF ClaimsFirst, Named
    <3>3. \A h \in Hosts : worker'[h].lease = call'[t].lease =>
            worker'[h].reply = worker[h].reply
      BY <1>3, <2>3, <2>4
    <3> QED BY <2>3, <2>4, <3>1, <3>2, <3>3 DEF ClaimsFirst
  <2> QED BY <2>2, <2>4 DEF ClaimsFirst, Unknown
<1>11. OneArming' BY DEF OneArming, ArmedOnce, ArmPcs, PeerDoing
<1>12. RollbacksFail' BY DEF RollbacksFail
<1>13. PhasesFit' BY DEF PhasesFit
<1>14. ArmingFits' BY <1>2, <1>3, <1>5, <1>6 DEF ArmingFits, ArmedOnce
<1>15. NotYetArmed' BY <1>2, <1>3, <1>5, <1>6 DEF NotYetArmed, ArmedOnce, LeasesFresh
<1>16. CommitsAlone' BY <1>1, <1>2, <1>5, <1>6 DEF CommitsAlone, NoHold
<1>17. StepAgreed'
  <2>1. \A h \in Hosts :
          /\ ~Running(h) /\ worker[h].pc \notin {"preflight", "native"}
          /\ ~(worker[h].pc = "step" /\ worker[h].reply = "ok")
    BY DEF StepAgreed, StepKept
  <2>2. \A h \in Hosts : ~Running(h)' BY <2>1 DEF Running
  <2>3. \A t \in Slots : call'[t].step <= granted BY DEF StepAgreed, StepKept, TypeOK
  <2> QED BY <1>2, <1>3, <2>1, <2>2, <2>3 DEF StepAgreed, StepKept
<1>18. ReleasesEnd' BY <1>1, <1>2, <1>3 DEF ReleasesEnd, Unknown
<1>19. RestsSpent' BY <1>1, <1>2 DEF RestsSpent
<1>20. CommitsHeld' BY <1>2 DEF CommitsHeld
<1>21. DestructiveHeld' BY <1>2 DEF DestructiveHeld
<1>22. \A h \in Hosts : \A m \in Leases : Clear(h, m)'
  BY <1>5 DEF OldBarriersExpire, OutOfForce, Clear
<1>23. OldBarriersExpire' BY <1>22 DEF OldBarriersExpire
<1>24. ReleasesOpen'
  <2>1. ASSUME NEW t \in Slots, call'[t].pc \in OpenPcs
        PROVE  call'[t].lease # l /\ call'[t].lease \in Leases
    BY <1>1, <2>1 DEF OpenPcs, Named
  <2>2. ASSUME NEW t \in Slots, call'[t].pc \in OpenPcs, NEW h \in Hosts
        PROVE  Clear(h, call[t].lease)'
    BY <1>22, <2>1, <2>2 DEF Clear, NoHold, PeerDoing
  <2>3. \A p \in PeerSlots : peer[p].lease # l BY <1>1 DEF Unknown
  <2> QED BY <1>2, <2>1, <2>2, <2>3 DEF ReleasesOpen, Hosts, OpenPcs
<1>25. Named' BY <1>1, <1>2 DEF Named
<1> QED BY <1>7, <1>8, <1>9, <1>10, <1>11, <1>12, <1>13, <1>14, <1>15, <1>16,
           <1>17, <1>18, <1>19, <1>20, <1>21, <1>23, <1>24, <1>25
        DEF Steady, Tracked, Barred

----------------------------------------------------------------------------
(* Steps that move a barrier *)

\* Nothing but the barrier of h moves.
OnlyFence(h) == /\ coord' = coord /\ CommitsFade /\ OpensFit
                /\ \A g \in Hosts : g # h => fence'[g] = fence[g]

\* A barrier is closed only for a lease that can still be armed: it has no
\* commit behind it, so the barrier that it finds is not a held one.
LEMMA CloseSafe ==
  ASSUME CoreInv, HandlersFade, NEW h \in Hosts, OnlyFence(h),
         NEW l \in Leases, Arming(l), FenceFreeFor(h, l),
         fence'[h].lease = l, fence'[h].committed = fence[h].committed,
         \A s \in Slots : KeepsBarriers(s)
  PROVE  Barred'
<1> USE LeaseAssumption DEF CoreInv, OnlyFence, FenceFreeFor
<1>1. NoHold(l) /\ NoHold(l)' BY HoldingFades DEF ArmingFits, ArmedOnce
<1>2. fence[h].lease = NoLease => ~fence[h].committed BY DEF Named
<1>3. ASSUME NEW g \in Hosts, g # h PROVE FenceFits(g)
  BY <1>3, FadedFits DEF FenceFades
<1>4. \A m \in Leases : Clear(h, m) => Clear(h, m)' BY <1>1, <1>2 DEF Clear
<1>5. HeldFor(h, coord.lease) =>
        coord.phase \in {"idle", "reserved", "fencing", "releasing"}
  BY <1>2 DEF HeldFor, ArmingFits, ArmedOnce
<1>6. FenceFits(h) BY <1>4, <1>5 DEF FenceFits
<1> QED BY <1>3, <1>6, BarriersSafe DEF BarriersStay

\* A barrier is held only while a handler that committed the lease is in flight.
LEMMA HoldSafe ==
  ASSUME CoreInv, HandlersFade, NEW h \in Hosts, OnlyFence(h),
         NEW l \in Leases, ~NoHold(l), Holdable(h, l),
         fence'[h] = [fence[h] EXCEPT !.committed = TRUE],
         HeldFor(h, l)' => \A s \in Slots : KeepsBarriers(s)
  PROVE  Barred'
<1> USE LeaseAssumption DEF CoreInv, OnlyFence, Holdable
<1>1. /\ fence'[h].committed /\ fence'[h].lease = l /\ fence'[h].up
  BY DEF TypeOK, Fence
<1>2. ASSUME NEW g \in Hosts, g # h PROVE FenceFits(g)
  BY <1>2, FadedFits DEF FenceFades
<1>3. FenceFits(h) BY <1>1 DEF FenceFits, Clear, HeldFor
<1>4. HeldFor(h, l)' BY <1>1 DEF HeldFor
<1> QED BY <1>2, <1>3, <1>4, BarriersSafe DEF BarriersStay

\* A barrier is opened, wholly or in part, only for a lease that is being
\* released or is out of force.
LEMMA OpenSafe ==
  ASSUME CoreInv, HandlersFade, NEW h \in Hosts, OnlyFence(h),
         NEW l \in Leases, FenceFreeFor(h, l),
         coord.lease = l => coord.phase \in {"releasing", "idle"},
         fence'[h] \in {Open, [fence[h] EXCEPT !.up = FALSE]},
         (\A m \in Leases : fence'[h] = Open => Clear(h, m)')
           => \A s \in Slots : KeepsBarriers(s)
  PROVE  Barred'
<1> USE LeaseAssumption DEF CoreInv, OnlyFence, FenceFreeFor
<1>1. \/ fence'[h] = Open
      \/ /\ fence'[h].lease = fence[h].lease /\ ~fence'[h].up
         /\ fence'[h].committed = fence[h].committed
  BY DEF TypeOK, Fence
<1>2. ASSUME NEW g \in Hosts, g # h PROVE FenceFits(g)
  BY <1>2, FadedFits DEF FenceFades
<1>3. \A m \in Leases : fence'[h] = Open => Clear(h, m)' BY DEF Clear, Open
<1>4. \A m \in Leases : Clear(h, m) => Clear(h, m)'
  BY <1>1, <1>3, HoldingFades DEF Clear
<1>5. HeldFor(h, coord.lease) =>
        coord.phase \in {"idle", "reserved", "fencing", "releasing"}
  BY DEF HeldFor, Named
<1>6. FenceFits(h) BY <1>1, <1>4, <1>5 DEF FenceFits, Named, Open
<1> QED BY <1>2, <1>3, <1>6, BarriersSafe DEF BarriersStay

----------------------------------------------------------------------------
(* Steps that send something: a request to Selectel, a request to the      *)
(* coordinator, and what a worker does on its own                          *)

\* Nothing in the journal, no barrier and no worker moves.
OnlyHandlers == UNCHANGED <<coord, fence, worker, used, granted>>

\* A peer request carries the lease of the handler that waits for it, and that
\* handler already counts for what the request may do.
LEMMA SendSafe ==
  ASSUME CoreInv, NEW s \in Slots, NEW p \in PeerSlots, peer[p].pc = "free",
         NEW op, NEW pc,
         \/ call[s].pc = "armPeer" /\ pc = "armWait" /\ op = "close"
         \/ call[s].pc = "stepPeer" /\ pc = "stepWait" /\ op = "hold"
         \/ call[s].pc = "releasePeer" /\ pc = "releaseWait" /\ op = "open",
         peer' = [peer EXCEPT ![p] = [pc |-> "assert", op |-> op,
                                      lease |-> call[s].lease, caller |-> s]],
         GoesOn(s, pc, "waiting"), OnlyHandlers
  PROVE  Steady' /\ Tracked' /\ Barred'
<1> DEFINE l == call[s].lease
<1> USE LeaseAssumption, SlotAssumption DEF CoreInv, GoesOn, SameRequest, OnlyHandlers
<1>1. /\ peer'[p].pc = "assert" /\ peer'[p].op = op /\ peer'[p].lease = l
      /\ peer'[p].caller = s
      /\ \A q \in PeerSlots : q # p => peer'[q] = peer[q]
  BY DEF TypeOK
<1>2. l \in Leases /\ l \in used BY DEF Named, LeasesFresh
<1>3. \A q \in PeerSlots : peer[q].caller # s
  BY DEF CallersWait, WaitPc, TypeOK, Peer
<1>4. \A t \in Slots : call'[t].lease = call[t].lease /\ call'[t].actor = call[t].actor
                       /\ call'[t].step = call[t].step /\ call'[t].ok = call[t].ok
                       /\ call'[t].live = call[t].live
  OBVIOUS
<1>5. ClientsWait'
  <2>1. \A t \in Slots : \A k \in DOMAIN Serving :
          call[t].pc \in Serving[k] => call'[t].pc \in Serving[k]
    BY DEF Serving, ArmPcs, StepPcs, OpenPcs
  <2>2. \A t \in Slots : call[t].live =>
          Path[worker[call[t].actor].pc] \in DOMAIN Serving
    BY ClientAt DEF Path, Serving
  <2> QED BY <1>4, <2>1, <2>2 DEF ClientsWait
<1>6. CallersWait'
  <2>1. call'[s].pc = WaitPc[op] BY DEF WaitPc
  <2>2. \A q \in PeerSlots : q # p /\ peer[q].caller # NoSlot =>
          peer[q].caller \in Slots /\ peer[q].caller # s
    BY <1>3 DEF TypeOK, Peer
  <2>3. ASSUME NEW q \in PeerSlots, peer'[q].caller # NoSlot
        PROVE  /\ call'[peer'[q].caller].pc = WaitPc[peer'[q].op]
               /\ call'[peer'[q].caller].lease = peer'[q].lease
               /\ call'[peer'[q].caller].code = "waiting"
    BY <1>1, <2>1, <2>2, <2>3 DEF CallersWait
  <2>4. \A q, r \in PeerSlots : peer'[q].caller = peer'[r].caller =>
          q = r \/ peer'[q].caller = NoSlot
    BY <1>1, <1>3 DEF CallersWait
  <2>5. \A q \in PeerSlots : peer'[q].pc = "free" => peer'[q].caller = NoSlot
    BY <1>1 DEF CallersWait
  <2> QED BY <2>3, <2>4, <2>5 DEF CallersWait
<1>7. LeasesFresh' BY <1>1, <1>2, <1>4 DEF LeasesFresh, Unknown
<1>8. ClaimsFirst'
  <2>1. \A m : m # l /\ Unknown(m) => Unknown(m)' BY <1>1 DEF Unknown
  <2>2. \A t \in Slots : call'[t].pc = "claim" => call[t].pc = "claim" /\ t # s
    OBVIOUS
  <2>3. ASSUME NEW t \in Slots, call'[t].pc = "claim" PROVE Unknown(call[t].lease)'
    BY <1>4, <2>1, <2>2, <2>3 DEF ClaimsFirst, Unknown
  <2> QED BY <1>4, <2>1, <2>2, <2>3 DEF ClaimsFirst, Unknown
<1>9. \A m \in Leases : Arming(m)' => Arming(m)
  BY <1>1, <1>4 DEF Arming, PeerDoing, ArmPcs
<1>10. \A m \in Leases : NoHold(m) => NoHold(m)'
  BY <1>1, <1>4 DEF NoHold, PeerDoing, CommitPcs, StepPcs
<1>11. OneArming'
  <2>1. \A t \in Slots : call'[t].pc \in ArmPcs <=> call[t].pc \in ArmPcs
    BY DEF ArmPcs
  <2>2. op = "close" => \A q \in PeerSlots : ~PeerDoing(q, "close", l)
    BY DEF OneArming, ArmedOnce, ArmPcs
  <2>3. op = "close" => call[s].pc \in ArmPcs BY DEF ArmPcs
  <2>4. \A q \in PeerSlots : \A m \in Leases : PeerDoing(q, "close", m)' =>
          PeerDoing(q, "close", m) \/ (q = p /\ m = l /\ op = "close")
    BY <1>1 DEF PeerDoing
  <2>5. \A q, r \in PeerSlots : \A m \in Leases :
          PeerDoing(q, "close", m)' /\ PeerDoing(r, "close", m)' => q = r
    BY <2>2, <2>4 DEF OneArming, ArmedOnce
  <2>6. ASSUME NEW t \in Slots, NEW q \in PeerSlots, call'[t].pc \in ArmPcs,
               PeerDoing(q, "close", call[t].lease)'
        PROVE  call'[t].pc = "armWait" /\ call'[t].code # "ok"
    <3>1. call[t].lease \in Leases BY <2>1, <2>6 DEF Named, ArmPcs
    <3>2. PeerDoing(q, "close", call[t].lease) \/ (call[t].lease = l /\ op = "close")
      BY <1>4, <2>4, <2>6, <3>1 DEF PeerDoing
    <3>3. CASE t = s BY <2>1, <2>2, <2>6, <3>2, <3>3 DEF OneArming, ArmedOnce, ArmPcs
    <3>4. CASE t # s BY <2>1, <2>3, <2>6, <3>2, <3>4 DEF OneArming, ArmedOnce
    <3> QED BY <3>3, <3>4
  <2> QED BY <1>4, <2>1, <2>5, <2>6 DEF OneArming, ArmedOnce, PeerDoing
<1>12. RollbacksFail' BY DEF RollbacksFail
<1>13. PhasesFit' BY DEF PhasesFit
<1>14. ArmingFits' BY <1>9, <1>10 DEF ArmingFits, ArmedOnce
<1>15. NotYetArmed' BY <1>9, <1>10 DEF NotYetArmed, ArmedOnce, LeasesFresh
<1>16. CommitsAlone'
  <2>1. \A t \in Slots : call'[t].pc \in CommitPcs <=> call[t].pc \in CommitPcs
    BY DEF CommitPcs, StepPcs
  <2>2. \A q \in PeerSlots : PeerDoing(q, "hold", coord.lease)' =>
          \/ PeerDoing(q, "hold", coord.lease)
          \/ call[s].pc = "stepPeer" /\ l = coord.lease
    BY <1>1 DEF PeerDoing
  <2> QED BY <1>4, <2>1, <2>2 DEF CommitsAlone, CommitPcs, StepPcs, PeerDoing
<1>17. StepAgreed'
  <2>1. \A t \in Slots : call'[t].pc = "complete" => call[t].pc = "complete"
    OBVIOUS
  <2> QED BY <1>4, <2>1 DEF StepAgreed, Running, StepKept, StepOpen
<1>18. ReleasesEnd' BY DEF ReleasesEnd
<1>19. RestsSpent' BY <1>4 DEF RestsSpent
<1>20. CommitsHeld' BY <1>4 DEF CommitsHeld, HeldFor
<1>21. DestructiveHeld' BY DEF DestructiveHeld, HeldFor
<1>22. \A h \in Hosts : \A m \in Leases : Clear(h, m) => Clear(h, m)'
  BY <1>10 DEF Clear
<1>23. OldBarriersExpire' BY <1>22 DEF OldBarriersExpire, OutOfForce
<1>24. ReleasesOpen'
  <2>1. \A t \in Slots : /\ call'[t].pc \in OpenPcs <=> call[t].pc \in OpenPcs
                         /\ BothOpen(call'[t]) => BothOpen(call[t])
                         /\ call'[t].pc = "releaseDone" => call[t].pc = "releaseDone"
    BY DEF OpenPcs, BothOpen
  <2>2. ASSUME NEW t \in Slots, call'[t].pc \in OpenPcs, NEW m \in Leases,
               m = call[t].lease
        PROVE  /\ BothOpen(call'[t]) => Clear("selectel", m)'
               /\ call'[t].pc = "releaseDone" => Clear("ax41", m)'
    BY <1>22, <2>1, <2>2 DEF ReleasesOpen, BothOpen, Hosts
  <2>3. \A t \in Slots : call'[t].pc \in OpenPcs => call[t].lease \in Leases
    BY <2>1 DEF Named, OpenPcs
  <2>4. \A q \in PeerSlots : peer'[q].pc = "act" => peer'[q] = peer[q]
    BY <1>1
  <2> QED BY <1>4, <2>1, <2>2, <2>3, <2>4
          DEF ReleasesOpen, BothOpen, Clear, NoHold, PeerDoing
<1>25. Named' BY <1>1, <1>2, <1>4 DEF Named
<1> QED BY <1>5, <1>6, <1>7, <1>8, <1>11, <1>12, <1>13, <1>14, <1>15, <1>16,
           <1>17, <1>18, <1>19, <1>20, <1>21, <1>23, <1>24, <1>25
        DEF Steady, Tracked, Barred

\* While workers and calls alone move, and no call comes to hold or to open a
\* barrier, what the barriers rely on stays.
LEMMA BarredKept ==
  ASSUME CoreInv, UNCHANGED <<coord, fence, peer>>,
         \A s \in Slots : \/ call'[s] = call[s]
                          \/ /\ call'[s].pc \notin CommitPcs \cup OpenPcs
                             /\ call'[s].lease \in Leases
  PROVE  Barred'
<1> USE DEF CoreInv
<1>1. \A m \in Leases : NoHold(m) => NoHold(m)'
  BY DEF NoHold, PeerDoing
<1>2. \A h \in Hosts : \A m \in Leases : Clear(h, m) => Clear(h, m)'
  BY <1>1 DEF Clear
<1>3. CommitsHeld' BY DEF CommitsHeld, HeldFor, CommitPcs, StepPcs
<1>4. DestructiveHeld' BY DEF DestructiveHeld, HeldFor
<1>5. OldBarriersExpire' BY <1>2 DEF OldBarriersExpire, OutOfForce
<1>6. ReleasesOpen'
  <2>1. ASSUME NEW s \in Slots, call'[s].pc \in OpenPcs, NEW m \in Leases,
               m = call[s].lease
        PROVE  /\ call'[s] = call[s]
               /\ BothOpen(call'[s]) => Clear("selectel", m)'
               /\ call'[s].pc = "releaseDone" => Clear("ax41", m)'
    BY <1>2, <2>1 DEF ReleasesOpen, BothOpen, Hosts
  <2>2. \A s \in Slots : call'[s].pc \in OpenPcs =>
          call'[s] = call[s] /\ call[s].lease \in Leases
    BY DEF Named, OpenPcs
  <2> QED BY <2>1, <2>2
          DEF ReleasesOpen, BothOpen, Clear, NoHold, PeerDoing, OpenPcs
<1>7. Named' BY DEF Named
<1> QED BY <1>3, <1>4, <1>5, <1>6, <1>7 DEF Barred

\* A run that starts draws a token that nobody has seen.
LEMMA StartSafe ==
  ASSUME CoreInv, NEW h \in Hosts, NEW l \in Leases, Start(h, l)
  PROVE  Steady' /\ Tracked' /\ Barred'
<1> USE LeaseAssumption DEF CoreInv, Resting
<1>1. /\ UNCHANGED <<coord, fence, call, peer, granted>> /\ used' = used \cup {l}
      /\ worker[h].pc = "off" /\ worker[h].phase \in Resting /\ l \notin used
      /\ \A g \in Hosts : g # h => worker'[g] = worker[g]
      /\ worker'[h].pc = "claim" /\ worker'[h].reply = "unsent"
      /\ worker'[h].lease = l /\ worker'[h].phase = worker[h].phase
      /\ worker'[h].step = worker[h].step
  BY DEF Start, At, Rest, TypeOK, Process
<1>2. /\ Unknown(l) /\ \A s \in Slots : call[s].lease # l
      /\ \A g \in Hosts : worker[g].lease # l
  BY <1>1 DEF LeasesFresh
<1>3. \A m : Unknown(m)' = Unknown(m) BY <1>1 DEF Unknown
<1>4. \A s \in Slots : call[s].live => call[s].actor # h /\ call[s].actor \in Hosts
  BY <1>1 DEF ClientsWait, Path, TypeOK, Call
<1>5. ~Arming(l) BY <1>2 DEF Arming, PeerDoing, Unknown
<1>6. \A m : Arming(m)' = Arming(m) /\ NoHold(m)' = NoHold(m)
  BY <1>1 DEF Arming, NoHold, PeerDoing
<1>7. ClientsWait' BY <1>1, <1>4 DEF ClientsWait
<1>8. CallersWait' BY <1>1 DEF CallersWait
<1>9. LeasesFresh' BY <1>1, <1>2, <1>3 DEF LeasesFresh
<1>10. ClaimsFirst'
  <2>1. \A g \in Hosts : worker'[g].pc = "claim" /\ worker'[g].reply = "unsent" =>
          Unknown(worker'[g].lease) /\ \A s \in Slots : call'[s].lease # worker'[g].lease
    BY <1>1, <1>2 DEF ClaimsFirst
  <2> QED BY <1>1, <1>2, <2>1 DEF ClaimsFirst, Unknown
<1>11. OneArming' BY <1>1 DEF OneArming, ArmedOnce, PeerDoing
<1>12. RollbacksFail' BY <1>1 DEF RollbacksFail
<1>13. PhasesFit' BY <1>1 DEF PhasesFit
<1>14. ArmingFits' BY <1>1, <1>5, <1>6 DEF ArmingFits, ArmedOnce
<1>15. NotYetArmed' BY <1>1, <1>6 DEF NotYetArmed, ArmedOnce, LeasesFresh, Arming, NoHold, PeerDoing
<1>16. CommitsAlone' BY <1>1 DEF CommitsAlone, PeerDoing
<1>17. StepAgreed' BY <1>1 DEF StepAgreed, Running, RunningPhases, StepKept, StepOpen, UnsafePhases
<1>18. ReleasesEnd' BY <1>1 DEF ReleasesEnd
<1>19. RestsSpent' BY <1>1, <1>2 DEF RestsSpent, Unknown
<1>20. Barred' BY <1>1, BarredKept
<1> QED BY <1>7, <1>8, <1>9, <1>10, <1>11, <1>12, <1>13, <1>14, <1>15, <1>16,
           <1>17, <1>18, <1>19, <1>20
        DEF Steady, Tracked

\* A request gets a handler: it is the only one for its client, and the first
\* for its lease where the code relies on that.
LEMMA AcceptSafe ==
  ASSUME CoreInv, NEW h \in Hosts, NEW s \in Slots, Accept(h, s)
  PROVE  Steady' /\ Tracked' /\ Barred'
<1> DEFINE l == worker[h].lease
<1> USE LeaseAssumption, SlotAssumption DEF CoreInv
<1>1. /\ UNCHANGED <<coord, fence, peer, used, granted>>
      /\ worker[h].reply = "unsent" /\ call[s].pc = "free"
      /\ \A t \in Slots : t # s => call'[t] = call[t]
      /\ call'[s].pc = Path[worker[h].pc] /\ call'[s].actor = h /\ call'[s].lease = l
      /\ call'[s].step = worker[h].step /\ call'[s].live /\ call'[s].code = "none"
      /\ call'[s].ok = (worker[h].phase # "failed_unsafe")
      /\ \A g \in Hosts : g # h => worker'[g] = worker[g]
      /\ worker'[h].pc = worker[h].pc /\ worker'[h].phase = worker[h].phase
      /\ worker'[h].lease = l /\ worker'[h].step = worker[h].step
      /\ worker'[h].reply = "waiting"
  BY DEF Accept, TypeOK, Process
<1>2. worker[h].pc \in DOMAIN Path /\ worker[h].pc # "off" BY <1>1 DEF Asking, Path
<1>3. l \in Leases /\ l \in used BY <1>2 DEF LeasesFresh
<1>4. \A g \in Hosts : worker[g].lease = l => g = h BY <1>3 DEF LeasesFresh
<1>5. /\ call'[s].pc \in {"claim", "arm", "step", "preflight", "complete",
                          "verify", "release"}
      /\ call'[s].pc = "claim" <=> worker[h].pc = "claim"
      /\ call'[s].pc = "arm" <=> worker[h].pc = "arm"
      /\ call'[s].pc = "complete" <=> worker[h].pc \in {"complete", "completeRaise"}
  BY <1>1, <1>2 DEF Path
<1>6. \A m : Unknown(m)' = Unknown(m) BY <1>1 DEF Unknown
<1>7. worker[h].pc = "claim" =>
        Unknown(l) /\ \A t \in Slots : call[t].lease # l
  BY <1>1 DEF ClaimsFirst
<1>8. \A m : Arming(m)' => Arming(m) \/ (m = l /\ worker[h].pc = "arm")
  BY <1>1, <1>5 DEF Arming, PeerDoing, ArmPcs
<1>9. \A m : NoHold(m) => NoHold(m)'
  BY <1>1, <1>5 DEF NoHold, PeerDoing, CommitPcs, StepPcs
<1>10. worker[h].pc = "arm" =>
         /\ ~Arming(l) /\ NoHold(l)
         /\ coord.lease = l => coord.phase \in {"idle", "reserved", "releasing"}
  BY <1>1 DEF NotYetArmed, ArmedOnce
<1>11. ClientsWait'
  <2>1. \A t \in Slots : call[t].live => call[t].actor # h /\ call[t].actor \in Hosts
    BY <1>1 DEF ClientsWait, TypeOK, Call
  <2>2. call'[s].pc \in Serving[Path[worker[h].pc]]
    BY <1>1, <1>2 DEF Path, Serving, ArmPcs, StepPcs
  <2>3. \A t, u \in Slots : call'[t].live /\ call'[u].live
                            /\ call'[t].actor = call'[u].actor => t = u
    BY <1>1, <2>1 DEF ClientsWait
  <2> QED BY <1>1, <1>2, <2>1, <2>2, <2>3 DEF ClientsWait
<1>12. CallersWait'
  <2>1. \A q \in PeerSlots : peer[q].caller # NoSlot =>
          peer[q].caller \in Slots /\ peer[q].caller # s
    BY <1>1 DEF CallersWait, WaitPc, TypeOK, Peer
  <2> QED BY <1>1, <2>1 DEF CallersWait
<1>13. LeasesFresh'
  <2>1. \A t \in Slots : call'[t].lease \in {call[t].lease, l} BY <1>1
  <2>2. \A g \in Hosts : worker'[g].lease = worker[g].lease
                         /\ worker'[g].pc = worker[g].pc
    BY <1>1
  <2> QED BY <1>1, <1>3, <1>6, <2>1, <2>2 DEF LeasesFresh
<1>14. ClaimsFirst'
  <2>1. ASSUME NEW g \in Hosts, worker'[g].pc = "claim", worker'[g].reply = "unsent"
        PROVE  /\ Unknown(worker'[g].lease)
               /\ \A t \in Slots : call'[t].lease # worker'[g].lease
    BY <1>1, <1>4, <2>1 DEF ClaimsFirst
  <2>2. ASSUME NEW t \in Slots, call'[t].pc = "claim"
        PROVE  /\ Unknown(call'[t].lease)
               /\ \A u \in Slots : call'[u].lease = call'[t].lease => u = t
               /\ \A g \in Hosts : worker'[g].lease = call'[t].lease =>
                    \/ worker'[g].pc = "off"
                    \/ /\ worker'[g].pc = "claim"
                       /\ worker'[g].reply \in {"waiting", "busy"}
    <3>1. CASE t = s BY <1>1, <1>4, <1>5, <1>7, <2>2, <3>1
    <3>2. CASE t # s
      <4>1. call'[t] = call[t] /\ call[t].pc = "claim" BY <1>1, <2>2, <3>2
      <4>2. call[t].lease # l BY <1>1, <1>2, <4>1 DEF ClaimsFirst
      <4>3. \A g \in Hosts : worker'[g].lease = call[t].lease => g # h
        BY <1>1, <4>2
      <4> QED BY <1>1, <4>1, <4>2, <4>3 DEF ClaimsFirst
    <3> QED BY <3>1, <3>2
  <2> QED BY <1>1, <2>1, <2>2 DEF ClaimsFirst, Unknown
<1>15. OneArming'
  <2>1. \A t \in Slots : call'[t].pc \in ArmPcs =>
          IF t = s THEN worker[h].pc = "arm" ELSE call[t].pc \in ArmPcs
    BY <1>1, <1>5 DEF ArmPcs
  <2>2. worker[h].pc = "arm" =>
          /\ \A t \in Slots : call[t].pc \in ArmPcs => call[t].lease # l
          /\ \A q \in PeerSlots : ~PeerDoing(q, "close", l)
    BY <1>10 DEF Arming
  <2>3. \A t, u \in Slots : call'[t].pc \in ArmPcs /\ call'[u].pc \in ArmPcs
                            /\ call'[t].lease = call'[u].lease => t = u
    BY <1>1, <2>1, <2>2 DEF OneArming, ArmedOnce
  <2>4. ASSUME NEW t \in Slots, NEW q \in PeerSlots, call'[t].pc \in ArmPcs,
               PeerDoing(q, "close", call[t].lease)'
        PROVE  call'[t].pc = "armWait" /\ call'[t].code # "ok"
    BY <1>1, <2>1, <2>2, <2>4 DEF OneArming, ArmedOnce, PeerDoing
  <2> QED BY <1>1, <2>3, <2>4 DEF OneArming, ArmedOnce, PeerDoing
<1>16. RollbacksFail' BY <1>1, <1>5 DEF RollbacksFail
<1>17. PhasesFit' BY <1>1 DEF PhasesFit
<1>18. ArmingFits' BY <1>1, <1>4, <1>8, <1>9, <1>10 DEF ArmingFits, ArmedOnce
<1>19. NotYetArmed'
  <2>1. ASSUME NEW g \in Hosts,
               \/ worker'[g].pc = "claim" /\ worker'[g].reply = "ok"
               \/ worker'[g].pc = "arm" /\ worker'[g].reply = "unsent"
        PROVE  /\ g # h /\ worker'[g] = worker[g] /\ worker[g].lease \in Leases
               /\ worker[g].lease # l /\ NoHold(worker[g].lease)
               /\ ~Arming(worker[g].lease)
               /\ coord.lease = worker[g].lease =>
                    coord.phase \in {"idle", "reserved", "releasing"}
    BY <1>1, <1>4, <2>1 DEF NotYetArmed, ArmedOnce, LeasesFresh
  <2> QED BY <1>1, <1>8, <1>9, <2>1
          DEF NotYetArmed, ArmedOnce, Arming, NoHold, PeerDoing
<1>20. CommitsAlone'
  BY <1>1, <1>5 DEF CommitsAlone, CommitPcs, StepPcs, PeerDoing
<1>21. StepAgreed'
  <2>1. \A g \in Hosts :
          /\ Running(g)' = Running(g) /\ StepOpen(g)' = StepOpen(g)
          /\ worker'[g].step = worker[g].step /\ worker'[g].lease = worker[g].lease
          /\ worker'[g].pc = worker[g].pc
          /\ worker'[g].reply = "ok" => worker[g].reply = "ok"
    BY <1>1 DEF Running, StepKept, StepOpen
  <2>2. \A t \in Slots : call'[t].step <= granted BY <1>1 DEF StepAgreed, StepKept
  <2>3. call'[s].pc = "complete" /\ call'[s].ok => ~Running(h)
    BY <1>1, <1>5 DEF Running, RunningPhases, UnsafePhases, PhasesFit
  <2>4. ASSUME NEW g \in Hosts, NEW t \in Slots, call'[t].pc = "complete",
               call'[t].lease = worker[g].lease, call'[t].step = worker[g].step
        PROVE  /\ ~(worker[g].pc = "step" /\ worker[g].reply = "ok")
               /\ worker[g].pc \notin {"preflight", "native"}
               /\ call'[t].ok => ~Running(g)
    <3>1. CASE t = s
      <4>1. g = h BY <1>1, <1>4, <2>4, <3>1
      <4> QED BY <1>5, <2>3, <2>4, <3>1, <4>1
    <3>2. CASE t # s BY <1>1, <2>4, <3>2 DEF StepAgreed, StepKept
    <3> QED BY <3>1, <3>2
  <2> QED BY <1>1, <2>1, <2>2, <2>4 DEF StepAgreed, StepKept
<1>22. ReleasesEnd' BY <1>1 DEF ReleasesEnd
<1>23. RestsSpent'
  <2>1. ASSUME NEW g \in Hosts, worker'[g].pc \in {"off", "claim"},
               worker'[g].phase \in Resting, coord.lease = worker'[g].lease
        PROVE  \/ coord.phase = "idle"
               \/ /\ coord.phase = "reserved"
                  /\ \A t \in Slots : call'[t].lease # worker'[g].lease
    <3>1. g # h BY <1>1, <1>2, <1>7, <2>1 DEF Unknown
    <3>2. worker[g].lease # l BY <1>4, <3>1
    <3> QED BY <1>1, <2>1, <3>1, <3>2 DEF RestsSpent
  <2> QED BY <1>1, <2>1 DEF RestsSpent
<1>24. Barred' BY <1>1, <1>3, <1>5, BarredKept DEF CommitPcs, StepPcs, OpenPcs
<1> QED BY <1>11, <1>12, <1>13, <1>14, <1>15, <1>16, <1>17, <1>18, <1>19, <1>20,
           <1>21, <1>22, <1>23, <1>24
        DEF Steady, Tracked

\* A worker step follows the order of the run, and the answer it acts on says
\* what the coordinator has done.
LEMMA WorkerSafe ==
  ASSUME CoreInv, NEW h \in Hosts, WorkerStep(h)
  PROVE  Steady' /\ Tracked' /\ Barred'
<1> USE LeaseAssumption DEF CoreInv
<1>1. /\ UNCHANGED <<coord, fence, call, peer, used, granted>>
      /\ \A g \in Hosts : g # h => worker'[g] = worker[g]
      /\ worker'[h].lease = worker[h].lease /\ worker'[h].step = worker[h].step
  BY DEF WorkerStep
<1>2. InOrder(h) BY DEF WorkerStep
<1>3. \A m : Arming(m)' = Arming(m) /\ NoHold(m)' = NoHold(m) /\ Unknown(m)' = Unknown(m)
  BY <1>1 DEF Arming, NoHold, PeerDoing, Unknown
<1>4. \A g \in Hosts : worker'[g].lease = worker[g].lease BY <1>1
<1>5. ClientsWait'
  <2>1. \A s \in Slots : call[s].live => call[s].actor # h /\ call[s].actor \in Hosts
    BY <1>2 DEF InOrder, ClientsWait, TypeOK, Call
  <2> QED BY <1>1, <2>1 DEF ClientsWait
<1>6. CallersWait' BY <1>1 DEF CallersWait
<1>7. LeasesFresh' BY <1>1, <1>2, <1>3, <1>4 DEF LeasesFresh, InOrder
<1>8. ClaimsFirst'
  <2>1. \A g \in Hosts : worker'[g].pc = "claim" => worker'[g] = worker[g]
    BY <1>1, <1>2 DEF InOrder
  <2>2. ASSUME NEW s \in Slots, call[s].pc = "claim", NEW g \in Hosts,
               worker'[g].lease = call[s].lease
        PROVE  \/ worker'[g].pc = "off"
               \/ worker'[g].pc = "claim" /\ worker'[g].reply \in {"waiting", "busy"}
    BY <1>1, <1>2, <2>2 DEF InOrder, ClaimsFirst
  <2> QED BY <1>1, <2>1, <2>2 DEF ClaimsFirst, Unknown
<1>9. OneArming' BY <1>1 DEF OneArming, ArmedOnce, PeerDoing
<1>10. RollbacksFail' BY <1>1 DEF RollbacksFail
<1>11. PhasesFit' BY <1>1, <1>2 DEF PhasesFit, InOrder
<1>12. ArmingFits' BY <1>1, <1>2, <1>3 DEF ArmingFits, ArmedOnce, InOrder
<1>13. NotYetArmed'
  <2>1. \A g \in Hosts : \/ worker'[g].pc = "claim" /\ worker'[g].reply = "ok"
                         \/ worker'[g].pc = "arm" /\ worker'[g].reply = "unsent"
          => \/ worker[g].pc = "claim" /\ worker[g].reply = "ok"
             \/ worker[g].pc = "arm" /\ worker[g].reply = "unsent"
    BY <1>1, <1>2 DEF InOrder
  <2> QED BY <1>1, <1>4, <2>1 DEF NotYetArmed, ArmedOnce, Arming, NoHold, PeerDoing
<1>14. CommitsAlone' BY <1>1 DEF CommitsAlone, PeerDoing
<1>15. StepAgreed'
  <2>1. \A g \in Hosts : StepOpen(g)' = StepOpen(g) BY <1>1 DEF StepOpen
  <2>2. \A g \in Hosts : HasGrant(g)' => HasGrant(g)
    BY <1>1, <1>2 DEF HasGrant, InOrder
  <2>3. \A g \in Hosts : Running(g)' => HasGrant(g) \/ Running(g)
    BY <1>1, <1>2 DEF InOrder, Running
  <2> QED BY <1>1, <1>4, <2>1, <2>2, <2>3 DEF StepAgreed, StepKept, HasGrant
<1>16. ReleasesEnd'
  <2>1. worker'[h].reply # "ok" BY <1>2 DEF InOrder
  <2> QED BY <1>1, <2>1 DEF ReleasesEnd
<1>17. RestsSpent'
  <2>1. ASSUME NEW g \in Hosts, worker'[g].pc \in {"off", "claim"},
               worker'[g].phase \in Resting
        PROVE  \/ worker[g].pc \in {"off", "claim"} /\ worker[g].phase \in Resting
               \/ Acknowledged(g)
    BY <1>1, <1>2, <2>1 DEF InOrder, PhasesFit
  <2> QED BY <1>1, <1>4, <2>1 DEF RestsSpent, ReleasesEnd, Acknowledged
<1>18. Barred' BY <1>1, BarredKept
<1> QED BY <1>5, <1>6, <1>7, <1>8, <1>9, <1>10, <1>11, <1>12, <1>13, <1>14,
           <1>15, <1>16, <1>17, <1>18
        DEF Steady, Tracked

\* An install that passes the end of the window was unsafe work already.
LEMMA OverrunSafe ==
  ASSUME CoreInv, NEW h \in Hosts, Overrun(h)
  PROVE  Steady' /\ Tracked' /\ Barred'
<1> USE LeaseAssumption DEF CoreInv
<1>1. /\ UNCHANGED <<coord, fence, call, peer, used, granted>>
      /\ worker[h].phase = "installing" /\ worker'[h].phase = "overrun"
      /\ worker[h].pc \in {"preflight", "native"}
      /\ \A g \in Hosts :
           /\ worker'[g].pc = worker[g].pc /\ worker'[g].lease = worker[g].lease
           /\ worker'[g].step = worker[g].step /\ worker'[g].reply = worker[g].reply
           /\ g # h => worker'[g] = worker[g]
  BY DEF Overrun, Rest, TypeOK, Process
<1>2. \A m : Arming(m)' = Arming(m) /\ NoHold(m)' = NoHold(m) /\ Unknown(m)' = Unknown(m)
  BY <1>1 DEF Arming, NoHold, PeerDoing, Unknown
<1>3. ClientsWait'
  <2>1. \A s \in Slots : call[s].live => call[s].actor \in Hosts BY DEF TypeOK, Call
  <2> QED BY <1>1, <2>1 DEF ClientsWait
<1>4. CallersWait' BY <1>1 DEF CallersWait
<1>5. LeasesFresh' BY <1>1, <1>2 DEF LeasesFresh
<1>6. ClaimsFirst' BY <1>1 DEF ClaimsFirst, Unknown
<1>7. OneArming' BY <1>1 DEF OneArming, ArmedOnce, PeerDoing
<1>8. RollbacksFail' BY <1>1 DEF RollbacksFail
<1>9. PhasesFit' BY <1>1 DEF PhasesFit, Resting
<1>10. ArmingFits' BY <1>1, <1>2 DEF ArmingFits, ArmedOnce
<1>11. NotYetArmed'
  BY <1>1 DEF NotYetArmed, ArmedOnce, Arming, NoHold, PeerDoing
<1>12. CommitsAlone' BY <1>1 DEF CommitsAlone, PeerDoing
<1>13. StepAgreed'
  <2>1. \A g \in Hosts : /\ Running(g)' = Running(g)
                         /\ StepOpen(g)' = StepOpen(g)
    BY <1>1 DEF Running, RunningPhases, StepKept, StepOpen, UnsafePhases
  <2> QED BY <1>1, <2>1 DEF StepAgreed, StepKept
<1>14. ReleasesEnd' BY <1>1 DEF ReleasesEnd
<1>15. RestsSpent' BY <1>1 DEF RestsSpent
<1>16. Barred' BY <1>1, BarredKept
<1> QED BY <1>3, <1>4, <1>5, <1>6, <1>7, <1>8, <1>9, <1>10, <1>11, <1>12,
           <1>13, <1>14, <1>15, <1>16
        DEF Steady, Tracked

----------------------------------------------------------------------------
(* How the handlers of the AX41 agent fade                                  *)

\* The peer's handlers stay, and none of them has s for its caller any more.
PeersStay(s) ==
  \A p \in PeerSlots :
    /\ peer'[p].pc = peer[p].pc /\ peer'[p].op = peer[p].op
    /\ peer'[p].lease = peer[p].lease
    /\ peer'[p].caller \in {peer[p].caller, NoSlot} /\ peer'[p].caller # s

\* Nobody waits to answer a handler that does not wait for an answer.
LEMMA PeersAreOff ==
  ASSUME CoreInv, NEW s \in Slots, peer' = peer,
         \/ call[s].pc \notin {"armWait", "stepWait", "releaseWait"}
         \/ call[s].code # "waiting"
  PROVE  PeersStay(s)
  BY SlotAssumption DEF PeersStay, CoreInv, CallersWait, WaitPc, TypeOK, Peer

\* A handler that is answered fades, with whatever it knew.
LEMMA EndFades ==
  ASSUME CoreInv, NEW s \in Slots, NEW code \in Answers, Ended(s, code),
         PeersStay(s), LeasesKept
  PROVE  /\ HandlersFade /\ CommitsFade /\ OpensFit
         /\ \A t \in Slots : KeepsBarriers(t)
<1> USE DEF Ended
<1>1. \A t \in Slots : CallFades(t)
  BY DEF CallFades, KeepsRequest, KeepsStage, CoreInv, RollbacksFail
<1>2. \A p \in PeerSlots : PeerFades(p) BY DEF PeersStay, PeerFades
<1>3. ASSUME NEW h \in Hosts PROVE WorkerFades(h)
  <2>1. CASE call[s].live /\ h = call[s].actor
    <3>1. \A t \in Slots : call'[t].live => call'[t].actor # h
      BY <2>1 DEF CoreInv, ClientsWait, FreeCall
    <3> QED BY <2>1, <3>1 DEF WorkerFades
  <2>2. CASE ~(call[s].live /\ h = call[s].actor)
    BY <2>2 DEF WorkerFades
  <2> QED BY <2>1, <2>2
<1>4. CallersStay
  <2>1. \A p \in PeerSlots : \A t \in Slots : peer'[p].caller = t => t # s
    BY DEF PeersStay
  <2> QED BY <2>1 DEF CallersStay
<1>5. CommitsFade BY DEF CommitsFade, FreeCall, CommitPcs, StepPcs
<1>6. OpensFit BY DEF OpensFit, PeersStay
<1>7. \A t \in Slots : KeepsBarriers(t)
  BY DEF KeepsBarriers, FreeCall, HeldPcs, OpenPcs, BothHeld, BothOpen
<1> QED BY <1>1, <1>2, <1>3, <1>4, <1>5, <1>6, <1>7 DEF HandlersFade

\* A handler that goes on with its request fades, if its stage is kept.
LEMMA GoFades ==
  ASSUME CoreInv, NEW s \in Slots, NEW pc, NEW code, GoesOn(s, pc, code),
         KeepsStage(s), PeersStay(s), LeasesKept,
         pc \in CommitPcs => call[s].pc \in CommitPcs
  PROVE  /\ HandlersFade /\ CommitsFade /\ OpensFit
         /\ KeepsBarriers(s) => \A t \in Slots : KeepsBarriers(t)
<1> USE DEF GoesOn, SameRequest
<1>1. \A t \in Slots : CallFades(t)
  BY DEF CallFades, KeepsRequest, KeepsStage, CoreInv, RollbacksFail
<1>2. \A p \in PeerSlots : PeerFades(p) BY DEF PeersStay, PeerFades
<1>3. \A h \in Hosts : WorkerFades(h) BY DEF WorkerFades
<1>4. CallersStay
  <2>1. \A p \in PeerSlots : \A t \in Slots : peer'[p].caller = t => t # s
    BY DEF PeersStay
  <2> QED BY <2>1 DEF CallersStay
<1>5. CommitsFade BY DEF CommitsFade
<1>6. OpensFit BY DEF OpensFit, PeersStay
<1>7. ASSUME NEW t \in Slots, t # s PROVE KeepsBarriers(t)
  BY <1>7 DEF KeepsBarriers
<1> QED BY <1>1, <1>2, <1>3, <1>4, <1>5, <1>6, <1>7 DEF HandlersFade

\* A handler that only answers, and confirms nothing that is not so, is safe.
LEMMA AnswerSafe ==
  ASSUME CoreInv, NEW s \in Slots, NEW code \in Answers, Finish(s, code),
         PeersStay(s), UNCHANGED <<coord, fence, used, granted>>,
         code = "ok" => Confirmed(s)
  PROVE  Steady' /\ Tracked' /\ Barred'
<1>1. Ended(s, code) /\ KeepsSteps
  BY FinishEnds DEF CoreInv, Answers, Reply
<1>2. LeasesKept BY DEF LeasesKept
<1>3. /\ HandlersFade /\ CommitsFade /\ OpensFit
      /\ \A t \in Slots : KeepsBarriers(t)
  BY <1>1, <1>2, EndFades
<1>4. JournalStays
  BY <1>1, <1>3 DEF JournalStays, Ended, KeepsSteps
<1>5. BarriersStay
  BY <1>3, FadedFits DEF BarriersStay, FenceFades
<1> QED BY <1>3, <1>4, <1>5, FadingSafe, JournalSafe, BarriersSafe

\* Such a step, with journal and barriers left alone, keeps every part of CoreInv.
LEMMA GoSafe ==
  ASSUME CoreInv, NEW s \in Slots, NEW pc, NEW code, GoesOn(s, pc, code),
         KeepsStage(s), PeersStay(s), KeepsBarriers(s),
         UNCHANGED <<coord, fence, used, granted>>,
         pc \in CommitPcs => call[s].pc \in CommitPcs
  PROVE  Steady' /\ Tracked' /\ Barred'
<1>1. LeasesKept BY DEF LeasesKept
<1>2. /\ HandlersFade /\ CommitsFade /\ OpensFit
      /\ \A t \in Slots : KeepsBarriers(t)
  BY <1>1, GoFades
<1>3. JournalStays
  BY <1>2 DEF JournalStays, GoesOn
<1>4. BarriersStay
  BY <1>2, FadedFits DEF BarriersStay, FenceFades
<1> QED BY <1>2, <1>3, <1>4, FadingSafe, JournalSafe, BarriersSafe

\* The two ways of moving a handler on are GoesOn: with an answer to remember,
LEMMA ChangedCall ==
  ASSUME TypeOK, NEW s \in Slots, NEW pc, NEW code, worker' = worker,
         call' = [call EXCEPT ![s].pc = pc, ![s].code = code]
  PROVE  GoesOn(s, pc, code)
<1>1. call[s] \in Call BY DEF TypeOK
<1>2. call'[s] = [call[s] EXCEPT !.pc = pc, !.code = code] BY DEF TypeOK
<1>3. \A t \in Slots : t # s => call'[t] = call[t] BY DEF TypeOK
<1>4. call'[s].pc = pc /\ call'[s].code = code BY <1>1, <1>2 DEF Call
<1>5. call'[s].actor = call[s].actor /\ call'[s].lease = call[s].lease
  BY <1>1, <1>2 DEF Call
<1>6. call'[s].step = call[s].step /\ call'[s].ok = call[s].ok
  BY <1>1, <1>2 DEF Call
<1>7. call'[s].live = call[s].live BY <1>1, <1>2 DEF Call
<1> QED BY <1>3, <1>4, <1>5, <1>6, <1>7 DEF GoesOn, SameRequest

\* and without.
LEMMA MovedCall ==
  ASSUME TypeOK, NEW s \in Slots, NEW pc, worker' = worker, Goto(s, pc)
  PROVE  GoesOn(s, pc, call[s].code)
<1>1. call[s] \in Call BY DEF TypeOK
<1>2. call'[s] = [call[s] EXCEPT !.pc = pc] BY DEF TypeOK, Goto
<1>3. \A t \in Slots : t # s => call'[t] = call[t] BY DEF TypeOK, Goto
<1> QED BY <1>1, <1>2, <1>3 DEF GoesOn, SameRequest, Call

\* The sections of one handler follow each other.
LEMMA ArmGoesOn ==
  ASSUME NEW s \in Slots, call[s].pc \in ArmPcs \ {"armWait"}, call'[s].pc \in ArmPcs
  PROVE  KeepsStage(s) /\ KeepsBarriers(s) /\ call'[s].pc \notin CommitPcs
  BY DEF KeepsStage, KeepsBarriers, ArmPcs, StepPcs, OpenPcs, CommitPcs, Serving,
         HeldPcs, BothHeld, BothOpen

\* So do those of /lease/step,
LEMMA StepGoesOn ==
  ASSUME NEW s \in Slots, call[s].pc \in StepPcs, call'[s].pc \in StepPcs,
         call'[s].pc = "stepRollback" => call'[s].code \in Failures
  PROVE  KeepsStage(s)
  BY DEF KeepsStage, ArmPcs, StepPcs, OpenPcs, CommitPcs, Serving

\* and those of /lease/release.
LEMMA ReleaseGoesOn ==
  ASSUME NEW s \in Slots, call[s].pc \in {"release"} \cup OpenPcs, call'[s].pc \in OpenPcs
  PROVE  KeepsStage(s) /\ call'[s].pc \notin CommitPcs
  BY DEF KeepsStage, ArmPcs, StepPcs, OpenPcs, CommitPcs, Serving

\* A commit is abandoned: the barriers stay as they are.
LEMMA AbandonSafe ==
  ASSUME CoreInv, NEW s \in Slots, NEW code \in Failures, StepAbandon(s, code),
         call[s].pc \in {"stepHold", "stepWait"}, call[s].code # "waiting"
                                                  \/ call[s].pc = "stepHold",
         UNCHANGED <<used, granted>>
  PROVE  Steady' /\ Tracked' /\ Barred'
<1>1. GoesOn(s, "stepRollback", code) BY ChangedCall DEF StepAbandon, CoreInv
<1>2. KeepsStage(s) BY <1>1, StepGoesOn DEF GoesOn, StepPcs
<1>3. KeepsBarriers(s)
  BY <1>1 DEF KeepsBarriers, GoesOn, HeldPcs, OpenPcs, BothHeld, BothOpen
<1>4. PeersStay(s) BY PeersAreOff DEF StepAbandon
<1> QED BY <1>1, <1>2, <1>3, <1>4, GoSafe DEF StepAbandon, CommitPcs, StepPcs

\* A step that moves the phase alone, or other fields that name no lease.
LEMMA LeasesStay ==
  ASSUME UNCHANGED <<fence, used>>, coord'.lease = coord.lease,
         coord'.released = coord.released
  PROVE  LeasesKept
  BY DEF LeasesKept

\* A journal in which the phase was replaced differs in nothing else.
LEMMA PhaseMoved ==
  ASSUME TypeOK, NEW ph, coord' = [coord EXCEPT !.phase = ph], granted' = granted
  PROVE  OnlyPhase(ph)
  BY DEF OnlyPhase, TypeOK, Journal

\* A refusal changes nothing but the handler and its client.
LEMMA DenySafe ==
  ASSUME CoreInv, NEW s \in Slots, Deny(s), UNCHANGED <<used, granted>>,
         \/ call[s].pc \notin {"armWait", "stepWait", "releaseWait"}
         \/ call[s].code # "waiting"
  PROVE  Steady' /\ Tracked' /\ Barred'
<1>1. PeersStay(s) BY PeersAreOff DEF Deny
<1> QED BY <1>1, AnswerSafe DEF Deny, Answers

\* The peer's refusal is answered as it is.
LEMMA RefusedSafe ==
  ASSUME CoreInv, NEW s \in Slots, NEW pc, PeerRefused(s, pc), UNCHANGED <<used, granted>>
  PROVE  Steady' /\ Tracked' /\ Barred'
<1>1. call[s].code \in {"busy", "denied"} BY DEF PeerRefused, PeerAnswered
<1>2. PeersStay(s) BY <1>1, PeersAreOff DEF PeerRefused
<1> QED BY <1>1, <1>2, AnswerSafe DEF PeerRefused, Answers

\* What every answer of a handler that is not waiting has in common.
LEMMA FinishFades ==
  ASSUME CoreInv, NEW s \in Slots, NEW code \in Answers, Finish(s, code), LeasesKept,
         peer' = peer, \/ call[s].pc \notin {"armWait", "stepWait", "releaseWait"}
                       \/ call[s].code # "waiting"
  PROVE  /\ Ended(s, code) /\ KeepsSteps
         /\ HandlersFade /\ CommitsFade /\ OpensFit
         /\ \A t \in Slots : KeepsBarriers(t)
<1>1. Ended(s, code) /\ KeepsSteps
  BY FinishEnds DEF CoreInv, Answers, Reply
<1> QED BY <1>1, PeersAreOff, EndFades

\* The sections of /lease/claim and /lease/fence.
LEMMA ArmHandlingSafe ==
  ASSUME CoreInv, NEW s \in Slots, Claim(s) \/ ArmBegin(s) \/ ArmClose(s)
                                \/ ArmPeer(s) \/ ArmEnd(s)
  PROVE  Steady' /\ Tracked' /\ Barred'
<1> USE DEF AtCall, Static
<1>0. "ok" \in Answers /\ "denied" \in Answers BY DEF Answers
<1>1. CASE Claim(s)
  <2>1. CASE Deny(s) BY <1>1, <2>1, DenySafe DEF Claim
  <2>2. CASE ~Deny(s)
    <3>1. Ended(s, "ok") /\ KeepsSteps
      BY <1>1, <2>2, FinishEnds DEF Claim, CoreInv, Reply
    <3> QED BY <1>1, <2>2, <3>1, ClaimSafe DEF Claim
  <2> QED BY <2>1, <2>2
<1>2. CASE ArmBegin(s)
  <2>1. CASE Deny(s) BY <1>2, <2>1, DenySafe DEF ArmBegin
  <2>2. CASE ~Deny(s)
    <3>1. GoesOn(s, "armClose", call[s].code)
      BY <1>2, <2>2, MovedCall DEF ArmBegin, CoreInv
    <3>2. OnlyPhase("fencing") BY <1>2, <2>2, PhaseMoved DEF ArmBegin, CoreInv
    <3>3. KeepsStage(s) BY <1>2, <3>1, ArmGoesOn DEF ArmBegin, ArmPcs, GoesOn
    <3>4. LeasesKept BY <1>2, <2>2, <3>2, LeasesStay DEF ArmBegin, OnlyPhase
    <3>5. HandlersFade
      BY <1>2, <2>2, <3>1, <3>3, <3>4, GoFades, PeersAreOff
      DEF ArmBegin, CommitPcs, StepPcs
    <3> QED BY <1>2, <2>2, <3>1, <3>2, <3>5, FadingSafe, ArmBeginSafe
            DEF ArmBegin, OnlyJournal
  <2> QED BY <2>1, <2>2
<1>3. CASE ArmClose(s)
  <2> DEFINE l == call[s].lease
  <2>1. CASE Deny(s) BY <1>3, <2>1, DenySafe DEF ArmClose
  <2>2. CASE ~Deny(s)
    <3>1. PICK up \in BOOLEAN : CloseFence("ax41", l, up)
      BY <1>3, <2>2 DEF ArmClose
    <3>2. /\ FenceFreeFor("ax41", l) /\ peer' = peer
          /\ UNCHANGED <<coord, used, granted>>
      BY <1>3, <2>2 DEF ArmClose
    <3>3. /\ fence'["ax41"].lease = l
          /\ fence'["ax41"].committed = fence["ax41"].committed
          /\ \A g \in Hosts : g # "ax41" => fence'[g] = fence[g]
      BY <3>1 DEF CloseFence, CoreInv, TypeOK, Hosts
    <3>4. l \in Leases /\ Arming(l) /\ Known(l)
      BY <1>3 DEF ArmClose, CoreInv, Named, Arming, ArmPcs, Known
    <3>5. LeasesKept BY <3>2, <3>3, <3>4 DEF LeasesKept
    <3>6. /\ HandlersFade /\ JournalStays /\ OpensFit
          /\ \A t \in Slots : KeepsBarriers(t)
      <4>1. CASE Finish(s, "denied")
        BY <1>0, <1>3, <3>2, <3>5, <4>1, FinishFades
        DEF ArmClose, JournalStays, Ended, KeepsSteps
      <4>2. CASE Goto(s, "armPeer") /\ worker' = worker
        <5>1. GoesOn(s, "armPeer", call[s].code) BY <4>2, MovedCall DEF CoreInv
        <5>2. KeepsStage(s) /\ KeepsBarriers(s)
          BY <1>3, <5>1, ArmGoesOn DEF ArmClose, ArmPcs, GoesOn
        <5> QED BY <1>3, <3>2, <3>5, <5>1, <5>2, GoFades, PeersAreOff
                DEF ArmClose, CommitPcs, StepPcs, JournalStays, GoesOn
      <4> QED BY <1>3, <2>2, <4>1, <4>2 DEF ArmClose
    <3>7. OnlyFence("ax41") BY <3>2, <3>3, <3>6 DEF OnlyFence, JournalStays
    <3> QED BY <3>2, <3>3, <3>4, <3>6, <3>7, FadingSafe, JournalSafe, CloseSafe
            DEF Hosts
  <2> QED BY <2>1, <2>2
<1>4. CASE ArmPeer(s)
  <2>1. PICK p \in PeerSlots :
          /\ peer[p].pc = "free"
          /\ peer' = [peer EXCEPT ![p] = [pc |-> "assert", op |-> "close",
                                          lease |-> call[s].lease, caller |-> s]]
          /\ call' = [call EXCEPT ![s].pc = WaitAfter[call[s].pc],
                                  ![s].code = "waiting"]
    BY <1>4 DEF ArmPeer, PeerSend
  <2>2. WaitAfter[call[s].pc] = "armWait" BY <1>4 DEF ArmPeer, WaitAfter
  <2>3. GoesOn(s, "armWait", "waiting")
    BY <1>4, <2>1, <2>2, ChangedCall DEF ArmPeer, CoreInv
  <2> QED BY <1>4, <2>1, <2>3, SendSafe DEF ArmPeer, OnlyHandlers
<1>5. CASE ArmEnd(s)
  <2>1. CASE PeerRefused(s, "armWait") BY <1>5, <2>1, RefusedSafe DEF ArmEnd
  <2>2. CASE Deny(s) /\ PeerAnswered(s, "armWait", {"ok"})
    BY <1>5, <2>2, DenySafe DEF ArmEnd, PeerAnswered
  <2>3. CASE /\ PeerAnswered(s, "armWait", {"ok"}) /\ Owns(s)
             /\ coord.phase = "fencing"
             /\ coord' = [coord EXCEPT !.phase = "fenced"]
             /\ Finish(s, "ok") /\ UNCHANGED <<fence, peer>>
    <3>1. OnlyPhase("fenced") BY <1>5, <2>3, PhaseMoved DEF ArmEnd, CoreInv
    <3>2. LeasesKept BY <1>5, <2>3, <3>1, LeasesStay DEF ArmEnd, OnlyPhase
    <3>3. Ended(s, "ok") /\ KeepsSteps /\ HandlersFade
      BY <1>0, <2>3, <3>2, FinishFades DEF PeerAnswered
    <3> QED BY <2>3, <3>1, <3>3, FadingSafe, ArmEndSafe DEF PeerAnswered, OnlyJournal
  <2> QED BY <1>5, <2>1, <2>2, <2>3 DEF ArmEnd
<1> QED BY <1>1, <1>2, <1>3, <1>4, <1>5

\* The sections of /lease/step.
LEMMA StepHandlingSafe ==
  ASSUME CoreInv, NEW s \in Slots,
         \/ StepObserve(s) \/ StepCommit(s) \/ StepHold(s) \/ StepPeer(s)
         \/ StepValidate(s) \/ StepRollback(s) \/ StepGrant(s)
  PROVE  Steady' /\ Tracked' /\ Barred'
<1> USE DEF AtCall, Static
<1>0. "ok" \in Answers /\ "denied" \in Answers /\ "retry" \in Answers
      /\ Failures \subseteq Answers /\ "retry" \in Failures /\ "denied" \in Failures
      /\ "busy" \in Failures
  BY DEF Answers, Failures
<1>1. CASE StepObserve(s)
  <2>1. CASE Deny(s) BY <1>1, <2>1, DenySafe DEF StepObserve
  <2>2. CASE Finish(s, "retry") /\ ~Deny(s)
    BY <1>0, <1>1, <2>2, AnswerSafe, PeersAreOff DEF StepObserve
  <2>3. CASE ~Deny(s) /\ ~Finish(s, "retry")
    <3>1. GoesOn(s, "stepCommit", call[s].code)
      BY <1>1, <2>3, MovedCall DEF StepObserve, CoreInv
    <3>2. KeepsStage(s) BY <1>1, <3>1, StepGoesOn DEF StepObserve, GoesOn, StepPcs
    <3>3. KeepsBarriers(s)
      BY <3>1 DEF KeepsBarriers, GoesOn, HeldPcs, OpenPcs, BothHeld, BothOpen
    <3> QED BY <1>1, <2>3, <3>1, <3>2, <3>3, GoSafe, PeersAreOff
            DEF StepObserve, CommitPcs
  <2> QED BY <2>1, <2>2, <2>3
<1>2. CASE StepCommit(s)
  <2>1. CASE Deny(s) BY <1>2, <2>1, DenySafe DEF StepCommit
  <2>2. CASE ~Deny(s)
    <3>1. GoesOn(s, "stepHold", call[s].code)
      BY <1>2, <2>2, MovedCall DEF StepCommit, CoreInv
    <3>2. OnlyPhase("committing") BY <1>2, <2>2, PhaseMoved DEF StepCommit, CoreInv
    <3>3. KeepsStage(s) BY <1>2, <3>1, StepGoesOn DEF StepCommit, GoesOn, StepPcs
    <3>4. LeasesKept BY <1>2, <2>2, <3>2, LeasesStay DEF StepCommit, OnlyPhase
    <3>5. PeersStay(s) BY <1>2, <2>2, PeersAreOff DEF StepCommit
    <3>6. HandlersFade
      <4>1. \A t \in Slots : CallFades(t)
        BY <3>1, <3>3 DEF CallFades, GoesOn, SameRequest, KeepsRequest, KeepsStage,
                          CoreInv, RollbacksFail
      <4>2. \A p \in PeerSlots : PeerFades(p) BY <3>5 DEF PeersStay, PeerFades
      <4>3. \A h \in Hosts : WorkerFades(h) BY <3>1 DEF WorkerFades, GoesOn
      <4>4. CallersStay BY <3>1, <3>5 DEF CallersStay, PeersStay, GoesOn
      <4> QED BY <3>4, <4>1, <4>2, <4>3, <4>4 DEF HandlersFade
    <3> QED BY <1>2, <2>2, <3>1, <3>2, <3>6, FadingSafe, StepCommitSafe
            DEF StepCommit, OnlyJournal
  <2> QED BY <2>1, <2>2
<1>3. CASE StepHold(s)
  <2> DEFINE l == call[s].lease
  <2>1. CASE StepAbandon(s, "denied")
    BY <1>0, <1>3, <2>1, AbandonSafe DEF StepHold
  <2>2. CASE ~StepAbandon(s, "denied")
    <3>1. GoesOn(s, "stepPeer", call[s].code)
      BY <1>3, <2>2, MovedCall DEF StepHold, CoreInv
    <3>2. KeepsStage(s) BY <1>3, <3>1, StepGoesOn DEF StepHold, GoesOn, StepPcs
    <3>3. /\ Holdable("ax41", l) /\ UNCHANGED <<coord, worker, peer, used, granted>>
          /\ fence'["ax41"] = [fence["ax41"] EXCEPT !.committed = TRUE]
          /\ fence'["ax41"].lease = fence["ax41"].lease
          /\ \A g \in Hosts : g # "ax41" => fence'[g] = fence[g]
      BY <1>3, <2>2 DEF StepHold, HoldFence, CoreInv, TypeOK, Hosts, Fence
    <3>4. LeasesKept BY <3>3 DEF LeasesKept
    <3>5. /\ HandlersFade /\ CommitsFade /\ OpensFit
          /\ KeepsBarriers(s) => \A t \in Slots : KeepsBarriers(t)
      BY <1>3, <3>1, <3>2, <3>3, <3>4, GoFades, PeersAreOff
      DEF StepHold, CommitPcs, StepPcs
    <3>6. JournalStays BY <3>3, <3>5 DEF JournalStays
    <3>7. l \in Leases /\ ~NoHold(l)
      BY <1>3 DEF StepHold, CoreInv, Named, NoHold, CommitPcs, StepPcs
    <3>8. PICK m \in Leases : m = l BY <3>7
    <3>9. HeldFor("ax41", m)' => KeepsBarriers(s)
      BY <3>1, <3>8
      DEF KeepsBarriers, GoesOn, SameRequest, HeldPcs, OpenPcs, BothHeld, BothOpen,
          HeldFor
    <3>10. OnlyFence("ax41") BY <3>3, <3>5 DEF OnlyFence
    <3>11. ~NoHold(m) /\ Holdable("ax41", m) BY <3>3, <3>7, <3>8
    <3>12. Barred' BY <3>3, <3>5, <3>9, <3>10, <3>11, HoldSafe DEF Hosts
    <3> QED BY <3>5, <3>6, <3>12, FadingSafe, JournalSafe
  <2> QED BY <2>1, <2>2
<1>4. CASE StepPeer(s)
  <2>1. PICK p \in PeerSlots :
          /\ peer[p].pc = "free"
          /\ peer' = [peer EXCEPT ![p] = [pc |-> "assert", op |-> "hold",
                                          lease |-> call[s].lease, caller |-> s]]
          /\ call' = [call EXCEPT ![s].pc = WaitAfter[call[s].pc],
                                  ![s].code = "waiting"]
    BY <1>4 DEF StepPeer, PeerSend
  <2>2. WaitAfter[call[s].pc] = "stepWait" BY <1>4 DEF StepPeer, WaitAfter
  <2>3. GoesOn(s, "stepWait", "waiting")
    BY <1>4, <2>1, <2>2, ChangedCall DEF StepPeer, CoreInv
  <2> QED BY <1>4, <2>1, <2>3, SendSafe DEF StepPeer, OnlyHandlers
<1>5. CASE StepValidate(s)
  <2>1. call[s].pc = "stepWait" /\ call[s].code # "waiting"
    BY <1>5 DEF StepValidate, PeerAnswered
  <2>2. CASE StepAbandon(s, "denied") \/ StepAbandon(s, "retry")
             \/ (StepAbandon(s, call[s].code) /\ call[s].code \in {"busy", "denied"})
    BY <1>0, <1>5, <2>1, <2>2, AbandonSafe DEF StepValidate, Failures
  <2>3. CASE /\ Goto(s, "stepGrant") /\ call[s].code = "ok"
             /\ UNCHANGED <<coord, fence, worker, peer>>
    <3>1. GoesOn(s, "stepGrant", call[s].code) BY <2>3, MovedCall DEF CoreInv
    <3>2. KeepsStage(s) BY <2>1, <3>1, StepGoesOn DEF GoesOn, StepPcs
    <3>3. KeepsBarriers(s)
      BY <2>1, <2>3, <3>1
      DEF KeepsBarriers, GoesOn, HeldPcs, OpenPcs, BothHeld, BothOpen
    <3> QED BY <1>5, <2>1, <2>3, <3>1, <3>2, <3>3, GoSafe, PeersAreOff
            DEF StepValidate, CommitPcs, StepPcs
  <2> QED BY <1>5, <2>2, <2>3 DEF StepValidate, PeerAnswered
<1>6. CASE StepRollback(s)
  <2>1. CASE Deny(s) BY <1>6, <2>1, DenySafe DEF StepRollback
  <2>2. CASE ~Deny(s)
    <3>1. PICK code \in Failures : code = call[s].code
      BY <1>6 DEF StepRollback, CoreInv, RollbacksFail
    <3>2. code # "ok" BY DEF Failures
    <3>3. CASE coord.phase # "committing"
      BY <1>0, <1>6, <2>2, <3>1, <3>2, <3>3, AnswerSafe, PeersAreOff DEF StepRollback
    <3>4. CASE coord.phase = "committing"
      <4> DEFINE ph == IF coord.destructive THEN "verifying" ELSE "fenced"
      <4>1. OnlyPhase(ph) BY <1>6, <2>2, <3>4, PhaseMoved DEF StepRollback, CoreInv
      <4>2. LeasesKept BY <1>6, <2>2, <4>1, LeasesStay DEF StepRollback, OnlyPhase
      <4>3. Ended(s, code) /\ KeepsSteps /\ HandlersFade
        BY <1>0, <1>6, <2>2, <3>1, <4>2, FinishFades DEF StepRollback
      <4> QED BY <1>6, <2>2, <3>4, <4>1, <4>3, FadingSafe, StepRollbackSafe
              DEF StepRollback, OnlyJournal
    <3> QED BY <3>3, <3>4
  <2> QED BY <2>1, <2>2
<1>7. CASE StepGrant(s)
  <2>1. CASE Deny(s) /\ granted' = granted BY <1>7, <2>1, DenySafe DEF StepGrant
  <2>2. CASE ~(Deny(s) /\ granted' = granted)
    <3>1. /\ Owns(s) /\ coord.phase = "committing" /\ granted' = granted + 1
          /\ coord' = [coord EXCEPT !.phase = "step_running", !.step = granted',
                                    !.destructive = TRUE]
          /\ call' = [call EXCEPT ![s] = FreeCall]
          /\ worker' = IF call[s].live
                       THEN [worker EXCEPT ![call[s].actor].reply = "ok",
                                           ![call[s].actor].step = granted']
                       ELSE worker
          /\ UNCHANGED <<fence, peer, used>>
          /\ call[s].pc = "stepGrant"
      BY <1>7, <2>2 DEF StepGrant
    <3>2. /\ coord'.phase = "step_running" /\ coord'.owner = coord.owner
          /\ coord'.lease = coord.lease /\ coord'.released = coord.released
          /\ coord'.releaseVerified = coord.releaseVerified
          /\ coord'.destructive = TRUE /\ coord'.step = granted'
      BY <3>1 DEF CoreInv, TypeOK, Journal
    <3>3. call'[s] = FreeCall /\ \A t \in Slots : t # s => call'[t] = call[t]
      BY <3>1 DEF CoreInv, TypeOK
    <3>4. call[s].actor \in Hosts BY DEF CoreInv, TypeOK, Call
    <3>5. /\ \A h \in Hosts : IF call[s].live /\ h = call[s].actor
              THEN worker'[h].reply = "ok" /\ worker'[h].step = granted'
              ELSE worker'[h] = worker[h]
          /\ \A h \in Hosts : /\ worker'[h].pc = worker[h].pc
                              /\ worker'[h].phase = worker[h].phase
                              /\ worker'[h].lease = worker[h].lease
      BY <3>1, <3>4 DEF CoreInv, TypeOK, Process
    <3>6. Ended(s, "ok")
      <4>1. call' \in [Slots -> Call] BY <3>1, FreeCallType DEF CoreInv, TypeOK
      <4>2. worker' \in [Hosts -> Process]
        BY <1>7, HandlingType DEF Handling, CoreInv, Typed, Remembering, RollbacksFail,
           Failures, Answers, TypeOK
      <4> QED BY <3>3, <3>5, <4>1, <4>2 DEF Ended
    <3>7. LeasesKept BY <3>1, <3>2, LeasesStay
    <3>8. PeersStay(s) BY <3>1, PeersAreOff
    <3>9. HandlersFade BY <1>0, <3>6, <3>7, <3>8, EndFades
    <3> QED BY <3>1, <3>2, <3>3, <3>5, <3>9, FadingSafe, StepGrantSafe DEF OnlyJournal
  <2> QED BY <2>1, <2>2
<1> QED BY <1>1, <1>2, <1>3, <1>4, <1>5, <1>6, <1>7

\* /lease/preflight, /lease/complete-step and /lease/verify.
LEMMA CheckHandlingSafe ==
  ASSUME CoreInv, NEW s \in Slots, Preflight(s) \/ Complete(s) \/ Verify(s)
  PROVE  Steady' /\ Tracked' /\ Barred'
<1> USE DEF AtCall, Static
<1>0. "ok" \in Answers /\ "retry" \in Answers BY DEF Answers
<1>1. CASE Deny(s)
  BY <1>1, DenySafe DEF Preflight, Complete, Verify
<1>2. call[s].pc \in {"preflight", "complete", "verify"}
  BY DEF Preflight, Complete, Verify
<1>3. CASE /\ Finish(s, "ok") \/ Finish(s, "retry")
           /\ UNCHANGED <<coord, fence, peer, used, granted>>
  BY <1>0, <1>2, <1>3, AnswerSafe, PeersAreOff DEF Confirmed
<1>4. CASE Preflight(s) BY <1>1, <1>3, <1>4 DEF Preflight
<1>5. CASE Complete(s)
  <2>1. CASE /\ Owns(s) /\ coord.step = call[s].step /\ coord.phase = "step_running"
             /\ coord' = [coord EXCEPT !.doneStep = call[s].step,
                            !.doneOk = call[s].ok,
                            !.phase = IF call[s].ok THEN "verifying"
                                                    ELSE "failed_unsafe"]
             /\ Finish(s, "ok") /\ UNCHANGED <<fence, peer>>
    <3>1. OnlyPhase(IF call[s].ok THEN "verifying" ELSE "failed_unsafe")
      BY <1>5, <2>1 DEF Complete, OnlyPhase, CoreInv, TypeOK, Journal
    <3>2. LeasesKept BY <1>5, <2>1, <3>1, LeasesStay DEF Complete, OnlyPhase
    <3>3. Ended(s, "ok") /\ KeepsSteps /\ HandlersFade
      BY <1>0, <1>2, <2>1, <3>2, FinishFades
    <3> QED BY <1>5, <2>1, <3>1, <3>3, FadingSafe, CompleteSafe
            DEF Complete, OnlyJournal
  <2> QED BY <1>1, <1>3, <1>5, <2>1 DEF Complete
<1>6. CASE Verify(s)
  <2>1. CASE /\ Owns(s) /\ coord.phase \in {"fenced", "verifying", "verified"}
             /\ coord' = [coord EXCEPT !.phase = "verified"]
             /\ Finish(s, "ok") /\ UNCHANGED <<fence, peer>>
    <3>1. OnlyPhase("verified") BY <1>6, <2>1, PhaseMoved DEF Verify, CoreInv
    <3>2. LeasesKept BY <1>6, <2>1, <3>1, LeasesStay DEF Verify, OnlyPhase
    <3>3. Ended(s, "ok") /\ KeepsSteps /\ HandlersFade
      BY <1>0, <1>2, <2>1, <3>2, FinishFades
    <3> QED BY <1>6, <2>1, <3>1, <3>3, FadingSafe, VerifySafe DEF Verify, OnlyJournal
  <2> QED BY <1>1, <1>3, <1>6, <2>1 DEF Verify
<1> QED BY <1>4, <1>5, <1>6

\* A handler that opens the barrier of AX41 still acts for a lease that is being
\* released, or for one that is over.
LEMMA ReleaseLocalSafe ==
  ASSUME CoreInv, NEW s \in Slots, NEW here, NEW next,
         \/ here = "releaseOpen" /\ next = "releasePeer"
         \/ here = "releaseFinal" /\ next = "releaseDone",
         ReleaseLocal(s, here, next)
  PROVE  Steady' /\ Tracked' /\ Barred'
<1> USE DEF AtCall, Static
<1>0. "denied" \in Answers BY DEF Answers
<1>1. CASE Deny(s) BY <1>1, DenySafe DEF ReleaseLocal
<1>2. CASE ~Deny(s)
  <2>0. call[s].pc = here BY DEF ReleaseLocal
  <2>1. PICK l \in Leases : l = call[s].lease BY <2>0 DEF CoreInv, Named
  <2>2. /\ FenceFreeFor("ax41", l) /\ UNCHANGED <<coord, peer, used, granted>>
        /\ OpenFence("ax41") \/ OpenFencePartly("ax41")
    BY <1>2, <2>1 DEF ReleaseLocal
  <2>3. /\ fence'["ax41"] \in {Open, [fence["ax41"] EXCEPT !.up = FALSE]}
        /\ fence'["ax41"].lease \in {fence["ax41"].lease, NoLease}
        /\ \A g \in Hosts : g # "ax41" => fence'[g] = fence[g]
    BY <2>2 DEF OpenFence, OpenFencePartly, Open, CoreInv, TypeOK, Hosts, Fence
  <2>4. LeasesKept BY <2>2, <2>3 DEF LeasesKept, Known
  <2>5. coord.lease = l => coord.phase \in {"releasing", "idle"}
    BY <2>0, <2>1 DEF CoreInv, ReleasesOpen, OpenPcs
  <2>6. CASE Finish(s, "denied")
    <3>1. /\ Ended(s, "denied") /\ KeepsSteps
          /\ HandlersFade /\ CommitsFade /\ OpensFit
          /\ \A t \in Slots : KeepsBarriers(t)
      BY <1>0, <2>0, <2>2, <2>4, <2>6, FinishFades
    <3>2. JournalStays BY <2>2, <3>1 DEF JournalStays, Ended, KeepsSteps
    <3>3. OnlyFence("ax41") BY <2>2, <2>3, <3>1 DEF OnlyFence
    <3>4. Barred' BY <2>2, <2>3, <2>5, <3>1, <3>3, OpenSafe DEF Hosts
    <3> QED BY <3>1, <3>2, <3>4, FadingSafe, JournalSafe
  <2>7. CASE OpenFence("ax41") /\ Goto(s, next) /\ worker' = worker
    <3>1. GoesOn(s, next, call[s].code) BY <2>7, MovedCall DEF CoreInv
    <3>2. KeepsStage(s) /\ next \notin CommitPcs
      BY <2>0, <3>1, ReleaseGoesOn DEF GoesOn, OpenPcs
    <3>3. /\ HandlersFade /\ CommitsFade /\ OpensFit
          /\ KeepsBarriers(s) => \A t \in Slots : KeepsBarriers(t)
      BY <2>0, <2>2, <2>4, <3>1, <3>2, GoFades, PeersAreOff
    <3>4. JournalStays BY <2>2, <2>7, <3>3 DEF JournalStays
    <3>5. Clear("ax41", l)' => KeepsBarriers(s)
      BY <2>0, <2>1, <3>1
      DEF KeepsBarriers, GoesOn, SameRequest, HeldPcs, OpenPcs, BothHeld, BothOpen,
          Clear, NoHold, PeerDoing
    <3>6. fence'["ax41"] = Open BY <2>7 DEF OpenFence, CoreInv, TypeOK, Hosts
    <3>7. OnlyFence("ax41") BY <2>2, <2>3, <3>3 DEF OnlyFence
    <3>8. Barred'
      BY <2>2, <2>3, <2>5, <3>3, <3>5, <3>6, <3>7, OpenSafe DEF Hosts
    <3> QED BY <3>3, <3>4, <3>8, FadingSafe, JournalSafe
  <2> QED BY <1>2, <2>6, <2>7 DEF ReleaseLocal
<1> QED BY <1>1, <1>2

\* The sections of /lease/release.
LEMMA ReleaseHandlingSafe ==
  ASSUME CoreInv, NEW s \in Slots,
         \/ ReleaseBegin(s) \/ ReleaseRead(s) \/ ReleaseOpen(s) \/ ReleasePeer(s)
         \/ ReleaseCheck(s) \/ ReleaseFinal(s) \/ ReleaseEnd(s)
  PROVE  Steady' /\ Tracked' /\ Barred'
<1> USE DEF AtCall, Static
<1>0. "ok" \in Answers BY DEF Answers
<1>1. CASE ReleaseBegin(s)
  <2>1. CASE Deny(s) BY <1>1, <2>1, DenySafe DEF ReleaseBegin
  <2>2. CASE coord.released = call[s].lease /\ ~Deny(s)
    BY <1>0, <1>1, <2>2, AnswerSafe, PeersAreOff DEF ReleaseBegin, Confirmed
  <2>3. CASE ~Deny(s) /\ coord.released # call[s].lease
    <3>1. GoesOn(s, "releaseRead", call[s].code)
      BY <1>1, <2>3, MovedCall DEF ReleaseBegin, CoreInv
    <3>2. KeepsStage(s) BY <1>1, <3>1, ReleaseGoesOn DEF ReleaseBegin, GoesOn, OpenPcs
    <3>3. /\ coord'.phase = "releasing" /\ coord'.releaseVerified = RuntimeVerified
          /\ coord'.owner = coord.owner /\ coord'.lease = coord.lease
          /\ coord'.step = coord.step /\ coord'.destructive = coord.destructive
          /\ coord'.released = coord.released
      BY <1>1, <2>3 DEF ReleaseBegin, CoreInv, TypeOK, Journal
    <3>4. LeasesKept BY <1>1, <2>3, <3>3, LeasesStay DEF ReleaseBegin
    <3>5. HandlersFade
      BY <1>1, <2>3, <3>1, <3>2, <3>4, GoFades, PeersAreOff
      DEF ReleaseBegin, CommitPcs, StepPcs
    <3> QED BY <1>1, <2>3, <3>1, <3>3, <3>5, FadingSafe, ReleaseBeginSafe
            DEF ReleaseBegin, OnlyJournal
  <2> QED BY <2>1, <2>2, <2>3
<1>2. CASE ReleaseRead(s)
  <2>1. PICK pc \in {"releasePeer", "releaseOpen"} : Goto(s, pc)
    BY <1>2 DEF ReleaseRead
  <2>2. GoesOn(s, pc, call[s].code) BY <1>2, <2>1, MovedCall DEF ReleaseRead, CoreInv
  <2>3. KeepsStage(s) BY <1>2, <2>2, ReleaseGoesOn DEF ReleaseRead, GoesOn, OpenPcs
  <2>4. KeepsBarriers(s)
    BY <1>2, <2>2
    DEF ReleaseRead, KeepsBarriers, GoesOn, HeldPcs, OpenPcs, BothHeld, BothOpen
  <2> QED BY <1>2, <2>2, <2>3, <2>4, GoSafe, PeersAreOff
          DEF ReleaseRead, CommitPcs, StepPcs
<1>3. CASE ReleaseOpen(s) \/ ReleaseFinal(s)
  BY <1>3, ReleaseLocalSafe DEF ReleaseOpen, ReleaseFinal
<1>4. CASE ReleasePeer(s)
  <2>1. PICK p \in PeerSlots :
          /\ peer[p].pc = "free"
          /\ peer' = [peer EXCEPT ![p] = [pc |-> "assert", op |-> "open",
                                          lease |-> call[s].lease, caller |-> s]]
          /\ call' = [call EXCEPT ![s].pc = WaitAfter[call[s].pc],
                                  ![s].code = "waiting"]
    BY <1>4 DEF ReleasePeer, PeerSend
  <2>2. WaitAfter[call[s].pc] = "releaseWait" BY <1>4 DEF ReleasePeer, WaitAfter
  <2>3. GoesOn(s, "releaseWait", "waiting")
    BY <1>4, <2>1, <2>2, ChangedCall DEF ReleasePeer, CoreInv
  <2> QED BY <1>4, <2>1, <2>3, SendSafe DEF ReleasePeer, OnlyHandlers
<1>5. CASE ReleaseCheck(s)
  <2>1. CASE PeerRefused(s, "releaseWait") BY <1>5, <2>1, RefusedSafe DEF ReleaseCheck
  <2>2. CASE PeerAnswered(s, "releaseWait", {"ok"}) /\ Deny(s)
    BY <1>5, <2>2, DenySafe DEF ReleaseCheck, PeerAnswered
  <2>3. CASE /\ PeerAnswered(s, "releaseWait", {"ok"}) /\ Goto(s, "releaseFinal")
             /\ UNCHANGED <<coord, fence, worker, peer>>
    <3>1. GoesOn(s, "releaseFinal", call[s].code) BY <2>3, MovedCall DEF CoreInv
    <3>2. KeepsStage(s) BY <2>3, <3>1, ReleaseGoesOn DEF PeerAnswered, GoesOn, OpenPcs
    <3>3. KeepsBarriers(s)
      BY <2>3, <3>1
      DEF PeerAnswered, KeepsBarriers, GoesOn, HeldPcs, OpenPcs, BothHeld, BothOpen
    <3> QED BY <1>5, <2>3, <3>1, <3>2, <3>3, GoSafe, PeersAreOff
            DEF ReleaseCheck, PeerAnswered, CommitPcs, StepPcs
  <2> QED BY <1>5, <2>1, <2>2, <2>3 DEF ReleaseCheck
<1>6. CASE ReleaseEnd(s)
  <2>1. CASE Deny(s) BY <1>6, <2>1, DenySafe DEF ReleaseEnd
  <2>2. CASE ~Deny(s)
    <3>1. /\ coord'.phase = "idle" /\ coord'.released = call[s].lease
          /\ coord'.owner = coord.owner /\ coord'.lease = coord.lease
          /\ coord'.step = coord.step /\ coord'.destructive = coord.destructive
          /\ coord'.releaseVerified = coord.releaseVerified
      BY <1>6, <2>2 DEF ReleaseEnd, CoreInv, TypeOK, Journal
    <3>2. Known(call[s].lease) BY <1>6 DEF ReleaseEnd, Known
    <3>3. LeasesKept BY <1>6, <2>2, <3>1, <3>2 DEF ReleaseEnd, LeasesKept
    <3>4. Ended(s, "ok") /\ KeepsSteps /\ HandlersFade
      BY <1>0, <1>6, <2>2, <3>3, FinishFades DEF ReleaseEnd
    <3> QED BY <1>6, <2>2, <3>1, <3>4, FadingSafe, ReleaseEndSafe
            DEF ReleaseEnd, OnlyJournal
  <2> QED BY <2>1, <2>2
<1> QED BY <1>1, <1>2, <1>3, <1>4, <1>5, <1>6

\* Locks found taken and peer requests that get no answer.
LEMMA ContendingSafe ==
  ASSUME CoreInv, NEW s \in Slots, Contending(s)
  PROVE  Steady' /\ Tracked' /\ Barred'
<1> USE DEF AtCall
<1>0. "busy" \in Answers /\ "busy" \in Failures BY DEF Answers, Failures
<1>1. CASE LockBusy(s)
  <2>1. PeersStay(s)
    BY <1>1, PeersAreOff DEF LockBusy, CoordinatorLockPcs, FenceLockPcs
  <2> QED BY <1>0, <1>1, <2>1, AnswerSafe DEF LockBusy
<1>2. CASE HoldBusy(s)
  BY <1>0, <1>2, AbandonSafe DEF HoldBusy
<1>3. CASE PeerTimeout(s)
  <2>1. PICK pc : /\ call' = [call EXCEPT ![s].pc = pc, ![s].code = "busy"]
                  /\ \/ pc = call[s].pc
                     \/ call[s].pc = "armPeer" /\ pc = "armWait"
                     \/ call[s].pc = "stepPeer" /\ pc = "stepWait"
                     \/ call[s].pc = "releasePeer" /\ pc = "releaseWait"
    <3>1. CASE /\ call[s].pc \in DOMAIN WaitAfter
               /\ call' = [call EXCEPT ![s].pc = WaitAfter[call[s].pc],
                                       ![s].code = "busy"]
      <4>1. \/ call[s].pc = "armPeer" /\ WaitAfter[call[s].pc] = "armWait"
            \/ call[s].pc = "stepPeer" /\ WaitAfter[call[s].pc] = "stepWait"
            \/ call[s].pc = "releasePeer" /\ WaitAfter[call[s].pc] = "releaseWait"
        BY <3>1 DEF WaitAfter
      <4> QED BY <3>1, <4>1
    <3>2. CASE call' = [call EXCEPT ![s].code = "busy"]
      <4>1. call' = [call EXCEPT ![s].pc = call[s].pc, ![s].code = "busy"]
        BY <3>2 DEF CoreInv, TypeOK, Call
      <4> QED BY <4>1
    <3> QED BY <1>3, <3>1, <3>2 DEF PeerTimeout
  <2>2. GoesOn(s, pc, "busy") BY <1>3, <2>1, ChangedCall DEF PeerTimeout, CoreInv
  <2>3. KeepsStage(s)
    <3>1. CASE pc = call[s].pc BY <1>0, <2>2, <3>1 DEF KeepsStage, GoesOn
    <3>2. CASE pc # call[s].pc
      BY <2>1, <2>2, <3>2, ArmGoesOn, StepGoesOn, ReleaseGoesOn
      DEF GoesOn, ArmPcs, StepPcs, OpenPcs
    <3> QED BY <3>1, <3>2
  <2>4. KeepsBarriers(s)
    BY <2>1, <2>2 DEF KeepsBarriers, GoesOn, HeldPcs, OpenPcs, BothHeld, BothOpen
  <2>5. PeersStay(s)
    BY <1>3, SlotAssumption DEF PeerTimeout, PeersStay, CoreInv, TypeOK, Peer
  <2> QED BY <1>3, <2>1, <2>2, <2>3, <2>4, <2>5, GoSafe
          DEF PeerTimeout, CommitPcs, StepPcs
<1> QED BY <1>1, <1>2, <1>3 DEF Contending

----------------------------------------------------------------------------
(* The Selectel agent                                                       *)

\* An answer of the Selectel agent ends its handler; only the handler that
\* waits for it, and was called by it, learns of it.
LEMMA PeerEndFades ==
  ASSUME CoreInv, NEW p \in PeerSlots, NEW code \in Answers, PeerEnd(p, code),
         peer[p].pc # "free", UNCHANGED <<coord, worker, used, granted>>, LeasesKept,
         NEW l \in Leases, l = peer[p].lease
  PROVE  /\ HandlersFade /\ JournalStays /\ CommitsFade /\ OpensFit
         /\ \/ code # "ok" \/ peer[p].op = "close"
            \/ peer[p].op = "hold" /\ HeldFor("selectel", l)'
            \/ peer[p].op = "open" /\ Clear("selectel", l)'
            => \A s \in Slots : KeepsBarriers(s)
<1> USE LeaseAssumption, SlotAssumption DEF CoreInv
<1>1. /\ peer'[p] = FreePeer
      /\ \A q \in PeerSlots : q # p => peer'[q] = peer[q]
  BY DEF PeerEnd, TypeOK
<1>2. /\ peer[p].op \in {"close", "hold", "open"}
      /\ peer[p].caller # NoSlot =>
           /\ peer[p].caller \in Slots
           /\ call[peer[p].caller].pc = WaitPc[peer[p].op]
           /\ call[peer[p].caller].lease = l
           /\ call[peer[p].caller].code = "waiting"
  BY DEF TypeOK, Peer, CallersWait
<1>3. \A s \in Slots :
        /\ KeepsRequest(s) /\ call'[s].pc = call[s].pc
        /\ call'[s].code = IF s = peer[p].caller THEN code ELSE call[s].code
  <2>1. ASSUME NEW s \in Slots, s = peer[p].caller
        PROVE  /\ KeepsRequest(s) /\ call'[s].pc = call[s].pc
               /\ call'[s].code = code
    <3>1. call' = [call EXCEPT ![s].code = code] BY <2>1 DEF PeerEnd
    <3>2. call[s] \in Call /\ call'[s] = [call[s] EXCEPT !.code = code]
      BY <3>1 DEF TypeOK
    <3>3. call'[s].pc = call[s].pc /\ call'[s].code = code BY <3>2 DEF Call
    <3>4. call'[s].actor = call[s].actor /\ call'[s].lease = call[s].lease
      BY <3>2 DEF Call
    <3>5. call'[s].step = call[s].step /\ call'[s].ok = call[s].ok BY <3>2 DEF Call
    <3>6. call'[s].live = call[s].live BY <3>2 DEF Call
    <3> QED BY <3>3, <3>4, <3>5, <3>6 DEF KeepsRequest
  <2>2. ASSUME NEW s \in Slots, s # peer[p].caller PROVE call'[s] = call[s]
    BY <2>2 DEF PeerEnd, TypeOK
  <2> QED BY <2>1, <2>2 DEF KeepsRequest
<1>4. ASSUME NEW s \in Slots PROVE KeepsStage(s)
  <2>1. CASE s # peer[p].caller
    BY <1>3, <2>1 DEF KeepsStage, RollbacksFail
  <2>2. CASE s = peer[p].caller
    <3>1. call[s].pc = WaitPc[peer[p].op] /\ call[s].lease = l BY <1>2, <2>2
    <3>2. CASE peer[p].op = "close"
      <4>1. \A q \in PeerSlots : PeerDoing(q, "close", l) => q = p
        BY <3>2 DEF OneArming, ArmedOnce, PeerDoing
      <4>2. \A q \in PeerSlots : ~PeerDoing(q, "close", call[s].lease)'
        BY <1>1, <1>3, <3>1, <4>1 DEF PeerDoing, FreePeer, KeepsRequest
      <4> QED BY <1>3, <3>1, <3>2, <4>2 DEF KeepsStage, WaitPc
    <3>3. CASE peer[p].op \in {"hold", "open"}
      BY <1>3, <3>1, <3>3 DEF KeepsStage, WaitPc, ArmPcs
    <3> QED BY <1>2, <3>2, <3>3
  <2> QED BY <2>1, <2>2
<1>5. CommitsFade BY <1>3 DEF CommitsFade
<1>6. OpensFit BY <1>1 DEF OpensFit, FreePeer
<1>7. CallersStay
  <2>1. ASSUME NEW q \in PeerSlots, NEW s \in Slots, peer'[q].caller = s
        PROVE  s # peer[p].caller
    BY <1>1, <2>1 DEF FreePeer, CallersWait
  <2> QED BY <1>3, <2>1 DEF CallersStay, KeepsRequest
<1>8. HandlersFade
  <2>1. \A q \in PeerSlots : PeerFades(q) BY <1>1 DEF PeerFades
  <2>2. \A h \in Hosts : WorkerFades(h) BY DEF WorkerFades
  <2> QED BY <1>3, <1>4, <1>7, <2>1, <2>2 DEF HandlersFade, CallFades
<1>9. JournalStays BY <1>5 DEF JournalStays
<1>10. ASSUME \/ code # "ok" \/ peer[p].op = "close"
              \/ peer[p].op = "hold" /\ HeldFor("selectel", l)'
              \/ peer[p].op = "open" /\ Clear("selectel", l)',
              NEW s \in Slots
       PROVE  KeepsBarriers(s)
  <2>1. CASE s # peer[p].caller
    BY <1>3, <2>1 DEF KeepsBarriers, BothHeld, BothOpen
  <2>2. CASE s = peer[p].caller
    <3>1. call[s].pc = WaitPc[peer[p].op] /\ call'[s].lease = l
      BY <1>2, <1>3, <2>2 DEF KeepsRequest
    <3>2. CASE code # "ok"
      BY <1>3, <2>2, <3>2 DEF KeepsBarriers, BothHeld, BothOpen
    <3>3. CASE peer[p].op = "close"
      BY <1>3, <3>1, <3>3 DEF KeepsBarriers, BothHeld, BothOpen, WaitPc, HeldPcs, OpenPcs
    <3>4. CASE peer[p].op = "hold" /\ HeldFor("selectel", l)'
      BY <1>3, <3>1, <3>4
      DEF KeepsBarriers, BothHeld, BothOpen, WaitPc, OpenPcs, HeldFor
    <3>5. CASE peer[p].op = "open" /\ Clear("selectel", l)'
      BY <1>3, <3>1, <3>5
      DEF KeepsBarriers, BothHeld, BothOpen, WaitPc, HeldPcs, Clear, NoHold, PeerDoing
    <3> QED BY <1>10, <3>2, <3>3, <3>4, <3>5
  <2> QED BY <2>1, <2>2
<1> QED BY <1>5, <1>6, <1>8, <1>9, <1>10

\* Each peer handler closes, holds or opens a barrier for a lease that some
\* handler or phase still allows it for, even when the lease has moved on
\* since the phase was asserted.
LEMMA PeerSafe ==
  ASSUME CoreInv, NEW p \in PeerSlots, Answering(p) \/ PeerFenceBusy(p)
  PROVE  Steady' /\ Tracked' /\ Barred'
<1> USE DEF CoreInv
<1>0. "ok" \in Answers /\ "busy" \in Answers /\ "denied" \in Answers BY DEF Answers
<1>1. /\ peer[p].pc \in {"assert", "act"} /\ UNCHANGED <<coord, worker, used, granted>>
  BY DEF Answering, PeerAssert, PeerAct, PeerFenceBusy
<1>2. PICK l \in Leases : l = peer[p].lease BY <1>1 DEF Named
<1>3. ASSUME NEW code \in {"busy", "denied"}, PeerEnd(p, code), fence' = fence
      PROVE  Steady' /\ Tracked' /\ Barred'
  <2>1. LeasesKept BY <1>1, <1>3 DEF LeasesKept
  <2>2. /\ HandlersFade /\ JournalStays /\ CommitsFade /\ OpensFit
        /\ \A s \in Slots : KeepsBarriers(s)
    BY <1>0, <1>1, <1>2, <1>3, <2>1, PeerEndFades
  <2>3. BarriersStay BY <1>1, <1>3, <2>2, FadedFits DEF BarriersStay, FenceFades
  <2> QED BY <2>2, <2>3, FadingSafe, JournalSafe, BarriersSafe
<1>4. CASE PeerDeny(p) BY <1>3, <1>4 DEF PeerDeny
<1>5. CASE PeerFenceBusy(p) BY <1>3, <1>5 DEF PeerFenceBusy
<1>6. CASE PeerAssert(p) /\ ~PeerDeny(p)
  <2>1. /\ coord.lease = l /\ coord.phase = ExpectedPhase[peer[p].op]
        /\ peer' = [peer EXCEPT ![p].pc = "act"] /\ UNCHANGED <<call, fence>>
        /\ peer[p].pc = "assert"
    BY <1>2, <1>6 DEF PeerAssert
  <2>2. /\ \A q \in PeerSlots : q # p => peer'[q] = peer[q]
        /\ peer'[p].pc = "act" /\ peer'[p].op = peer[p].op
        /\ peer'[p].lease = l /\ peer'[p].caller = peer[p].caller
    BY <1>2, <2>1 DEF TypeOK, Peer
  <2>3. LeasesKept BY <1>1, <2>1 DEF LeasesKept
  <2>4. HandlersFade
    <3>1. \A s \in Slots : CallFades(s)
      BY <2>1 DEF CallFades, KeepsRequest, KeepsStage, RollbacksFail
    <3>2. \A q \in PeerSlots : PeerFades(q) BY <1>2, <2>1, <2>2 DEF PeerFades
    <3>3. \A h \in Hosts : WorkerFades(h) BY <1>1 DEF WorkerFades
    <3>4. CallersStay BY <2>1 DEF CallersStay
    <3> QED BY <2>3, <3>1, <3>2, <3>3, <3>4 DEF HandlersFade
  <2>5. CommitsFade BY <2>1 DEF CommitsFade
  <2>6. JournalStays BY <1>1, <2>5 DEF JournalStays
  <2>7. OpensFit BY <2>1, <2>2 DEF OpensFit, ExpectedPhase
  <2>8. \A s \in Slots : KeepsBarriers(s) BY <2>1 DEF KeepsBarriers
  <2>9. BarriersStay
    BY <1>1, <2>1, <2>4, <2>5, <2>7, <2>8, FadedFits DEF BarriersStay, FenceFades
  <2> QED BY <2>4, <2>6, <2>9, FadingSafe, JournalSafe, BarriersSafe
<1>7. CASE PeerAct(p) /\ ~PeerDeny(p)
  <2>0. peer[p].pc = "act" BY <1>7 DEF PeerAct
  <2>1. CASE /\ peer[p].op = "close" /\ FenceFreeFor("selectel", l)
             /\ \E up \in BOOLEAN : CloseFence("selectel", l, up)
             /\ PeerEnd(p, "ok") \/ PeerEnd(p, "denied")
    <3>1. /\ fence'["selectel"].lease = l
          /\ fence'["selectel"].committed = fence["selectel"].committed
          /\ \A g \in Hosts : g # "selectel" => fence'[g] = fence[g]
      BY <2>1 DEF CloseFence, TypeOK, Hosts
    <3>2. Known(l) /\ Arming(l)
      BY <1>2, <2>0, <2>1 DEF Known, Arming, PeerDoing
    <3>3. LeasesKept BY <1>1, <3>1, <3>2 DEF LeasesKept
    <3>4. /\ HandlersFade /\ JournalStays /\ CommitsFade /\ OpensFit
          /\ \A s \in Slots : KeepsBarriers(s)
      BY <1>0, <1>1, <1>2, <2>1, <3>3, PeerEndFades
    <3>5. OnlyFence("selectel") BY <1>1, <3>1, <3>4 DEF OnlyFence
    <3>6. Barred' BY <2>1, <3>1, <3>2, <3>4, <3>5, CloseSafe DEF Hosts
    <3> QED BY <3>4, <3>6, FadingSafe, JournalSafe
  <2>2. CASE /\ peer[p].op = "hold" /\ Holdable("selectel", l)
             /\ HoldFence("selectel") /\ PeerEnd(p, "ok")
    <3>1. /\ fence'["selectel"] = [fence["selectel"] EXCEPT !.committed = TRUE]
          /\ fence'["selectel"].lease = fence["selectel"].lease
          /\ \A g \in Hosts : g # "selectel" => fence'[g] = fence[g]
      BY <2>2 DEF HoldFence, TypeOK, Hosts, Fence
    <3>2. ~NoHold(l) BY <1>2, <2>0, <2>2 DEF NoHold, PeerDoing
    <3>3. LeasesKept BY <1>1, <3>1 DEF LeasesKept
    <3>4. /\ HandlersFade /\ JournalStays /\ CommitsFade /\ OpensFit
          /\ HeldFor("selectel", l)' => \A s \in Slots : KeepsBarriers(s)
      BY <1>0, <1>1, <1>2, <2>2, <3>3, PeerEndFades
    <3>5. OnlyFence("selectel") BY <1>1, <3>1, <3>4 DEF OnlyFence
    <3>6. Barred' BY <2>2, <3>1, <3>2, <3>4, <3>5, HoldSafe DEF Hosts
    <3> QED BY <3>4, <3>6, FadingSafe, JournalSafe
  <2>3. CASE /\ peer[p].op = "open" /\ FenceFreeFor("selectel", l)
             /\ \/ OpenFence("selectel") /\ PeerEnd(p, "ok")
                \/ OpenFencePartly("selectel") /\ PeerEnd(p, "denied")
    <3>1. /\ fence'["selectel"] \in {Open, [fence["selectel"] EXCEPT !.up = FALSE]}
          /\ fence'["selectel"].lease \in {fence["selectel"].lease, NoLease}
          /\ \A g \in Hosts : g # "selectel" => fence'[g] = fence[g]
          /\ OpenFence("selectel") => fence'["selectel"] = Open
      <4>1. CASE OpenFence("selectel") BY <4>1 DEF OpenFence, Open, TypeOK, Hosts
      <4>2. CASE OpenFencePartly("selectel") /\ ~OpenFence("selectel")
        BY <4>2 DEF OpenFencePartly, TypeOK, Hosts, Fence
      <4> QED BY <2>3, <4>1, <4>2
    <3>2. coord.lease = l => coord.phase \in {"releasing", "idle"}
      BY <1>2, <2>0, <2>3 DEF ReleasesOpen
    <3>3. LeasesKept BY <1>1, <3>1 DEF LeasesKept, Known
    <3>4. /\ HandlersFade /\ JournalStays /\ CommitsFade /\ OpensFit
          /\ \/ PeerEnd(p, "denied")
             \/ Clear("selectel", l)'
             => \A s \in Slots : KeepsBarriers(s)
      BY <1>0, <1>1, <1>2, <2>3, <3>3, PeerEndFades
    <3>5. OnlyFence("selectel") BY <1>1, <3>1, <3>4 DEF OnlyFence
    <3>6. (\A m \in Leases : fence'["selectel"] = Open => Clear("selectel", m)')
            => \A s \in Slots : KeepsBarriers(s)
      BY <2>3, <3>1, <3>4
    <3>7. Barred' BY <2>3, <3>1, <3>2, <3>4, <3>5, <3>6, OpenSafe DEF Hosts
    <3> QED BY <3>4, <3>7, FadingSafe, JournalSafe
  <2> QED BY <1>2, <1>7, <2>1, <2>2, <2>3 DEF PeerAct
<1> QED BY <1>4, <1>5, <1>6, <1>7 DEF Answering

----------------------------------------------------------------------------
(* The hosts: crashes, restarts, reboots, expiry and lost requests          *)

\* The handler ends, or stays where it is; it may lose its client or its answer.
CallQuiet(s) ==
  \/ call'[s] = FreeCall
  \/ /\ KeepsRequest(s) /\ call'[s].pc = call[s].pc
     /\ call'[s].code \in {call[s].code, "busy"}

\* The process keeps its step and is told of no success.
WorkerQuiet(h) ==
  /\ WorkerFades(h)
  /\ worker'[h].step = worker[h].step
  /\ worker'[h].reply = "ok" => worker[h].reply = "ok"

\* The barrier keeps its lease or loses it.
FenceQuiet(h) == FenceFades(h) /\ fence'[h].lease \in {fence[h].lease, NoLease}

\* What every such step leaves alone is enough for every part of CoreInv.
LEMMA QuietSafe ==
  ASSUME CoreInv, UNCHANGED <<coord, used, granted>>,
         \A s \in Slots : CallQuiet(s),
         \A p \in PeerSlots : PeerFades(p), CallersStay, OpensFit,
         \A h \in Hosts : WorkerQuiet(h) /\ FenceQuiet(h)
  PROVE  Steady' /\ Tracked' /\ Barred'
<1> USE DEF FreeCall, CallQuiet, WorkerQuiet, FenceQuiet
<1>1. ASSUME NEW s \in Slots PROVE CallFades(s) /\ KeepsBarriers(s)
  <2>1. CASE call'[s] = FreeCall
    BY <2>1
    DEF CallFades, KeepsBarriers, HeldPcs, OpenPcs, BothHeld, BothOpen
  <2>2. CASE /\ KeepsRequest(s) /\ call'[s].pc = call[s].pc
             /\ call'[s].code \in {call[s].code, "busy"}
    <3>1. call'[s].pc = "stepRollback" => call'[s].code \in Failures
      BY <2>2 DEF CoreInv, RollbacksFail, Failures
    <3>2. KeepsStage(s) BY <2>2, <3>1 DEF KeepsStage
    <3>3. KeepsBarriers(s) BY <2>2 DEF KeepsBarriers, BothHeld, BothOpen
    <3> QED BY <2>2, <3>2, <3>3 DEF CallFades
  <2> QED BY <2>1, <2>2
<1>2. CommitsFade
  BY DEF CommitsFade, CommitPcs, StepPcs
<1>3. LeasesKept BY DEF LeasesKept, Known
<1>4. HandlersFade BY <1>1, <1>3 DEF HandlersFade
<1>5. JournalStays BY <1>2 DEF JournalStays
<1>6. BarriersStay BY <1>1, <1>2, <1>4, FadedFits DEF BarriersStay
<1> QED BY <1>4, <1>5, <1>6, FadingSafe, JournalSafe, BarriersSafe

\* An agent or a host that goes down takes its handlers and clients with it; a
\* barrier that is recorded goes up again before anything else does.
LEMMA KillSafe ==
  ASSUME CoreInv, NEW h \in Hosts, NEW down \in SUBSET Hosts, KillHandlers(h, down),
         UNCHANGED <<coord, used, granted>>,
         \/ fence' = fence
         \/ fence' = [fence EXCEPT ![h].up = fence[h].lease # NoLease]
  PROVE  Steady' /\ Tracked' /\ Barred'
<1> USE SlotAssumption DEF CoreInv
<1>1. \A g \in Hosts : FenceQuiet(g)
  <2>1. CASE fence' = fence BY <2>1 DEF FenceQuiet, FenceFades
  <2>2. CASE fence' = [fence EXCEPT ![h].up = fence[h].lease # NoLease]
    <3>1. \A g \in Hosts : g # h => fence'[g] = fence[g] BY <2>2 DEF TypeOK
    <3>2. /\ fence'[h].lease = fence[h].lease
          /\ fence'[h].committed = fence[h].committed
          /\ fence'[h].up = (fence[h].lease # NoLease)
      BY <2>2 DEF TypeOK, Fence
    <3>3. fence[h].committed => fence[h].lease # NoLease BY DEF Named
    <3> QED BY <3>1, <3>2, <3>3 DEF FenceQuiet, FenceFades
  <2>3. \A g \in Hosts : fence'[g].lease = fence[g].lease
    BY <2>1, <2>2 DEF TypeOK, Fence
  <2> QED BY <2>1, <2>2, <2>3 DEF FenceQuiet
<1>2. CASE KillCoordinatorHandlers(down)
  <2>1. \A s \in Slots : call'[s] = FreeCall BY <1>2 DEF KillCoordinatorHandlers
  <2>2. ASSUME NEW p \in PeerSlots
        PROVE  /\ peer'[p].pc = peer[p].pc /\ peer'[p].op = peer[p].op
               /\ peer'[p].lease = peer[p].lease
               /\ peer'[p].caller = NoSlot
    <3>1. peer'[p] = [peer[p] EXCEPT !.caller = NoSlot]
      BY <1>2 DEF KillCoordinatorHandlers
    <3>2. peer[p] \in Peer BY DEF TypeOK
    <3> QED BY <3>1, <3>2 DEF Peer
  <2>3. ASSUME NEW g \in Hosts
        PROVE  /\ worker'[g].phase = worker[g].phase
               /\ worker'[g].lease = worker[g].lease
               /\ worker'[g].step = worker[g].step
               /\ \/ worker'[g].pc = "off" /\ worker'[g].reply = "none"
                  \/ /\ worker'[g].pc = worker[g].pc
                     /\ \/ worker'[g].reply = worker[g].reply
                        \/ worker[g].reply = "waiting" /\ worker'[g].reply = "busy"
    <3>1. worker[g] \in Process BY DEF TypeOK
    <3>2. worker'[g] = IF g \in down THEN [worker[g] EXCEPT !.pc = "off", !.reply = "none"]
                       ELSE IF worker[g].reply = "waiting"
                            THEN [worker[g] EXCEPT !.reply = "busy"] ELSE worker[g]
      BY <1>2 DEF KillCoordinatorHandlers
    <3>3. CASE g \in down BY <3>1, <3>2, <3>3 DEF Process
    <3>4. CASE g \notin down /\ worker[g].reply = "waiting"
      BY <3>1, <3>2, <3>4 DEF Process
    <3>5. CASE g \notin down /\ worker[g].reply # "waiting" BY <3>2, <3>5
    <3> QED BY <3>3, <3>4, <3>5
  <2>4. \A g \in Hosts : WorkerQuiet(g)
    BY <2>1, <2>3 DEF WorkerQuiet, WorkerFades, FreeCall
  <2>5. (\A p \in PeerSlots : PeerFades(p)) /\ CallersStay /\ OpensFit
    BY <2>2 DEF PeerFades, CallersStay, OpensFit
  <2>6. \A s \in Slots : CallQuiet(s) BY <2>1 DEF CallQuiet
  <2> QED BY <1>1, <2>4, <2>5, <2>6, QuietSafe
<1>3. CASE KillPeerHandlers(down)
  <2>1. ASSUME NEW s \in Slots
        PROVE  /\ KeepsRequest(s) /\ call'[s].pc = call[s].pc
               /\ call'[s].code \in {call[s].code, "busy"}
               /\ call'[s].live => call[s].actor \notin down
    <3>1. PICK live \in BOOLEAN, code \in {call[s].code, "busy"} :
            /\ call'[s] = [call[s] EXCEPT !.live = live, !.code = code]
            /\ live => call[s].live /\ call[s].actor \notin down
      BY <1>3 DEF KillPeerHandlers, TypeOK, Call
    <3>2. call[s] \in Call BY DEF TypeOK
    <3>3. /\ call'[s].actor = call[s].actor /\ call'[s].lease = call[s].lease
          /\ call'[s].pc = call[s].pc
      BY <3>1, <3>2 DEF Call
    <3>4. /\ call'[s].step = call[s].step /\ call'[s].ok = call[s].ok
          /\ call'[s].live = live /\ call'[s].code = code
      BY <3>1, <3>2 DEF Call
    <3> QED BY <3>1, <3>3, <3>4 DEF KeepsRequest
  <2>2. \A p \in PeerSlots : peer'[p] = FreePeer BY <1>3 DEF KillPeerHandlers
  <2>3. ASSUME NEW g \in Hosts
        PROVE  /\ worker'[g].phase = worker[g].phase
               /\ worker'[g].lease = worker[g].lease
               /\ worker'[g].step = worker[g].step
               /\ \/ worker'[g].pc = "off" /\ worker'[g].reply = "none" /\ g \in down
                  \/ worker'[g] = worker[g]
    <3>1. worker[g] \in Process BY DEF TypeOK
    <3>2. worker'[g] = IF g \in down THEN [worker[g] EXCEPT !.pc = "off", !.reply = "none"]
                       ELSE worker[g]
      BY <1>3 DEF KillPeerHandlers
    <3>3. CASE g \in down BY <3>1, <3>2, <3>3 DEF Process
    <3>4. CASE g \notin down BY <3>2, <3>4
    <3> QED BY <3>3, <3>4
  <2>4. \A g \in Hosts : WorkerQuiet(g)
    BY <2>1, <2>3 DEF WorkerQuiet, WorkerFades, KeepsRequest
  <2>5. (\A p \in PeerSlots : PeerFades(p)) /\ CallersStay /\ OpensFit
    BY <2>2 DEF PeerFades, CallersStay, OpensFit, FreePeer
  <2>6. \A s \in Slots : CallQuiet(s) BY <2>1 DEF CallQuiet
  <2> QED BY <1>1, <2>4, <2>5, <2>6, QuietSafe
<1> QED BY <1>2, <1>3 DEF KillHandlers

\* Requests that are refused, barriers that expire, crashes, restarts and reboots.
LEMMA HostsSafe ==
  ASSUME CoreInv, NEW h \in Hosts,
         Refuse(h) \/ Expire(h) \/ Crash(h) \/ AgentRestart(h) \/ Reboot(h)
  PROVE  Steady' /\ Tracked' /\ Barred'
<1> USE DEF CoreInv
<1>1. CASE Refuse(h)
  <2>1. /\ UNCHANGED <<coord, fence, call, peer, used, granted>>
        /\ worker[h].reply = "unsent"
        /\ \A g \in Hosts : g # h => worker'[g] = worker[g]
        /\ worker'[h] = [worker[h] EXCEPT !.reply = "busy"]
    BY <1>1 DEF Refuse, TypeOK
  <2>2. /\ worker'[h].pc = worker[h].pc /\ worker'[h].phase = worker[h].phase
        /\ worker'[h].lease = worker[h].lease /\ worker'[h].step = worker[h].step
        /\ worker'[h].reply = "busy"
    BY <2>1 DEF TypeOK, Process
  <2>3. \A s \in Slots : call[s].live => call[s].actor # h
    BY <2>1 DEF ClientsWait
  <2>4. \A g \in Hosts : WorkerQuiet(g)
    BY <2>1, <2>2, <2>3 DEF WorkerQuiet, WorkerFades
  <2> QED BY <2>1, <2>4, QuietSafe
          DEF CallQuiet, KeepsRequest, PeerFades, CallersStay, OpensFit, FenceQuiet,
              FenceFades
<1>2. CASE Expire(h)
  <2>1. /\ UNCHANGED <<coord, worker, call, peer, used, granted>>
        /\ ~fence[h].committed
        /\ \A g \in Hosts : g # h => fence'[g] = fence[g]
        /\ \/ fence'[h] = Open
           \/ fence'[h] = [fence[h] EXCEPT !.up = FALSE]
    BY <1>2 DEF Expire, OpenFence, OpenFencePartly, TypeOK
  <2>2. \A g \in Hosts : FenceQuiet(g)
    <3>0. \A g \in Hosts : g # h => FenceQuiet(g) BY <2>1 DEF FenceQuiet, FenceFades
    <3>1. CASE fence'[h] = Open BY <2>1, <3>1 DEF FenceQuiet, FenceFades, Open
    <3>2. CASE fence'[h] = [fence[h] EXCEPT !.up = FALSE]
      <4>1. /\ fence'[h].lease = fence[h].lease /\ ~fence'[h].up
            /\ fence'[h].committed = fence[h].committed
        BY <3>2 DEF TypeOK, Fence
      <4> QED BY <2>1, <4>1 DEF FenceQuiet, FenceFades
    <3> QED BY <2>1, <3>0, <3>1, <3>2
  <2>3. \A g \in Hosts : WorkerQuiet(g) BY <2>1 DEF WorkerQuiet, WorkerFades
  <2> QED BY <2>1, <2>2, <2>3, QuietSafe
          DEF CallQuiet, KeepsRequest, PeerFades, CallersStay, OpensFit
<1>3. CASE Crash(h)
  <2>1. /\ UNCHANGED <<coord, fence, peer, used, granted>>
        /\ \A g \in Hosts : g # h => worker'[g] = worker[g]
        /\ worker'[h].pc = "off" /\ worker'[h].reply = "none"
        /\ worker'[h].phase = worker[h].phase /\ worker'[h].lease = worker[h].lease
        /\ worker'[h].step = worker[h].step
    BY <1>3 DEF Crash, Stop, TypeOK, Process
  <2>2. ASSUME NEW s \in Slots
        PROVE  /\ KeepsRequest(s) /\ call'[s].pc = call[s].pc
               /\ call'[s].code = call[s].code
               /\ call'[s].live => call'[s].actor # h
    <3>1. PICK live \in BOOLEAN :
            /\ call'[s] = [call[s] EXCEPT !.live = live]
            /\ live => call[s].live /\ call[s].actor # h
      BY <1>3 DEF Crash, TypeOK, Call
    <3>2. call[s] \in Call BY DEF TypeOK
    <3> QED BY <3>1, <3>2 DEF Call, KeepsRequest
  <2>3. \A g \in Hosts : WorkerQuiet(g)
    BY <2>1, <2>2 DEF WorkerQuiet, WorkerFades
  <2>4. CallersStay BY <2>1, <2>2 DEF CallersStay, KeepsRequest
  <2> QED BY <2>1, <2>2, <2>3, <2>4, QuietSafe
          DEF CallQuiet, PeerFades, OpensFit, FenceQuiet, FenceFades
<1>4. CASE AgentRestart(h) BY <1>4, KillSafe DEF AgentRestart
<1>5. CASE Reboot(h) BY <1>5, KillSafe DEF Reboot
<1> QED BY <1>1, <1>2, <1>3, <1>4, <1>5

\* A client that stops waiting leaves its handler to go on.
LEMMA TimeoutSafe ==
  ASSUME CoreInv, NEW s \in Slots, Timeout(s)
  PROVE  Steady' /\ Tracked' /\ Barred'
<1> DEFINE h == call[s].actor
<1> USE DEF CoreInv
<1>1. /\ UNCHANGED <<coord, fence, peer, used, granted>>
      /\ call[s].live /\ h \in Hosts /\ worker[h].reply = "waiting"
      /\ \A t \in Slots : call[t].live /\ call[t].actor = h => t = s
      /\ \A t \in Slots : t # s => call'[t] = call[t]
      /\ call'[s] = [call[s] EXCEPT !.live = FALSE]
      /\ \A g \in Hosts : g # h => worker'[g] = worker[g]
      /\ worker'[h] = [worker[h] EXCEPT !.reply = "busy"]
  BY DEF Timeout, TypeOK, Call, ClientsWait
<1>2. /\ KeepsRequest(s) /\ call'[s].pc = call[s].pc /\ call'[s].code = call[s].code
      /\ ~call'[s].live
  BY <1>1 DEF TypeOK, Call, KeepsRequest
<1>3. /\ worker'[h].pc = worker[h].pc /\ worker'[h].phase = worker[h].phase
      /\ worker'[h].lease = worker[h].lease /\ worker'[h].step = worker[h].step
      /\ worker'[h].reply = "busy"
  BY <1>1 DEF TypeOK, Process
<1>4. \A g \in Hosts : WorkerQuiet(g)
  BY <1>1, <1>2, <1>3 DEF WorkerQuiet, WorkerFades, KeepsRequest
<1>5. CallersStay BY <1>1, <1>2 DEF CallersStay, KeepsRequest
<1> QED BY <1>1, <1>2, <1>4, <1>5, QuietSafe
        DEF CallQuiet, KeepsRequest, PeerFades, OpensFit, FenceQuiet, FenceFades

----------------------------------------------------------------------------
(* The invariant *)

\* CoreInv is inductive: no interleaving of workers, late handlers, lost answers,
\* contended locks, expiries, restarts and reboots leaves it.
LEMMA CoreInductive == CoreInv /\ [Next]_vars => CoreInv'
<1> SUFFICES ASSUME CoreInv, [Next]_vars PROVE CoreInv'
  OBVIOUS
<1>1. TypeOK' /\ Asking'
  <2>1. Typed BY DEF CoreInv, Typed, RollbacksFail, Remembering, Failures, Answers
  <2> QED BY <2>1, TypedInductive DEF Typed
<1>2. Steady' /\ Tracked' /\ Barred'
  <2>1. ASSUME NEW h \in Hosts, Working(h) PROVE Steady' /\ Tracked' /\ Barred'
    BY <2>1, WorkingStep, WorkerSafe, OverrunSafe DEF CoreInv
  <2>2. ASSUME NEW s \in Slots, Handling(s) PROVE Steady' /\ Tracked' /\ Barred'
    BY <2>2, ArmHandlingSafe, StepHandlingSafe, CheckHandlingSafe,
       ReleaseHandlingSafe DEF Handling
  <2>3. CASE UNCHANGED vars
    <3>1. UNCHANGED <<coord, fence, worker, call, peer, used, granted>>
      BY <2>3 DEF vars
    <3> QED BY <3>1, QuietSafe
            DEF CallQuiet, KeepsRequest, PeerFades, CallersStay, OpensFit,
                WorkerQuiet, WorkerFades, FenceQuiet, FenceFades
  <2> QED BY <2>1, <2>2, <2>3, StartSafe, AcceptSafe, HostsSafe, ContendingSafe,
             TimeoutSafe, PeerSafe DEF Next
<1>3. FinishedRunHoldsNoLease'
  BY <1>2 DEF Tracked, RestsSpent, Resting, FinishedRunHoldsNoLease
<1> QED BY <1>1, <1>2, <1>3 DEF CoreInv, Steady, Tracked, Barred, ArmedOnce

----------------------------------------------------------------------------
(* What a step does to a request, to a process and to an open step *)

\* The handler has ended, or is still at work on the request it had.
StaysOn(s) ==
  \/ call'[s].pc = "free"
  \/ /\ call'[s].lease = call[s].lease /\ call'[s].step = call[s].step
     /\ call'[s].ok = call[s].ok
     /\ call'[s].pc \in {"claim", "complete"} => call'[s].pc = call[s].pc
     /\ call'[s].pc \in ArmPcs => call[s].pc \in ArmPcs
     /\ call'[s].pc \in StepPcs => call[s].pc \in StepPcs

\* A handler goes from section to section of one kind.
LEMMA HandlersStayOn ==
  ASSUME TypeOK, NEW s \in Slots, Handling(s) \/ Contending(s), NEW t \in Slots
  PROVE  StaysOn(t)
<1>a. ASSUME NEW code, Finish(s, code) PROVE StaysOn(t)
  BY <1>a DEF Finish, FreeCall, StaysOn, TypeOK
<1>c. ASSUME NEW pc, NEW code, call' = [call EXCEPT ![s].pc = pc, ![s].code = code],
             \/ call[s].pc \in ArmPcs /\ pc \in ArmPcs
             \/ call[s].pc \in StepPcs /\ pc \in StepPcs
             \/ pc \in OpenPcs
      PROVE  StaysOn(t)
  <2>1. call[s] \in Call BY DEF TypeOK
  <2>2. CASE t = s
    BY <1>c, <2>1, <2>2 DEF StaysOn, TypeOK, Call, ArmPcs, StepPcs, OpenPcs
  <2>3. CASE t # s BY <1>c, <2>3 DEF StaysOn, TypeOK
  <2> QED BY <2>2, <2>3
<1>g. ASSUME NEW pc, Goto(s, pc),
             \/ call[s].pc \in ArmPcs /\ pc \in ArmPcs
             \/ call[s].pc \in StepPcs /\ pc \in StepPcs
             \/ pc \in OpenPcs
      PROVE  StaysOn(t)
  <2>1. call' = [call EXCEPT ![s].pc = pc, ![s].code = call[s].code]
    BY <1>g DEF Goto, TypeOK, Call
  <2> QED BY <1>c, <1>g, <2>1
<1>w. ASSUME NEW code, call[s].pc \in DOMAIN WaitAfter,
             call' = [call EXCEPT ![s].pc = WaitAfter[call[s].pc], ![s].code = code]
      PROVE  StaysOn(t)
  <2>1. \/ call[s].pc \in ArmPcs /\ WaitAfter[call[s].pc] \in ArmPcs
        \/ call[s].pc \in StepPcs /\ WaitAfter[call[s].pc] \in StepPcs
        \/ WaitAfter[call[s].pc] \in OpenPcs
    BY <1>w DEF WaitAfter, ArmPcs, StepPcs, OpenPcs
  <2> QED BY <1>w, <1>c, <2>1
<1>p. ASSUME NEW op, PeerSend(s, op), call[s].pc \in DOMAIN WaitAfter PROVE StaysOn(t)
  <2>1. call' = [call EXCEPT ![s].pc = WaitAfter[call[s].pc], ![s].code = "waiting"]
    BY <1>p DEF PeerSend, TypeOK, Call
  <2> QED BY <1>p, <1>w, <2>1
<1>r. ASSUME NEW code, StepAbandon(s, code), call[s].pc \in StepPcs PROVE StaysOn(t)
  BY <1>c, <1>r DEF StepAbandon, StepPcs
<1> USE DEF AtCall, Deny, PeerAnswered, PeerRefused, ArmPcs, StepPcs, OpenPcs
<1>1. CASE Claim(s) \/ ArmBegin(s) \/ ArmClose(s) \/ ArmEnd(s)
  BY <1>1, <1>a, <1>g DEF Claim, ArmBegin, ArmClose, ArmEnd
<1>2. CASE ArmPeer(s) \/ StepPeer(s) \/ ReleasePeer(s)
  BY <1>2, <1>p DEF ArmPeer, StepPeer, ReleasePeer, WaitAfter
<1>3. CASE StepObserve(s) \/ StepCommit(s) \/ StepHold(s) \/ StepValidate(s)
  BY <1>3, <1>a, <1>g, <1>r DEF StepObserve, StepCommit, StepHold, StepValidate
<1>4. CASE StepRollback(s) BY <1>4, <1>a DEF StepRollback
<1>5. CASE StepGrant(s)
  BY <1>5, <1>a DEF StepGrant, StaysOn, FreeCall, TypeOK
<1>6. CASE Preflight(s) \/ Complete(s) \/ Verify(s)
  BY <1>6, <1>a DEF Preflight, Complete, Verify
<1>7. CASE ReleaseBegin(s) \/ ReleaseRead(s) \/ ReleaseCheck(s)
  BY <1>7, <1>a, <1>g DEF ReleaseBegin, ReleaseRead, ReleaseCheck
<1>8. CASE ReleaseOpen(s) \/ ReleaseFinal(s)
  BY <1>8, <1>a, <1>g DEF ReleaseOpen, ReleaseFinal, ReleaseLocal
<1>9. CASE ReleaseEnd(s) \/ LockBusy(s)
  BY <1>9, <1>a DEF ReleaseEnd, LockBusy
<1>10. CASE HoldBusy(s) BY <1>10, <1>r DEF HoldBusy
<1>11. CASE PeerTimeout(s)
  <2>1. CASE call' = [call EXCEPT ![s].code = "busy"]
    BY <2>1 DEF StaysOn, TypeOK, Call
  <2>2. CASE /\ call[s].pc \in DOMAIN WaitAfter
             /\ call' = [call EXCEPT ![s].pc = WaitAfter[@], ![s].code = "busy"]
    <3>1. call' = [call EXCEPT ![s].pc = WaitAfter[call[s].pc], ![s].code = "busy"]
      BY <2>2 DEF TypeOK, Call
    <3> QED BY <2>2, <1>w, <3>1
  <2> QED BY <1>11, <2>1, <2>2 DEF PeerTimeout
<1> QED BY <1>1, <1>2, <1>3, <1>4, <1>5, <1>6, <1>7, <1>8, <1>9, <1>10, <1>11
        DEF Handling, Contending

\* So no request comes into a handler unless a server accepts it.
LEMMA RequestsStay ==
  ASSUME TypeOK, NEW t \in Slots, \A h \in Hosts : ~Accept(h, t),
         \/ [Next]_vars
         \/ \E h \in Hosts, down \in SUBSET Hosts : KillHandlers(h, down)
  PROVE  StaysOn(t)
<1>1. CASE call'[t] = call[t] BY <1>1 DEF StaysOn
<1>2. ASSUME NEW live, NEW code,
             call'[t] = [call[t] EXCEPT !.live = live, !.code = code]
      PROVE  StaysOn(t)
  BY <1>2 DEF StaysOn, TypeOK, Call
<1>3. call \in [Slots -> Call] BY DEF TypeOK
<1>4. ASSUME NEW h \in Hosts, NEW down, KillHandlers(h, down) PROVE StaysOn(t)
  <2>1. CASE KillCoordinatorHandlers(down)
    BY <2>1 DEF KillCoordinatorHandlers, FreeCall, StaysOn
  <2>2. CASE KillPeerHandlers(down) BY <1>2, <2>2 DEF KillPeerHandlers
  <2> QED BY <1>4, <2>1, <2>2 DEF KillHandlers
<1>5. ASSUME NEW p \in PeerSlots, Answering(p) \/ PeerFenceBusy(p) PROVE StaysOn(t)
  <2>1. CASE call' = call BY <1>1, <2>1
  <2>2. ASSUME NEW code, PeerEnd(p, code) PROVE StaysOn(t)
    BY <1>3, <2>2 DEF PeerEnd, StaysOn, Call
  <2> QED BY <1>5, <2>1, <2>2
          DEF Answering, PeerAssert, PeerAct, PeerDeny, PeerFenceBusy
<1>6. ASSUME NEW h \in Hosts, NEW s \in Slots, Accept(h, s) PROVE StaysOn(t)
  <2>1. s # t BY <1>6
  <2> QED BY <1>1, <1>3, <1>6, <2>1 DEF Accept
<1>7. ASSUME NEW h \in Hosts, Working(h) PROVE StaysOn(t)
  BY <1>1, <1>7 DEF Working, Claimed, Armed, BeginStep, LocalDefer, EndOfPlan,
     Proved, Preflighted, Overrun, NativeDone, Completed, Verified, ReleaseAcked,
     Again, GiveUp, Rest
<1>8. ASSUME NEW h \in Hosts,
             \/ \E l \in Leases : Start(h, l)
             \/ Refuse(h) \/ Expire(h)
      PROVE  StaysOn(t)
  BY <1>1, <1>8 DEF Start, Rest, Refuse, Expire
<1>9. ASSUME NEW h \in Hosts, Crash(h) PROVE StaysOn(t)
  <2>1. call'[t] = [call[t] EXCEPT !.live = call'[t].live, !.code = call[t].code]
    BY <1>3, <1>9 DEF Crash, Call
  <2> QED BY <1>2, <2>1
<1>10. ASSUME NEW s \in Slots, Timeout(s) PROVE StaysOn(t)
  BY <1>3, <1>10 DEF Timeout, StaysOn, Call
<1>11. CASE UNCHANGED vars BY <1>1, <1>11 DEF vars
<1> QED BY <1>4, <1>5, <1>6, <1>7, <1>8, <1>9, <1>10, <1>11, HandlersStayOn
        DEF Next, AgentRestart, Reboot

\* While a step is open, the journal moves only by its completion.
LEMMA JournalKept ==
  ASSUME CoreInv, [Next]_vars, coord.phase \in {"step_running", "failed_unsafe"}
  PROVE  \/ coord' = coord
         \/ \E s \in Slots :
              /\ call[s].pc = "complete" /\ Owns(s) /\ coord.phase = "step_running"
              /\ call[s].step = coord.step
              /\ coord'.owner = coord.owner /\ coord'.lease = coord.lease
              /\ coord'.step = coord.step
              /\ coord'.phase = IF call[s].ok THEN "verifying" ELSE "failed_unsafe"
<1> USE DEF CoreInv, AtCall, Deny
<1>0. coord.destructive /\ ~coord.releaseVerified BY DEF DestructiveHeld
<1>1. ASSUME NEW s \in Slots, Handling(s), ~Complete(s) PROVE coord' = coord
  <2>1. CASE Claim(s) \/ ArmBegin(s) \/ ArmClose(s) \/ ArmPeer(s) \/ ArmEnd(s)
    BY <2>1 DEF Claim, ArmBegin, ArmClose, ArmPeer, ArmEnd, PeerRefused
  <2>2. CASE StepObserve(s) \/ StepCommit(s) \/ StepHold(s) \/ StepPeer(s)
             \/ StepValidate(s) \/ StepRollback(s) \/ StepGrant(s)
    BY <2>2 DEF StepObserve, StepCommit, StepHold, StepPeer, StepValidate,
       StepRollback, StepGrant, StepAbandon
  <2>3. CASE Preflight(s) \/ Verify(s) BY <1>0, <2>3 DEF Preflight, Verify
  <2>4. CASE ReleaseBegin(s) \/ ReleaseRead(s) \/ ReleaseOpen(s) \/ ReleasePeer(s)
             \/ ReleaseCheck(s) \/ ReleaseFinal(s)
    BY <1>0, <2>4 DEF ReleaseBegin, RuntimeVerified, ReleaseRead, ReleaseOpen,
       ReleasePeer, ReleaseCheck, ReleaseFinal, ReleaseLocal, PeerRefused
  <2>5. CASE ReleaseEnd(s)
    BY <2>5 DEF ReleaseEnd, Owns, ReleasesOpen, OpenPcs
  <2> QED BY <1>1, <2>1, <2>2, <2>3, <2>4, <2>5 DEF Handling
<1>2. ASSUME NEW s \in Slots, Complete(s), coord' # coord
      PROVE  /\ call[s].pc = "complete" /\ Owns(s) /\ coord.phase = "step_running"
             /\ call[s].step = coord.step
             /\ coord'.owner = coord.owner /\ coord'.lease = coord.lease
             /\ coord'.step = coord.step
             /\ coord'.phase = IF call[s].ok THEN "verifying" ELSE "failed_unsafe"
  BY <1>2 DEF Complete, TypeOK, Journal
<1>3. CASE UNCHANGED coord BY <1>3
<1>4. ASSUME NEW s \in Slots, Contending(s) \/ Timeout(s) PROVE coord' = coord
  BY <1>4 DEF Contending, LockBusy, HoldBusy, StepAbandon, PeerTimeout, Timeout
<1>5. ASSUME NEW p \in PeerSlots, Answering(p) \/ PeerFenceBusy(p) PROVE coord' = coord
  BY <1>5 DEF Answering, PeerAssert, PeerAct, PeerFenceBusy
<1>6. ASSUME NEW h \in Hosts, Working(h) PROVE coord' = coord
  BY <1>6 DEF Working, Claimed, Armed, BeginStep, LocalDefer, EndOfPlan,
     Proved, Preflighted, Overrun, NativeDone, Completed, Verified, ReleaseAcked,
     Again, GiveUp, Rest
<1>7. ASSUME NEW h \in Hosts,
             \/ \E l \in Leases : Start(h, l)
             \/ \E s \in Slots : Accept(h, s)
             \/ Refuse(h) \/ Expire(h) \/ Crash(h) \/ AgentRestart(h) \/ Reboot(h)
      PROVE  coord' = coord
  BY <1>7 DEF Start, Rest, Accept, Refuse, Expire, Crash, AgentRestart, Reboot
<1> QED BY <1>1, <1>2, <1>3, <1>4, <1>5, <1>6, <1>7 DEF Next, vars

\* A handler answers its client, or no worker hears of it.
LEMMA HandlersAnswer ==
  ASSUME TypeOK, NEW s \in Slots, Handling(s) \/ Contending(s), ~StepGrant(s)
  PROVE  worker' = worker \/ \E code \in Reply : Finish(s, code)
<1>1. {"ok", "retry", "busy", "denied", call[s].code} \subseteq Reply
  BY DEF TypeOK, Call, Reply
<1> QED BY <1>1 DEF Handling, Contending, AtCall, Deny, PeerRefused, Claim, ArmBegin,
   ArmClose, ArmPeer, ArmEnd, StepObserve, StepCommit, StepHold, StepPeer,
   StepValidate, StepRollback, StepAbandon, Preflight, Complete, Verify,
   ReleaseBegin, ReleaseRead, ReleaseOpen, ReleasePeer, ReleaseCheck, ReleaseFinal,
   ReleaseLocal, ReleaseEnd, LockBusy, HoldBusy, PeerTimeout

\* The process keeps its place and its record; only a grant gives it another step.
Undisturbed(h) ==
  /\ worker'[h].phase = worker[h].phase /\ worker'[h].lease = worker[h].lease
  /\ worker'[h].pc = worker[h].pc
  /\ coord.phase # "committing" => worker'[h].step = worker[h].step

\* The step is not one of the host's own process: neither does it start, work or
\* crash, nor does its host reboot.
Around(h) ==
  \/ \E g \in Hosts \ {h} : Working(g) \/ Crash(g) \/ \E l \in Leases : Start(g, l)
  \/ \E g \in Hosts : \/ \E s \in Slots : Accept(g, s)
                      \/ \E down \in SUBSET (Hosts \ {h}) : KillHandlers(g, down)
                      \/ Refuse(g) \/ Expire(g)
  \/ \E s \in Slots : Handling(s) \/ Contending(s) \/ Timeout(s)
  \/ \E p \in PeerSlots : Answering(p) \/ PeerFenceBusy(p)
  \/ worker'[h] = worker[h]

\* Such a step may answer its request, and no more.
LEMMA AroundKept ==
  ASSUME TypeOK, NEW h \in Hosts, Around(h)
  PROVE  Undisturbed(h)
<1>0. worker[h] \in Process /\ worker \in [Hosts -> Process] BY DEF TypeOK
<1>1. CASE worker'[h] = worker[h] BY <1>1 DEF Undisturbed
<1>2. ASSUME NEW reply, worker'[h] = [worker[h] EXCEPT !.reply = reply]
      PROVE  Undisturbed(h)
  BY <1>0, <1>2 DEF Undisturbed, Process
<1>3. ASSUME NEW g \in Hosts, NEW reply, worker' = [worker EXCEPT ![g].reply = reply]
      PROVE  Undisturbed(h)
  BY <1>0, <1>1, <1>2, <1>3
<1>4. ASSUME NEW g \in Hosts \ {h}, Working(g) PROVE Undisturbed(h)
  <2>1. CASE Overrun(g) BY <1>0, <1>1, <1>4, <2>1 DEF Overrun
  <2>2. CASE ~Overrun(g) BY <1>1, <1>4, <2>2, WorkingStep DEF WorkerStep
  <2> QED BY <2>1, <2>2
<1>5. ASSUME NEW g \in Hosts \ {h}, Crash(g) \/ \E l \in Leases : Start(g, l)
      PROVE  Undisturbed(h)
  BY <1>0, <1>1, <1>5 DEF Crash, Stop, Start
<1>6. ASSUME NEW s \in Slots, Handling(s) \/ Contending(s) PROVE Undisturbed(h)
  <2>1. CASE StepGrant(s)
    <3>1. CASE Deny(s)
      BY <1>1, <1>3, <3>1 DEF Deny, Finish, TypeOK, Call
    <3>2. CASE coord.phase = "committing" /\ worker' =
                 IF call[s].live THEN [worker EXCEPT ![call[s].actor].reply = "ok",
                                         ![call[s].actor].step = granted']
                 ELSE worker
      BY <1>0, <3>2 DEF Undisturbed, Process
    <3> QED BY <2>1, <3>1, <3>2 DEF StepGrant
  <2>2. CASE ~StepGrant(s)
    BY <1>1, <1>3, <1>6, <2>2, HandlersAnswer DEF Finish, TypeOK, Call
  <2> QED BY <2>1, <2>2
<1>7. ASSUME NEW p \in PeerSlots, Answering(p) \/ PeerFenceBusy(p) PROVE Undisturbed(h)
  BY <1>1, <1>7 DEF Answering, PeerAssert, PeerAct, PeerFenceBusy
<1>8. ASSUME NEW g \in Hosts,
             (\E s \in Slots : Accept(g, s)) \/ Refuse(g) \/ Expire(g)
      PROVE  Undisturbed(h)
  BY <1>1, <1>3, <1>8 DEF Accept, Refuse, Expire
<1>9. ASSUME NEW g \in Hosts, NEW down \in SUBSET (Hosts \ {h}), KillHandlers(g, down)
      PROVE  Undisturbed(h)
  BY <1>1, <1>2, <1>9 DEF KillHandlers, KillCoordinatorHandlers, KillPeerHandlers
<1>10. ASSUME NEW s \in Slots, Timeout(s) PROVE Undisturbed(h)
  BY <1>3, <1>10 DEF Timeout, TypeOK, Call
<1> QED BY <1>1, <1>4, <1>5, <1>6, <1>7, <1>8, <1>9, <1>10 DEF Around

\* A crash or a reboot leaves the record too.
LEMMA DownKept ==
  ASSUME TypeOK, NEW h \in Hosts, Crash(h) \/ Reboot(h)
  PROVE  /\ worker'[h].phase = worker[h].phase /\ worker'[h].lease = worker[h].lease
         /\ worker'[h].step = worker[h].step /\ worker'[h].pc = "off"
<1>1. worker[h] \in Process /\ worker \in [Hosts -> Process] BY DEF TypeOK
<1>2. \/ worker'[h] = [worker[h] EXCEPT !.pc = "off", !.reply = "none"]
      \/ worker'[h] = [worker[h] EXCEPT !.phase = worker[h].phase, !.pc = "off",
                                        !.reply = "none"]
  BY <1>1 DEF Crash, Stop, Reboot, KillHandlers, KillCoordinatorHandlers, KillPeerHandlers
<1> QED BY <1>1, <1>2 DEF Process

\* So the record stays unless the process starts or works.
LEMMA ProcessKept ==
  ASSUME TypeOK, [Next]_vars, NEW h \in Hosts, ~Working(h),
         \A l \in Leases : ~Start(h, l)
  PROVE  /\ worker'[h].phase = worker[h].phase /\ worker'[h].lease = worker[h].lease
         /\ worker'[h].pc \in {worker[h].pc, "off"}
         /\ coord.phase # "committing" => worker'[h].step = worker[h].step
<1>1. CASE Crash(h) \/ Reboot(h) BY <1>1, DownKept
<1>2. CASE ~(Crash(h) \/ Reboot(h))
  <2>1. ASSUME NEW g \in Hosts, AgentRestart(g) PROVE Around(h)
    BY <2>1 DEF AgentRestart, Around
  <2>2. ASSUME NEW g \in Hosts \ {h}, Reboot(g) PROVE Around(h)
    <3>1. {g} \in SUBSET (Hosts \ {h}) OBVIOUS
    <3> QED BY <2>2, <3>1 DEF Reboot, Around
  <2>3. Around(h) BY <1>2, <2>1, <2>2 DEF Next, Around, vars
  <2> QED BY <2>3, AroundKept DEF Undisturbed
<1> QED BY <1>1, <1>2

\* An unsafe record's step stays with the coordinator, also once it has failed:
\* its only completion would be the worker's own, and that one tells the failure.
LEMMA StepKeptStays ==
  ASSUME CoreInv, [Next]_vars, NEW h \in Hosts,
         UnsafeWork(h), UnsafeWork(h)', StepKept(h)
  PROVE  StepKept(h)'
<1> USE DEF CoreInv
<1>1. /\ coord.phase \in {"step_running", "failed_unsafe"} /\ StepOpen(h)
      /\ worker[h].phase \notin Resting
  BY DEF StepKept, UnsafeWork, UnsafePhases, Resting
<1>2. worker'[h].lease = worker[h].lease /\ worker'[h].step = worker[h].step
  <2>1. \A l \in Leases : ~Start(h, l) BY <1>1 DEF Start, Resting
  <2>2. CASE Working(h)
    <3>1. Typed BY DEF Typed, RollbacksFail, Remembering, Failures, Answers
    <3>2. CASE Overrun(h) BY <3>2, OverrunStep DEF TypeOK, Process
    <3>3. CASE ~Overrun(h) BY <2>2, <3>3, WorkingStep DEF WorkerStep
    <3> QED BY <3>2, <3>3
  <2>3. CASE ~Working(h) BY <1>1, <2>1, <2>3, ProcessKept
  <2> QED BY <2>2, <2>3
<1>3. StepOpen(h)' /\ coord'.phase \in {"step_running", "failed_unsafe"}
  <2>1. CASE coord' = coord BY <1>1, <1>2, <2>1 DEF StepOpen
  <2>2. CASE coord' # coord
    <3>1. PICK s \in Slots :
            /\ call[s].pc = "complete" /\ Owns(s) /\ call[s].step = coord.step
            /\ coord'.owner = coord.owner /\ coord'.lease = coord.lease
            /\ coord'.step = coord.step
            /\ coord'.phase = IF call[s].ok THEN "verifying" ELSE "failed_unsafe"
      BY <1>1, <2>2, JournalKept
    <3>2. ~call[s].ok BY <1>1, <3>1 DEF StepKept, StepOpen, Owns
    <3> QED BY <1>1, <1>2, <3>1, <3>2 DEF StepOpen
  <2> QED BY <2>1, <2>2
<1>4. ASSUME NEW s \in Slots, call'[s].pc = "complete", call'[s].ok
      PROVE  call'[s].lease # worker[h].lease \/ call'[s].step # worker[h].step
  <2>1. CASE StaysOn(s) BY <1>4, <2>1 DEF StaysOn, StepKept
  <2>2. CASE ~StaysOn(s)
    <3>1. PICK g \in Hosts : Accept(g, s) BY <2>2, RequestsStay
    <3>2. /\ call'[s].pc = Path[worker[g].pc] /\ call'[s].lease = worker[g].lease
          /\ call'[s].ok = (worker[g].phase # "failed_unsafe")
          /\ worker[g].reply = "unsent"
      BY <3>1 DEF Accept, TypeOK
    <3>3. worker[g].pc \in {"complete", "completeRaise"}
      BY <1>4, <3>2 DEF Asking, Path
    <3>4. ~UnsafeWork(g)
      BY <1>4, <3>2, <3>3 DEF PhasesFit, UnsafeWork, UnsafePhases
    <3>5. worker[g].lease \in Leases BY <3>3 DEF LeasesFresh
    <3> QED BY <3>2, <3>4, <3>5, LeaseAssumption DEF LeasesFresh
  <2> QED BY <2>1, <2>2
<1> QED BY <1>2, <1>3, <1>4 DEF StepKept

\* The step of a record of unsafe work is with the coordinator, whether the work
\* may be running or is known to have failed.
LEMMA UnsafeIsKept == IInv => \A h \in Hosts : UnsafeWork(h) => StepKept(h)
  BY DEF IInv, CoreInv, StepAgreed, FailuresAgree, UnsafeWork, Running, RunningPhases

\* The whole invariant is inductive: a worker comes to a failed record from its
\* native work, whose step the coordinator still has.
THEOREM IInvInductive == IInv /\ [Next]_vars => IInv'
<1> SUFFICES ASSUME IInv, [Next]_vars, NEW h \in Hosts,
                    worker'[h].phase = "failed_unsafe"
             PROVE  StepKept(h)'
  BY CoreInductive DEF IInv, FailuresAgree
<1> USE DEF IInv
<1>1. UnsafeWork(h)' BY DEF UnsafeWork, UnsafePhases
<1>2. UnsafeWork(h) => StepKept(h) BY UnsafeIsKept
<1>3. CASE UnsafeWork(h) BY <1>1, <1>2, <1>3, StepKeptStays
<1>4. CASE ~UnsafeWork(h)
  <2>1. WorkerStep(h)
    <3>1. worker[h].phase \notin {"failed_unsafe", "installing"}
      BY <1>4 DEF UnsafeWork, UnsafePhases
    <3>2. \A l \in Leases : ~Start(h, l)
      BY <3>1 DEF Start, CoreInv, TypeOK, Process
    <3>3. Working(h)
      BY <3>1, <3>2, ProcessKept DEF CoreInv
    <3> QED BY <3>1, <3>3, WorkingStep DEF Overrun, CoreInv
  <2>2. HasGrant(h) BY <1>1, <1>4, <2>1 DEF WorkerStep, InOrder, UnsafeWork
  <2>3. /\ UNCHANGED <<coord, call>>
        /\ worker'[h].lease = worker[h].lease /\ worker'[h].step = worker[h].step
    BY <2>1 DEF WorkerStep
  <2>4. /\ StepOpen(h) /\ coord.phase = "step_running"
        /\ \A s \in Slots : call[s].pc = "complete" =>
             call[s].lease # worker[h].lease \/ call[s].step # worker[h].step
    BY <2>2 DEF HasGrant, CoreInv, StepAgreed
  <2> QED BY <2>3, <2>4 DEF StepKept, StepOpen
<1> QED BY <1>3, <1>4

\* Two idle hosts with open admission satisfy the invariant.
LEMMA InitIsSafe == Init => IInv
<1> SUFFICES ASSUME Init PROVE IInv
  OBVIOUS
<1> USE LeaseAssumption DEF Init, FreeCall, FreePeer, Off, Open, Released
<1>1. TypeOK
  <2>1. FreeCall \in Call BY FreeCallType
  <2>2. Released \in Journal BY DEF Released, Journal, LeasePhase
  <2>3. Open \in Fence BY DEF Open, Fence
  <2>4. Off \in Process BY DEF Off, Process, WorkerPc, WorkerPhase, Reply
  <2>5. FreePeer \in Peer BY DEF FreePeer, Peer
  <2> QED BY <2>1, <2>2, <2>3, <2>4, <2>5 DEF TypeOK
<1>2. ClientsWait /\ CallersWait BY DEF ClientsWait, CallersWait
<1>3. LeasesFresh /\ ClaimsFirst BY DEF LeasesFresh, ClaimsFirst, Unknown
<1>4. ArmedOnce
  BY DEF ArmedOnce, ArmingFits, OneArming, NotYetArmed, Arming, ArmPcs, PeerDoing
<1>5. CommitsAlone /\ CommitsHeld
  BY DEF CommitsAlone, CommitsHeld, CommitPcs, StepPcs, PeerDoing
<1>6. DestructiveHeld /\ OldBarriersExpire
  BY DEF DestructiveHeld, OldBarriersExpire, Clear
<1>7. ReleasesOpen BY DEF ReleasesOpen, OpenPcs
<1>8. StepAgreed BY DEF StepAgreed, Running, RunningPhases, UnsafePhases
<1>9. Asking /\ RollbacksFail /\ Named BY DEF Asking, RollbacksFail, Named
<1>10. PhasesFit /\ ReleasesEnd /\ RestsSpent
  BY DEF PhasesFit, ReleasesEnd, RestsSpent, Resting
<1>11. FinishedRunHoldsNoLease BY DEF FinishedRunHoldsNoLease
<1>12. FailuresAgree BY DEF FailuresAgree
<1> QED BY <1>1, <1>2, <1>3, <1>4, <1>5, <1>6, <1>7, <1>8, <1>9, <1>10, <1>11, <1>12
        DEF IInv, CoreInv

\* The invariant holds in every state of the control plane, for any number of
\* leases, handlers and faults.
THEOREM InvariantHolds == Spec => []IInv
  BY InitIsSafe, IInvInductive, PTL DEF Spec

\* Unsafe work of a host is always behind both held barriers, and the
\* coordinator has exactly that step open: whatever was late, lost, refused,
\* restarted or rebooted (worker.py, agent.py, fence.py).
THEOREM UnsafeWorkBarred == Spec => []UnsafeWorkIsBarred
<1>1. IInv => UnsafeWorkIsBarred
  BY UnsafeIsKept DEF IInv, CoreInv, StepKept, StepOpen, DestructiveHeld,
     UnsafeWorkIsBarred
<1> QED BY <1>1, InvariantHolds, PTL

\* A held barrier of a lease out of force would contradict OldBarriersExpire.
LEMMA HeldForTheLease == IInv => HoldBelongsToLease
<1> SUFFICES ASSUME IInv, NEW h \in Hosts, fence[h].committed
             PROVE  /\ fence[h].lease = coord.lease
                    /\ coord.phase \notin {"idle", "reserved", "fencing"}
  BY DEF HoldBelongsToLease
<1>1. fence[h].lease \in Leases BY DEF IInv, CoreInv, Named, TypeOK, Fence
<1> QED BY <1>1 DEF IInv, CoreInv, OldBarriersExpire, OutOfForce, Clear

\* A barrier that no timeout opens belongs to the lease in force, whose release
\* can lift it: no late close or hold of fence.py leaves one behind.
THEOREM HoldHasLease == Spec => []HoldBelongsToLease
  BY HeldForTheLease, InvariantHolds, PTL

\* A worker record that lets the timer start again (idle or deferred) leaves no
\* lease behind beyond a bare reservation.
THEOREM FinishedRunIsFree == Spec => []FinishedRunHoldsNoLease
<1>1. IInv => FinishedRunHoldsNoLease BY DEF IInv, CoreInv
<1> QED BY <1>1, InvariantHolds, PTL

----------------------------------------------------------------------------
(* The control plane implements exclusive maintenance: the barriers, the   *)
(* records of native work and the journal move one at a time, each as the  *)
(* abstract specification allows.                                          *)

\* The three abstract variables,
Held == {h \in Hosts : fence[h].committed}
Native == {h \in Hosts : UnsafeWork(h)}
Proven == ~coord.destructive \/ coord.releaseVerified \/ coord.phase = "verified"

\* and a step that leaves one of them alone.
SameHeld == \A h \in Hosts : fence'[h].committed = fence[h].committed
SameNative ==
  \A h \in Hosts : worker'[h].phase \in UnsafePhases <=> worker[h].phase \in UnsafePhases
SameProven == Proven' <=> Proven

\* The step is one of exclusive maintenance, or changes none of the three.
Allowed == [Exclusive!Next]_<<Held, Native, Proven>>

\* What the abstract specification sees of a step that changes none of the three.
LEMMA Stutters ==
  ASSUME SameHeld, SameNative, SameProven
  PROVE  Allowed
<1>1. Held' = Held BY DEF SameHeld, Held
<1>2. Native' = Native BY DEF SameNative, Native, UnsafeWork
<1>3. Proven' = Proven BY DEF SameProven, Proven
<1> QED BY <1>1, <1>2, <1>3 DEF Allowed

\* No native work is recorded unless the coordinator has its step open.
LEMMA NoNative ==
  ASSUME IInv, coord.phase \notin {"step_running", "failed_unsafe"}
  PROVE  Native = {}
  BY UnsafeIsKept DEF StepKept, Native

\* One barrier is held, or held again.
LEMMA Holds ==
  ASSUME NEW h \in Hosts, fence'[h].committed = TRUE, SameNative, SameProven,
         \A g \in Hosts : g # h => fence'[g].committed = fence[g].committed
  PROVE  Allowed
<1>1. Held' = Held \cup {h} BY DEF Held
<1>2. Native' = Native BY DEF SameNative, Native, UnsafeWork
<1>3. Proven' = Proven BY DEF SameProven, Proven
<1>4. Exclusive!Hold(h) BY <1>1, <1>2, <1>3 DEF Exclusive!Hold, Held, Native, Proven
<1> QED BY <1>4 DEF Allowed, Exclusive!Next

\* A held barrier is lifted only for the lease that is being released, once it
\* has been verified.
LEMMA Lifts ==
  ASSUME IInv, NEW h \in Hosts, NEW l \in Leases, FenceFreeFor(h, l),
         coord.lease = l => coord.phase \in {"releasing", "idle"},
         fence'[h] = Open, coord' = coord, SameNative,
         \A g \in Hosts : g # h => fence'[g] = fence[g]
  PROVE  Allowed
<1>1. SameProven BY DEF SameProven, Proven
<1>2. CASE ~fence[h].committed
  <2>1. fence[h].committed = FALSE BY <1>2 DEF IInv, CoreInv, TypeOK, Fence
  <2>2. fence'[h].committed = FALSE BY DEF Open
  <2>3. SameHeld BY <2>1, <2>2 DEF SameHeld
  <2> QED BY <1>1, <2>3, Stutters
<1>3. CASE fence[h].committed
  <2>1. fence[h].lease = l BY <1>3 DEF FenceFreeFor, IInv, CoreInv, Named
  <2>2. coord.phase = "releasing" /\ coord.lease = l
    BY <1>3, <2>1, HeldForTheLease DEF HoldBelongsToLease
  <2>3. Native = {} BY <2>2, NoNative
  <2>4. Proven BY <2>2 DEF Proven, IInv, CoreInv, DestructiveHeld
  <2>5. Held' = Held \ {h} BY DEF Held, Open
  <2>6. Native' = Native BY DEF SameNative, Native, UnsafeWork
  <2>7. Proven' = Proven BY <1>1 DEF SameProven, Proven
  <2>8. Exclusive!Lift(h)
    BY <2>3, <2>4, <2>5, <2>6, <2>7 DEF Exclusive!Lift, Held, Native, Proven
  <2> QED BY <2>8 DEF Allowed, Exclusive!Next
<1> QED BY <1>2, <1>3

\* The journal says from now on that the runtime is verified.
LEMMA Verifies ==
  ASSUME IInv, coord.phase \notin {"step_running", "failed_unsafe"}, Proven',
         SameHeld, SameNative
  PROVE  Allowed
<1>1. Held' = Held BY DEF SameHeld, Held
<1>2. Native' = Native BY DEF SameNative, Native, UnsafeWork
<1>3. Native = {} BY NoNative
<1>4. Proven' = TRUE BY DEF Proven
<1>5. Exclusive!Verify
  BY <1>1, <1>2, <1>3, <1>4 DEF Exclusive!Verify, Held, Native, Proven
<1> QED BY <1>5 DEF Allowed, Exclusive!Next

\* Nothing outside the journal moves when it goes from one phase that is not
\* verified to another.
LEMMA PhaseUnproven ==
  ASSUME NEW ph, OnlyPhase(ph), coord.phase # "verified", ph # "verified"
  PROVE  SameProven
  BY DEF OnlyPhase, SameProven, Proven

\* A handler answers or goes on: no worker record changes.
LEMMA HandlersAreNative ==
  ASSUME IInv, NEW s \in Slots, Handling(s) \/ Contending(s)
  PROVE  SameNative
<1>1. CASE StepGrant(s)
  <2>1. ASSUME NEW h \in Hosts PROVE worker'[h].phase = worker[h].phase
    <3>1. worker[h] \in Process BY DEF IInv, CoreInv, TypeOK
    <3>2. CASE worker' = worker BY <3>2
    <3>3. ASSUME NEW a \in Hosts, NEW code,
                 worker' = [worker EXCEPT ![a].reply = code]
          PROVE  worker'[h].phase = worker[h].phase
      BY <3>1, <3>3 DEF IInv, CoreInv, TypeOK, Process
    <3>4. ASSUME NEW a \in Hosts, NEW n,
                 worker' = [worker EXCEPT ![a].reply = "ok", ![a].step = n]
          PROVE  worker'[h].phase = worker[h].phase
      BY <3>1, <3>4 DEF IInv, CoreInv, TypeOK, Process
    <3>5. call[s].actor \in Hosts BY DEF IInv, CoreInv, TypeOK, Call
    <3> QED BY <1>1, <3>2, <3>3, <3>4, <3>5 DEF StepGrant, Deny, Finish
  <2> QED BY <2>1 DEF SameNative
<1>2. CASE ~StepGrant(s)
  <2>1. Typed BY DEF IInv, CoreInv, Typed, RollbacksFail, Remembering, Failures, Answers
  <2>2. HandlerStep(s) BY <1>2, <2>1, HandlingStep
  <2> QED BY <2>2 DEF HandlerStep, Ended, SameNative
<1> QED BY <1>1, <1>2

\* The sections of a handler that leave the journal and the held barriers alone.
LEMMA HandlerStutters ==
  ASSUME SameNative, coord' = coord, fence' = fence
  PROVE  Allowed
  BY Stutters DEF SameHeld, SameProven, Proven

\* The sections of /lease/claim and /lease/fence.
LEMMA ArmsAllowed ==
  ASSUME IInv, NEW s \in Slots, SameNative,
         Claim(s) \/ ArmBegin(s) \/ ArmClose(s) \/ ArmPeer(s) \/ ArmEnd(s)
  PROVE  Allowed
<1> USE DEF AtCall, Static
<1>0. CASE coord' = coord /\ fence' = fence BY <1>0, HandlerStutters
<1>1. CASE Claim(s)
  <2>1. CASE Deny(s) BY <1>0, <2>1 DEF Deny
  <2>2. CASE ~Deny(s)
    <3>1. coord.phase = "idle" /\ ~coord'.destructive /\ fence' = fence
      BY <1>1, <2>2 DEF Claim, IInv, CoreInv, TypeOK, Journal
    <3> QED BY <3>1, Verifies DEF SameHeld, Proven
  <2> QED BY <2>1, <2>2
<1>2. CASE ArmBegin(s) \/ ArmEnd(s)
  <2>1. CASE ~(coord' = coord)
    <3>1. /\ fence' = fence /\ coord.phase # "verified"
          /\ OnlyPhase("fencing") \/ OnlyPhase("fenced")
      BY <1>2, <2>1, PhaseMoved DEF ArmBegin, ArmEnd, Deny, PeerRefused, IInv, CoreInv
    <3> QED BY <3>1, PhaseUnproven, Stutters DEF SameHeld
  <2>2. fence' = fence BY <1>2 DEF ArmBegin, ArmEnd, Deny, PeerRefused
  <2> QED BY <1>0, <2>1, <2>2
<1>3. CASE ArmClose(s)
  <2>1. coord' = coord BY <1>3 DEF ArmClose, Deny
  <2>2. \A h \in Hosts : fence'[h].committed = fence[h].committed
    <3>1. CASE fence' = fence BY <3>1
    <3>2. CASE fence' # fence
      <4>1. PICK up \in BOOLEAN : CloseFence("ax41", call[s].lease, up)
        BY <1>3, <3>2 DEF ArmClose, Deny
      <4> QED BY <4>1 DEF CloseFence, IInv, CoreInv, TypeOK, Fence
    <3> QED BY <3>1, <3>2
  <2> QED BY <2>1, <2>2, Stutters DEF SameHeld, SameProven, Proven
<1>4. CASE ArmPeer(s) BY <1>0, <1>4 DEF ArmPeer
<1> QED BY <1>1, <1>2, <1>3, <1>4

\* The sections of /lease/step: a grant finds both barriers held and no native
\* work recorded anywhere.
LEMMA StepsAllowed ==
  ASSUME IInv, NEW s \in Slots, SameNative,
         \/ StepObserve(s) \/ StepCommit(s) \/ StepHold(s) \/ StepPeer(s)
         \/ StepValidate(s) \/ StepRollback(s) \/ StepGrant(s)
  PROVE  Allowed
<1> USE DEF AtCall, Static
<1>0. CASE coord' = coord /\ fence' = fence BY <1>0, HandlerStutters
<1>1. CASE StepObserve(s) \/ StepPeer(s) \/ StepValidate(s)
  BY <1>0, <1>1 DEF StepObserve, StepPeer, StepValidate, Deny, StepAbandon
<1>2. CASE StepCommit(s)
  <2>1. CASE ~(coord' = coord)
    <3>1. fence' = fence /\ coord.phase # "verified" /\ OnlyPhase("committing")
      BY <1>2, <2>1, PhaseMoved DEF StepCommit, Deny, IInv, CoreInv
    <3> QED BY <3>1, PhaseUnproven, Stutters DEF SameHeld
  <2> QED BY <1>0, <1>2, <2>1 DEF StepCommit, Deny
<1>3. CASE StepHold(s)
  <2>1. coord' = coord BY <1>3 DEF StepHold, StepAbandon
  <2>2. CASE fence' = fence BY <1>0, <2>1, <2>2
  <2>3. CASE HoldFence("ax41")
    <3>1. /\ fence'["ax41"].committed = TRUE
          /\ \A g \in Hosts : g # "ax41" => fence'[g].committed = fence[g].committed
      BY <2>3 DEF HoldFence, IInv, CoreInv, TypeOK, Fence, Hosts
    <3> QED BY <2>1, <3>1, Holds DEF SameProven, Proven, Hosts
  <2> QED BY <1>3, <2>2, <2>3 DEF StepHold, StepAbandon
<1>4. CASE StepRollback(s)
  <2>1. CASE ~(coord' = coord)
    <3>1. /\ fence' = fence /\ coord.phase # "verified"
          /\ OnlyPhase("verifying") \/ OnlyPhase("fenced")
      BY <1>4, <2>1, PhaseMoved DEF StepRollback, Deny, IInv, CoreInv
    <3> QED BY <3>1, PhaseUnproven, Stutters DEF SameHeld
  <2> QED BY <1>0, <1>4, <2>1 DEF StepRollback, Deny
<1>5. CASE StepGrant(s)
  <2>1. CASE Deny(s) BY <1>0, <2>1 DEF Deny
  <2>2. CASE ~Deny(s)
    <3>1. /\ Owns(s) /\ coord.phase = "committing" /\ fence' = fence
          /\ coord'.phase = "step_running" /\ coord'.destructive = TRUE
          /\ coord'.releaseVerified = coord.releaseVerified
      BY <1>5, <2>2 DEF StepGrant, IInv, CoreInv, TypeOK, Journal
    <3>2. Held = Hosts
      BY <1>5, <3>1 DEF StepGrant, IInv, CoreInv, CommitsHeld, HeldFor, Owns, Hosts, Held
    <3>3. Native = {} BY <3>1, NoNative
    <3>4. ~coord.releaseVerified BY <3>1 DEF IInv, CoreInv, DestructiveHeld
    <3>5. Proven' = FALSE BY <3>1, <3>4 DEF Proven
    <3>6. Held' = Held BY <3>1 DEF Held
    <3>7. Native' = Native BY DEF SameNative, Native, UnsafeWork
    <3>8. Exclusive!Grant
      BY <3>2, <3>3, <3>5, <3>6, <3>7 DEF Exclusive!Grant, Held, Native, Proven
    <3> QED BY <3>8 DEF Allowed, Exclusive!Next
  <2> QED BY <2>1, <2>2
<1> QED BY <1>1, <1>2, <1>3, <1>4, <1>5

\* The sections of the other requests.
LEMMA ReleasesAllowed ==
  ASSUME IInv, NEW s \in Slots, SameNative,
         \/ Preflight(s) \/ Complete(s) \/ Verify(s)
         \/ ReleaseBegin(s) \/ ReleaseRead(s) \/ ReleaseOpen(s) \/ ReleasePeer(s)
         \/ ReleaseCheck(s) \/ ReleaseFinal(s) \/ ReleaseEnd(s)
  PROVE  Allowed
<1> USE DEF AtCall, Static
<1>0. CASE coord' = coord /\ fence' = fence BY <1>0, HandlerStutters
<1>1. CASE Preflight(s) \/ ReleaseRead(s) \/ ReleasePeer(s) \/ ReleaseCheck(s)
  BY <1>0, <1>1 DEF Preflight, ReleaseRead, ReleasePeer, ReleaseCheck, Deny, PeerRefused
<1>2. CASE Complete(s)
  <2>1. CASE ~(coord' = coord)
    <3>1. /\ fence' = fence /\ coord.phase # "verified"
          /\ coord'.phase # "verified" /\ coord'.destructive = coord.destructive
          /\ coord'.releaseVerified = coord.releaseVerified
      BY <1>2, <2>1 DEF Complete, Deny, IInv, CoreInv, TypeOK, Journal
    <3> QED BY <3>1, Stutters DEF SameHeld, SameProven, Proven
  <2> QED BY <1>0, <1>2, <2>1 DEF Complete, Deny
<1>3. CASE Verify(s)
  <2>1. CASE ~(coord' = coord)
    <3>1. /\ fence' = fence /\ coord.phase \in {"fenced", "verifying", "verified"}
          /\ OnlyPhase("verified")
      BY <1>3, <2>1, PhaseMoved DEF Verify, Deny, IInv, CoreInv
    <3> QED BY <3>1, Verifies DEF SameHeld, OnlyPhase, Proven
  <2> QED BY <1>0, <1>3, <2>1 DEF Verify, Deny
<1>4. CASE ReleaseBegin(s)
  <2>1. CASE ~(coord' = coord)
    <3>1. /\ fence' = fence /\ coord'.phase = "releasing"
          /\ coord'.destructive = coord.destructive
          /\ coord'.releaseVerified = RuntimeVerified
      BY <1>4, <2>1 DEF ReleaseBegin, Deny, IInv, CoreInv, TypeOK, Journal
    <3>2. SameProven BY <3>1 DEF SameProven, Proven, RuntimeVerified
    <3> QED BY <3>1, <3>2, Stutters DEF SameHeld
  <2> QED BY <1>0, <1>4, <2>1 DEF ReleaseBegin, Deny
<1>5. CASE ReleaseOpen(s) \/ ReleaseFinal(s)
  <2>1. /\ call[s].pc \in {"releaseOpen", "releaseFinal"} /\ coord' = coord
        /\ \/ Deny(s)
           \/ /\ FenceFreeFor("ax41", call[s].lease)
              /\ OpenFence("ax41") \/ OpenFencePartly("ax41")
    BY <1>5 DEF ReleaseOpen, ReleaseFinal, ReleaseLocal, Deny
  <2>2. CASE Deny(s) BY <1>0, <2>1, <2>2 DEF Deny
  <2>3. CASE FenceFreeFor("ax41", call[s].lease) /\ OpenFence("ax41")
    <3>1. /\ call[s].lease \in Leases
          /\ coord.lease = call[s].lease => coord.phase \in {"releasing", "idle"}
      BY <2>1 DEF IInv, CoreInv, Named, ReleasesOpen, OpenPcs
    <3>2. /\ fence'["ax41"] = Open
          /\ \A g \in Hosts : g # "ax41" => fence'[g] = fence[g]
      BY <2>3 DEF OpenFence, IInv, CoreInv, TypeOK, Hosts
    <3> QED BY <2>1, <2>3, <3>1, <3>2, Lifts DEF Hosts
  <2>4. CASE OpenFencePartly("ax41")
    <3>1. SameHeld BY <2>4 DEF SameHeld, OpenFencePartly, IInv, CoreInv, TypeOK, Fence
    <3> QED BY <2>1, <3>1, Stutters DEF SameProven, Proven
  <2> QED BY <2>1, <2>2, <2>3, <2>4
<1>6. CASE ReleaseEnd(s)
  <2>1. CASE ~(coord' = coord)
    <3>1. /\ fence' = fence /\ Owns(s) /\ coord'.phase = "idle"
          /\ coord'.destructive = coord.destructive
          /\ coord'.releaseVerified = coord.releaseVerified
      BY <1>6, <2>1 DEF ReleaseEnd, Deny, IInv, CoreInv, TypeOK, Journal
    <3>2. coord.phase \in {"releasing", "idle"}
      BY <1>6, <3>1 DEF ReleaseEnd, Owns, IInv, CoreInv, ReleasesOpen, OpenPcs
    <3> QED BY <3>1, <3>2, Stutters DEF SameHeld, SameProven, Proven
  <2> QED BY <1>0, <1>6, <2>1 DEF ReleaseEnd, Deny
<1> QED BY <1>1, <1>2, <1>3, <1>4, <1>5, <1>6

\* A handler of the Selectel agent.
LEMMA PeersAllowed ==
  ASSUME IInv, NEW p \in PeerSlots, Answering(p) \/ PeerFenceBusy(p)
  PROVE  Allowed
<1> DEFINE l == peer[p].lease
<1>1. coord' = coord /\ worker' = worker
  BY DEF Answering, PeerAssert, PeerAct, PeerFenceBusy
<1>2. SameNative /\ SameProven BY <1>1 DEF SameNative, SameProven, Proven
<1>3. CASE SameHeld BY <1>2, <1>3, Stutters
<1>4. CASE fence' = fence BY <1>3, <1>4 DEF SameHeld
<1>5. CASE \E up \in BOOLEAN : CloseFence("selectel", l, up)
  BY <1>3, <1>5 DEF CloseFence, SameHeld, IInv, CoreInv, TypeOK, Fence
<1>6. CASE HoldFence("selectel")
  <2>1. /\ fence'["selectel"].committed = TRUE
        /\ \A g \in Hosts : g # "selectel" => fence'[g].committed = fence[g].committed
    BY <1>6 DEF HoldFence, IInv, CoreInv, TypeOK, Fence, Hosts
  <2> QED BY <1>2, <2>1, Holds DEF Hosts
<1>7. CASE OpenFencePartly("selectel")
  BY <1>3, <1>7 DEF OpenFencePartly, SameHeld, IInv, CoreInv, TypeOK, Fence
<1>8. CASE /\ peer[p].pc = "act" /\ peer[p].op = "open"
           /\ FenceFreeFor("selectel", l) /\ OpenFence("selectel")
  <2>1. l \in Leases /\ (coord.lease = l => coord.phase \in {"releasing", "idle"})
    BY <1>8 DEF IInv, CoreInv, Named, ReleasesOpen
  <2>2. /\ fence'["selectel"] = Open
        /\ \A g \in Hosts : g # "selectel" => fence'[g] = fence[g]
    BY <1>8 DEF OpenFence, IInv, CoreInv, TypeOK, Hosts
  <2> QED BY <1>1, <1>2, <1>8, <2>1, <2>2, Lifts DEF Hosts
<1>9. CASE PeerAct(p)
  BY <1>4, <1>5, <1>6, <1>7, <1>8, <1>9 DEF PeerAct, PeerDeny
<1> QED BY <1>4, <1>9 DEF Answering, PeerAssert, PeerDeny, PeerFenceBusy

\* A worker begins native work only with a grant in its hands, when both
\* barriers are held and no other host has any; it is the only one to end it.
LEMMA WorkersAllowed ==
  ASSUME IInv, NEW h \in Hosts, WorkerStep(h)
  PROVE  Allowed
<1>1. /\ coord' = coord /\ fence' = fence
      /\ \A g \in Hosts : g # h => worker'[g] = worker[g]
  BY DEF WorkerStep
<1>2. /\ Held' = Held /\ Proven' = Proven
  BY <1>1 DEF Held, Proven
<1>3. CASE UnsafeWork(h)' <=> UnsafeWork(h)
  BY <1>1, <1>3, HandlerStutters DEF SameNative, UnsafeWork
<1>4. CASE ~UnsafeWork(h) /\ UnsafeWork(h)'
  <2>1. HasGrant(h) BY <1>4 DEF WorkerStep, InOrder, UnsafeWork
  <2>2. StepOpen(h) /\ coord.phase = "step_running"
    BY <2>1 DEF IInv, CoreInv, StepAgreed, HasGrant
  <2>3. Native = {}
    BY <1>4, <2>2, UnsafeIsKept DEF Native, StepKept, StepOpen
  <2>4. Held = Hosts /\ Proven = FALSE
    BY <2>2 DEF IInv, CoreInv, DestructiveHeld, HeldFor, Held, Proven
  <2>5. Native' = {h} BY <1>1, <1>4, <2>3 DEF Native, UnsafeWork
  <2>6. Exclusive!Begin(h)
    BY <1>2, <2>3, <2>4, <2>5 DEF Exclusive!Begin, Held, Native, Proven
  <2> QED BY <2>6 DEF Allowed, Exclusive!Next
<1>5. CASE UnsafeWork(h) /\ ~UnsafeWork(h)'
  <2>1. Native = {h} BY <1>5, UnsafeIsKept DEF Native, StepKept, StepOpen
  <2>2. Native' = {} BY <1>1, <1>5, <2>1 DEF Native, UnsafeWork
  <2>3. Exclusive!End(h)
    BY <1>2, <2>1, <2>2 DEF Exclusive!End, Held, Native, Proven
  <2> QED BY <2>3 DEF Allowed, Exclusive!Next
<1> QED BY <1>3, <1>4, <1>5

\* What happens to a host changes no record of native work, and lifts no held
\* barrier.
LEMMA HostsAllowed ==
  ASSUME IInv, NEW h \in Hosts,
         \/ \E l \in Leases : Start(h, l)
         \/ \E s \in Slots : Accept(h, s)
         \/ Overrun(h) \/ Refuse(h) \/ Expire(h) \/ Crash(h)
         \/ AgentRestart(h) \/ Reboot(h)
  PROVE  Allowed
<1> USE DEF IInv, CoreInv
<1>1. coord' = coord
  BY DEF Start, Accept, Overrun, Rest, Refuse, Expire, Crash, AgentRestart, Reboot
<1>2. SameHeld
  <2>1. CASE fence' = fence BY <2>1 DEF SameHeld
  <2>2. CASE Expire(h)
    <3>1. fence[h].committed = FALSE BY <2>2 DEF Expire, TypeOK, Fence
    <3>2. CASE OpenFence(h)
      BY <3>1, <3>2 DEF OpenFence, Open, SameHeld, TypeOK
    <3>3. CASE OpenFencePartly(h)
      BY <3>3 DEF OpenFencePartly, SameHeld, TypeOK, Fence
    <3> QED BY <2>2, <3>2, <3>3 DEF Expire
  <2>3. CASE Reboot(h) BY <2>3 DEF Reboot, SameHeld, TypeOK, Fence
  <2> QED BY <2>1, <2>2, <2>3
          DEF Start, Accept, Overrun, Rest, Refuse, Crash, AgentRestart
<1>3. SameNative
  <2>1. CASE Overrun(h)
    BY <2>1, OverrunStep DEF Overrun, SameNative, UnsafePhases, TypeOK, Process
  <2>2. CASE Expire(h) BY <2>2 DEF Expire, SameNative
  <2>3. CASE AgentRestart(h) \/ Reboot(h)
    <3>1. PICK down \in SUBSET Hosts : KillHandlers(h, down)
      BY <2>3 DEF AgentRestart, Reboot
    <3>2. ASSUME NEW g \in Hosts PROVE worker'[g].phase = worker[g].phase
      <4>1. \/ worker'[g] = worker[g]
            \/ worker'[g] = [worker[g] EXCEPT !.pc = "off", !.reply = "none"]
            \/ worker'[g] = [worker[g] EXCEPT !.reply = "busy"]
        <5>1. CASE KillCoordinatorHandlers(down)
          BY <5>1 DEF KillCoordinatorHandlers
        <5>2. CASE KillPeerHandlers(down)
          BY <5>2 DEF KillPeerHandlers
        <5> QED BY <3>1, <5>1, <5>2 DEF KillHandlers
      <4>2. worker[g] \in Process BY DEF TypeOK
      <4> QED BY <4>1, <4>2 DEF Process
    <3> QED BY <3>2 DEF SameNative
  <2>4. CASE Refuse(h) \/ Crash(h)
    BY <2>4 DEF Refuse, Crash, Stop, SameNative, TypeOK, Process
  <2>5. ASSUME NEW l \in Leases, Start(h, l) PROVE SameNative
    BY <2>5 DEF Start, SameNative, TypeOK, Process
  <2>6. ASSUME NEW s \in Slots, Accept(h, s) PROVE SameNative
    BY <2>6 DEF Accept, SameNative, TypeOK, Process
  <2> QED BY <2>1, <2>2, <2>3, <2>4, <2>5, <2>6
<1> QED BY <1>1, <1>2, <1>3, Stutters DEF SameProven, Proven

\* Every step of the control plane is one that exclusive maintenance allows.
LEMMA NextAllowed == IInv /\ [Next]_vars => Allowed
<1> SUFFICES ASSUME IInv, [Next]_vars PROVE Allowed
  OBVIOUS
<1>1. CASE UNCHANGED vars
  BY <1>1, HandlerStutters DEF vars, SameNative
<1>2. ASSUME NEW h \in Hosts, Working(h) PROVE Allowed
  BY <1>2, WorkingStep, WorkersAllowed, HostsAllowed DEF IInv, CoreInv
<1>3. ASSUME NEW s \in Slots, Handling(s) PROVE Allowed
  BY <1>3, HandlersAreNative, ArmsAllowed, StepsAllowed, ReleasesAllowed DEF Handling
<1>4. ASSUME NEW s \in Slots, Contending(s) PROVE Allowed
  BY <1>4, HandlersAreNative, HandlerStutters
  DEF Contending, LockBusy, HoldBusy, StepAbandon, PeerTimeout
<1>5. ASSUME NEW s \in Slots, Timeout(s) PROVE Allowed
  BY <1>5, HandlerStutters DEF Timeout, SameNative, IInv, CoreInv, TypeOK, Call, Process
<1> QED BY <1>1, <1>2, <1>3, <1>4, <1>5, PeersAllowed, HostsAllowed DEF Next

\* At the start nothing is held, nothing runs and nothing is unproven.
LEMMA InitAllowed == Init => Exclusive!Init
<1> SUFFICES ASSUME Init PROVE Exclusive!Init
  OBVIOUS
<1>1. Held = {} BY DEF Held, Init, Open
<1>2. Native = {} BY DEF Native, UnsafeWork, UnsafePhases, Init, Off
<1>3. Proven = TRUE BY DEF Proven, Init, Released
<1> QED BY <1>1, <1>2, <1>3 DEF Exclusive!Init, Held, Native, Proven

\* The control plane implements exclusive maintenance: for any number of leases,
\* handlers and faults, disruptive work runs on one host at a time, begins only
\* behind barriers held on both hosts, and a held barrier is lifted only after
\* the runtime was verified (coordinator.py, agent.py, fence.py, worker.py).
THEOREM Refines == Spec => ImplementsExclusive
<1>1. Init => Exclusive!Init BY InitAllowed
<1>2. IInv /\ [Next]_vars => [Exclusive!Next]_<<Held, Native, Proven>>
  BY NextAllowed DEF Allowed
<1> QED BY <1>1, <1>2, InvariantHolds, PTL
        DEF Spec, ImplementsExclusive, Exclusive!Spec, Held, Native, Proven

----------------------------------------------------------------------------
(* The recovery tool                                                        *)
(*                                                                          *)
(* Native work stays behind both barriers while an operator recovers a      *)
(* stranded lease with the tool of HostRecovery, which takes back what the  *)
(* control plane never would: it reopens the verification of a failed or    *)
(* half committed step, restarts an agent, and brings a worker that has     *)
(* ended back to life.  CoreInv survives that; the parts below say why      *)
(* nothing that is still in flight can use it.                              *)


\* The tool works on a host that starts nothing itself; a worker that asks for
\* recovery has ended, and one in its preflight is about to begin native work.
HostInOrder(h) ==
  /\ tool[h] # "off" => h \in quarantined
  /\ tool[h] \in {"restarted", "prepared"} => worker[h].pc = "off"
  /\ tool[h] = "finishing" => worker[h].pc \in {"verify2", "release2"}
  /\ worker[h].phase = "recovery_required" => worker[h].pc = "off"
  /\ worker[h].pc = "preflight" =>
       worker[h].phase \in {"installing", "overrun", "preparing_restart"}

ToolInOrder ==
  /\ tool \in [Hosts -> {"off", "restarted", "prepared", "finishing"}]
  /\ tool["selectel"] # "restarted"
  /\ \A h \in Hosts : HostInOrder(h)

\* Nobody can arm or claim the lease l any more.
Settling(l) ==
  /\ l \in Leases /\ ~Arming(l)
  /\ \A s \in Slots : call[s].pc = "claim" => call[s].lease # l

\* The lease that the tool is about to verify is beyond its arming.
PreparedForRelease ==
  \A h \in Hosts : tool[h] = "prepared" =>
    Settling(worker[h].lease) /\ worker[h].phase \notin Resting

\* No handler can still commit, hold for or grant a step of the lease l.
NoCommit(l) == \A s \in Slots : call[s].pc \in StepPcs => call[s].lease # l

\* Since the tool restarted the agent of AX41, nobody is at work on a commit that
\* it may take back.
CommitIsDead ==
  tool["ax41"] = "restarted" =>
    \/ coord.phase = "failed_unsafe"
    \/ worker["selectel"].phase = "recovery_required" /\ NoCommit(worker["selectel"].lease)
    \/ /\ "selectel" \in quarantined
       /\ worker["selectel"].phase # "recovery_required"
       /\ worker["selectel"].pc = "off" \/ tool["selectel"] = "finishing"

\* Native work runs for a step that the coordinator keeps open, whose worker is
\* behind it, has given it up as failed, or is gone.
Trailed(h) ==
  /\ h \in Hosts /\ tool[h] = "off"
  /\ UnsafeWork(h) /\ StepKept(h)
  /\ \/ worker[h].pc \in {"native", "off"}
     \/ worker[h].pc = "completeRaise" /\ worker[h].phase = "failed_unsafe"

NativeIsTracked == \A h \in native : Trailed(h)

RecoveryInv ==
  /\ CoreInv /\ ToolInOrder /\ PreparedForRelease /\ CommitIsDead /\ NativeIsTracked

----------------------------------------------------------------------------
(* The steps that only the recovery takes keep CoreInv *)

\* The tool restarts an agent.
LEMMA RestartSafe ==
  ASSUME CoreInv, NEW h \in Hosts, KillHandlers(h, {}),
         UNCHANGED <<coord, fence, used, granted, faults>>
  PROVE  CoreInv'
<1>1. {} \in SUBSET Hosts OBVIOUS
<1>2. TypeOK' BY <1>1, KillType DEF CoreInv, TypeOK
<1>3. Asking'
  <2>1. Typed BY DEF CoreInv, Typed, RollbacksFail, Remembering, Failures, Answers
  <2> QED BY <1>1, <2>1, KillTyped
<1>4. Steady' /\ Tracked' /\ Barred' BY <1>1, KillSafe
<1>5. FinishedRunHoldsNoLease'
  BY <1>4 DEF Tracked, RestsSpent, Resting, FinishedRunHoldsNoLease
<1> QED BY <1>2, <1>3, <1>4, <1>5 DEF CoreInv, Steady, Tracked, Barred, ArmedOnce

\* The journal goes back to verification: the step has failed, or nobody can
\* grant the one that was being committed, and no record says that work runs.
LEMMA PrepareSafe ==
  ASSUME CoreInv, coord' = [coord EXCEPT !.phase = "verifying"],
         UNCHANGED <<fence, worker, call, peer, used, granted, faults>>,
         coord.phase \in {"failed_unsafe", "committing"}, coord.destructive,
         coord.phase = "committing" => NoCommit(coord.lease),
         \A h \in Hosts : ~Running(h)
  PROVE  CoreInv'
<1> USE LeaseAssumption DEF CoreInv
<1>1. /\ coord'.phase = "verifying" /\ coord'.owner = coord.owner
      /\ coord'.lease = coord.lease /\ coord'.step = coord.step
      /\ coord'.destructive = coord.destructive
      /\ coord'.releaseVerified = coord.releaseVerified
      /\ coord'.released = coord.released /\ coord' \in Journal
  BY DEF TypeOK, Journal, LeasePhase
<1>2. coord.lease \in Leases /\ ~Arming(coord.lease) /\ ~coord.releaseVerified
  BY DEF Named, ArmingFits, ArmedOnce, DestructiveHeld
<1>3. \A m : Arming(m)' = Arming(m) /\ NoHold(m)' = NoHold(m) /\ Unknown(m)' = Unknown(m)
  BY <1>1 DEF Arming, NoHold, PeerDoing, Unknown
<1>4. TypeOK' /\ Asking' BY <1>1 DEF TypeOK, Asking
<1>5. Steady'
  <2>1. ClientsWait' /\ CallersWait' /\ OneArming' /\ RollbacksFail' /\ PhasesFit'
    BY DEF ClientsWait, CallersWait, ArmedOnce, OneArming, PeerDoing, RollbacksFail, PhasesFit
  <2>2. LeasesFresh' /\ ClaimsFirst' BY <1>3 DEF LeasesFresh, ClaimsFirst
  <2> QED BY <2>1, <2>2 DEF Steady
<1>6. ArmingFits' /\ NotYetArmed'
  BY <1>1, <1>2, <1>3 DEF ArmedOnce, ArmingFits, NotYetArmed
<1>7. CommitsAlone'
  BY <1>1 DEF CommitsAlone, NoCommit, CommitPcs, PeerDoing
<1>8. StepAgreed' BY <1>1 DEF StepAgreed, Running
<1>9. ReleasesEnd' /\ RestsSpent' BY <1>1 DEF ReleasesEnd, RestsSpent
<1>10. CommitsHeld' /\ DestructiveHeld'
  BY <1>1, <1>2 DEF CommitsHeld, DestructiveHeld, HeldFor
<1>11. OldBarriersExpire' BY <1>1, <1>3 DEF OldBarriersExpire, OutOfForce, Clear
<1>12. ReleasesOpen' BY <1>1, <1>3 DEF ReleasesOpen, Clear
<1>13. Named' BY <1>1 DEF Named
<1>14. FinishedRunHoldsNoLease'
  BY <1>9 DEF RestsSpent, Resting, FinishedRunHoldsNoLease
<1> QED BY <1>4, <1>5, <1>6, <1>7, <1>8, <1>9, <1>10, <1>11, <1>12, <1>13, <1>14
        DEF Steady, ArmedOnce

\* The tool lets a worker that had ended ask for the verification of its lease:
\* nobody can still arm that lease or claim it.
LEMMA ResumeSafe ==
  ASSUME CoreInv, NEW h \in Hosts, Ask(h, "verifying", "verify2"),
         UNCHANGED <<coord, fence, call, peer, used, granted, faults>>,
         worker[h].pc = "off", worker[h].phase \notin Resting, Settling(worker[h].lease)
  PROVE  CoreInv'
<1> USE LeaseAssumption DEF CoreInv
<1>1. Moved(h, "verify2", "verifying", "unsent")
  BY AskMoves DEF TypeOK, WorkerPhase, WorkerPc
<1>2. \A g \in Hosts : worker'[g].lease = worker[g].lease /\ worker'[g].step = worker[g].step
  BY <1>1 DEF Moved
<1>3. \A m : Arming(m)' = Arming(m) /\ NoHold(m)' = NoHold(m) /\ Unknown(m)' = Unknown(m)
  BY DEF Arming, NoHold, PeerDoing, Unknown
<1>4. TypeOK' BY <1>1 DEF TypeOK, Moved
<1>5. Asking' BY <1>1 DEF Asking, Moved, Path
<1>6. ClientsWait'
  <2>1. \A s \in Slots : call[s].live => call[s].actor # h /\ call[s].actor \in Hosts
    BY DEF ClientsWait, TypeOK, Call, Path
  <2> QED BY <1>1, <2>1 DEF ClientsWait, Moved
<1>7. CallersWait' /\ OneArming' /\ RollbacksFail'
  BY DEF CallersWait, OneArming, ArmedOnce, PeerDoing, RollbacksFail
<1>8. LeasesFresh' BY <1>1, <1>2, <1>3 DEF LeasesFresh, Moved, Settling
<1>9. ClaimsFirst'
  <2>1. \A g \in Hosts : worker'[g].pc = "claim" => worker'[g] = worker[g]
    BY <1>1 DEF Moved
  <2>2. ASSUME NEW s \in Slots, call[s].pc = "claim", NEW g \in Hosts,
               worker'[g].lease = call[s].lease
        PROVE  worker'[g] = worker[g]
    BY <1>1, <1>2, <2>2 DEF Moved, Settling
  <2> QED BY <1>2, <1>3, <2>1, <2>2 DEF ClaimsFirst
<1>10. PhasesFit' BY <1>1 DEF PhasesFit, Moved, Resting
<1>11. ArmingFits'
  <2>1. \A l \in Leases : Arming(l) => worker[h].lease # l BY DEF Settling
  <2> QED BY <1>1, <1>2, <1>3, <2>1 DEF ArmingFits, ArmedOnce, Moved
<1>12. NotYetArmed' BY <1>1, <1>2, <1>3 DEF NotYetArmed, ArmedOnce, Moved
<1>13. CommitsAlone' BY DEF CommitsAlone, PeerDoing
<1>14. StepAgreed'
  BY <1>1, <1>2 DEF StepAgreed, StepKept, StepOpen, Running, RunningPhases, UnsafePhases, Moved
<1>15. ReleasesEnd' /\ RestsSpent' BY <1>1 DEF ReleasesEnd, RestsSpent, Moved, Resting
<1>16. Barred' BY BarredKept
<1>17. FinishedRunHoldsNoLease'
  BY <1>15 DEF RestsSpent, Resting, FinishedRunHoldsNoLease
<1> QED BY <1>4, <1>5, <1>6, <1>7, <1>8, <1>9, <1>10, <1>11, <1>12, <1>13, <1>14, <1>15,
           <1>16, <1>17
        DEF ArmedOnce, Barred

\* A worker that the tool gives up on ends with the record it has.
LEMMA LeaveSafe ==
  ASSUME CoreInv, NEW h \in Hosts, worker[h].pc \in {"verify2", "release2"},
         worker[h].reply # "waiting", Stop(h, worker[h].phase),
         UNCHANGED <<coord, fence, call, peer, used, granted, faults>>
  PROVE  CoreInv' /\ WorkerStep(h)
<1>1. WorkerStep(h)
  <2>1. worker[h].phase \in WorkerPhase BY DEF CoreInv, TypeOK, Process
  <2>2. Moved(h, "off", worker[h].phase, "none") BY <2>1, StopMoves DEF CoreInv, TypeOK
  <2>3. worker[h].phase \notin Resting BY DEF CoreInv, PhasesFit
  <2>4. worker[h].phase \in RunningPhases => Running(h) BY DEF Running
  <2> QED BY <2>2, <2>3, <2>4, MovedStep
<1>2. Steady' /\ Tracked' /\ Barred' BY <1>1, WorkerSafe
<1>3. TypeOK' /\ Asking'
  BY <1>1 DEF WorkerStep, InOrder, TypeOK, Asking, CoreInv
<1>4. FinishedRunHoldsNoLease'
  BY <1>2 DEF Tracked, RestsSpent, Resting, FinishedRunHoldsNoLease
<1> QED BY <1>1, <1>2, <1>3, <1>4 DEF CoreInv, Steady, Tracked, Barred, ArmedOnce

----------------------------------------------------------------------------
(* What is in flight for a lease                                            *)

\* The steps of the control plane, and the end of an agent's handlers.
Moving == \/ [Next]_vars
          \/ \E h \in Hosts, down \in SUBSET Hosts : KillHandlers(h, down)

\* A request for a lease comes into a handler only from its own worker.
LEMMA SentByWorker ==
  ASSUME CoreInv, Moving, NEW s \in Slots, ~StaysOn(s)
  PROVE  \E h \in Hosts : /\ worker[h].pc # "off" /\ worker[h].lease \in Leases
                          /\ call'[s].lease = worker[h].lease
                          /\ call'[s].pc = Path[worker[h].pc]
<1>1. PICK h \in Hosts : Accept(h, s) BY RequestsStay DEF CoreInv, Moving
<1>2. worker[h].pc \in DOMAIN Path BY <1>1 DEF Accept, CoreInv, Asking
<1>3. worker[h].pc # "off" BY <1>2 DEF Path
<1> QED BY <1>1, <1>3 DEF Accept, CoreInv, TypeOK, LeasesFresh

\* A peer handler that closes a barrier was sent by a handler that arms.
LEMMA ClosesForArming ==
  ASSUME TypeOK, Moving, NEW p \in PeerSlots, NEW l, PeerDoing(p, "close", l)'
  PROVE  Arming(l)
<1> SUFFICES ASSUME ~PeerDoing(p, "close", l)
             PROVE  \E s \in Slots : call[s].pc \in ArmPcs /\ call[s].lease = l
  BY DEF Arming
<1>0. peer \in [PeerSlots -> Peer] BY DEF TypeOK
<1>1. ASSUME NEW s \in Slots, NEW op, PeerSend(s, op) PROVE op = "close" /\ call[s].lease = l
  <2>1. PICK q \in PeerSlots :
          peer' = [peer EXCEPT ![q] = [pc |-> "assert", op |-> op,
                                       lease |-> call[s].lease, caller |-> s]]
    BY <1>1 DEF PeerSend
  <2>2. p = q BY <1>0, <2>1 DEF PeerDoing
  <2> QED BY <1>0, <2>1, <2>2 DEF PeerDoing
<1>2. ASSUME peer' = peer PROVE FALSE BY <1>2 DEF PeerDoing
<1>3. ASSUME NEW q \in PeerSlots, NEW code, PeerEnd(q, code) PROVE FALSE
  BY <1>0, <1>3 DEF PeerEnd, FreePeer, PeerDoing
<1>4. ASSUME NEW s \in Slots, Handling(s) \/ Contending(s)
      PROVE  call[s].pc \in ArmPcs /\ call[s].lease = l
  <2>1. CASE ArmPeer(s) BY <1>1, <2>1 DEF ArmPeer, AtCall, ArmPcs
  <2>2. CASE StepPeer(s) \/ ReleasePeer(s) BY <1>1, <2>2 DEF StepPeer, ReleasePeer
  <2>3. CASE PeerTimeout(s)
    <3>1. peer'[p] = peer[p] \/ peer'[p] = [peer[p] EXCEPT !.caller = NoSlot]
      BY <1>0, <2>3 DEF PeerTimeout
    <3> QED BY <1>0, <3>1 DEF PeerDoing, Peer
  <2>4. CASE Claim(s) \/ ArmBegin(s) \/ ArmClose(s) \/ ArmEnd(s) \/ LockBusy(s)
    BY <1>2, <2>4 DEF Claim, ArmBegin, ArmClose, ArmEnd, LockBusy, Deny, PeerRefused
  <2>5. CASE StepObserve(s) \/ StepCommit(s) \/ StepHold(s) \/ StepValidate(s)
             \/ StepRollback(s) \/ StepGrant(s) \/ HoldBusy(s)
    BY <1>2, <2>5 DEF StepObserve, StepCommit, StepHold, StepValidate, StepRollback,
       StepGrant, HoldBusy, StepAbandon, Deny
  <2>6. CASE \/ Preflight(s) \/ Complete(s) \/ Verify(s)
             \/ ReleaseBegin(s) \/ ReleaseRead(s) \/ ReleaseCheck(s)
    BY <1>2, <2>6 DEF Preflight, Complete, Verify, ReleaseBegin, ReleaseRead,
       ReleaseCheck, Deny, PeerRefused
  <2>7. CASE ReleaseOpen(s) \/ ReleaseFinal(s) \/ ReleaseEnd(s)
    BY <1>2, <2>7 DEF ReleaseOpen, ReleaseFinal, ReleaseLocal, ReleaseEnd, Deny
  <2> QED BY <1>4, <2>1, <2>2, <2>3, <2>4, <2>5, <2>6, <2>7 DEF Handling, Contending
<1>5. ASSUME NEW q \in PeerSlots, Answering(q) \/ PeerFenceBusy(q) PROVE FALSE
  <2>1. CASE peer' = [peer EXCEPT ![q].pc = "act"] /\ peer[q].pc = "assert"
    BY <1>0, <2>1 DEF PeerDoing, Peer
  <2> QED BY <1>3, <1>5, <2>1
          DEF Answering, PeerAssert, PeerAct, PeerDeny, PeerFenceBusy
<1>6. ASSUME NEW h \in Hosts, NEW down, KillHandlers(h, down) PROVE FALSE
  <2>1. peer'[p] = FreePeer \/ peer'[p] = [peer[p] EXCEPT !.caller = NoSlot]
    BY <1>6 DEF KillHandlers, KillCoordinatorHandlers, KillPeerHandlers
  <2> QED BY <1>0, <2>1 DEF PeerDoing, Peer, FreePeer
<1>7. ASSUME NEW h \in Hosts, Working(h) PROVE peer' = peer
  BY <1>7 DEF Working, Claimed, Armed, BeginStep, LocalDefer, EndOfPlan, Proved,
     Preflighted, Overrun, NativeDone, Completed, Verified, ReleaseAcked, Again,
     GiveUp, Rest
<1>8. ASSUME NEW h \in Hosts,
             \/ \E k \in Leases : Start(h, k)
             \/ \E s \in Slots : Accept(h, s)
             \/ Refuse(h) \/ Expire(h) \/ Crash(h)
      PROVE  peer' = peer
  BY <1>8 DEF Start, Rest, Accept, Refuse, Expire, Crash
<1>9. ASSUME NEW s \in Slots, Timeout(s) PROVE peer' = peer BY <1>9 DEF Timeout
<1> QED BY <1>2, <1>4, <1>5, <1>6, <1>7, <1>8, <1>9
        DEF Moving, Next, AgentRestart, Reboot, vars

\* A lease whose worker is down settles for good, and commits of it do not return.
LEMMA StaysSettled ==
  ASSUME CoreInv, Moving, NEW l,
         \A h \in Hosts : worker[h].lease = l => worker[h].pc = "off"
  PROVE  /\ Settling(l) => Settling(l)'
         /\ NoCommit(l) => NoCommit(l)'
<1>1. \A s \in Slots : call'[s].lease = l => StaysOn(s) BY SentByWorker
<1>2. ASSUME Settling(l) PROVE Settling(l)'
  <2>1. \A p \in PeerSlots : ~PeerDoing(p, "close", l)'
    BY <1>2, ClosesForArming DEF Settling, CoreInv
  <2>2. \A s \in Slots : call'[s].pc \in ArmPcs => call'[s].lease # l
    BY <1>1, <1>2 DEF Settling, Arming, StaysOn, ArmPcs
  <2>3. \A s \in Slots : call'[s].pc = "claim" => call'[s].lease # l
    BY <1>1, <1>2 DEF Settling, StaysOn
  <2> QED BY <1>2, <2>1, <2>2, <2>3 DEF Settling, Arming
<1>3. ASSUME NoCommit(l) PROVE NoCommit(l)'
  BY <1>1, <1>3 DEF NoCommit, StaysOn, StepPcs
<1> QED BY <1>2, <1>3

----------------------------------------------------------------------------
(* The steps of the recovery, as CoreInv and as one host sees them          *)

\* The steps that the control plane alone would not take.
LEMMA StepsOfRecovery ==
  ASSUME [RecoveryNext]_allVars
  PROVE  \/ [Next]_vars \/ Prepare
         \/ \E h \in Hosts : Quarantine(h) \/ Resume(h) \/ ToolGivesUp(h)
<1>1. ASSUME NEW h \in Hosts, Finishing(h) PROVE ToolGivesUp(h) \/ Working(h)
  BY <1>1 DEF Finishing, Working
<1>2. CASE UNCHANGED vars BY <1>2
<1> QED BY <1>1, <1>2
        DEF RecoveryNext, Leave, FinishCheck, Executing, NativeEnds, Killed, Rebooted,
            Starts, Serves, Next, allVars

\* What was said of the control plane stays true beside the tool.
LEMMA CoreStays ==
  ASSUME RecoveryInv, [RecoveryNext]_allVars
  PROVE  CoreInv'
<1> USE DEF RecoveryInv
<1>1. CASE [Next]_vars BY <1>1, CoreInductive
<1>2. CASE Prepare
  <2>1. ExpectedFailure \/ ExpectedCommit BY <1>2 DEF Prepare
  <2>2. coord.phase \in {"failed_unsafe", "committing"} /\ coord.destructive
    BY <2>1 DEF ExpectedFailure, ExpectedCommit, CoreInv, DestructiveHeld
  <2>3. coord.phase = "committing" => NoCommit(coord.lease)
    BY <1>2, <2>1 DEF Prepare, ToolAt, ExpectedFailure, ExpectedCommit, SameStep, CommitIsDead
  <2>4. \A h \in Hosts : ~Running(h)
    BY <2>1 DEF ExpectedFailure, ExpectedCommit, SameStep, Running, RunningPhases,
       CoreInv, StepAgreed, StepKept, StepOpen
  <2> QED BY <1>2, <2>2, <2>3, <2>4, PrepareSafe DEF Prepare
<1>3. ASSUME NEW h \in Hosts, Quarantine(h) PROVE CoreInv'
  BY <1>3, RestartSafe DEF Quarantine
<1>4. ASSUME NEW h \in Hosts, Resume(h) PROVE CoreInv'
  BY <1>4, ResumeSafe DEF Resume, ToolAt, ToolInOrder, HostInOrder, PreparedForRelease
<1>5. ASSUME NEW h \in Hosts, ToolGivesUp(h) PROVE CoreInv'
  <2>1. worker[h].pc \in {"verify2", "release2"} /\ worker[h].reply # "waiting"
    BY <1>5 DEF ToolGivesUp, At, Failures
  <2> QED BY <1>5, <2>1, LeaveSafe DEF ToolGivesUp, Rest
<1> QED BY <1>1, <1>2, <1>3, <1>4, <1>5, StepsOfRecovery

\* The host's process goes on with what it was doing, and so does the tool there.
Bystander(h) ==
  Around(h) /\ tool'[h] = tool[h] /\ (h \in native' => h \in native)

\* A step of the host's own process, or of the tool there.
Own(h) ==
  \/ Executing(h) \/ Finishing(h) \/ Killed(h) \/ Rebooted(h)
  \/ Starts(h) /\ UNCHANGED recoveryVars
  \/ Quarantine(h) \/ Resume(h) \/ Leave(h)
  \/ h = "ax41" /\ Prepare
  \/ h = "selectel" /\ FinishCheck

\* Every other step leaves the host alone.
LEMMA OwnOrBystander ==
  ASSUME TypeOK, ToolInOrder, [RecoveryNext]_allVars, NEW h \in Hosts
  PROVE  Own(h) \/ Bystander(h)
<1> SUFFICES ASSUME ~Own(h) PROVE Bystander(h)
  OBVIOUS
<1>0. tool \in [Hosts -> {"off", "restarted", "prepared", "finishing"}]
  BY DEF ToolInOrder
<1>1. ASSUME NEW g \in Hosts \ {h}, NEW at, Moves(g, at) PROVE tool'[h] = tool[h]
  BY <1>0, <1>1 DEF Moves
<1>2. CASE UNCHANGED allVars BY <1>2 DEF allVars, vars, recoveryVars, Bystander, Around
<1>3. ASSUME NEW g \in Hosts \ {h}, Executing(g) \/ Finishing(g) PROVE Bystander(h)
  <2>1. CASE Executing(g) BY <2>1 DEF Executing, Bystander, Around
  <2>2. CASE ToolGivesUp(g)
    <3>1. worker' = [worker EXCEPT ![g].phase = worker[g].phase, ![g].pc = "off",
                                   ![g].reply = "none"]
      BY <2>2 DEF ToolGivesUp, Stop
    <3>2. worker'[h] = worker[h] BY <3>1 DEF TypeOK
    <3> QED BY <1>1, <2>2, <3>2 DEF ToolGivesUp, Bystander, Around
  <2>3. CASE Finishing(g) /\ ~ToolGivesUp(g)
    BY <1>1, <2>3 DEF Finishing, Bystander, Around, Working
  <2> QED BY <1>3, <2>1, <2>2, <2>3
<1>4. ASSUME NEW g \in Hosts \ {h}, Killed(g) \/ Rebooted(g) PROVE Bystander(h)
  <2>1. CASE Killed(g) BY <1>1, <2>1 DEF Killed, Bystander, Around
  <2>2. CASE Rebooted(g)
    <3>1. {g} \in SUBSET (Hosts \ {h}) OBVIOUS
    <3> QED BY <1>1, <2>2, <3>1 DEF Rebooted, Reboot, Bystander, Around
  <2> QED BY <1>4, <2>1, <2>2
<1>5. ASSUME NEW g \in Hosts \ {h}, Quarantine(g) \/ Resume(g) \/ Leave(g)
      PROVE  Bystander(h)
  <2>1. CASE Quarantine(g) BY <1>1, <2>1 DEF Quarantine, Bystander, Around
  <2>2. CASE Resume(g) BY <1>1, <2>2 DEF Resume, Ask, TypeOK, Bystander, Around
  <2>3. CASE Leave(g) BY <1>1, <2>3 DEF Leave, Bystander, Around, vars
  <2> QED BY <1>5, <2>1, <2>2, <2>3
<1>6. ASSUME NEW g \in Hosts, NativeEnds(g) PROVE Bystander(h)
  BY <1>6 DEF NativeEnds, Bystander, Around, vars
<1>7. CASE Prepare \/ FinishCheck
  BY <1>1, <1>7 DEF Own, Hosts, Prepare, FinishCheck, Bystander, Around, vars
<1>8. ASSUME UNCHANGED recoveryVars,
             \/ \E g \in Hosts : \/ g # h /\ Starts(g)
                                 \/ \E s \in Slots : Accept(g, s)
                                 \/ Refuse(g) \/ Expire(g) \/ AgentRestart(g)
             \/ \E s \in Slots : Serves(s) \/ Contending(s) \/ Timeout(s)
             \/ \E p \in PeerSlots : Answering(p) \/ PeerFenceBusy(p)
      PROVE  Bystander(h)
  <2>1. Around(h)
    BY <1>8 DEF Starts, Serves, AgentRestart, Around
  <2> QED BY <1>8, <2>1 DEF Bystander, recoveryVars
<1> QED BY <1>2, <1>3, <1>4, <1>5, <1>6, <1>7, <1>8 DEF RecoveryNext, Own

----------------------------------------------------------------------------
(* The tool stays in order                                                  *)

\* A worker that asks for recovery ends with that, and one that enters its
\* preflight says what it is about to begin.
LEMMA WorkingInOrder ==
  ASSUME TypeOK, NEW h \in Hosts, Working(h), HostInOrder(h)
  PROVE  /\ worker[h].pc # "off"
         /\ worker'[h].phase = "recovery_required" => worker'[h].pc = "off"
         /\ worker'[h].pc = "preflight" =>
              worker'[h].phase \in {"installing", "overrun", "preparing_restart"}
<1>0. worker \in [Hosts -> Process] /\ worker[h] \in Process BY DEF TypeOK
<1>1. worker[h].pc # "off"
  BY WorkingStep DEF WorkerStep, InOrder, Overrun
<1>2. worker[h].phase # "recovery_required" BY <1>1 DEF HostInOrder
<1>3. ASSUME NEW phase, NEW pc, Ask(h, phase, pc)
      PROVE  worker'[h].phase = phase /\ worker'[h].pc = pc
  BY <1>0, <1>3 DEF Ask, Process
<1>4. ASSUME NEW phase, Stop(h, phase) \/ Continue(h, phase)
      PROVE  worker'[h].phase = phase /\ worker'[h].pc \in {"off", "work"}
             /\ (Stop(h, phase) => worker'[h].pc = "off")
  BY <1>0, <1>4 DEF Stop, Continue, Process
<1>5. ASSUME NEW phase, Raise(h, phase), phase # "recovery_required"
      PROVE  worker'[h].phase # "recovery_required" /\ worker'[h].pc # "preflight"
  BY <1>3, <1>4, <1>5 DEF Raise
<1>6. CASE Claimed(h) \/ Armed(h) BY <1>1, <1>3, <1>4, <1>5, <1>6 DEF Claimed, Armed
<1>7. CASE BeginStep(h) \/ LocalDefer(h)
  BY <1>1, <1>2, <1>3, <1>5, <1>7 DEF BeginStep, LocalDefer
<1>8. CASE EndOfPlan(h) BY <1>0, <1>1, <1>2, <1>8 DEF EndOfPlan, Process
<1>9. CASE Proved(h) BY <1>1, <1>3, <1>9 DEF Proved
<1>10. CASE Preflighted(h)
  <2>1. CASE At(h, "preflight", {"ok"}) /\ ~At(h, "preflight", {"busy", "denied"})
    BY <1>0, <1>1, <1>2, <1>10, <2>1 DEF Preflighted, Process
  <2>2. CASE At(h, "preflight", {"busy", "denied"})
    BY <1>2, <1>3, <1>5, <1>10, <2>2 DEF Preflighted, At
  <2> QED BY <1>10, <2>1, <2>2 DEF Preflighted
<1>11. CASE Overrun(h) BY <1>0, <1>11 DEF Overrun, Process
<1>12. CASE NativeDone(h) \/ Verified(h) BY <1>1, <1>3, <1>12 DEF NativeDone, Verified
<1>13. CASE Completed(h) \/ ReleaseAcked(h)
  BY <1>1, <1>2, <1>4, <1>5, <1>13 DEF Completed, ReleaseAcked
<1>14. CASE Again(h)
  <2>1. worker'[h].pc = worker[h].pc /\ worker'[h].phase = worker[h].phase
    BY <1>0, <1>14 DEF Again, Process
  <2> QED BY <1>2, <1>14, <2>1 DEF Again, Retried
<1>15. CASE GiveUp(h)
  <2>1. CASE Raise(h, worker[h].phase) BY <1>1, <1>2, <1>5, <2>1
  <2>2. CASE ReleaseFailed(h) BY <1>1, <1>2, <1>3, <2>2 DEF ReleaseFailed
  <2>3. CASE Stop(h, "recovery_required") BY <1>1, <1>4, <2>3
  <2> QED BY <1>15, <2>1, <2>2, <2>3 DEF GiveUp
<1> QED BY <1>1, <1>6, <1>7, <1>8, <1>9, <1>10, <1>11, <1>12, <1>13, <1>14, <1>15
        DEF Working

\* The worker of the tool verifies, releases, and ends.
LEMMA FinishingMoves ==
  ASSUME TypeOK, NEW h \in Hosts, Finishing(h), HostInOrder(h)
  PROVE  /\ tool[h] = "finishing"
         /\ \/ tool' = tool /\ worker'[h].pc \in {"verify2", "release2"}
            \/ Moves(h, "off") /\ worker'[h].pc = "off"
         /\ worker'[h].phase # "recovery_required"
         /\ UNCHANGED <<native, quarantined>>
<1>0. worker \in [Hosts -> Process] /\ worker[h] \in Process BY DEF TypeOK
<1>1. /\ tool[h] = "finishing" /\ worker[h].pc \in {"verify2", "release2"}
      /\ worker[h].phase # "recovery_required"
  BY DEF Finishing, ToolGivesUp, ToolAt, HostInOrder
<1>2. CASE Verified(h) /\ UNCHANGED <<tool, native, quarantined>>
  BY <1>0, <1>1, <1>2 DEF Verified, At, Ask, Process
<1>3. CASE Again(h) /\ UNCHANGED <<tool, native, quarantined>>
  BY <1>0, <1>1, <1>3 DEF Again, Process
<1>4. CASE ReleaseAcked(h) /\ Moves(h, "off") /\ UNCHANGED <<native, quarantined>>
  BY <1>0, <1>1, <1>4 DEF ReleaseAcked, Stop, Process
<1>5. CASE ToolGivesUp(h)
  BY <1>0, <1>1, <1>5 DEF ToolGivesUp, Stop, Process
<1> QED BY <1>2, <1>3, <1>4, <1>5 DEF Finishing

\* What every step of the tool keeps.
LEMMA ToolMoves ==
  ASSUME ToolInOrder, [RecoveryNext]_allVars
  PROVE  /\ tool' \in [Hosts -> {"off", "restarted", "prepared", "finishing"}]
         /\ tool'["selectel"] # "restarted" /\ quarantined \subseteq quarantined'
<1> DEFINE T == [Hosts -> {"off", "restarted", "prepared", "finishing"}]
<1>0. tool \in T /\ tool["selectel"] # "restarted" BY DEF ToolInOrder
<1>1. ASSUME NEW h \in Hosts, NEW at \in {"off", "prepared", "finishing"}, Moves(h, at)
      PROVE  tool' \in T /\ tool'["selectel"] # "restarted"
  BY <1>0, <1>1 DEF Moves
<1>2. CASE tool' = tool /\ quarantined \subseteq quarantined' BY <1>0, <1>2
<1>3. ASSUME NEW h \in Hosts, Quarantine(h)
      PROVE  tool' \in T /\ tool'["selectel"] # "restarted"
  <2>1. CASE h = "ax41" BY <1>0, <1>3, <2>1 DEF Quarantine, Moves
  <2>2. CASE h # "ax41" BY <1>1, <1>3, <2>2 DEF Quarantine
  <2> QED BY <2>1, <2>2
<1> QED BY <1>1, <1>2, <1>3
        DEF RecoveryNext, allVars, recoveryVars, Quarantine, Resume, Leave, Finishing,
            ToolGivesUp, Executing, NativeEnds, Killed, Rebooted, Prepare, FinishCheck,
            Hosts

\* No step of the tool or of the host's process leaves the order.
LEMMA InOrderStays ==
  ASSUME RecoveryInv, [RecoveryNext]_allVars
  PROVE  ToolInOrder'
<1> SUFFICES ASSUME NEW h \in Hosts PROVE HostInOrder(h)'
  BY ToolMoves DEF ToolInOrder, RecoveryInv
<1>0. /\ TypeOK /\ HostInOrder(h) /\ quarantined \subseteq quarantined'
      /\ tool \in [Hosts -> {"off", "restarted", "prepared", "finishing"}]
  BY ToolMoves DEF RecoveryInv, CoreInv, ToolInOrder
<1>1. CASE Bystander(h)
  BY <1>0, <1>1, AroundKept DEF Bystander, Undisturbed, HostInOrder
<1>2. CASE Executing(h)
  <2>1. Working(h) /\ tool' = tool BY <1>2 DEF Executing
  <2>2. tool[h] = "off" BY <1>0, <1>2, <2>1, WorkingInOrder
    DEF Executing, ToolAt, HostInOrder
  <2> QED BY <1>0, <2>1, <2>2, WorkingInOrder DEF HostInOrder
<1>3. CASE Finishing(h) BY <1>0, <1>3, FinishingMoves DEF HostInOrder, Moves
<1>4. CASE Killed(h) \/ Rebooted(h)
  BY <1>0, <1>4, DownKept DEF Killed, Rebooted, Moves, HostInOrder
<1>5. CASE Starts(h) /\ UNCHANGED recoveryVars
  <2>1. /\ worker'[h].pc = "claim" /\ worker'[h].phase = worker[h].phase
        /\ worker[h].phase # "recovery_required"
    BY <1>0, <1>5 DEF Starts, Start, TypeOK, Process
  <2> QED BY <1>0, <1>5, <2>1 DEF Starts, ToolAt, HostInOrder, recoveryVars
<1>6. CASE Quarantine(h)
  <2>1. Around(h) BY <1>6 DEF Quarantine, Around
  <2>2. worker[h].pc = "off" /\ h \in quarantined'
    BY <1>6 DEF Quarantine, LockFree
  <2>3. worker'[h].pc = "off" BY <1>0, <2>1, <2>2, AroundKept DEF Undisturbed
  <2>4. tool'[h] \in {"off", "restarted"} BY <1>0, <1>6 DEF Quarantine, Moves
  <2> QED BY <2>2, <2>3, <2>4 DEF HostInOrder
<1>7. CASE Resume(h)
  BY <1>0, <1>7 DEF Resume, ToolAt, Ask, Moves, HostInOrder, TypeOK, Process
<1>8. CASE Leave(h) BY <1>0, <1>8 DEF Leave, Moves, HostInOrder, vars
<1>9. CASE h = "ax41" /\ Prepare
  BY <1>0, <1>9 DEF Prepare, ToolAt, Moves, HostInOrder
<1>10. CASE h = "selectel" /\ FinishCheck
  BY <1>0, <1>10 DEF FinishCheck, LockFree, Moves, HostInOrder, vars
<1> QED BY <1>0, <1>1, <1>2, <1>3, <1>4, <1>5, <1>6, <1>7, <1>8, <1>9, <1>10,
           OwnOrBystander DEF Own, RecoveryInv

----------------------------------------------------------------------------
(* What the tool relies on stays true until it goes on                      *)

\* Every step moves requests as the control plane does, or moves none.
LEMMA RequestsMove ==
  ASSUME [RecoveryNext]_allVars
  PROVE  Moving \/ UNCHANGED <<call, peer>>
<1>1. ASSUME NEW h \in Hosts, Quarantine(h) PROVE Moving
  <2>1. {} \in SUBSET Hosts OBVIOUS
  <2> QED BY <1>1, <2>1 DEF Quarantine, Moving
<1> QED BY <1>1, StepsOfRecovery DEF Prepare, Resume, ToolGivesUp, Rest, Moving

\* So a lease whose worker is down stays as settled as it is.
LEMMA SettledBeside ==
  ASSUME CoreInv, [RecoveryNext]_allVars, NEW h \in Hosts, worker[h].pc = "off",
         NEW l, l = worker[h].lease
  PROVE  /\ Settling(l) => Settling(l)'
         /\ NoCommit(l) => NoCommit(l)'
<1>1. ASSUME NEW g \in Hosts, worker[g].lease = l PROVE worker[g].pc = "off"
  BY <1>1, LeaseAssumption DEF CoreInv, LeasesFresh
<1>2. CASE UNCHANGED <<call, peer>>
  BY <1>2 DEF Settling, NoCommit, Arming, PeerDoing
<1> QED BY <1>1, <1>2, StaysSettled, RequestsMove

\* A lease that the tool has prepared stays settled until the tool releases it.
LEMMA PreparedStays ==
  ASSUME RecoveryInv, [RecoveryNext]_allVars
  PROVE  PreparedForRelease'
<1> SUFFICES ASSUME NEW h \in Hosts, tool'[h] = "prepared"
             PROVE  Settling(worker[h].lease)' /\ worker'[h].phase \notin Resting
  BY DEF PreparedForRelease
<1>0. /\ TypeOK /\ HostInOrder(h)
      /\ tool \in [Hosts -> {"off", "restarted", "prepared", "finishing"}]
  BY DEF RecoveryInv, CoreInv, ToolInOrder
<1>1. CASE Bystander(h)
  <2>1. /\ tool[h] = "prepared" /\ worker[h].pc = "off"
        /\ worker'[h].lease = worker[h].lease /\ worker'[h].phase = worker[h].phase
    BY <1>0, <1>1, AroundKept DEF Bystander, Undisturbed, HostInOrder
  <2>2. Settling(worker[h].lease) /\ worker[h].phase \notin Resting
    BY <2>1 DEF RecoveryInv, PreparedForRelease
  <2>3. ASSUME NEW l, l = worker[h].lease PROVE Settling(l)'
    BY <2>1, <2>2, <2>3, SettledBeside DEF RecoveryInv
  <2> QED BY <2>1, <2>2, <2>3 DEF Settling, Arming, PeerDoing
<1>2. ASSUME coord.lease = worker[h].lease,
             coord.phase \in {"failed_unsafe", "verifying"},
             worker[h].phase \in {"failed_unsafe", "recovery_required"},
             UNCHANGED <<worker, call, peer>>
      PROVE  Settling(worker[h].lease)' /\ worker'[h].phase \notin Resting
  <2>1. Settling(coord.lease)
    BY <1>2, LeaseAssumption DEF RecoveryInv, CoreInv, Named, ArmedOnce, ArmingFits,
       ClaimsFirst, Unknown, Settling
  <2> QED BY <1>2, <2>1 DEF Settling, Arming, PeerDoing, Resting
<1>3. CASE h = "ax41" /\ Prepare
  <2>1. ExpectedFailure BY <1>0, <1>3 DEF Prepare, Moves
  <2> QED BY <1>2, <1>3, <2>1 DEF Prepare, ExpectedFailure, SameStep
<1>4. CASE h = "selectel" /\ FinishCheck
  BY <1>2, <1>4 DEF FinishCheck, vars
<1>5. CASE Executing(h)
  BY <1>0, <1>5, WorkingInOrder DEF Executing, HostInOrder
<1>6. CASE Finishing(h)
  BY <1>0, <1>6, FinishingMoves DEF Moves
<1>7. CASE Starts(h) /\ UNCHANGED recoveryVars
  BY <1>7 DEF Starts, ToolAt, recoveryVars
<1>8. CASE Killed(h) \/ Rebooted(h) \/ Quarantine(h) \/ Resume(h) \/ Leave(h)
  BY <1>0, <1>8 DEF Killed, Rebooted, Quarantine, Resume, Leave, Moves
<1> QED BY <1>0, <1>1, <1>3, <1>4, <1>5, <1>6, <1>7, <1>8, OwnOrBystander
        DEF Own, RecoveryInv

\* Neither a failed step nor a commit that nobody is at work on comes back to
\* life while the tool has restarted AX41's agent; Selectel can only be finished.
LEMMA CommitStaysDead ==
  ASSUME RecoveryInv, [RecoveryNext]_allVars
  PROVE  CommitIsDead'
<1> DEFINE l == worker["selectel"].lease
<1> SUFFICES ASSUME tool'["ax41"] = "restarted"
             PROVE  \/ coord'.phase = "failed_unsafe"
                    \/ /\ worker'["selectel"].phase = "recovery_required"
                       /\ NoCommit(worker["selectel"].lease)'
                    \/ /\ "selectel" \in quarantined'
                       /\ worker'["selectel"].phase # "recovery_required"
                       /\ worker'["selectel"].pc = "off" \/ tool'["selectel"] = "finishing"
  BY DEF CommitIsDead
<1>0. /\ TypeOK /\ CoreInv /\ ToolInOrder /\ HostInOrder("selectel") /\ HostInOrder("ax41")
      /\ tool \in [Hosts -> {"off", "restarted", "prepared", "finishing"}]
      /\ "ax41" \in Hosts /\ "selectel" \in Hosts
  BY DEF RecoveryInv, CoreInv, ToolInOrder, Hosts
<1>1. CASE Quarantine("ax41")
  <2>1. coord' = coord /\ KillCoordinatorHandlers({})
    BY <1>1 DEF Quarantine, KillHandlers
  <2>2. CASE ExpectedFailure BY <2>1, <2>2 DEF ExpectedFailure
  <2>3. CASE ExpectedCommit
    <3>1. worker'["selectel"].phase = "recovery_required"
      BY <1>0, <2>1, <2>3 DEF ExpectedCommit, KillCoordinatorHandlers, TypeOK, Process
    <3>2. NoCommit(worker["selectel"].lease)'
      BY <2>1 DEF KillCoordinatorHandlers, FreeCall, NoCommit, StepPcs
    <3> QED BY <3>1, <3>2
  <2> QED BY <1>1, <2>2, <2>3 DEF Quarantine, Supported
<1>2. CASE ~Quarantine("ax41")
  <2>1. tool["ax41"] = "restarted" /\ ~Prepare
    <3>1. ASSUME NEW at, at # "restarted", Moves("ax41", at) PROVE FALSE
      BY <1>0, <3>1 DEF Moves
    <3>2. ~Prepare BY <3>1 DEF Prepare
    <3>3. CASE Bystander("ax41") BY <3>2, <3>3 DEF Bystander
    <3>4. CASE Executing("ax41") BY <3>2, <3>4 DEF Executing
    <3>5. CASE Finishing("ax41") BY <1>0, <3>1, <3>2, <3>5, FinishingMoves
    <3>6. CASE Starts("ax41") /\ UNCHANGED recoveryVars BY <3>2, <3>6 DEF recoveryVars
    <3> QED BY <1>0, <1>2, <3>1, <3>2, <3>3, <3>4, <3>5, <3>6, OwnOrBystander
            DEF Own, Killed, Rebooted, Resume, Leave
  <2>2. CASE coord.phase = "failed_unsafe"
    <3>1. coord' = coord
      BY <1>0, <2>1, <2>2, StepsOfRecovery, JournalKept
      DEF Quarantine, Resume, ToolGivesUp, Rest
    <3> QED BY <2>2, <3>1
  <2>3. quarantined \subseteq quarantined' BY <1>0, ToolMoves
  <2>4. ASSUME worker["selectel"].pc = "off", ~Resume("selectel"),
               "selectel" \in quarantined \/ worker["selectel"].phase = "recovery_required"
        PROVE  /\ worker'["selectel"].pc = "off"
               /\ worker'["selectel"].phase = worker["selectel"].phase
               /\ worker'["selectel"].lease = worker["selectel"].lease
    <3>1. CASE Around("selectel") BY <1>0, <2>4, <3>1, AroundKept DEF Undisturbed
    <3>2. CASE Crash("selectel") \/ Reboot("selectel") BY <1>0, <3>2, DownKept
    <3>3. ~Executing("selectel") /\ ~Starts("selectel") /\ ~Finishing("selectel")
      BY <1>0, <2>4, WorkingInOrder, FinishingMoves
      DEF Executing, Starts, Start, HostInOrder
    <3>4. CASE Quarantine("selectel") \/ Leave("selectel") \/ FinishCheck
      <4>1. {} \in SUBSET (Hosts \ {"selectel"}) OBVIOUS
      <4>2. Around("selectel")
        BY <1>0, <3>4, <4>1 DEF Quarantine, Leave, FinishCheck, Around, vars
      <4> QED BY <3>1, <4>2
    <3> QED BY <1>0, <2>1, <2>4, <3>1, <3>2, <3>3, <3>4, OwnOrBystander
            DEF Own, Bystander, Killed, Rebooted
  <2>5. CASE worker["selectel"].phase = "recovery_required" /\ NoCommit(l)
    <3>1. worker["selectel"].pc = "off" BY <1>0, <2>5 DEF HostInOrder
    <3>2. CASE ~Resume("selectel")
      <4>1. ASSUME NEW m, m = l PROVE NoCommit(m)'
        BY <1>0, <2>5, <3>1, <4>1, SettledBeside
      <4> QED BY <2>4, <2>5, <3>1, <3>2, <4>1 DEF NoCommit
    <3>3. CASE Resume("selectel")
      <4>1. "selectel" \in quarantined /\ tool'["selectel"] = "finishing"
        BY <1>0, <3>3 DEF Resume, ToolAt, Moves, HostInOrder
      <4>2. worker'["selectel"].phase = "verifying"
        BY <1>0, <3>3 DEF Resume, Ask, TypeOK, Process
      <4> QED BY <2>3, <4>1, <4>2
    <3> QED BY <3>2, <3>3
  <2>6. CASE /\ "selectel" \in quarantined
             /\ worker["selectel"].phase # "recovery_required"
             /\ worker["selectel"].pc = "off" \/ tool["selectel"] = "finishing"
    <3>1. CASE Resume("selectel")
      <4>1. tool'["selectel"] = "finishing" BY <1>0, <3>1 DEF Resume, Moves
      <4>2. worker'["selectel"].phase = "verifying"
        BY <1>0, <3>1 DEF Resume, Ask, TypeOK, Process
      <4> QED BY <2>3, <2>6, <4>1, <4>2
    <3>2. CASE worker["selectel"].pc = "off" /\ ~Resume("selectel")
      BY <2>3, <2>4, <2>6, <3>2
    <3>3. CASE tool["selectel"] = "finishing" /\ ~Resume("selectel")
      <4>1. CASE Bystander("selectel")
        BY <1>0, <2>3, <2>6, <3>3, <4>1, AroundKept DEF Bystander, Undisturbed
      <4>2. CASE Finishing("selectel")
        BY <1>0, <2>3, <2>6, <3>3, <4>2, FinishingMoves
      <4>3. CASE Killed("selectel") \/ Rebooted("selectel")
        BY <1>0, <2>3, <2>6, <4>3, DownKept DEF Killed, Rebooted
      <4>4. ~Executing("selectel") /\ ~Starts("selectel") /\ ~Quarantine("selectel")
            /\ ~Leave("selectel") /\ ~FinishCheck
        BY <3>3 DEF Executing, Starts, Quarantine, LockFree, Leave, FinishCheck, ToolAt
      <4> QED BY <1>0, <3>3, <4>1, <4>2, <4>3, <4>4, OwnOrBystander DEF Own
    <3> QED BY <2>6, <3>1, <3>2, <3>3
  <2> QED BY <2>1, <2>2, <2>5, <2>6 DEF RecoveryInv, CommitIsDead
<1> QED BY <1>1, <1>2

\* A host at whose native work the tool would have to look has none: the step of
\* native work is open, and its own tool has not been used there.
LEMMA PrepareIsIdle ==
  ASSUME RecoveryInv, Prepare
  PROVE  native = {}
<1> SUFFICES ASSUME NEW h \in native PROVE FALSE
  OBVIOUS
<1>1. Trailed(h) BY DEF RecoveryInv, NativeIsTracked
<1>2. ~ExpectedCommit BY <1>1 DEF Trailed, StepKept, ExpectedCommit
<1>3. ~ExpectedFailure
  BY <1>1 DEF Trailed, StepKept, StepOpen, ExpectedFailure, SameStep, Prepare, ToolAt
<1> QED BY <1>2, <1>3 DEF Prepare

\* The step of native work stays open, as long as the record says that it may run.
LEMMA StepOfNativeStays ==
  ASSUME RecoveryInv, [RecoveryNext]_allVars, NEW h \in native, UnsafeWork(h)'
  PROVE  StepKept(h)'
<1>0. /\ TypeOK /\ CoreInv /\ ToolInOrder /\ Trailed(h) /\ h \in Hosts
      /\ StepKept(h) /\ UnsafeWork(h) /\ tool[h] = "off"
  BY DEF RecoveryInv, CoreInv, NativeIsTracked, Trailed
<1>1. CASE [Next]_vars BY <1>0, <1>1, StepKeptStays
<1>2. CASE Prepare BY <1>2, PrepareIsIdle
<1>3. ASSUME NEW g \in Hosts, Quarantine(g) \/ Resume(g) \/ ToolGivesUp(g)
      PROVE  StepKept(h)'
  <2>1. g # h
    BY <1>0, <1>3 DEF Quarantine, NativeIdle, Resume, ToolGivesUp, ToolAt
  <2>2. Around(h)
    <3>1. {} \in SUBSET (Hosts \ {h}) OBVIOUS
    <3>2. CASE Quarantine(g) BY <3>1, <3>2 DEF Quarantine, Around
    <3>3. CASE Resume(g) BY <1>0, <2>1, <3>3 DEF Resume, Ask, TypeOK, Around
    <3>4. CASE ToolGivesUp(g) BY <1>0, <2>1, <3>4 DEF ToolGivesUp, Stop, TypeOK, Around
    <3> QED BY <1>3, <3>2, <3>3, <3>4
  <2>3. worker'[h].lease = worker[h].lease /\ worker'[h].step = worker[h].step
    BY <1>0, <2>2, AroundKept DEF Undisturbed, StepKept
  <2>4. coord' = coord BY <1>3 DEF Quarantine, Resume, ToolGivesUp, Rest
  <2>5. ASSUME NEW s \in Slots, call'[s].pc = "complete", call'[s].ok
        PROVE  /\ call[s].pc = "complete" /\ call[s].ok
               /\ call'[s].lease = call[s].lease /\ call'[s].step = call[s].step
    <3>1. CASE call' = call BY <2>5, <3>1
    <3>2. CASE KillCoordinatorHandlers({})
      BY <2>5, <3>2 DEF KillCoordinatorHandlers, FreeCall
    <3>3. CASE KillPeerHandlers({})
      <4>1. call[s] \in Call BY <1>0 DEF TypeOK
      <4> QED BY <2>5, <3>3, <4>1 DEF KillPeerHandlers, Call
    <3> QED BY <1>3, <3>1, <3>2, <3>3
            DEF Quarantine, KillHandlers, Resume, ToolGivesUp, Rest
  <2> QED BY <1>0, <2>3, <2>4, <2>5 DEF StepKept, StepOpen
<1> QED BY <1>1, <1>2, <1>3, StepsOfRecovery

\* Native work begins with a grant in the executor's hands, or by a helper that
\* the dead executor has already called.
LEMMA NativeBegun ==
  ASSUME RecoveryInv, [RecoveryNext]_allVars, NEW h \in Hosts, h \in native' \ native
  PROVE  Trailed(h)'
<1>0. /\ TypeOK /\ CoreInv /\ ToolInOrder /\ HostInOrder(h)
      /\ worker \in [Hosts -> Process] /\ worker[h] \in Process
      /\ tool \in [Hosts -> {"off", "restarted", "prepared", "finishing"}]
  BY DEF RecoveryInv, CoreInv, TypeOK, ToolInOrder
<1>1. (Executing(h) /\ NativeBegins(h)) \/ Killed(h)
  BY <1>0, OwnOrBystander, FinishingMoves
  DEF Own, Bystander, Executing, Rebooted, Starts, recoveryVars, Quarantine, Resume,
      Leave, Prepare, FinishCheck
<1>2. /\ worker[h].pc = "preflight"
      /\ worker[h].phase \in {"installing", "overrun", "preparing_restart"}
  BY <1>0, <1>1 DEF NativeBegins, Killed, HostInOrder
<1>3. /\ StepOpen(h) /\ coord.phase = "step_running"
      /\ \A s \in Slots : call[s].pc = "complete" =>
           call[s].lease # worker[h].lease \/ call[s].step # worker[h].step
  BY <1>0, <1>2 DEF CoreInv, StepAgreed
<1>4. tool[h] = "off" BY <1>0, <1>2 DEF HostInOrder
<1>5. CASE Executing(h) /\ NativeBegins(h)
  <2>1. Preflighted(h) /\ worker'[h].pc = "native"
    BY <1>0, <1>2, <1>5 DEF Executing, NativeBegins, Working, Claimed, Armed, BeginStep,
       LocalDefer, EndOfPlan, Proved, Overrun, NativeDone, Completed, Verified,
       ReleaseAcked, Again, Retried, GiveUp, At, Process
  <2>2. ~Ask(h, "verifying", "completeRaise") /\ ~Ask(h, "failed_unsafe", "completeRaise")
        /\ ~Raise(h, worker[h].phase)
    BY <1>0, <2>1 DEF Ask, Stop, Raise, Process
  <2>3. worker' = [worker EXCEPT ![h].pc = "native", ![h].reply = "none",
                     ![h].phase = IF worker[h].phase = "preparing_restart"
                                  THEN "restarting" ELSE worker[h].phase]
        /\ UNCHANGED <<coord, call>>
    BY <1>0, <2>1, <2>2 DEF Preflighted, Rest
  <2>4. /\ worker'[h].phase \in {"installing", "overrun", "restarting"}
        /\ worker'[h].lease = worker[h].lease /\ worker'[h].step = worker[h].step
    BY <1>0, <1>2, <2>3 DEF Process
  <2>5. StepKept(h)' BY <1>3, <2>3, <2>4 DEF StepKept, StepOpen
  <2> QED BY <1>4, <1>5, <2>1, <2>4, <2>5 DEF Trailed, Executing, UnsafeWork, UnsafePhases
<1>6. CASE Killed(h)
  <2>1. worker[h].phase \in {"installing", "overrun"} BY <1>6 DEF Killed
  <2>2. /\ worker'[h].phase = worker[h].phase /\ worker'[h].lease = worker[h].lease
        /\ worker'[h].step = worker[h].step /\ worker'[h].pc = "off"
    BY <1>0, <1>6, DownKept DEF Killed
  <2>3. coord' = coord /\ UnsafeWork(h)'
    BY <1>6, <2>1, <2>2 DEF Killed, Crash, UnsafeWork, UnsafePhases
  <2>4. \A s \in Slots : call'[s].pc = call[s].pc /\ call'[s].lease = call[s].lease
                         /\ call'[s].step = call[s].step
    <3>1. ASSUME NEW s \in Slots
          PROVE  call'[s] = [call[s] EXCEPT !.live = call'[s].live]
      <4>1. call[s] \in Call BY <1>0 DEF TypeOK
      <4> QED BY <1>6, <4>1 DEF Killed, Crash, Call
    <3>2. \A s \in Slots : call[s] \in Call BY <1>0 DEF TypeOK
    <3> QED BY <3>1, <3>2 DEF Call
  <2>5. StepKept(h)' BY <1>3, <2>2, <2>3, <2>4 DEF StepKept, StepOpen
  <2>6. tool'[h] = "off" BY <1>0, <1>6 DEF Killed, Moves
  <2> QED BY <2>2, <2>3, <2>5, <2>6 DEF Trailed
<1> QED BY <1>1, <1>5, <1>6

\* The executor stays behind its native work, or gives it up as failed when a
\* restart takes too long.
LEMMA NativeGoesOn ==
  ASSUME RecoveryInv, [RecoveryNext]_allVars, NEW h \in Hosts, h \in native \cap native'
  PROVE  Trailed(h)'
<1>0. /\ TypeOK /\ CoreInv /\ ToolInOrder /\ HostInOrder(h) /\ Trailed(h)
      /\ worker \in [Hosts -> Process] /\ worker[h] \in Process
      /\ tool \in [Hosts -> {"off", "restarted", "prepared", "finishing"}]
  BY DEF RecoveryInv, CoreInv, TypeOK, ToolInOrder, NativeIsTracked
<1> SUFFICES /\ tool'[h] = "off" /\ UnsafeWork(h)'
             /\ \/ worker'[h].pc \in {"native", "off"}
                \/ worker'[h].pc = "completeRaise" /\ worker'[h].phase = "failed_unsafe"
  BY StepOfNativeStays DEF Trailed
<1>1. CASE Bystander(h)
  BY <1>0, <1>1, AroundKept DEF Bystander, Undisturbed, Trailed, UnsafeWork
<1>2. CASE Executing(h)
  <2>0. Working(h) /\ tool'[h] = "off" /\ worker[h].pc # "off" /\ ~NativeSeenToEnd(h)
    BY <1>0, <1>2, WorkingInOrder DEF Executing, Trailed
  <2>1. CASE worker[h].pc = "native"
    <3>1. Overrun(h) \/ NativeDone(h)
      BY <2>0, <2>1 DEF Working, Claimed, Armed, BeginStep, LocalDefer, EndOfPlan, Proved,
         Preflighted, Completed, Verified, ReleaseAcked, Again, Retried, GiveUp, At
    <3>2. CASE Overrun(h)
      BY <1>0, <2>0, <2>1, <3>2 DEF Overrun, Process, UnsafeWork, UnsafePhases
    <3>3. CASE Ask(h, "verifying", "complete")
      BY <1>0, <2>0, <2>1, <3>3 DEF Ask, Process, NativeSeenToEnd
    <3>4. CASE Ask(h, "failed_unsafe", "completeRaise")
      BY <1>0, <2>0, <3>4 DEF Ask, Process, UnsafeWork, UnsafePhases
    <3> QED BY <3>1, <3>2, <3>3, <3>4 DEF NativeDone
  <2>2. CASE worker[h].pc = "completeRaise" /\ worker[h].phase = "failed_unsafe"
    <3>1. Again(h) \/ Raise(h, "failed_unsafe")
      BY <2>0, <2>2 DEF Working, Claimed, Armed, BeginStep, LocalDefer, EndOfPlan, Proved,
         Preflighted, Overrun, NativeDone, Completed, Verified, ReleaseAcked, GiveUp, At
    <3>2. CASE Again(h)
      BY <1>0, <2>0, <2>2, <3>2 DEF Again, Process, UnsafeWork, UnsafePhases
    <3>3. CASE Raise(h, "failed_unsafe")
      <4>1. Stop(h, "failed_unsafe") BY <3>3 DEF Raise, UnsafePhases
      <4> QED BY <1>0, <2>0, <4>1 DEF Stop, Process, UnsafeWork, UnsafePhases
    <3> QED BY <3>1, <3>2, <3>3
  <2> QED BY <1>0, <2>0, <2>1, <2>2 DEF Trailed
<1>3. CASE Killed(h)
  BY <1>0, <1>3, DownKept DEF Killed, Moves, Trailed, UnsafeWork
<1>4. ~Finishing(h) /\ ~Resume(h) /\ ~Leave(h) /\ ~(h = "ax41" /\ Prepare)
  BY <1>0, FinishingMoves DEF Trailed, Resume, Leave, Prepare, ToolAt
<1>5. ~Rebooted(h) /\ ~Quarantine(h) /\ ~(h = "selectel" /\ FinishCheck)
  BY DEF Rebooted, Quarantine, FinishCheck, NativeIdle
<1>6. ~Starts(h)
  BY <1>0 DEF Starts, Start, Trailed, UnsafeWork, UnsafePhases
<1> QED BY <1>0, <1>1, <1>2, <1>3, <1>4, <1>5, <1>6, OwnOrBystander DEF Own

----------------------------------------------------------------------------
\* Two idle hosts, nothing native and no recovery.
LEMMA InitIsRecovered == RecoveryInit => RecoveryInv
<1> SUFFICES ASSUME RecoveryInit PROVE RecoveryInv
  OBVIOUS
<1>1. CoreInv BY InitIsSafe DEF RecoveryInit, IInv
<1>2. \A h \in Hosts : worker[h] = Off BY DEF RecoveryInit, Init
<1>3. ToolInOrder BY <1>2 DEF RecoveryInit, ToolInOrder, HostInOrder, Off, Hosts
<1>4. PreparedForRelease /\ CommitIsDead /\ NativeIsTracked
  BY DEF RecoveryInit, PreparedForRelease, CommitIsDead, NativeIsTracked, Hosts
<1> QED BY <1>1, <1>3, <1>4 DEF RecoveryInv

\* The invariant of the recovery is inductive.
THEOREM RecoveryInductive == RecoveryInv /\ [RecoveryNext]_allVars => RecoveryInv'
<1> SUFFICES ASSUME RecoveryInv, [RecoveryNext]_allVars PROVE RecoveryInv'
  OBVIOUS
<1>1. native' \subseteq Hosts
  BY DEF RecoveryInv, NativeIsTracked, Trailed, RecoveryNext, allVars, recoveryVars,
     Quarantine, Resume, Leave, Finishing, ToolGivesUp, Executing, NativeEnds, Killed,
     Rebooted, Prepare, FinishCheck
<1>2. NativeIsTracked'
  BY <1>1, NativeBegun, NativeGoesOn DEF NativeIsTracked
<1> QED BY <1>2, CoreStays, InOrderStays, PreparedStays, CommitStaysDead DEF RecoveryInv

\* For any number of leases, handlers and faults, and however an operator uses the
\* tool: while native work runs, its lease is in force and both barriers are held
\* (recover-host-maintenance.py, worker.py, agent.py, fence.py).
THEOREM NativeBarred == RecoverySpec => []NativeWorkIsBarred
<1>1. RecoveryInv => NativeWorkIsBarred
  BY DEF RecoveryInv, NativeIsTracked, Trailed, StepKept, StepOpen, CoreInv,
     DestructiveHeld, NativeWorkIsBarred
<1> QED BY <1>1, InitIsRecovered, RecoveryInductive, PTL DEF RecoverySpec
=============================================================================
