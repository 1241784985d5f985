----------------------------- MODULE HostTimers -----------------------------
(***************************************************************************)
(* What a host does by itself, on its timers: the admission fence that is  *)
(* expired, the observer of restarts that are owed, and the renewal of     *)
(* certificates.  Their state is apart: a behaviour is of one of them, and *)
(* the others stay at their beginning.                                     *)
(***************************************************************************)
EXTENDS AdmissionFence, ServiceDebt, CertificateLifecycle

VARIABLE timer  \* "fence", "debt" or "certificates"

timerVars == <<fenceVars, debtVars, certVars, timer>>

TimersInit ==
  /\ timer \in {"fence", "debt", "certificates"}
  /\ FenceInit /\ DebtInit /\ CertInit
  /\ timer # "debt" => ~proc.managed
  /\ timer # "certificates" => \A i \in Items : kind[i] = "relay"

TimersNext ==
  \/ timer = "fence" /\ FenceNext /\ UNCHANGED <<debtVars, certVars, timer>>
  \/ timer = "debt" /\ DebtNext /\ UNCHANGED <<fenceVars, certVars, timer>>
  \/ timer = "certificates" /\ CertNext /\ UNCHANGED <<fenceVars, debtVars, timer>>

Fence(step) == timer = "fence" /\ step /\ UNCHANGED <<debtVars, certVars, timer>>
Debtor(step) == timer = "debt" /\ step /\ UNCHANGED <<fenceVars, certVars, timer>>
Certificate(step) ==
  timer = "certificates" /\ step /\ UNCHANGED <<fenceVars, debtVars, timer>>

\* The fairness of the three (Fairness, DebtFairness and that of CertFairSpec).  In
\* a behaviour of one the others do not move, so one condition may stand for a
\* step of each.
TimersFairness ==
  /\ WF_timerVars(Fence(Mark \/ Install \/ Remark \/ Reinstall)
                    \/ Debtor(Inspect) \/ Certificate(Step))
  /\ WF_timerVars(Fence(Age) \/ Debtor(Observe) \/ Certificate(TimePasses))
  /\ SF_timerVars(Fence(Expire) \/ Debtor(Inspect /\ ~Inspected("failed"))
                    \/ Certificate(Begin("health")))
  /\ SF_timerVars(Fence(Lower) \/ Debtor(Decide))
  /\ SF_timerVars(Fence(Unmark) \/ Debtor(WorkerRestart))
  /\ SF_timerVars(Fence(Erase))

TimersSpec == TimersInit /\ [][TimersNext]_timerVars /\ TimersFairness
=============================================================================
