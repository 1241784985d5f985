----------------------------- MODULE PackageStep -----------------------------
(***************************************************************************)
(* One host's package step in detail: the plan (packages.py, Planner), the *)
(* APT transaction of worker.py, install(), and the Pre-Invoke helper that *)
(* APT calls before each run of dpkg (installation_preflight).  The        *)
(* worker, APT and the host die at any moment; other tools use the package *)
(* database while its lock is free.                                        *)
(***************************************************************************)
EXTENDS Naturals, FiniteSets

CONSTANTS Packages,    \* packages with an upgrade
          MaxSteps,    \* bound: steps that the coordinator grants
          MaxFaults    \* bound: deaths, and transactions of other tools

ASSUME StepsAssumption == MaxSteps \in Nat /\ MaxFaults \in Nat

VARIABLES needs,     \* what an upgrade pulls in, itself included
          reviewed,  \* packages whose archives pass origin, digest and audit
          dpkg,      \* dpkg's database: "old", "half" or "new"
          plan,      \* package-plan.json
          worker,    \* phase and step of worker.json, and whether the process lives;
             \* "planned" stands for the phases before an install
          permit,    \* the step in transaction-permit.json
          apt,       \* APT: none, running, ended or failed, its packages and its helper
          granted,   \* steps whose preflight the coordinator has answered
          touched,   \* packages that dpkg has changed in this step
          faults

vars == <<needs, reviewed, dpkg, plan, worker, permit, apt, granted, touched, faults>>
inputs == <<needs, reviewed>>

\* What is pulled in pulls in its own.
Dependencies ==
  {n \in [Packages -> SUBSET Packages] :
     \A p \in Packages : p \in n[p] /\ \A q \in n[p] : n[q] \subseteq n[p]}
NoApt == [at |-> "none", left |-> {}, helper |-> "none"]

Init ==
  /\ needs \in Dependencies /\ reviewed \in SUBSET Packages
  /\ dpkg = [p \in Packages |-> "old"] /\ plan = {}
  /\ worker = [phase |-> "idle", step |-> 0, up |-> TRUE]
  /\ permit = 0 /\ apt = NoApt /\ granted = {} /\ touched = {} /\ faults = 0

Clean == \A p \in Packages : dpkg[p] # "half"
Free == apt.at # "running"
Old(S) == {p \in S : dpkg[p] # "new"}

\* resolve_batch: what APT would do for these packages, those done left out.
Resolved(S) == Old(UNION {needs[p] : p \in S})

----------------------------------------------------------------------------
(* The plan *)

\* One round of the loop that drops packages needing one that is not allowed.
RejectedOf(allowed) == {p \in allowed : ~(Resolved({p}) \subseteq allowed)}

ClosedSubset(allowed) ==
  LET round[n \in 0..Cardinality(Packages)] ==
        IF n = 0 THEN allowed ELSE round[n - 1] \ RejectedOf(round[n - 1])
  IN allowed \cap round[Cardinality(Packages)]

\* Planner.plan under executor.lock, at the beginning of a run or by itself.
Plan ==
  /\ worker.up /\ worker.phase = "idle" /\ Free /\ Clean
  /\ plan' = ClosedSubset(Old(reviewed))
  /\ worker' = [worker EXCEPT !.phase = "planned"]
  /\ UNCHANGED <<inputs, dpkg, permit, apt, granted, touched, faults>>

----------------------------------------------------------------------------
(* install *)

\* A proof: the token becomes the step of worker.json.
Begin ==
  /\ worker.up /\ worker.phase = "planned" /\ plan # {} /\ worker.step < MaxSteps
  /\ worker' = [worker EXCEPT !.phase = "installing", !.step = @ + 1]
  /\ UNCHANGED <<inputs, dpkg, plan, permit, apt, granted, touched, faults>>

\* There is nothing to install, or no proof for it.
Defer ==
  /\ worker.up /\ worker.phase = "planned"
  /\ worker' = [worker EXCEPT !.phase = "idle"]
  /\ UNCHANGED <<inputs, dpkg, plan, permit, apt, granted, touched, faults>>

\* APT takes its locks and works out what it has to do; with nothing to do it ends
\* at once, with a half-installed package or a missing archive it fails.
StartApt ==
  /\ worker.up /\ worker.phase = "installing" /\ apt.at = "none"
  /\ LET left == Resolved(plan)
     IN apt' = IF ~Clean \/ ~(left \subseteq plan) THEN [NoApt EXCEPT !.at = "failed"]
               ELSE IF left = {} THEN [NoApt EXCEPT !.at = "ended"]
               ELSE [at |-> "running", left |-> left, helper |-> "asked"]
  /\ UNCHANGED <<inputs, dpkg, plan, worker, permit, granted, touched, faults>>

Asked == apt.at = "running" /\ apt.helper = "asked"

\* Mutant: any permit lets the helper pass.
SomePermit == permit # 0

\* Mutant: every invocation of the helper checks everything again.
NeverEntered == FALSE

Entered == permit = worker.step

HelperEntered ==
  /\ Asked /\ worker.phase = "installing" /\ Entered
  /\ apt' = [apt EXCEPT !.helper = "passed"]
  /\ UNCHANGED <<inputs, dpkg, plan, worker, permit, granted, touched, faults>>

\* The coordinator confirms the step; the permit is written after its answer.
HelperConfirmed ==
  /\ Asked /\ worker.phase = "installing" /\ ~Entered
  /\ Clean /\ Resolved(plan) = plan
  /\ granted' = granted \cup {worker.step}
  /\ apt' = [apt EXCEPT !.helper = "confirmed"]
  /\ UNCHANGED <<inputs, dpkg, plan, worker, permit, touched, faults>>

HelperPermits ==
  /\ apt.at = "running" /\ apt.helper = "confirmed"
  /\ permit' = worker.step /\ apt' = [apt EXCEPT !.helper = "passed"]
  /\ UNCHANGED <<inputs, dpkg, plan, worker, granted, touched, faults>>

\* APT ends when its helper fails.
HelperDenies ==
  /\ Asked /\ ~(worker.phase = "installing" /\ Entered)
  /\ apt' = [NoApt EXCEPT !.at = "failed", !.helper = "denied"]
  /\ UNCHANGED <<inputs, dpkg, plan, worker, permit, granted, touched, faults>>

\* One run of dpkg unpacks or configures some of the packages; APT asks again
\* before the next.
Dpkg ==
  /\ apt.at = "running" /\ apt.helper = "passed"
  /\ \E some \in SUBSET apt.left \ {{}} : \E before \in {"old", "half"} :
       /\ \A p \in some : dpkg[p] = before
       /\ dpkg' = [p \in Packages |-> IF p \notin some THEN dpkg[p]
                                    ELSE IF before = "old" THEN "half" ELSE "new"]
       /\ touched' = touched \cup some
  /\ LET left == {p \in apt.left : dpkg'[p] # "new"}
     IN apt' = IF left = {} THEN [NoApt EXCEPT !.at = "ended"]
               ELSE [at |-> "running", left |-> left, helper |-> "asked"]
  /\ UNCHANGED <<inputs, plan, worker, permit, granted, faults>>

DpkgFails ==
  /\ apt.at = "running" /\ apt.helper = "passed"
  /\ apt' = [NoApt EXCEPT !.at = "failed"]
  /\ UNCHANGED <<inputs, dpkg, plan, worker, permit, granted, touched, faults>>

\* Mutant: a clean database is as good as an unchanged one.
CleanIsEnough == apt.at = "failed" /\ Clean

\* Neither entered nor changed: the step is completed as if it had not been.
PreinstallDeferred ==
  apt.at = "failed" /\ ~Entered /\ Clean /\ \A p \in plan : dpkg[p] = "old"

\* The worker looks at what is installed and acknowledges the step; a failed one,
\* or one with an unclean database, goes no further.
Finish ==
  /\ worker.up /\ worker.phase = "installing" /\ apt.at \in {"ended", "failed"}
  /\ LET good == apt.at = "ended" /\ \A p \in plan : dpkg[p] = "new"
     IN worker' = [worker EXCEPT !.phase = IF good \/ PreinstallDeferred THEN "completed"
                                           ELSE "failed"]
  /\ UNCHANGED <<inputs, dpkg, plan, permit, apt, granted, touched, faults>>

\* The rest of the run, or a later one; a failed one waits for an operator.
NextRun ==
  /\ worker.up /\ worker.phase = "completed"
  /\ worker' = [worker EXCEPT !.phase = "idle"] /\ apt' = NoApt /\ touched' = {}
  /\ UNCHANGED <<inputs, dpkg, plan, permit, granted, faults>>

----------------------------------------------------------------------------
(* Faults *)

\* The worker dies; APT goes on (KillMode=process).
WorkerDies ==
  /\ worker.up /\ faults < MaxFaults
  /\ worker' = [worker EXCEPT !.up = FALSE] /\ faults' = faults + 1
  /\ UNCHANGED <<inputs, dpkg, plan, permit, apt, granted, touched>>

HostDies ==
  /\ faults < MaxFaults /\ faults' = faults + 1
  /\ worker' = [worker EXCEPT !.up = FALSE] /\ apt' = NoApt
  /\ UNCHANGED <<inputs, dpkg, plan, permit, granted, touched>>

\* An operator repairs the packages and settles worker.json; without one, no run
\* goes on from a step.
Recover ==
  /\ ~worker.up \/ worker.phase = "failed"
  /\ Free
  /\ dpkg' = [p \in Packages |-> IF dpkg[p] = "half" THEN "new" ELSE dpkg[p]]
  /\ worker' = [worker EXCEPT !.phase = "idle", !.up = TRUE]
  /\ apt' = NoApt /\ touched' = {}
  /\ UNCHANGED <<inputs, plan, permit, granted, faults>>

OtherTool ==
  /\ Free /\ Clean /\ faults < MaxFaults
  /\ \E p \in Packages : Resolved({p}) # {} /\
       \E state \in {"half", "new"} :
         dpkg' = [q \in Packages |-> IF q \in Resolved({p}) THEN state ELSE dpkg[q]]
  /\ faults' = faults + 1
  /\ UNCHANGED <<inputs, plan, worker, permit, apt, granted, touched>>

Next ==
  \/ Plan \/ Begin \/ Defer \/ StartApt
  \/ HelperEntered \/ HelperConfirmed \/ HelperPermits \/ HelperDenies
  \/ Dpkg \/ DpkgFails \/ Finish \/ NextRun
  \/ WorkerDies \/ HostDies \/ Recover \/ OtherTool

Spec == Init /\ [][Next]_vars

----------------------------------------------------------------------------
(* Properties *)

\* dpkg changes packages of the plan only, in a step that the coordinator confirmed
\* while APT held its lock: no permit of another transaction serves again.
OnlyConfirmedSteps == touched \subseteq plan /\ (touched # {} => worker.step \in granted)

\* Once dpkg has begun, its transaction is not stopped by its own helper.
NeverDeniedHalfway == apt.helper = "denied" => touched = {}

\* A step is completed as a success when all of its packages are installed, or none
\* has been touched.
SuccessIsWhole ==
  worker.phase = "completed" => touched = {} \/ \A p \in plan : dpkg[p] = "new"
=============================================================================
