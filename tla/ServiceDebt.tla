---------------------------- MODULE ServiceDebt ----------------------------
(***************************************************************************)
(* The runtime debt of one service: processes that still run what a        *)
(* package upgrade replaced.  An observer records it with its first age,   *)
(* from inspections that may fail; the worker decides on a restart from    *)
(* its own inspection and the recorded debt.  The service is libvirtd or   *)
(* an ordinary one.                                                        *)
(***************************************************************************)
EXTENDS Naturals

CONSTANTS PriorAge,      \* first age kept by the earlier observer, 0 if none
          MaxUpgrades,   \* bound: package upgrades
          MaxStarts,     \* bound: starts by anyone but the worker
          Horizon        \* bound: the clock

ASSUME AgeAssumption == PriorAge \in Nat /\ Horizon \in Nat /\ PriorAge < Horizon

VARIABLES clock,
          proc,      \* the service's processes
          debt,      \* its entry in debt.json
          reading,   \* what the observer inspected and has not recorded yet
          decided,   \* the worker asks for the restart it has found necessary
          upgrades, starts,
          seen,      \* when the present old process was first reported, or 0
          restarts   \* restarts by the worker since the last upgrade

debtVars == <<clock, proc, debt, reading, decided, upgrades, starts, seen, restarts>>

Ages == 1..Horizon

\* A pending debt has its age, a settled one has none.
Debt == [known: BOOLEAN, pending: {TRUE}, started: Nat, since: Ages]
          \cup [known: BOOLEAN, pending: {FALSE}, started: Nat, since: {0}]

\* Of libvirtd, which is managed, the guests outlive a restart of the daemon.
Process == [active: BOOLEAN, started: Nat, old: BOOLEAN, mapped: BOOLEAN,
            managed: BOOLEAN, guests: BOOLEAN]

\* service_runtime of the service, or nothing where the inspection failed.
Reading == [state: {"none", "failed", "inactive", "clean", "pending"},
            started: Nat, at: 0..Horizon]

NoReading == [state |-> "none", started |-> 0, at |-> 0]

DebtTypeOK ==
  /\ clock \in Ages
  /\ proc \in Process
  /\ debt \in Debt
  /\ reading \in Reading
  /\ decided \in BOOLEAN
  /\ upgrades \in Nat /\ starts \in Nat /\ seen \in Nat /\ restarts \in Nat

\* The process is old if an upgrade replaced what it runs; it shows as long as
\* it maps a replaced file, which a reload may end.
DebtInit ==
  /\ clock = PriorAge + 1
  /\ \E managed \in BOOLEAN :
       proc = [active |-> TRUE, started |-> 1, old |-> FALSE, mapped |-> FALSE,
               managed |-> managed, guests |-> FALSE]
  /\ debt = [known |-> FALSE, pending |-> FALSE, started |-> 0, since |-> 0]
  /\ reading = NoReading
  /\ decided = FALSE
  /\ upgrades = 0 /\ starts = 0 /\ seen = 0 /\ restarts = 0

----------------------------------------------------------------------------
(* The service *)

Tick ==
  /\ clock < Horizon
  /\ clock' = clock + 1
  /\ UNCHANGED <<proc, debt, reading, decided, upgrades, starts, seen, restarts>>

Upgrade ==
  /\ upgrades < MaxUpgrades
  /\ upgrades' = upgrades + 1
  /\ proc' = [proc EXCEPT !.old = proc.active, !.mapped = proc.active,
                          !.guests = proc.managed]
  /\ restarts' = 0
  /\ UNCHANGED <<clock, debt, reading, decided, starts, seen>>

ReloadService ==
  /\ proc.mapped
  /\ proc' = [proc EXCEPT !.mapped = FALSE]
  /\ UNCHANGED <<clock, debt, reading, decided, upgrades, starts, seen, restarts>>

GuestsEnd ==
  /\ proc.guests
  /\ proc' = [proc EXCEPT !.guests = FALSE]
  /\ UNCHANGED <<clock, debt, reading, decided, upgrades, starts, seen, restarts>>

Stop ==
  /\ proc.active
  /\ proc' = [proc EXCEPT !.active = FALSE, !.old = FALSE, !.mapped = FALSE]
  /\ seen' = 0
  /\ UNCHANGED <<clock, debt, reading, decided, upgrades, starts, restarts>>

Replace ==
  /\ proc' = [proc EXCEPT !.active = TRUE, !.started = @ + 1,
                          !.old = FALSE, !.mapped = FALSE]
  /\ seen' = 0

Start ==
  /\ starts < MaxStarts
  /\ starts' = starts + 1
  /\ Replace
  /\ UNCHANGED <<clock, debt, reading, decided, upgrades, restarts>>

----------------------------------------------------------------------------
(* The observer inspects first, and takes the lock of debt.json after that *)

\* Any member of the control group counts.
Pending == proc.mapped \/ proc.guests

Inspected(state) ==
  reading' = [state |-> state, started |-> proc.started, at |-> clock]

Inspect ==
  /\ reading = NoReading
  /\ \/ Inspected("failed")
     \/ ~proc.active /\ Inspected("inactive")
     \/ proc.active /\ Pending /\ Inspected("pending")
     \/ proc.active /\ ~Pending /\ Inspected("clean")
  /\ UNCHANGED <<clock, proc, debt, decided, upgrades, starts, seen, restarts>>

\* The age of the aggregate record is adopted for a service not known so far.
FirstAge ==
  CASE debt.since # 0 -> debt.since
    [] debt.since = 0 /\ ~debt.known /\ PriorAge # 0 -> PriorAge
    [] OTHER -> reading.at

\* Mutant: a service without obsolete mappings is clean.
SettledAtOnce == TRUE

\* Only a new and active process settles an existing debt.
Settled ==
  debt.pending => reading.state = "clean" /\ reading.started # debt.started

\* What the record tells the operator of the present process.
Reported ==
  seen' = IF proc.old /\ seen = 0 /\ reading.started = proc.started
          THEN clock ELSE seen

\* service_debt: three kinds of success, and a failure that keeps the debt.
RecordDebt ==
  \/ /\ reading.state = "pending"
     /\ debt' = [known |-> TRUE, pending |-> TRUE, since |-> FirstAge,
                 started |-> reading.started]
     /\ Reported
  \/ /\ reading.state \in {"inactive", "clean"} /\ ~Settled
     /\ debt' = [debt EXCEPT !.started = IF reading.state = "clean"
                                         THEN reading.started ELSE @]
     /\ UNCHANGED seen
  \/ /\ reading.state \in {"inactive", "clean"} /\ Settled
     /\ debt' = [known |-> TRUE, pending |-> FALSE, since |-> 0,
                 started |-> IF reading.state = "clean"
                             THEN reading.started ELSE 0]
     /\ UNCHANGED seen

Keep ==
  /\ reading.state = "failed"
  /\ debt' = [debt EXCEPT !.known = TRUE]
  /\ UNCHANGED seen

Observe ==
  /\ RecordDebt \/ Keep
  /\ reading' = NoReading
  /\ UNCHANGED <<clock, proc, decided, upgrades, starts, restarts>>

----------------------------------------------------------------------------
(* The worker decides, then needs a lease and its proofs before it restarts *)

\* Mutant: obsolete mappings of any process ask for a restart.
NeededByRecord == proc.active /\ (Pending \/ debt.pending)

\* Mutant: only what is mapped now asks for a restart.
NeededByMappings == proc.active /\ proc.mapped

\* restart_needed
Needed ==
  /\ proc.active
  /\ \/ proc.mapped
     \/ ~proc.guests /\ debt.pending /\ debt.started = proc.started

Decide ==
  /\ ~decided /\ Needed
  /\ decided' = TRUE
  /\ UNCHANGED <<clock, proc, debt, reading, upgrades, starts, seen, restarts>>

\* The proof or the preflight is denied, and the service waits for another night.
Deny ==
  /\ decided
  /\ decided' = FALSE
  /\ UNCHANGED <<clock, proc, debt, reading, upgrades, starts, seen, restarts>>

WorkerRestart ==
  /\ decided
  /\ decided' = FALSE
  /\ Replace
  /\ restarts' = restarts + 1
  /\ UNCHANGED <<clock, debt, reading, upgrades, starts>>

----------------------------------------------------------------------------
DebtNext ==
  \/ Tick \/ Upgrade \/ ReloadService \/ GuestsEnd \/ Stop \/ Start
  \/ Inspect \/ Observe
  \/ Decide \/ Deny \/ WorkerRestart

DebtSpec == DebtInit /\ [][DebtNext]_debtVars

\* The observer runs every 30 seconds and does not fail for ever; the worker
\* runs every night and is not denied for ever.
DebtFairness ==
  /\ WF_debtVars(Inspect) /\ SF_debtVars(Inspect /\ ~Inspected("failed"))
  /\ WF_debtVars(Observe)
  /\ SF_debtVars(Decide) /\ SF_debtVars(WorkerRestart)

DebtFairSpec == DebtSpec /\ DebtFairness

----------------------------------------------------------------------------
(* Properties *)

\* As long as a process runs that was once reported old, its debt is pending
\* and at least as old as that report: failed or late inspections, reloads and
\* further upgrades neither settle it nor make it younger.
OldProcessOwes == seen # 0 => debt.pending /\ debt.since <= seen

\* One upgrade costs at most one restart; libvirtd is restarted once more when
\* its guests have ended, but never while only their processes are old.
RestartsAreFew == restarts <= IF proc.managed THEN 2 ELSE 1

\* A debt is settled, unless guests still owe it or the service is down.
DebtIsSettled == debt.pending ~> ~debt.pending \/ proc.guests \/ ~proc.active
============================================================================
