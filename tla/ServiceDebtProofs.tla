-------------------------- MODULE ServiceDebtProofs --------------------------
(***************************************************************************)
(* Proofs about ServiceDebt for any number of upgrades, starts and ticks:  *)
(* no debt of a process that was reported old is lost or made younger, and *)
(* the worker does not restart a service night after night.                *)
(***************************************************************************)
EXTENDS ServiceDebt, TLAPS

\* Nothing is older than the clock, and every inspection has its time.
InTime ==
  /\ PriorAge <= clock
  /\ debt.since <= clock
  /\ seen <= clock
  /\ reading.state # "none" => 1 <= reading.at /\ reading.at <= clock

\* The debt and the inspections of a process reported old are those of this very
\* process, so that none of them settles the debt.
Owed ==
  seen # 0 => /\ debt.pending
              /\ debt.since <= seen
              /\ debt.started = proc.started
              /\ reading.state \in {"clean", "pending"}
                   => reading.started = proc.started

DebtInv == DebtTypeOK /\ InTime /\ Owed

\* No debt, no reading, nothing decided.
LEMMA InitDebtInv == DebtInit => DebtInv
<1> SUFFICES ASSUME DebtInit PROVE DebtInv
  OBVIOUS
<1> USE AgeAssumption DEF DebtInit
<1>1. proc \in Process
  BY DEF Process
<1>2. debt \in Debt
  BY DEF Debt
<1>3. reading \in Reading
  BY DEF Reading, NoReading
<1>4. clock \in Ages
  BY DEF Ages
<1>5. DebtTypeOK
  BY <1>1, <1>2, <1>3, <1>4 DEF DebtTypeOK
<1>6. InTime /\ Owed
  BY DEF InTime, Owed, NoReading
<1> QED BY <1>5, <1>6 DEF DebtInv

\* The age of a debt that is recorded now is an age, and not of the future.
LEMMA FirstAgeInTime ==
  ASSUME DebtInv, reading.state # "none"
  PROVE  FirstAge \in Ages /\ FirstAge <= clock
<1>1. debt.since = 0 \/ debt.since \in Ages
  BY DEF DebtInv, DebtTypeOK, Debt
<1>2. reading.at \in Nat /\ clock \in Ages
  BY DEF DebtInv, DebtTypeOK, Reading, Ages
<1> QED
  <2>1. CASE debt.since # 0
    BY <1>1, <2>1 DEF FirstAge, DebtInv, InTime
  <2>2. CASE debt.since = 0 /\ ~debt.known /\ PriorAge # 0
    BY <1>2, <2>2, AgeAssumption DEF FirstAge, DebtInv, InTime, Ages
  <2>3. CASE debt.since = 0 /\ ~(~debt.known /\ PriorAge # 0)
    <3>1. FirstAge = reading.at
      BY <2>3 DEF FirstAge
    <3> QED BY <1>2, <3>1, AgeAssumption DEF DebtInv, InTime, Ages
  <2> QED BY <2>1, <2>2, <2>3

\* An age that is adopted is never replaced.
LEMMA FirstAgeStays ==
  ASSUME DebtInv, debt.pending PROVE FirstAge = debt.since /\ debt.since # 0
<1>1. debt \in [known: BOOLEAN, pending: {TRUE}, started: Nat, since: Ages]
  BY DEF DebtInv, DebtTypeOK, Debt
<1>2. debt.since # 0
  BY <1>1 DEF Ages
<1> QED BY <1>2 DEF FirstAge

\* What happens to the service itself concerns neither the record nor, unless
\* its process goes, what was reported of it.
LEMMA ServiceStep ==
  ASSUME DebtInv,
         Upgrade \/ ReloadService \/ GuestsEnd \/ Stop \/ Start \/ WorkerRestart
  PROVE  DebtInv'
<1> USE DEF DebtInv
<1>1. proc' \in Process
  <2> USE DEF DebtTypeOK, Process
  <2>1. CASE Upgrade BY <2>1 DEF Upgrade
  <2>2. CASE ReloadService BY <2>2 DEF ReloadService
  <2>3. CASE GuestsEnd BY <2>3 DEF GuestsEnd
  <2>4. CASE Stop BY <2>4 DEF Stop
  <2>5. CASE Start \/ WorkerRestart
    <3>1. Replace /\ proc.started + 1 \in Nat
      BY <2>5 DEF Start, WorkerRestart
    <3>2. proc' = [proc EXCEPT !.active = TRUE, !.started = proc.started + 1,
                               !.old = FALSE, !.mapped = FALSE]
      BY <3>1 DEF Replace
    <3> QED BY <3>1, <3>2
  <2> QED BY <2>1, <2>2, <2>3, <2>4, <2>5
<1>2. seen' = 0 \/ (seen' = seen /\ proc'.started = proc.started)
  <2> USE DEF DebtTypeOK, Process
  <2>1. CASE Upgrade BY <2>1 DEF Upgrade
  <2>2. CASE ReloadService BY <2>2 DEF ReloadService
  <2>3. CASE GuestsEnd BY <2>3 DEF GuestsEnd
  <2>4. CASE Stop BY <2>4 DEF Stop
  <2>5. CASE Start \/ WorkerRestart BY <2>5 DEF Start, WorkerRestart, Replace
  <2> QED BY <2>1, <2>2, <2>3, <2>4, <2>5
<1>3. decided' \in BOOLEAN
  BY Zenon DEF DebtTypeOK, Upgrade, ReloadService, GuestsEnd, Stop, Start, WorkerRestart
<1>4. /\ upgrades' \in Nat /\ starts' \in Nat /\ restarts' \in Nat
      /\ UNCHANGED <<clock, debt, reading>>
  <2> USE DEF DebtTypeOK
  <2>1. CASE Upgrade BY <2>1 DEF Upgrade
  <2>2. CASE ReloadService BY <2>2 DEF ReloadService
  <2>3. CASE GuestsEnd BY <2>3 DEF GuestsEnd
  <2>4. CASE Stop BY <2>4 DEF Stop
  <2>5. CASE Start BY <2>5 DEF Start
  <2>6. CASE WorkerRestart BY <2>6 DEF WorkerRestart
  <2> QED BY <2>1, <2>2, <2>3, <2>4, <2>5, <2>6
<1>5. DebtTypeOK'
  BY <1>1, <1>2, <1>3, <1>4 DEF DebtTypeOK
<1>6. InTime' /\ Owed'
  BY <1>2, <1>4, AgeAssumption DEF DebtTypeOK, InTime, Owed, Ages
<1> QED BY <1>5, <1>6

\* What is inspected is of the process of that moment.
LEMMA InspectStep == ASSUME DebtInv, Inspect PROVE DebtInv'
<1> USE DEF DebtInv
<1>1. /\ reading'.state \in {"failed", "inactive", "clean", "pending"}
      /\ reading' \in Reading
      /\ reading'.started = proc.started /\ reading'.at = clock
      /\ UNCHANGED <<clock, proc, debt, decided, upgrades, starts, seen, restarts>>
  BY AgeAssumption DEF Inspect, Inspected, DebtTypeOK, Reading, Process, Ages
<1>2. DebtTypeOK'
  BY <1>1 DEF DebtTypeOK
<1>3. InTime' /\ Owed'
  BY <1>1, AgeAssumption DEF DebtTypeOK, InTime, Owed, Ages
<1> QED BY <1>2, <1>3

\* A recorded inspection settles the debt of its own process only.
LEMMA ObserveStep == ASSUME DebtInv, Observe PROVE DebtInv'
<1> USE DEF DebtInv
<1>1. /\ reading' = NoReading
      /\ UNCHANGED <<clock, proc, decided, upgrades, starts, restarts>>
  BY DEF Observe
<1>2. reading \in Reading /\ reading' \in Reading
  <2>1. NoReading \in Reading
    BY AgeAssumption DEF NoReading, Reading
  <2> QED BY <1>1, <2>1 DEF DebtTypeOK
<1>3. /\ debt' \in Debt /\ debt'.since <= clock
      /\ seen' \in Nat /\ seen' <= clock
      /\ Owed'
  <2>1. CASE reading.state = "pending" /\ RecordDebt
    <3>1. /\ debt' = [known |-> TRUE, pending |-> TRUE, since |-> FirstAge,
                      started |-> reading.started]
          /\ Reported
      BY <2>1 DEF RecordDebt
    <3>2. FirstAge \in Ages /\ FirstAge <= clock
      BY <2>1, FirstAgeInTime
    <3>3. debt' \in Debt /\ debt'.since <= clock
      BY <1>2, <3>1, <3>2 DEF Debt, Reading
    <3>4. seen' \in Nat /\ seen' <= clock
      BY <3>1, AgeAssumption DEF Reported, DebtTypeOK, InTime, Ages
    <3>5. /\ debt'.pending /\ debt'.since = FirstAge
          /\ debt'.started = reading.started /\ reading'.state = "none"
      BY <1>1, <3>1 DEF NoReading
    <3>6. ASSUME seen # 0 PROVE Owed'
      <4>1. seen' = seen /\ reading.started = proc.started
        BY <2>1, <3>1, <3>6 DEF Reported, Owed
      <4>2. FirstAge <= seen
        BY <3>6, FirstAgeStays DEF Owed
      <4>3. seen' = seen /\ proc' = proc
        BY <1>1, <4>1
      <4> QED BY <3>5, <4>1, <4>2, <4>3 DEF Owed
    <3>7. ASSUME seen = 0 PROVE Owed'
      <4>1. seen' # 0 => seen' = clock /\ reading.started = proc.started
        BY <3>1, <3>7 DEF Reported
      <4>2. proc' = proc
        BY <1>1
      <4> QED BY <3>2, <3>5, <4>1, <4>2 DEF Owed
    <3> QED BY <3>3, <3>4, <3>6, <3>7
  <2>2. CASE reading.state \in {"inactive", "clean"} /\ RecordDebt /\ ~Settled
    <3>1. /\ debt.pending
          /\ debt' = [debt EXCEPT !.started = IF reading.state = "clean"
                                              THEN reading.started ELSE @]
          /\ seen' = seen
      BY <2>2 DEF RecordDebt, Settled
    <3>2. debt \in [known: BOOLEAN, pending: {TRUE}, started: Nat, since: Ages]
      BY <3>1 DEF DebtTypeOK, Debt
    <3>3. reading.started \in Nat
      BY <1>2 DEF Reading
    <3>4. /\ debt' \in Debt
          /\ debt'.since = debt.since /\ debt'.pending
          /\ debt'.started = IF reading.state = "clean"
                             THEN reading.started ELSE debt.started
      BY <3>1, <3>2, <3>3 DEF Debt
    <3> QED BY <1>1, <3>1, <3>4 DEF DebtTypeOK, InTime, Owed, NoReading
  <2>3. CASE reading.state \in {"inactive", "clean"} /\ RecordDebt /\ Settled
    <3>1. seen = 0
      BY <2>3 DEF Owed, Settled
    <3>2. /\ seen' = seen
          /\ debt' = [known |-> TRUE, pending |-> FALSE, since |-> 0,
                      started |-> IF reading.state = "clean"
                                  THEN reading.started ELSE 0]
      BY <2>3 DEF RecordDebt
    <3>3. debt' \in Debt /\ debt'.since = 0
      BY <1>2, <3>2 DEF Debt, Reading
    <3> QED BY <3>1, <3>2, <3>3, AgeAssumption DEF DebtTypeOK, Owed, Ages
  <2>4. CASE Keep
    <3>1. debt' \in Debt /\ debt'.since = debt.since
            /\ debt'.pending = debt.pending /\ debt'.started = debt.started
      BY <2>4 DEF Keep, DebtTypeOK, Debt
    <3>2. seen' = seen
      BY <2>4 DEF Keep
    <3> QED BY <1>1, <3>1, <3>2 DEF DebtTypeOK, InTime, Owed, NoReading
  <2> QED BY <2>1, <2>2, <2>3, <2>4 DEF Observe, RecordDebt
<1>4. DebtTypeOK'
  BY <1>1, <1>2, <1>3 DEF DebtTypeOK
<1>5. InTime'
  BY <1>1, <1>3 DEF InTime, NoReading
<1> QED BY <1>3, <1>4, <1>5

\* Steps that touch neither debt nor process.
LEMMA OtherStep ==
  ASSUME DebtInv, Tick \/ Decide \/ Deny \/ UNCHANGED debtVars PROVE DebtInv'
<1>0. decided' \in BOOLEAN
  BY Zenon DEF DebtInv, DebtTypeOK, Tick, Decide, Deny, debtVars
<1>1. /\ clock' \in Ages /\ clock <= clock'
      /\ UNCHANGED <<proc, debt, reading, upgrades, starts, seen, restarts>>
  <2> USE AgeAssumption DEF DebtInv, DebtTypeOK, Ages
  <2>1. CASE Tick BY <2>1 DEF Tick
  <2>2. CASE Decide BY <2>2 DEF Decide
  <2>3. CASE Deny BY <2>3 DEF Deny
  <2>4. CASE UNCHANGED debtVars BY <2>4 DEF debtVars
  <2> QED BY <2>1, <2>2, <2>3, <2>4
<1>2. DebtTypeOK'
  BY <1>0, <1>1 DEF DebtInv, DebtTypeOK
<1>3. /\ debt.since = 0 \/ debt.since \in Ages
      /\ reading.at \in 0..Horizon /\ clock \in Ages /\ seen \in Nat
  BY DEF DebtInv, DebtTypeOK, Debt, Reading
<1>4. InTime' /\ Owed'
  BY <1>1, <1>3, AgeAssumption DEF DebtInv, InTime, Owed, Ages
<1> QED BY <1>2, <1>4 DEF DebtInv

----------------------------------------------------------------------------
(* How often the worker restarts *)

\* Starts are counted upwards: neither the record nor a reading is ahead.
InOrder ==
  /\ 0 < proc.started
  /\ debt.started <= proc.started
  /\ reading.started <= proc.started

\* Nothing is left that could ask for a restart of the present process.
Spent ==
  /\ ~decided /\ ~proc.mapped /\ ~proc.guests
  /\ debt.pending => debt.started # proc.started
  /\ reading.state = "pending" => reading.started # proc.started

\* The restart that an upgrade costs replaces what was mapped, and ends all debt
\* but that of guests; the second one waits for them to end, and ends theirs.
FewLeft ==
  /\ RestartsAreFew
  /\ proc.guests => proc.managed
  /\ restarts # 0 => ~proc.mapped /\ (proc.guests => ~decided)
  /\ restarts = (IF proc.managed THEN 2 ELSE 1) => Spent

IInv == DebtInv /\ InOrder /\ FewLeft

\* The restarts an upgrade costs are all left.
LEMMA InitFewLeft == DebtInit => InOrder /\ FewLeft
<1> SUFFICES ASSUME DebtInit PROVE InOrder /\ FewLeft
  OBVIOUS
<1>1. PICK managed \in BOOLEAN :
        proc = [active |-> TRUE, started |-> 1, old |-> FALSE, mapped |-> FALSE,
                managed |-> managed, guests |-> FALSE]
  BY DEF DebtInit
<1>2. /\ debt.started = 0 /\ reading.started = 0
      /\ restarts = 0
  BY DEF DebtInit, NoReading
<1> QED BY <1>1, <1>2 DEF InOrder, FewLeft, RestartsAreFew

\* What happens to the process: its number only grows, and what is mapped now
\* was mapped before or came with an upgrade, which allows the restarts anew.
LEMMA ProcessSteps ==
  ASSUME DebtTypeOK,
         Tick \/ Upgrade \/ ReloadService \/ GuestsEnd \/ Stop \/ Start \/ Inspect
           \/ Observe \/ Decide \/ Deny \/ UNCHANGED debtVars
  PROVE  /\ proc.started \in Nat /\ proc'.started \in Nat
         /\ proc.started <= proc'.started
         /\ proc'.managed = proc.managed
         /\ \/ restarts' = 0 /\ (proc'.guests => proc'.managed)
            \/ /\ restarts' = restarts
               /\ proc'.mapped => proc.mapped
               /\ proc'.guests => proc.guests
<1> USE DEF DebtTypeOK, Process
<1>1. CASE Upgrade BY <1>1 DEF Upgrade
<1>2. CASE ReloadService BY <1>2 DEF ReloadService
<1>3. CASE GuestsEnd BY <1>3 DEF GuestsEnd
<1>4. CASE Stop BY <1>4 DEF Stop
<1>5. CASE Start BY <1>5 DEF Start, Replace
<1>6. CASE Tick \/ Inspect \/ Observe \/ Decide \/ Deny \/ UNCHANGED debtVars
  BY <1>6 DEF Tick, Inspect, Observe, Decide, Deny, debtVars
<1> QED BY <1>1, <1>2, <1>3, <1>4, <1>5, <1>6

\* The record takes over the number of the process that was read, or keeps its own.
LEMMA RecordSteps ==
  ASSUME DebtTypeOK, Observe
  PROVE  /\ debt.started \in Nat /\ reading.started \in Nat
         /\ reading'.started = 0 /\ reading'.state = "none"
         /\ debt'.started \in {debt.started, reading.started, 0}
         /\ debt'.pending /\ debt'.started # 0 =>
              \/ debt.pending /\ debt'.started = debt.started
              \/ reading.state = "pending" /\ debt'.started = reading.started
<1>1. /\ debt.started \in Nat /\ reading.started \in Nat
      /\ reading'.started = 0 /\ reading'.state = "none"
  BY DEF DebtTypeOK, Debt, Reading, Observe, NoReading
<1>2. CASE reading.state = "pending" /\ RecordDebt
  <2>1. debt' = [known |-> TRUE, pending |-> TRUE, since |-> FirstAge,
                 started |-> reading.started]
    BY <1>2 DEF RecordDebt
  <2>2. debt'.started = reading.started
    BY <2>1
  <2> QED BY <1>1, <1>2, <2>2
<1>3. CASE reading.state \in {"inactive", "clean"} /\ RecordDebt /\ ~Settled
  <2>1. /\ debt.pending
        /\ debt' = [debt EXCEPT !.started = IF reading.state = "clean"
                                            THEN reading.started ELSE @]
        /\ reading.state = "clean" => reading.started = debt.started
    BY <1>3 DEF RecordDebt, Settled
  <2>2. debt'.started = debt.started
    BY <2>1 DEF DebtTypeOK, Debt
  <2> QED BY <1>1, <2>1, <2>2
<1>4. CASE reading.state \in {"inactive", "clean"} /\ RecordDebt /\ Settled
  <2>1. debt' = [known |-> TRUE, pending |-> FALSE, since |-> 0,
                 started |-> IF reading.state = "clean"
                             THEN reading.started ELSE 0]
    BY <1>4 DEF RecordDebt
  <2>2. /\ ~debt'.pending
        /\ debt'.started = IF reading.state = "clean" THEN reading.started ELSE 0
    BY <2>1
  <2> QED BY <1>1, <2>2
<1>5. CASE Keep
  <2>1. debt'.started = debt.started /\ debt'.pending = debt.pending
    BY <1>5 DEF Keep, DebtTypeOK, Debt
  <2> QED BY <1>1, <2>1
<1> QED BY <1>2, <1>3, <1>4, <1>5 DEF Observe, RecordDebt

\* A restart by the worker needs a decision and uses it up.
LEMMA RestartReplaces ==
  ASSUME DebtTypeOK, WorkerRestart
  PROVE  /\ decided /\ ~decided'
         /\ proc.started \in Nat /\ proc'.started = proc.started + 1
         /\ ~proc'.mapped /\ proc'.guests = proc.guests
         /\ proc'.managed = proc.managed
         /\ restarts' = restarts + 1 /\ debt' = debt /\ reading' = reading
BY DEF DebtTypeOK, Process, WorkerRestart, Replace

\* No record or reading is of a process yet to come.
LEMMA InOrderKept ==
  ASSUME DebtTypeOK, InOrder, [DebtNext]_debtVars
  PROVE  InOrder'
<1>0. debt.started \in Nat /\ reading.started \in Nat /\ proc.started \in Nat
  BY DEF DebtTypeOK, Debt, Reading, Process
<1>1. CASE Inspect
  <2>1. proc' = proc /\ debt' = debt /\ reading'.started = proc.started
    BY <1>1 DEF Inspect, Inspected
  <2> QED BY <1>0, <2>1 DEF InOrder
<1>2. CASE Observe
  <2>1. proc' = proc
    BY <1>2 DEF Observe
  <2> QED BY <1>0, <1>2, <2>1, RecordSteps DEF InOrder
<1>3. CASE WorkerRestart
  BY <1>0, <1>3, RestartReplaces DEF InOrder
<1>4. CASE Tick \/ Upgrade \/ ReloadService \/ GuestsEnd \/ Stop \/ Start
           \/ Decide \/ Deny \/ UNCHANGED debtVars
  <2>1. debt' = debt /\ reading' = reading
    BY <1>4 DEF Tick, Upgrade, ReloadService, GuestsEnd, Stop, Start, Decide, Deny, debtVars
  <2>2. proc.started <= proc'.started /\ proc'.started \in Nat
    BY <1>4, ProcessSteps
  <2> QED BY <1>0, <2>1, <2>2 DEF InOrder
<1> QED BY <1>1, <1>2, <1>3, <1>4 DEF DebtNext

\* Of a process for which nothing is left, nothing asks for a restart again
\* before the next upgrade.
LEMMA SpentStays ==
  ASSUME DebtTypeOK, InOrder, Spent,
         Tick \/ ReloadService \/ GuestsEnd \/ Stop \/ Start \/ Inspect
           \/ Observe \/ Decide \/ Deny \/ UNCHANGED debtVars
  PROVE  Spent'
<1>0. debt.started \in Nat /\ reading.started \in Nat /\ proc.started \in Nat
  BY DEF DebtTypeOK, Debt, Reading, Process
<1>1. CASE Tick \/ Deny \/ UNCHANGED debtVars
  BY <1>1 DEF Tick, Deny, debtVars, Spent
<1>2. CASE ReloadService \/ GuestsEnd
  BY <1>2 DEF ReloadService, GuestsEnd, Spent
<1>3. CASE Stop
  <2>1. /\ ~proc'.mapped /\ proc'.guests = proc.guests
        /\ proc'.started = proc.started
        /\ debt' = debt /\ reading' = reading /\ decided' = decided
    BY <1>3 DEF Stop, DebtTypeOK, Process
  <2> QED BY <2>1 DEF Spent
<1>4. CASE Start
  <2>1. /\ ~proc'.mapped /\ proc'.guests = proc.guests
        /\ proc'.started = proc.started + 1
        /\ debt' = debt /\ reading' = reading /\ decided' = decided
    BY <1>4 DEF Start, Replace, DebtTypeOK, Process
  <2> QED BY <1>0, <2>1 DEF Spent, InOrder
<1>5. CASE Inspect
  <2>1. /\ proc' = proc /\ debt' = debt /\ decided' = decided
        /\ reading'.state # "pending"
    BY <1>5 DEF Inspect, Inspected, Pending, Spent
  <2> QED BY <2>1 DEF Spent
<1>6. CASE Observe
  <2>1. proc' = proc /\ decided' = decided
    BY <1>6 DEF Observe
  <2>2. debt'.pending => debt'.started # proc.started
    BY <1>0, <1>6, RecordSteps DEF Spent, InOrder
  <2> QED BY <1>6, <2>1, <2>2, RecordSteps DEF Spent
<1>7. CASE Decide
  BY <1>7 DEF Decide, Needed, Spent
<1> QED BY <1>1, <1>2, <1>3, <1>4, <1>5, <1>6, <1>7

\* Each restart is one of those that were left.
LEMMA FewLeftKept ==
  ASSUME DebtTypeOK, DebtTypeOK', InOrder, FewLeft, [DebtNext]_debtVars
  PROVE  FewLeft'
<1>0. restarts \in Nat /\ restarts' \in Nat
  BY DEF DebtTypeOK
<1>1. CASE WorkerRestart
  <2>1. restarts' = 1 \/ (restarts' = 2 /\ proc.managed /\ ~proc.guests)
    BY <1>0, <1>1, RestartReplaces DEF FewLeft, RestartsAreFew, Spent
  <2>2. debt.started # proc'.started /\ reading.started # proc'.started
    <3>1. debt.started \in Nat /\ reading.started \in Nat
      BY DEF DebtTypeOK, Debt, Reading
    <3> QED BY <1>1, <3>1, RestartReplaces DEF InOrder
  <2>3. proc'.guests => proc'.managed
    BY <1>1, RestartReplaces DEF FewLeft
  <2>4. proc.managed \in BOOLEAN
    BY DEF DebtTypeOK, Process
  <2>5. CASE restarts' = 2
    <3>1. ~proc'.guests /\ proc'.managed
      BY <1>1, <2>1, <2>5, RestartReplaces
    <3> QED BY <1>1, <2>2, <2>3, <2>5, <3>1, RestartReplaces
            DEF FewLeft, RestartsAreFew, Spent
  <2>6. CASE restarts' = 1
    BY <1>1, <2>2, <2>3, <2>6, RestartReplaces DEF FewLeft, RestartsAreFew, Spent
  <2> QED BY <2>1, <2>5, <2>6
<1>2. CASE Upgrade
  BY <1>2, ProcessSteps DEF Upgrade, FewLeft, RestartsAreFew
<1>3. ASSUME \/ Tick \/ ReloadService \/ GuestsEnd \/ Stop \/ Start \/ Inspect
             \/ Observe \/ Decide \/ Deny \/ UNCHANGED debtVars
      PROVE  FewLeft'
  <2>1. /\ proc'.managed = proc.managed /\ restarts' = restarts
        /\ proc'.guests => proc.guests
        /\ proc'.mapped => proc.mapped \/ restarts = 0
    <3>1. restarts' = restarts
      BY <1>3 DEF Tick, ReloadService, GuestsEnd, Stop, Start, Inspect, Observe, Decide,
                  Deny, debtVars
    <3>2. proc'.guests => proc.guests
      <4> USE DEF DebtTypeOK, Process
      <4>1. CASE ReloadService \/ GuestsEnd BY <4>1 DEF ReloadService, GuestsEnd
      <4>2. CASE Stop BY <4>2 DEF Stop
      <4>3. CASE Start BY <4>3 DEF Start, Replace
      <4>4. CASE Tick \/ Inspect \/ Observe \/ Decide \/ Deny \/ UNCHANGED debtVars
        BY <4>4 DEF Tick, Inspect, Observe, Decide, Deny, debtVars
      <4> QED BY <1>3, <4>1, <4>2, <4>3, <4>4
    <3> QED BY <1>3, <3>1, <3>2, ProcessSteps
  <2>2. decided' => decided \/ Needed
    BY <1>3, Zenon DEF Tick, ReloadService, GuestsEnd, Stop, Start, Inspect, Observe,
                       Decide, Deny, debtVars
  <2>3. restarts' # 0 => ~proc'.mapped /\ (proc'.guests => ~decided')
    BY <2>1, <2>2 DEF FewLeft, Needed
  <2>4. restarts' = (IF proc'.managed THEN 2 ELSE 1) => Spent'
    BY <1>3, <2>1, SpentStays DEF FewLeft
  <2> QED BY <2>1, <2>3, <2>4 DEF FewLeft, RestartsAreFew
<1> QED BY <1>1, <1>2, <1>3 DEF DebtNext

\* The invariant holds of every behaviour.
LEMMA DebtInductive == DebtSpec => []IInv
<1>1. DebtInit => IInv
  BY InitDebtInv, InitFewLeft DEF IInv
<1>2. DebtInv /\ [DebtNext]_debtVars => DebtInv'
  BY ServiceStep, InspectStep, ObserveStep, OtherStep DEF DebtNext
<1>3. IInv /\ [DebtNext]_debtVars => IInv'
  BY <1>2, InOrderKept, FewLeftKept DEF IInv, DebtInv
<1> QED BY <1>1, <1>3, PTL DEF DebtSpec

\* Every entry of debt.json keeps its shape: pending with an age that lies
\* between the first second and the present bound, or settled with none.
THEOREM DebtTypeCorrect == DebtSpec => []DebtTypeOK
BY DebtInductive, PTL DEF IInv, DebtInv

\* However many upgrades, reloads, failed or late inspections there are, a process
\* once reported old owes its debt, and with its first age, until it is replaced.
THEOREM OldProcessKeepsOwing == DebtSpec => []OldProcessOwes
<1>1. IInv => OldProcessOwes
  BY DEF IInv, DebtInv, Owed, OldProcessOwes
<1> QED BY <1>1, DebtInductive, PTL

\* However often upgrades, starts by others, late inspections and denied attempts
\* follow each other, one upgrade costs an ordinary service one restart by the
\* worker, and libvirtd one more once its guests have ended.
THEOREM RestartsStayFew == DebtSpec => []RestartsAreFew
<1>1. IInv => RestartsAreFew
  BY DEF IInv, FewLeft
<1> QED BY <1>1, DebtInductive, PTL
==============================================================================
