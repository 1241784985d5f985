-------------------------- MODULE ObservationProofs --------------------------
(***************************************************************************)
(* What the two zero readings and the preflight prove, for any sources, any *)
(* resolution of the clock, any budget, margin, spacing and ages.          *)
(***************************************************************************)
EXTENDS ObservationProof, TLAPS

Sample == [begun : Nat, end : Nat, busy : BOOLEAN, healthy : BOOLEAN,
           process : Nat]
Readings == [Sources -> Sample]
Gates == [up : BOOLEAN, committed : BOOLEAN, armed : Nat]
Leases == [phase : {"reserved", "fencing", "committing", "step_running"}
                     \cup FencedPhases,
           epoch : Nat, granted : Nat]
Proofs == [first : Readings, second : Readings]
Natives == [pc : {"none", "ready", "running"}, by : Nat]

TypeInv ==
  /\ clock \in Nat /\ opening \in [Guests -> Nat] /\ process \in [Sources -> Nat]
  /\ reader \in Readings /\ latest \in Readings /\ baseline \in Readings
  /\ gate \in Gates /\ lease \in Leases /\ step \in Nat
  /\ proof \in Proofs /\ native \in Natives

\* Nothing was read, and no barrier closed, after now.
StampsArePast ==
  /\ gate.armed <= clock
  /\ \A s \in Sources : reader[s].begun <= clock /\ latest[s].begun <= clock

\* A quiet sample that was begun behind the fence still holds: nobody came in.
StillTrue(x, s) ==
  x.healthy /\ ~x.busy /\ gate.up /\ x.begun > gate.armed => s \notin tunnels

SamplesAreTrue ==
  \A s \in Sources : StillTrue(reader[s], s) /\ StillTrue(latest[s], s)

EpochIsLater ==
  lease.phase \notin {"reserved", "fencing"} => lease.epoch > Second(gate.armed)

ProofIsKept ==
  lease.phase \in {"committing", "step_running"} =>
    \A s \in Sources :
      /\ Second(proof.first[s].begun) >= lease.epoch
      /\ Second(proof.second[s].begun) >= lease.epoch
      /\ Second(proof.second[s].begun) >= Second(proof.first[s].end) + Spacing

GateIsHeld ==
  /\ step # 0 => lease.phase = "committing"
  /\ step # 0 \/ lease.phase = "step_running" => gate.up /\ gate.committed

PlannedEnd == native.by + Budget + Margin

NativeIsAlone ==
  native.pc # "none" =>
    /\ lease.phase = "step_running"
    /\ \A s \in Sources : s \notin tunnels
    /\ \A g \in Guests : Second(opening[g]) > PlannedEnd
    /\ Second(clock) <= PlannedEnd /\ PlannedEnd < WindowEnd

IInv ==
  /\ TypeInv /\ StampsArePast /\ SamplesAreTrue /\ EpochIsLater
  /\ ProofIsKept /\ GateIsHeld /\ NativeIsAlone

----------------------------------------------------------------------------
(* Whole seconds *)

\* What is needed of division.
LEMMA DivLaw ==
  ASSUME NEW n \in Nat \ {0}, NEW t \in Nat
  PROVE  /\ t \div n \in Nat
         /\ n * (t \div n) <= t
         /\ t < n * (t \div n) + n
BY SMT

\* A later second is a later tick.
LEMMA LaterSecond ==
  ASSUME NEW a \in Nat, NEW b \in Nat, Second(a) < Second(b)
  PROVE  a < b
BY TickAssumption, SMT DEF Second

\* A later tick is in no earlier second.
LEMMA SecondsAreOrdered ==
  ASSUME NEW a \in Nat, NEW b \in Nat, a <= b
  PROVE  Second(a) <= Second(b) /\ Second(a) \in Nat /\ Second(b) \in Nat
<1>1. Second(a) \in Nat /\ Second(b) \in Nat
  BY TickAssumption, DivLaw DEF Second
<1> QED
  BY <1>1, LaterSecond

\* What two truncated stamps can hide is less than a second.
LEMMA HiddenBelowASecond ==
  ASSUME NEW a \in Nat, NEW b \in Nat, NEW d \in Nat,
         Second(b) >= Second(a) + d
  PROVE  b + TicksPerSecond > a + d * TicksPerSecond
<1> DEFINE n == TicksPerSecond
           x == a \div n
           y == b \div n
<1>1. /\ x \in Nat /\ y \in Nat /\ n \in Nat \ {0}
      /\ n * y <= b /\ a < n * x + n
  BY TickAssumption, DivLaw
<1>2. y >= x + d
  BY DEF Second
<1> HIDE DEF x, y, n
<1>3. n * y >= n * x + n * d
  BY <1>1, <1>2, SMT
<1>4. b + n > a + d * n
  BY <1>1, <1>3, SMT
<1> QED
  BY <1>4 DEF n

\* The clock moves on inside the planned time.
LEMMA TickStaysPlanned ==
  ASSUME NEW c \in Nat, NEW e \in Nat, c < e * TicksPerSecond
  PROVE  Second(c + 1) <= e
<1> DEFINE n == TicksPerSecond
           x == (c + 1) \div n
<1>1. x \in Nat /\ n \in Nat \ {0} /\ n * x <= c + 1
  BY TickAssumption, DivLaw
<1> HIDE DEF x
<1>2. n * x <= n * e
  BY <1>1, SMT
<1>3. x <= e
  BY <1>1, <1>2, SMT
<1> QED
  BY <1>3 DEF Second, x

----------------------------------------------------------------------------
(* Types *)

\* A sample that is not there has the type of one.
LEMMA NoSampleIsSample == NoSample \in Sample /\ NoReadings \in Readings
                          /\ NoProof \in Proofs
BY DEF NoSample, NoReadings, NoProof, Sample, Readings, Proofs

\* Whole seconds of times are numbers.
LEMMA NowIsNat == ASSUME TypeInv PROVE Now \in Nat
BY SecondsAreOrdered DEF TypeInv, Now

\* The invariant holds first.
LEMMA InitInside == Init => IInv
<1> SUFFICES ASSUME Init PROVE IInv
  OBVIOUS
<1>1. TypeInv
  BY NoSampleIsSample, TickAssumption, TimesAssumption
     DEF Init, TypeInv, Gates, Leases, Natives
<1>2. StampsArePast /\ SamplesAreTrue
  BY TickAssumption DEF Init, StampsArePast, SamplesAreTrue, StillTrue, NoReadings, NoSample
<1>3. EpochIsLater /\ ProofIsKept /\ GateIsHeld /\ NativeIsAlone
  BY DEF Init, EpochIsLater, ProofIsKept, GateIsHeld, NativeIsAlone
<1> QED
  BY <1>1, <1>2, <1>3 DEF IInv

\* What a step does to the readers and to the samples the coordinator holds.
ReaderStep ==
  \/ reader' = reader
  \/ \E s \in Sources :
       \/ reader' = [reader EXCEPT ![s].begun = clock] /\ reader[s] = NoSample
       \/ /\ reader' = [reader EXCEPT ![s].busy = Active(s),
                                     ![s].healthy = TRUE,
                                     ![s].process = process[s]]
       \/ reader' = [reader EXCEPT ![s] = NoSample]

LatestStep ==
  \/ latest' = latest
  \/ \E s \in Sources :
       \/ latest' = [latest EXCEPT ![s] = [reader[s] EXCEPT !.end = clock]]
       \/ latest' = [latest EXCEPT ![s] = NoSample]

\* What a step does to the platform.
PlatformStep ==
  /\ opening' = opening
  /\ \/ clock' = clock
     \/ clock' = clock + 1 /\ (native.pc # "none" => clock < NativeEndsBy)
  /\ \/ tunnels' = tunnels
     \/ ~gate.up /\ gate' = gate
     \/ \E s \in Sources : tunnels' = tunnels \ {s}
  /\ \/ process' = process
     \/ \E s \in Sources : process' = [process EXCEPT ![s] = @ + 1]

\* The steps of the lease, and what every other step leaves alone.
LeaseSteps ==
  \/ Close \/ ArmEnd \/ Expire \/ ObserveDenied \/ Commit \/ Hold
  \/ Grant \/ Rollback \/ Preflight \/ NativeStart \/ Complete

leaseVars == <<gate, lease, baseline, step, proof, native>>

LeaseStep ==
  \/ UNCHANGED leaseVars
  \/ LeaseSteps /\ clock' = clock /\ tunnels' = tunnels /\ opening' = opening
                /\ reader' = reader /\ latest' = latest /\ process' = process

\* Every step, as what it does to readers, samples, platform and lease.
LEMMA StepsOfParts ==
  [Next]_vars => ReaderStep /\ LatestStep /\ PlatformStep /\ LeaseStep
<1> SUFFICES ASSUME [Next]_vars
             PROVE  ReaderStep /\ LatestStep /\ PlatformStep /\ LeaseStep
  OBVIOUS
<1>1. CASE UNCHANGED vars
  BY <1>1 DEF vars, leaseVars, ReaderStep, LatestStep, PlatformStep, LeaseStep
<1>2. CASE Tick
  BY <1>2 DEF Tick, leaseVars, ReaderStep, LatestStep, PlatformStep, LeaseStep
<1>3. ASSUME NEW s \in Sources, Enter(s) \/ Leave(s) \/ Restart(s)
      PROVE  ReaderStep /\ LatestStep /\ PlatformStep /\ LeaseStep
  BY <1>3 DEF Enter, Leave, Restart, leaseVars, ReaderStep, LatestStep,
              PlatformStep, LeaseStep
<1>4. ASSUME NEW s \in Sources, BeginRead(s) \/ Look(s)
      PROVE  ReaderStep /\ LatestStep /\ PlatformStep /\ LeaseStep
  BY <1>4 DEF BeginRead, Look, leaseVars, ReaderStep, LatestStep,
              PlatformStep, LeaseStep
<1>5. ASSUME NEW s \in Sources, EndRead(s) \/ FailRead(s)
      PROVE  ReaderStep /\ LatestStep /\ PlatformStep /\ LeaseStep
  BY <1>5 DEF EndRead, FailRead, leaseVars, ReaderStep, LatestStep,
              PlatformStep, LeaseStep
<1>6. CASE LeaseSteps
  <2>1. clock' = clock /\ tunnels' = tunnels /\ opening' = opening
        /\ reader' = reader /\ latest' = latest /\ process' = process
    BY <1>6 DEF LeaseSteps, Close, ArmEnd, Expire, ObserveDenied, Commit, Hold,
                Grant, Rollback, Preflight, NativeStart, Complete
  <2> QED
    BY <1>6, <2>1 DEF ReaderStep, LatestStep, PlatformStep, LeaseStep
<1> QED
  BY <1>1, <1>2, <1>3, <1>4, <1>5, <1>6 DEF Next, LeaseSteps

\* What is being read keeps its type.
LEMMA ReaderTyped == TypeInv /\ [Next]_vars => reader' \in Readings
<1> SUFFICES ASSUME TypeInv, [Next]_vars PROVE reader' \in Readings
  OBVIOUS
<1>1. reader \in [Sources -> Sample] /\ clock \in Nat
  BY DEF TypeInv, Readings
<1>2. CASE reader' = reader
  BY <1>1, <1>2 DEF Readings
<1>3. ASSUME NEW s \in Sources, reader' = [reader EXCEPT ![s].begun = clock]
      PROVE  reader' \in Readings
  BY <1>1, <1>3 DEF Readings, Sample
<1>4. ASSUME NEW s \in Sources,
             reader' = [reader EXCEPT ![s].busy = Active(s), ![s].healthy = TRUE,
                                      ![s].process = process[s]]
      PROVE  reader' \in Readings
  <2>1. Active(s) \in BOOLEAN
    BY Zenon DEF Active, LessonOpen
  <2>2. process[s] \in Nat
    BY DEF TypeInv
  <2> HIDE DEF Active
  <2> QED
    BY <1>1, <1>4, <2>1, <2>2 DEF Readings, Sample
<1>5. ASSUME NEW s \in Sources, reader' = [reader EXCEPT ![s] = NoSample]
      PROVE  reader' \in Readings
  BY <1>1, <1>5, NoSampleIsSample DEF Readings
<1> QED
  BY <1>2, <1>3, <1>4, <1>5, StepsOfParts DEF ReaderStep

\* So does what has arrived.
LEMMA LatestTyped == TypeInv /\ [Next]_vars => latest' \in Readings
<1> SUFFICES ASSUME TypeInv, [Next]_vars PROVE latest' \in Readings
  OBVIOUS
<1>1. reader \in [Sources -> Sample] /\ latest \in [Sources -> Sample]
      /\ clock \in Nat
  BY DEF TypeInv, Readings
<1>2. CASE latest' = latest
  BY <1>1, <1>2 DEF Readings
<1>3. ASSUME NEW s \in Sources,
             latest' = [latest EXCEPT ![s] = [reader[s] EXCEPT !.end = clock]]
      PROVE  latest' \in Readings
  BY <1>1, <1>3 DEF Readings, Sample
<1>4. ASSUME NEW s \in Sources, latest' = [latest EXCEPT ![s] = NoSample]
      PROVE  latest' \in Readings
  BY <1>1, <1>4, NoSampleIsSample DEF Readings
<1> QED
  BY <1>2, <1>3, <1>4, StepsOfParts DEF LatestStep

\* A step keeps the types.
LEMMA TypesKept == TypeInv /\ [Next]_vars => TypeInv'
<1> SUFFICES ASSUME TypeInv, [Next]_vars PROVE TypeInv'
  OBVIOUS
<1>1. reader' \in Readings /\ latest' \in Readings
  BY ReaderTyped, LatestTyped
<1>2. clock' \in Nat /\ opening' \in [Guests -> Nat]
  BY StepsOfParts DEF TypeInv, PlatformStep
<1>3. process' \in [Sources -> Nat]
  <2>1. ASSUME NEW s \in Sources, process' = [process EXCEPT ![s] = @ + 1]
        PROVE  process' \in [Sources -> Nat]
    <3>1. process[s] + 1 \in Nat
      BY DEF TypeInv
    <3> QED
      BY <2>1, <3>1 DEF TypeInv
  <2> QED
    BY <2>1, StepsOfParts DEF TypeInv, PlatformStep
<1> DEFINE Typed == /\ gate' \in Gates /\ lease' \in Leases
                    /\ baseline' \in Readings /\ step' \in Nat
                    /\ proof' \in Proofs /\ native' \in Natives
<1>4. ASSUME UNCHANGED leaseVars PROVE Typed
  BY <1>4 DEF leaseVars, TypeInv
<1>5. ASSUME Close PROVE Typed
  BY <1>5 DEF Close, TypeInv, Gates, Leases
<1>6. ASSUME ArmEnd PROVE Typed
  <2>1. Now + 1 \in Nat
    BY NowIsNat
  <2>2. lease' \in Leases
    BY <1>6, <2>1 DEF ArmEnd, TypeInv, Leases, FencedPhases
  <2> QED
    BY <1>6, <2>2, NoSampleIsSample DEF ArmEnd, TypeInv
<1>7. ASSUME Expire PROVE Typed
  BY <1>7 DEF Expire, TypeInv, Gates
<1>8. ASSUME ObserveDenied PROVE Typed
  BY <1>8, NoSampleIsSample DEF ObserveDenied, TypeInv
<1>9. ASSUME Commit PROVE Typed
  BY <1>9 DEF Commit, TypeInv, Leases, Proofs
<1>10. ASSUME Hold PROVE Typed
  BY <1>10, NowIsNat DEF Hold, TypeInv, Gates
<1>11. ASSUME Grant PROVE Typed
  BY <1>11, NoSampleIsSample DEF Grant, TypeInv, Leases
<1>12. ASSUME Rollback PROVE Typed
  BY <1>12, NoSampleIsSample DEF Rollback, TypeInv, Leases, FencedPhases
<1>13. ASSUME Preflight PROVE Typed
  BY <1>13, NowIsNat DEF Preflight, TypeInv, Natives
<1>14. ASSUME NativeStart PROVE Typed
  BY <1>14 DEF NativeStart, TypeInv, Natives
<1>15. ASSUME Complete PROVE Typed
  BY <1>15, NoSampleIsSample DEF Complete, TypeInv, Leases, Natives, FencedPhases
<1>16. Typed
  BY StepsOfParts, <1>4, <1>5, <1>6, <1>7, <1>8, <1>9, <1>10, <1>11, <1>12,
     <1>13, <1>14, <1>15 DEF LeaseStep, LeaseSteps
<1> QED
  BY <1>1, <1>2, <1>3, <1>16 DEF TypeInv

----------------------------------------------------------------------------
(* One lemma for each part of the invariant                                *)

\* One source's read in a step: it is dropped, begun, or looks at the sessions.
LEMMA ReaderAt ==
  ASSUME TypeInv, [Next]_vars, NEW s \in Sources
  PROVE  \/ reader'[s] = reader[s] \/ reader'[s] = NoSample
         \/ reader'[s].begun = clock /\ ~reader'[s].healthy
         \/ /\ reader'[s].begun = reader[s].begun
            /\ ~reader'[s].busy => s \notin tunnels
<1> DEFINE Goal == \/ reader'[s] = reader[s] \/ reader'[s] = NoSample
                   \/ reader'[s].begun = clock /\ ~reader'[s].healthy
                   \/ /\ reader'[s].begun = reader[s].begun
                      /\ ~reader'[s].busy => s \notin tunnels
<1>1. reader \in [Sources -> Sample]
  BY DEF TypeInv, Readings
<1>2. CASE reader' = reader
  BY <1>2
<1>3. ASSUME NEW r \in Sources, reader[r] = NoSample,
             reader' = [reader EXCEPT ![r].begun = clock]
      PROVE  Goal
  BY <1>1, <1>3 DEF Sample, NoSample
<1>4. ASSUME NEW r \in Sources,
             reader' = [reader EXCEPT ![r].busy = Active(r), ![r].healthy = TRUE,
                                      ![r].process = process[r]]
      PROVE  Goal
  <2>1. r # s => reader'[s] = reader[s]
    BY <1>1, <1>4
  <2>2. r = s => reader'[s].begun = reader[s].begun /\ reader'[s].busy = Active(s)
    BY <1>1, <1>4 DEF Sample
  <2>3. ~Active(s) => s \notin tunnels
    BY DEF Active
  <2> QED
    BY <2>1, <2>2, <2>3, Zenon
<1>5. ASSUME NEW r \in Sources, reader' = [reader EXCEPT ![r] = NoSample]
      PROVE  Goal
  BY <1>1, <1>5
<1> QED
  BY <1>2, <1>3, <1>4, <1>5, StepsOfParts DEF ReaderStep

\* One source's sample: it stays, is lost, or is what its reader saw.
LEMMA LatestAt ==
  ASSUME TypeInv, [Next]_vars, NEW s \in Sources
  PROVE  \/ latest'[s] = latest[s] \/ latest'[s] = NoSample
         \/ /\ latest'[s].begun = reader[s].begun
            /\ latest'[s].busy = reader[s].busy
            /\ latest'[s].healthy = reader[s].healthy
BY StepsOfParts DEF LatestStep, TypeInv, Readings, Sample

\* A gate is armed now, held, let go uncommitted, or left alone.
LEMMA GateSteps ==
  ASSUME TypeInv, [Next]_vars
  PROVE  \/ gate' = gate
         \/ /\ gate'.armed = clock /\ lease.phase = "reserved"
            /\ reader' = reader /\ latest' = latest
         \/ gate'.armed = gate.armed /\ gate.up /\ gate'.committed = TRUE /\ gate'.up
         \/ ~gate'.up /\ gate'.armed = gate.armed /\ ~gate.committed
BY StepsOfParts DEF LeaseStep, LeaseSteps, leaseVars, TypeInv, Gates, Close,
     ArmEnd, Expire, ObserveDenied, Commit, Hold, Grant, Rollback, Preflight,
     NativeStart, Complete

\* No stamp is put ahead of the clock.
LEMMA StampsStayPast ==
  ASSUME TypeInv, TypeInv', StampsArePast, [Next]_vars
  PROVE  StampsArePast'
<1>1. clock \in Nat /\ clock' \in Nat /\ clock <= clock'
  BY StepsOfParts DEF TypeInv, PlatformStep
<1>2. gate'.armed <= clock'
  <2>1. gate'.armed = gate.armed \/ gate'.armed = clock
    BY GateSteps
  <2>2. gate.armed \in Nat /\ gate.armed <= clock
    BY DEF TypeInv, Gates, StampsArePast
  <2> QED
    BY <1>1, <2>1, <2>2
<1>3. ASSUME NEW s \in Sources
      PROVE  reader[s].begun \in Nat /\ reader[s].begun <= clock
             /\ latest[s].begun \in Nat /\ latest[s].begun <= clock
  BY DEF StampsArePast, TypeInv, Readings, Sample
<1>4. ASSUME NEW s \in Sources PROVE reader'[s].begun <= clock'
  <2>1. \/ reader'[s].begun = reader[s].begun \/ reader'[s].begun = clock
        \/ reader'[s].begun = 0
    BY ReaderAt DEF NoSample
  <2> QED
    BY <1>1, <1>3, <2>1
<1>5. ASSUME NEW s \in Sources PROVE latest'[s].begun <= clock'
  <2>1. \/ latest'[s].begun = latest[s].begun \/ latest'[s].begun = 0
        \/ latest'[s].begun = reader[s].begun
    BY LatestAt DEF NoSample
  <2> QED
    BY <1>1, <1>3, <2>1
<1> QED
  BY <1>2, <1>4, <1>5 DEF StampsArePast

\* While the gate is up nobody comes in: a quiet sample behind it stays true.
LEMMA SamplesStayTrue ==
  ASSUME TypeInv, TypeInv', StampsArePast, SamplesAreTrue, [Next]_vars
  PROVE  SamplesAreTrue'
<1>1. gate'.up => \/ gate.up /\ gate'.armed = gate.armed
                  \/ gate'.armed = clock /\ reader' = reader /\ latest' = latest
  BY GateSteps
<1>2. gate.up => tunnels' \subseteq tunnels
  BY StepsOfParts DEF PlatformStep
<1>3. ASSUME NEW s \in Sources PROVE StillTrue(reader[s], s)'
  BY <1>1, <1>2, ReaderAt
     DEF StillTrue, SamplesAreTrue, StampsArePast, TypeInv, Gates, Readings,
         Sample, NoSample
<1>4. ASSUME NEW s \in Sources PROVE StillTrue(latest[s], s)'
  BY <1>1, <1>2, LatestAt
     DEF StillTrue, SamplesAreTrue, StampsArePast, TypeInv, Gates, Readings,
         Sample, NoSample
<1> QED
  BY <1>3, <1>4 DEF SamplesAreTrue

\* The epoch is set in a later second than the gate's.
LEMMA EpochStaysLater ==
  ASSUME TypeInv, StampsArePast, EpochIsLater, [Next]_vars
  PROVE  EpochIsLater'
<1>1. CASE UNCHANGED leaseVars
  BY <1>1 DEF leaseVars, EpochIsLater
<1>2. ASSUME ArmEnd PROVE EpochIsLater'
  <2>1. Second(gate.armed) <= Now /\ Now \in Nat /\ Second(gate.armed) \in Nat
    BY SecondsAreOrdered DEF TypeInv, Gates, StampsArePast, Now
  <2>2. lease'.epoch = Now + 1
    BY <1>2 DEF ArmEnd, TypeInv, Leases
  <2>3. gate' = gate
    BY <1>2 DEF ArmEnd
  <2> QED
    BY <2>1, <2>2, <2>3 DEF EpochIsLater
<1>3. ASSUME Close PROVE EpochIsLater'
  BY <1>3 DEF Close, EpochIsLater, TypeInv, Leases
<1>4. ASSUME \/ Expire \/ ObserveDenied \/ Commit \/ Hold \/ Grant \/ Rollback
             \/ Preflight \/ NativeStart \/ Complete
      PROVE  EpochIsLater'
  <2>1. gate'.armed = gate.armed /\ lease'.epoch = lease.epoch
    BY <1>4 DEF Expire, ObserveDenied, Commit, Hold, Grant, Rollback, Preflight,
                NativeStart, Complete, TypeInv, Gates, Leases
  <2>2. lease'.phase \notin {"reserved", "fencing"} =>
          lease.phase \notin {"reserved", "fencing"}
    BY <1>4 DEF Expire, ObserveDenied, Provable, Commit, Hold, Grant, Rollback,
                Preflight, NativeStart, Complete, TypeInv, Leases
  <2> QED
    BY <2>1, <2>2 DEF EpochIsLater
<1> QED
  BY <1>1, <1>2, <1>3, <1>4, StepsOfParts DEF LeaseStep, LeaseSteps

\* A proof stays with the phases that need it.
LEMMA ProofStaysKept ==
  ASSUME TypeInv, ProofIsKept, [Next]_vars
  PROVE  ProofIsKept'
<1>1. CASE UNCHANGED leaseVars
  BY <1>1 DEF leaseVars, ProofIsKept
<1>2. ASSUME Commit PROVE ProofIsKept'
  <2>1. AfterFence(latest) /\ AfterFence(baseline) /\ Spaced(baseline, latest)
    BY <1>2 DEF Commit, Quiet
  <2>2. /\ proof'.first = baseline /\ proof'.second = latest
        /\ lease'.epoch = lease.epoch
    BY <1>2 DEF Commit, TypeInv, Leases
  <2> QED
    BY <2>1, <2>2 DEF AfterFence, Spaced, ProofIsKept
<1>3. ASSUME Close \/ ArmEnd \/ Rollback \/ Complete PROVE ProofIsKept'
  <2>1. lease'.phase \notin {"committing", "step_running"}
    BY <1>3 DEF Close, ArmEnd, Rollback, Complete, TypeInv, Leases
  <2> QED
    BY <2>1 DEF ProofIsKept
<1>4. ASSUME Expire \/ ObserveDenied \/ Hold \/ Grant \/ Preflight \/ NativeStart
      PROVE  ProofIsKept'
  <2>1. proof' = proof /\ lease'.epoch = lease.epoch
    BY <1>4 DEF Expire, ObserveDenied, Hold, Grant, Preflight, NativeStart, TypeInv, Leases
  <2>2. lease'.phase \in {"committing", "step_running"} =>
          lease.phase \in {"committing", "step_running"}
    BY <1>4 DEF Expire, ObserveDenied, Hold, Grant, Preflight, NativeStart, TypeInv, Leases
  <2> QED
    BY <2>1, <2>2 DEF ProofIsKept
<1> QED
  BY <1>1, <1>2, <1>3, <1>4, StepsOfParts DEF LeaseStep, LeaseSteps

\* A barrier that is held stays for a granted step.
LEMMA GateStaysHeld ==
  ASSUME TypeInv, GateIsHeld, [Next]_vars
  PROVE  GateIsHeld'
<1>1. CASE UNCHANGED leaseVars
  BY <1>1 DEF leaseVars, GateIsHeld
<1>2. ASSUME Hold PROVE GateIsHeld'
  BY <1>2 DEF Hold, GateIsHeld, TypeInv, Gates
<1>3. ASSUME Close \/ ArmEnd \/ Expire PROVE GateIsHeld'
  BY <1>3 DEF Close, ArmEnd, Expire, GateIsHeld, TypeInv, Gates, Leases
<1>4. ASSUME Commit \/ Rollback \/ Complete PROVE GateIsHeld'
  BY <1>4 DEF Commit, Provable, Rollback, Complete, GateIsHeld, TypeInv, Leases
<1>5. ASSUME Grant PROVE GateIsHeld'
  BY <1>5 DEF Grant, GateIsHeld, TypeInv, Leases
<1>6. ASSUME ObserveDenied \/ Preflight \/ NativeStart PROVE GateIsHeld'
  BY <1>6 DEF ObserveDenied, Preflight, NativeStart, GateIsHeld
<1> QED
  BY <1>1, <1>2, <1>3, <1>4, <1>5, <1>6, StepsOfParts DEF LeaseStep, LeaseSteps

\* The preflight sees every source empty, and no lesson before the planned end.
LEMMA PreflightIsAlone ==
  ASSUME TypeInv, SamplesAreTrue, EpochIsLater, GateIsHeld, Preflight
  PROVE  NativeIsAlone'
<1>1. /\ lease.phase = "step_running" /\ native'.by = Now
      /\ Quiet(latest, Now) /\ InWindow(Now)
      /\ clock' = clock /\ tunnels' = tunnels /\ opening' = opening /\ lease' = lease
  BY DEF Preflight
<1>2. ASSUME NEW s \in Sources PROVE s \notin tunnels
  <2>1. /\ latest[s].healthy /\ ~latest[s].busy /\ gate.up
        /\ Second(latest[s].begun) >= lease.epoch
    BY <1>1 DEF Quiet, CurrentReadings, Current, Zero, AfterFence
  <2>2. latest[s].begun \in Nat /\ gate.armed \in Nat /\ lease.epoch \in Nat
    BY DEF TypeInv, Readings, Sample, Gates, Leases
  <2>3. lease.epoch > Second(gate.armed)
    BY <1>1 DEF EpochIsLater
  <2>4. Second(latest[s].begun) \in Nat /\ Second(gate.armed) \in Nat
    BY <2>2, SecondsAreOrdered
  <2>5. Second(gate.armed) < Second(latest[s].begun)
    BY <2>1, <2>2, <2>3, <2>4
  <2>6. latest[s].begun > gate.armed
    BY <2>2, <2>5, LaterSecond
  <2> QED
    BY <2>1, <2>6 DEF SamplesAreTrue, StillTrue
<1>3. ASSUME NEW g \in Guests PROVE Second(opening[g]) > Now + Budget + Margin
  BY <1>1, SourceAssumption DEF Quiet, NoLessonNear, Zero
<1>4. Now <= Now + Budget + Margin /\ Now + Budget + Margin < WindowEnd
  BY <1>1, NowIsNat, TimesAssumption DEF InWindow
<1> QED
  BY <1>1, <1>2, <1>3, <1>4 DEF NativeIsAlone, PlannedEnd, Now, Second

\* Native work begins and goes on with nobody there.
LEMMA NativeStaysAlone ==
  ASSUME TypeInv, SamplesAreTrue, EpochIsLater, GateIsHeld, NativeIsAlone, [Next]_vars
  PROVE  NativeIsAlone'
<1>1. ASSUME UNCHANGED leaseVars PROVE NativeIsAlone'
  <2> SUFFICES ASSUME native.pc # "none" PROVE NativeIsAlone'
    BY <1>1 DEF leaseVars, NativeIsAlone
  <2>1. /\ native' = native /\ lease' = lease /\ opening' = opening
        /\ lease.phase = "step_running" /\ gate.up
    BY <1>1, StepsOfParts DEF leaseVars, PlatformStep, NativeIsAlone, GateIsHeld
  <2>2. tunnels' \subseteq tunnels
    BY <2>1, StepsOfParts DEF PlatformStep
  <2>3. Second(clock') <= PlannedEnd
    <3>1. CASE clock' = clock
      BY <3>1 DEF NativeIsAlone, Second
    <3>2. ASSUME clock' = clock + 1, clock < NativeEndsBy
          PROVE  Second(clock') <= PlannedEnd
      <4>1. /\ PlannedEnd \in Nat /\ clock \in Nat
            /\ PlannedEnd = native.by + Margin + Budget
        BY TimesAssumption DEF PlannedEnd, TypeInv, Natives
      <4> QED
        BY <3>2, <4>1, TickStaysPlanned DEF NativeEndsBy
    <3> QED
      BY <3>1, <3>2, StepsOfParts DEF PlatformStep
  <2> QED
    BY <2>1, <2>2, <2>3 DEF NativeIsAlone, PlannedEnd, Second
<1>2. ASSUME Preflight PROVE NativeIsAlone'
  BY <1>2, PreflightIsAlone
<1>3. ASSUME NativeStart PROVE NativeIsAlone'
  <2>1. native'.by = native.by /\ native.pc # "none"
    BY <1>3 DEF NativeStart, TypeInv, Natives
  <2> QED
    BY <1>3, <2>1 DEF NativeStart, NativeIsAlone, PlannedEnd, Second
<1>4. ASSUME Complete PROVE NativeIsAlone'
  BY <1>4 DEF Complete, NativeIsAlone, TypeInv, Natives
<1>5. ASSUME Close \/ ArmEnd \/ Commit \/ Grant \/ Rollback PROVE NativeIsAlone'
  <2>1. native' = native /\ lease.phase # "step_running"
    BY <1>5 DEF Close, ArmEnd, Commit, Provable, Grant, Rollback
  <2> QED
    BY <2>1 DEF NativeIsAlone
<1>6. ASSUME Expire \/ ObserveDenied \/ Hold PROVE NativeIsAlone'
  <2>1. /\ native' = native /\ lease' = lease /\ clock' = clock
        /\ tunnels' = tunnels /\ opening' = opening
    BY <1>6 DEF Expire, ObserveDenied, Hold
  <2> QED
    BY <2>1 DEF NativeIsAlone, PlannedEnd, Second
<1> QED
  BY <1>1, <1>2, <1>3, <1>4, <1>5, <1>6, StepsOfParts DEF LeaseStep, LeaseSteps

----------------------------------------------------------------------------
(* The invariant, and what follows from it *)

\* The invariant holds of every behaviour.
LEMMA InvariantHolds == Spec => []IInv
<1>1. ASSUME IInv, [Next]_vars PROVE IInv'
  <2>1. TypeInv'
    BY <1>1, TypesKept DEF IInv
  <2>2. StampsArePast' /\ SamplesAreTrue'
    BY <1>1, <2>1, StampsStayPast, SamplesStayTrue DEF IInv
  <2>3. EpochIsLater' /\ ProofIsKept' /\ GateIsHeld' /\ NativeIsAlone'
    BY <1>1, EpochStaysLater, ProofStaysKept, GateStaysHeld, NativeStaysAlone
       DEF IInv
  <2> QED
    BY <2>1, <2>2, <2>3 DEF IInv
<1> QED
  BY <1>1, InitInside, PTL DEF Spec

\* Whatever the sources and the grain of their stamps, both readings behind a
\* granted step were begun after the barriers closed, and these stand.
THEOREM ReadPostFence == Spec => []ProofIsPostFence
<1>1. ASSUME IInv PROVE ProofIsPostFence
  <2> SUFFICES ASSUME lease.phase = "step_running", NEW s \in Sources
               PROVE  /\ proof.first[s].begun >= gate.armed
                      /\ proof.second[s].begun >= gate.armed
                      /\ gate.up
    BY DEF ProofIsPostFence
  <2> DEFINE a == proof.first[s].begun
             b == proof.second[s].begun
  <2>1. a \in Nat /\ b \in Nat /\ gate.armed \in Nat /\ lease.epoch \in Nat
    BY <1>1 DEF IInv, TypeInv, Proofs, Readings, Sample, Gates, Leases
  <2>2. Second(a) >= lease.epoch /\ Second(b) >= lease.epoch
        /\ lease.epoch > Second(gate.armed)
    BY <1>1 DEF IInv, ProofIsKept, EpochIsLater
  <2> HIDE DEF a, b
  <2>3. Second(a) \in Nat /\ Second(b) \in Nat /\ Second(gate.armed) \in Nat
    BY <2>1, SecondsAreOrdered
  <2>4. Second(gate.armed) < Second(a) /\ Second(gate.armed) < Second(b)
    BY <2>1, <2>2, <2>3
  <2>5. a >= gate.armed /\ b >= gate.armed
    BY <2>1, <2>4, LaterSecond
  <2>6. gate.up
    BY <1>1 DEF IInv, GateIsHeld
  <2> QED
    BY <2>5, <2>6 DEF a, b
<1> QED
  BY <1>1, InvariantHolds, PTL

\* The two readings of a granted step lie more than the spacing less one second
\* apart, in ticks of any grain.
THEOREM ReadApart == Spec => []ProofIsSeparated
<1>1. ASSUME IInv PROVE ProofIsSeparated
  <2> SUFFICES ASSUME lease.phase = "step_running", NEW s \in Sources
               PROVE  proof.second[s].begun + TicksPerSecond
                        > proof.first[s].end + Spacing * TicksPerSecond
    BY DEF ProofIsSeparated
  <2>1. proof.second[s].begun \in Nat /\ proof.first[s].end \in Nat
    BY <1>1 DEF IInv, TypeInv, Proofs, Readings, Sample
  <2>2. Second(proof.second[s].begun) >= Second(proof.first[s].end) + Spacing
    BY <1>1 DEF IInv, ProofIsKept
  <2> QED
    BY <2>1, <2>2, TimesAssumption, HiddenBelowASecond
<1> QED
  BY <1>1, InvariantHolds, PTL

\* Native work that keeps to its plan meets no session and no lesson, and ends
\* inside the window, however often the step was denied before.
THEOREM NobodyMet == Spec => []NativeMeetsNobody
<1>1. ASSUME IInv PROVE NativeMeetsNobody
  <2> SUFFICES ASSUME native.pc = "running"
               PROVE  (\A s \in Sources : ~Active(s)) /\ Now < WindowEnd
    BY DEF NativeMeetsNobody
  <2>1. /\ \A s \in Sources : s \notin tunnels
        /\ \A g \in Guests : Second(opening[g]) > PlannedEnd
        /\ Now <= PlannedEnd /\ PlannedEnd < WindowEnd
    BY <1>1 DEF IInv, NativeIsAlone, Now
  <2>2. PlannedEnd \in Nat /\ clock \in Nat /\ opening \in [Guests -> Nat]
    BY <1>1, TimesAssumption DEF IInv, TypeInv, Natives, PlannedEnd
  <2>3. Now \in Nat
    BY <2>2, SecondsAreOrdered DEF Now
  <2>4. ASSUME NEW g \in Guests PROVE ~LessonOpen(g)
    <3>1. Second(opening[g]) \in Nat /\ Second(clock) < Second(opening[g])
      BY <2>1, <2>2, <2>3, SecondsAreOrdered DEF Now
    <3> QED
      BY <2>2, <3>1, LaterSecond DEF LessonOpen
  <2> QED
    BY <2>1, <2>2, <2>3, <2>4, TimesAssumption DEF Active, LessonOpen
<1> QED
  BY <1>1, InvariantHolds, PTL
=============================================================================
