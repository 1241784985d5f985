-------------------------- MODULE ObservationProof --------------------------
(***************************************************************************)
(* How one lease proves that nobody uses the platform before each of its   *)
(* steps: the readers of the activity sources, the samples the coordinator *)
(* holds of them, the two zero readings behind a closed fence, the second  *)
(* look after the commit and the immediate one before native work.  Stamps *)
(* are whole seconds, events happen between them; the model's clock counts *)
(* TicksPerSecond to a second and a sample keeps the ticks it was read at. *)
(***************************************************************************)
EXTENDS Naturals

CONSTANTS Sources,         \* prod, dev, ax41, selectel and turn in the code
          Guests,          \* the sources that push, and know the next lesson
          TicksPerSecond,
          Spacing,         \* seconds between two zero readings (10)
          MaxAge,          \* seconds a sample stays current (30)
          MaxRead,         \* seconds a read may take (25)
          Expiry,          \* seconds an uncommitted fence stays up (60)
          GrantAge,        \* seconds a grant may wait for its preflight (15)
          Budget,          \* seconds planned for native work (120 or 900)
          Margin,          \* seconds kept free behind it (120)
          Openings,        \* bound: ticks at which the next lesson may open
          WindowEnd,       \* second at which the nightly window ends
          MaxRestarts,     \* bound: process generations of a source
          Horizon          \* bound: ticks of the clock

ASSUME SourceAssumption == Guests \subseteq Sources
ASSUME TickAssumption == TicksPerSecond \in Nat \ {0}
ASSUME TimesAssumption ==
  /\ Openings \subseteq Nat
  /\ {Spacing, MaxAge, MaxRead, Expiry, GrantAge, Budget, Margin, WindowEnd}
       \subseteq Nat

VARIABLES clock,
          tunnels,   \* sources with sessions in progress
          opening,   \* tick at which each guest's next lesson opens
          process,   \* generation of each source's processes
          reader,    \* the read under way of each source, as far as it got
          latest,    \* the sample the coordinator sees of each source
          gate,      \* the admission barriers of both hosts
          lease,     \* coordinator.json
          baseline,  \* its zero_baseline
          step,      \* the time that /lease/step reads once both barriers are held
          proof,     \* the two readings that led to the last commit
          native     \* the native work of the granted step

vars == <<clock, tunnels, opening, process, reader, latest, gate, lease,
          baseline, step, proof, native>>

Second(t) == t \div TicksPerSecond

Now == Second(clock)

----------------------------------------------------------------------------
(* Samples *)

\* What is there of a source before its first sample: nothing healthy.
NoSample == [begun |-> 0, end |-> 0, busy |-> FALSE, healthy |-> FALSE,
             process |-> 0]

NoReadings == [s \in Sources |-> NoSample]

NoProof == [first |-> NoReadings, second |-> NoReadings]

Init ==
  /\ clock = TicksPerSecond
  /\ tunnels \in SUBSET Sources
  /\ opening \in [Guests -> Openings]
  /\ process = [s \in Sources |-> 0]
  /\ reader = NoReadings
  /\ latest = NoReadings
  /\ gate = [up |-> FALSE, committed |-> FALSE, armed |-> 0]
  /\ lease = [phase |-> "reserved", epoch |-> 0, granted |-> 0]
  /\ baseline = NoReadings
  /\ step = 0
  /\ proof = NoProof
  /\ native = [pc |-> "none", by |-> 0]

----------------------------------------------------------------------------
(* The platform: native work keeps its plan; a lesson opens at its time    *)

NativeEndsBy == (native.by + Margin + Budget) * TicksPerSecond

Tick ==
  /\ clock < Horizon
  /\ native.pc # "none" => clock < NativeEndsBy
  /\ clock' = clock + 1
  /\ UNCHANGED <<tunnels, opening, process, reader, latest, gate, lease,
                 baseline, step, proof, native>>

LessonOpen(s) == s \in Guests /\ clock >= opening[s]

Active(s) == s \in tunnels \/ LessonOpen(s)

\* New sessions need an open gate; established ones outlive its closing.
Enter(s) ==
  /\ ~gate.up
  /\ s \notin tunnels
  /\ tunnels' = tunnels \cup {s}
  /\ UNCHANGED <<clock, opening, process, reader, latest, gate, lease,
                 baseline, step, proof, native>>

Leave(s) ==
  /\ s \in tunnels
  /\ tunnels' = tunnels \ {s}
  /\ UNCHANGED <<clock, opening, process, reader, latest, gate, lease,
                 baseline, step, proof, native>>

Restart(s) ==
  /\ process[s] < MaxRestarts
  /\ process' = [process EXCEPT ![s] = @ + 1]
  /\ UNCHANGED <<clock, tunnels, opening, reader, latest, gate, lease,
                 baseline, step, proof, native>>

----------------------------------------------------------------------------
(* The readers: one read at a time, stamped at both ends; what it counts    *)
(* and the processes it names are those of some moment in between          *)

BeginRead(s) ==
  /\ reader[s] = NoSample
  /\ reader' = [reader EXCEPT ![s].begun = clock]
  /\ UNCHANGED <<clock, tunnels, opening, process, latest, gate, lease,
                 baseline, step, proof, native>>

Look(s) ==
  /\ reader[s] # NoSample /\ ~reader[s].healthy
  /\ reader' = [reader EXCEPT ![s].busy = Active(s), ![s].healthy = TRUE,
                             ![s].process = process[s]]
  /\ UNCHANGED <<clock, tunnels, opening, process, latest, gate, lease,
                 baseline, step, proof, native>>

Aged(sample, now) == now - Second(sample.end) > MaxAge

\* validate_observation, but for the counts and their schema
Current(sample, now) ==
  /\ sample.healthy
  /\ Second(sample.end) <= now /\ ~Aged(sample, now)
  /\ Second(sample.end) - Second(sample.begun) <= MaxRead
  /\ now - Second(sample.begun) <= MaxAge

\* A guest's /activity must be current and newer than the one before; a host
\* replaces local.json.
Accepted(s, sample) ==
  s \in Guests => Current(sample, Now) /\ Second(sample.end) > Second(latest[s].end)

\* The sample arrives as soon as it is taken (a late one is only older), or is
\* refused or lost and not sent again.
EndRead(s) ==
  /\ reader[s].healthy
  /\ reader' = [reader EXCEPT ![s] = NoSample]
  /\ LET sample == [reader[s] EXCEPT !.end = clock]
     IN \/ /\ Now - Second(sample.begun) <= MaxRead
           /\ Accepted(s, sample)
           /\ latest' = [latest EXCEPT ![s] = sample]
        \/ UNCHANGED latest
  /\ UNCHANGED <<clock, tunnels, opening, process, gate, lease, baseline,
                 step, proof, native>>

\* The reader fails, and may still get to say so.
FailRead(s) ==
  /\ reader[s] # NoSample
  /\ reader' = [reader EXCEPT ![s] = NoSample]
  /\ \/ latest' = [latest EXCEPT ![s] = NoSample]
     \/ UNCHANGED latest
  /\ UNCHANGED <<clock, tunnels, opening, process, gate, lease, baseline,
                 step, proof, native>>

----------------------------------------------------------------------------
(* The fence *)

Close ==
  /\ lease.phase = "reserved"
  /\ gate' = [up |-> TRUE, committed |-> FALSE, armed |-> clock]
  /\ lease' = [lease EXCEPT !.phase = "fencing"]
  /\ UNCHANGED <<clock, tunnels, opening, process, reader, latest, baseline,
                 step, proof, native>>

\* Mutant: the epoch is the second in which the fence was seen closed.
ArmEndThisSecond ==
  /\ lease.phase = "fencing"
  /\ lease' = [lease EXCEPT !.phase = "fenced", !.epoch = Now]
  /\ baseline' = NoReadings
  /\ UNCHANGED <<clock, tunnels, opening, process, reader, latest, gate,
                 step, proof, native>>

ArmEnd ==
  /\ lease.phase = "fencing"
  /\ lease' = [lease EXCEPT !.phase = "fenced", !.epoch = Now + 1]
  /\ baseline' = NoReadings
  /\ UNCHANGED <<clock, tunnels, opening, process, reader, latest, gate,
                 step, proof, native>>

Expire ==
  /\ gate.up /\ ~gate.committed
  /\ Now - Second(gate.armed) >= Expiry
  /\ gate' = [gate EXCEPT !.up = FALSE]
  /\ UNCHANGED <<clock, tunnels, opening, process, reader, latest, lease,
                 baseline, step, proof, native>>

----------------------------------------------------------------------------
(* Validation *)

CurrentReadings(readings, now) ==
  \A s \in Sources : Current(readings[s], now)

AfterFence(readings) ==
  \A s \in Sources : Second(readings[s].begun) >= lease.epoch

\* The lesson that a guest announces opens after the work would have ended; a
\* guest whose lesson was open already is busy.
NoLessonNear(readings, now) ==
  \A s \in Guests :
    ~readings[s].busy => Second(opening[s]) > now + Budget + Margin

Zero(readings) == \A s \in Sources : ~readings[s].busy

FencedPhases == {"fenced", "committing", "step_running", "verifying"}

\* validate_snapshot of the samples at hand
Quiet(readings, now) ==
  /\ CurrentReadings(readings, now)
  /\ NoLessonNear(readings, now)
  /\ gate.up
  /\ lease.phase \in FencedPhases
  /\ AfterFence(readings)
  /\ Zero(readings)

\* Mutant: it is enough that the second reading is not older than the first.
NotOlder(first, second) ==
  \A s \in Sources : Second(second[s].begun) >= Second(first[s].begun)

Spaced(first, second) ==
  \A s \in Sources : Second(second[s].begun) >= Second(first[s].end) + Spacing

SameProcesses(first, second) ==
  \A s \in Sources : first[s].process = second[s].process

InWindow(now) == now + Budget + Margin < WindowEnd

----------------------------------------------------------------------------
(* /lease/step *)

Provable == InWindow(Now) /\ lease.phase \in {"fenced", "verifying"}

\* observe_zero denies, or starts anew: a snapshot that proves nothing drops
\* the baseline, one whose baseline is too old or of other processes replaces it.
ObserveDenied ==
  /\ Provable
  /\ \/ ~Quiet(latest, Now) /\ baseline' = NoReadings
     \/ /\ Quiet(latest, Now)
        /\ \/ baseline = NoReadings
           \/ baseline # NoReadings /\ ~CurrentReadings(baseline, Now)
           \/ /\ baseline # NoReadings /\ Spaced(baseline, latest)
              /\ ~SameProcesses(baseline, latest)
        /\ baseline' = latest
  /\ UNCHANGED <<clock, tunnels, opening, process, reader, latest, gate,
                 lease, step, proof, native>>

\* Two zero readings are a proof.
Commit ==
  /\ Provable
  /\ baseline # NoReadings
  /\ Quiet(latest, Now) /\ Quiet(baseline, Now)
  /\ Spaced(baseline, latest)
  /\ SameProcesses(baseline, latest)
  /\ proof' = [first |-> baseline, second |-> latest]
  /\ lease' = [lease EXCEPT !.phase = "committing"]
  /\ UNCHANGED <<clock, tunnels, opening, process, reader, latest, gate,
                 baseline, step, native>>

\* Both barriers are held, and the time is read again.
Hold ==
  /\ lease.phase = "committing" /\ step = 0
  /\ gate.up
  /\ gate' = [gate EXCEPT !.committed = TRUE]
  /\ step' = Now
  /\ UNCHANGED <<clock, tunnels, opening, process, reader, latest, lease,
                 baseline, proof, native>>

\* The look after the hold, against the time read before it.
Confirmed ==
  /\ InWindow(step)
  /\ Quiet(latest, step) /\ Quiet(proof.second, step)
  /\ SameProcesses(proof.second, latest)
  /\ \A s \in Sources : Second(latest[s].end) >= Second(proof.second[s].end)

Grant ==
  /\ lease.phase = "committing" /\ step # 0
  /\ Confirmed
  /\ lease' = [lease EXCEPT !.phase = "step_running", !.granted = step]
  /\ baseline' = NoReadings
  /\ step' = 0
  /\ UNCHANGED <<clock, tunnels, opening, process, reader, latest, gate,
                 proof, native>>

\* A commit that holds no barrier, or is not confirmed, goes back to the phase
\* it came from.
Rollback ==
  /\ lease.phase = "committing"
  /\ step = 0 \/ ~Confirmed
  /\ lease' = [lease EXCEPT !.phase = IF lease.granted = 0 THEN "fenced"
                                      ELSE "verifying"]
  /\ step' = 0
  /\ proof' = NoProof
  /\ UNCHANGED <<clock, tunnels, opening, process, reader, latest, gate,
                 baseline, native>>

----------------------------------------------------------------------------
(* /lease/preflight and the native work behind it *)

\* Mutant: a closed fence is enough, without a granted step.
PreflightUngranted ==
  /\ lease.phase \in {"fenced", "step_running"} /\ native.pc = "none"
  /\ InWindow(Now)
  /\ Quiet(latest, Now)
  /\ native' = [pc |-> "ready", by |-> Now]
  /\ UNCHANGED <<clock, tunnels, opening, process, reader, latest, gate,
                 lease, baseline, step, proof>>

Preflight ==
  /\ lease.phase = "step_running" /\ native.pc = "none"
  /\ Now - lease.granted <= GrantAge
  /\ InWindow(Now)
  /\ Quiet(latest, Now)
  /\ SameProcesses(proof.second, latest)
  /\ native' = [pc |-> "ready", by |-> Now]
  /\ UNCHANGED <<clock, tunnels, opening, process, reader, latest, gate,
                 lease, baseline, step, proof>>

NativeStart ==
  /\ native.pc = "ready"
  /\ Now <= native.by + Margin
  /\ native' = [native EXCEPT !.pc = "running"]
  /\ UNCHANGED <<clock, tunnels, opening, process, reader, latest, gate,
                 lease, baseline, step, proof>>

\* The step completes: after native work, or unused.
Complete ==
  /\ lease.phase = "step_running"
  /\ native.pc # "ready"
  /\ native' = [native EXCEPT !.pc = "none"]
  /\ lease' = [lease EXCEPT !.phase = "verifying"]
  /\ baseline' = NoReadings
  /\ proof' = NoProof
  /\ UNCHANGED <<clock, tunnels, opening, process, reader, latest, gate, step>>

----------------------------------------------------------------------------
Next ==
  \/ Tick
  \/ \E s \in Sources : Enter(s) \/ Leave(s) \/ Restart(s)
                        \/ BeginRead(s) \/ Look(s) \/ EndRead(s) \/ FailRead(s)
  \/ Close \/ ArmEnd \/ Expire
  \/ ObserveDenied \/ Commit \/ Hold \/ Grant \/ Rollback
  \/ Preflight \/ NativeStart \/ Complete

Spec == Init /\ [][Next]_vars

----------------------------------------------------------------------------
(* Properties *)

\* Both readings behind a granted step were read, from start to end, while the
\* barriers were closed: the fence epoch and whole seconds admit no older one.
ProofIsPostFence ==
  lease.phase = "step_running" =>
    \A s \in Sources : /\ proof.first[s].begun >= gate.armed
                       /\ proof.second[s].begun >= gate.armed
                       /\ gate.up

\* The two readings of a granted step are separate: more than Spacing less one
\* second (what two truncated stamps can hide) lies between them.
ProofIsSeparated ==
  lease.phase = "step_running" =>
    \A s \in Sources :
      proof.second[s].begun + TicksPerSecond
        > proof.first[s].end + Spacing * TicksPerSecond

\* Native work runs in the window, and at no moment of it is any session or
\* lesson in progress, for as long as it keeps to its planned time.
NativeMeetsNobody ==
  native.pc = "running" =>
    /\ \A s \in Sources : ~Active(s)
    /\ Now < WindowEnd

\* docs/host-maintenance-control.md:9: "Every second read starts at least ten
\* seconds after the first read completed".
SecondReadStartsLater ==
  lease.phase = "step_running" =>
    \A s \in Sources :
      proof.second[s].begun >= proof.first[s].end + Spacing * TicksPerSecond
=============================================================================
