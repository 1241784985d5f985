# Verification of the playsay infrastructure

The repository runs the playsay platform on two hosts: AX41 (a hypervisor with
a PROD and a DEV guest) and Selectel (public ingress and TURN). Most of it is
declarative: Helm charts, Argo CD applications, Ansible roles, Terraform. Four
programs have protocols, journals and concurrency of their own, and they are what
is modelled here:

- **host maintenance** (`scripts/host_maintenance/`): every night each host wants to
  install security updates and restart services, and may do so only when nobody
  uses the platform, no lesson is near, both hosts refuse new sessions, and the
  other host is doing nothing of the kind. It is the core of the project.
- the **production log collector**, which reads rotated files and the journal into a
  bounded outbox and posts it until it is answered;
- the **certificate lifecycle**, whose runs renew, activate, look and record;
- the **Maria learning sync**, which freezes two contours, copies identities and
  learning data from one to the other, and has to bring everything back.

Contents: [inventory](#1-inventory), [modules](#2-modules-and-how-they-correspond-to-the-code),
[runs](#3-runs), [fairness](#4-fairness), [assumptions](#5-assumptions-of-the-models),
[proofs](#6-proofs), [findings](#7-findings-and-what-the-code-does-not-promise),
[what is not modelled](#8-what-is-not-modelled), [plan](#9-plan).

To run one: `tlc -config safety.cfg MCHostMaintenance`; to check the proofs of
a module: `tlapm CertificateProofs.tla`. `PROJECT.json` lists the runs, the
source lines every definition stands for, one mutant for every checked property
(a plausible bug of the code that TLC must find), the hazards of the code and
the properties that watch over each.

## 1. Inventory

Paths are relative to `src/`; `hm/` is `scripts/host_maintenance/`, `maria/` is
`migrations/ax41/maria-learning-sync/`.

### Host maintenance

| component | state | operations | what makes it correct |
|---|---|---|---|
| Coordinator journal (`hm/model.py`) | `coordinator.json` on AX41: phase, owner, lease, step, flags `destructive` and `release_verified`, last released lease, last completed step, zero baseline; a lock taken without waiting | `reserve`, `assert_owner`, and the sections that the agent's endpoints run under its lock | one lease at a time; a step only after two zero readings; after a step, release only of a verified runtime |
| Coordinator agent, AX41 (`hm/agent.py`) | handler threads, at most 16 | `/lease/claim, fence, step, preflight, complete-step, verify, release, assert, heartbeat`, `/activity` | handlers that outlive their client do no harm: no barrier is left behind, no step is granted that nobody can end |
| Fence agent, Selectel (`hm/agent.py`) | handler threads | `/fence/close, hold, open`, each asking `/lease/assert` first | late requests act for their own lease only |
| Admission fence of each host (`hm/fence.py`) | `fence.json`, the marker file nginx answers 503 to, the nft table dropping TURN control; a lock | `close`, `hold`, `open`, `expire_uncommitted`, `restore` | never a barrier without its record; a held barrier survives crash and reboot; an unheld one goes away |
| Worker of each host (`hm/worker.py`) | `worker.json`, the executing process | the nightly run: claim, fence, proof, install, restarts, verification, release, or `recovery_required` | native work only behind both held barriers and its own step; each run ends |
| Transport (`hm/wire.py`) | `auth.json`, the replay journal | signed requests with a ten-second timeout | a request is served at most once |
| Observation (`hm/model.py`, `hm/collect.py`) | activity samples of `prod`, `dev`, `ax41`, `selectel`, `turn`, each with the times its reading started and ended; zero baseline | collecting, pushing, validating, comparing two readings | what two snapshots allow, with truncated stamps and stale samples, means that nobody is there |
| Service debt (`hm/monitor.py`, `hm/model.py`) | `debt.json`: pending, age, start time per service | `service_debt`, `restart_needed` | an old process owes until it is replaced, and is restarted once, not every night |
| Package steps (`hm/packages.py`, `hm/worker.py`) | `package-plan.json`, the transaction permit, APT's locks, the dpkg database | planning, installation, the helper that APT calls before each dpkg | dpkg changes only what the plan has, in a confirmed step, and is not stopped halfway |
| Package read lock (`hm/collect.py`) | two POSIX-locked files, a shared count | status checks and restarts under it | no package tool runs while somebody reads, and none is kept out by nobody |
| Collectors, CLI, inventory, archives | none of their own | read-only, or one archive | pure I/O |
| Recovery tool (`scripts/recover-host-maintenance.py`) | the journals above, a disabled timer and configuration, how far it has come on each host | `--recover` on both hosts, `--finish-selectel`; then a worker of the same lease verifies and releases | nothing is opened while native work runs, no other lease is touched, no step is repeated |

How they interact. The worker of a host sends one request at a time to the
agent of AX41, which keeps the journal; for fencing, committing and releasing
that agent calls the agent of Selectel, which calls back with `/lease/assert`
and acts on its own fence. Readers on guests and hosts push samples that the
agent reads when it validates. A collector loop on each host expires barriers
every three seconds and refreshes the host's own samples; a thread of the worker sends
a heartbeat every five. The journals are files under
non-blocking locks, shared by threads and processes. Package installation calls
back into the control plane from APT's Pre-Invoke hook.

What is hard: handlers interleave at each lock and at each request to the
other host; a client gives up after ten seconds while its handler goes on; the
peer asserts and then acts; a process, an agent or a host may go down anywhere;
retries repeat what may have been done; stamps are whole seconds; samples are up
to thirty seconds old when they are used; the kernel drops all locks of a process on a file
with the first descriptor closed; APT runs dpkg several times in one transaction.

### The other programs

| component | state and operations | hard part | correct when |
|---|---|---|---|
| Production log collector (`ansible/roles/production-log-collector/files/collector.py`) | handles and fragments in memory; events, file positions and the journal cursor in one SQLite outbox; read, join, sanitize, store, evict, post, delete | rotation, late writers and truncation under open handles, records in parts, a lost answer, a crash between post and deletion, the outbox at its limit, a journalctl that ends inside a record | a line is read once, a record becomes one event or is counted, and nothing unforeseen leaves the host |
| Certificate lifecycle (`scripts/certificate-lifecycle.py`) | certificates, activation markers, `state.json`; runs for renewal, rehearsal and health under one lock | a renewal whose activation failed is not due the next time; certbot's own timer; a run that dies | a certificate that is not served is told, and stays told |
| Identity sync (`maria/keycloak_identity_sync.py`) | two Keycloak databases, encrypted backups; preflight, backup, one transaction, comparison, restore | a Keycloak started behind the guards, a lost COMMIT, a kill between steps | nothing is overwritten, and every run can be undone |
| Operator window (`maria/run_dev_to_prod_operator.sh`) | replica counts of two contours, the missing subjects | it may end anywhere with both contours stopped | both run again as before |
| Bundle plan (`maria/bundle_tool.py`) | bundle, manifest, reviewed plan, the target's tables | rows known by natural keys, tables that keep what only the target has, files that change after the review | the reviewed plan is exactly what happens |
| Bundle apply (`maria/maria-learning-sync.sh`) | database and bucket, written one after the other under a backup | half-done copies, `set -e` that does not hold inside conditions | whole, or able to be undone |
| Maintenance ingress installer, RF edge release, GeoIP update | files swapped into a running nginx, rollback | failure between swap and reload | the old or the new configuration serves; planned |
| Backups and restore check | dumps, rotation | rotation after a failed dump | the last good backup survives; planned |

### Parts without a protocol

Cluster bootstrap and add-ons, Keycloak configuration, secret provisioning,
diagnostics, Ansible roles, Helm charts and GitOps applications, Jenkins,
Terraform, images and themes, tests, migrations of the past: idempotent
sequences of commands or declarative data, reconciled by systems outside this
repository. `PROJECT.json` names each with its reason.

## 2. Modules and how they correspond to the code

### The control plane, one module per program

- `ControlPlane` declares the state: `coord` is `coordinator.json`, `fence[h]`
  the fence of host h as one unit (`lease`, `committed`, `up`), `worker[h]`
  its `worker.json` and process, `call[s]` a handler of the AX41 agent, `peer[p]`
  one of the Selectel agent. `Hosts` are the two of the code.
- `MaintenanceWorker`: `Worker.run` and what it calls. `pc` is where the worker
  waits, `phase` what its record says. The two differ on purpose: the record is
  all that the next run, the fence agent and the operator see. Answers are
  classified as the code does: `ok`, `retry` (codes a loop waits out), `busy`
  (`control_unavailable`, `lock_busy`, `fence_busy`), `denied` (all others).
  `Raise` is the `except` block, `GiveUp` the deadlines of `acknowledge`,
  `proof` and `verify_release`.
- `CoordinatorAgent`: each endpoint cut where it takes or drops a lock or waits
  for the peer. `/lease/step` is seven actions (`StepObserve` ... `StepGrant`),
  `/lease/release` seven more. Between them other handlers run. Snapshots are the
  environment here: `denied` and `retry` are always possible, but a snapshot
  passes only with both barriers up (`SnapshotFenced`).
- `PeerAgent`: `PeerAssert`, then `PeerAct`.
- `HostMaintenance` composes them: transport (`Accept`, `Refuse`, `Timeout`),
  fence expiry, `Crash` of an executor (its native work goes on, as `KillMode=process`
  says), `AgentRestart`, `Reboot` with restored barriers. Its properties are below.
- `ExclusiveMaintenance` is the abstract specification: sets of held barriers and
  of hosts with unfinished work, and whether the runtime is proved. Work begins
  only with all barriers held and nobody else at work; barriers are lifted only
  when no work is unfinished and the runtime was verified since.
- `HostRecovery` extends `HostMaintenance` by the recovery tool and by `native`, the transactions and unit
  jobs that really run, whatever a record says. `Quarantine` is `--recover` up to the restart of the agent,
  `Prepare` puts the coordinator back to `verifying`, `FinishCheck` is `--finish-selectel`, `Resume` starts
  the tool's own worker, which uses the steps of `MaintenanceWorker` for verification and release but
  leaves its record as it is when it gives up (`ToolGivesUp`): `verify_release` is called without the
  `except` block of `run`. `Leave` is any check or lock that ends the tool early. Which package or service a
  step was about is left out, so the tool may accept any failed step (the code wants
  libvirtd's restart) and any completed one (coturn's): more behaviours than the code has. The operator
  acts when `NeedsRecovery` says so; one attempt for each host bounds the model.
- `HostMaintenanceInvariant` states `IInv`, the invariant that explains why, and `CoreInv`, the part of it
  that a recovery keeps; `MCHostMaintenance` adds symmetry.

### Parts of host maintenance in more detail

- `AdmissionFence` takes the fence apart: record, marker and table are separate
  durable effects in the order of the code (`Close`, `Mark`, `Install`; `Lower`,
  `Unmark`, `Erase`; `Remark`, `Reinstall`), with a failure or reboot between any two.
  `AtomicFence` is the fence as `ControlPlane` has it, one state change per
  operation (`CloseFence`, `HoldFence`, `OpenFence`, `OpenFencePartly`, restored at
  reboot). The refinement from one to the other is what allows the
  control plane to treat the fence as a unit. `AtomicFence` does not say who may open
  when; that is `HeldStaysShut`, and the guards of `ControlPlane`.
- `ObservationProof` takes the snapshots apart for one lease: sessions come and go
  (not through a closed gate), lessons open at their time, readers read over
  an interval (`BeginRead`, `Look`, `EndRead`, `FailRead`), the coordinator holds the
  last accepted sample of each source and validates it with truncated stamps, takes a
  zero baseline, waits for a second reading, commits, holds, looks again, grants, and
  looks once more in the preflight. The peer requests and the other handlers are
  left to the control plane.
- `ServiceDebt`: one service over many nights. Processes become old by upgrades
  (`old` is the truth, `mapped` what `/proc` shows), the observer inspects first and
  records later (`Inspect`, `Observe`, as in `monitor.py`, where inspection precedes
  the lock), the worker decides and restarts in separate steps. `proc.managed` is libvirtd,
  whose guests keep running old code when the daemon restarts.
- `PackageStep`: the plan over an arbitrary dependency relation (`ClosedSubset` is the loop of
  `Planner.plan`), the step of the worker, APT with its helper (`HelperEntered`,
  `HelperConfirmed`, `HelperPermits`, `HelperDenies`), dpkg in runs over parts of the
  transaction, dying workers and hosts, other tools, an operator's recovery. What
  `Proved`, `Preflighted` and `NativeDone` of the control plane do in one step each is
  taken apart here; the coordinator's answer is the set `granted`.
- `PackageLock`: `package_read_lock` with its guard, count and shared handles; `held` is what
  the kernel has locked for the process.
- `ReplayJournal`: `Authenticator.verify` with its window, retention, capacity and skewed clocks.
  `HostPrograms` puts these three side by side.

### The other programs

- `LogCollector`: one log path over several inodes. `Open`, `Shrunk`, `Read`, `Close` are
  `FileReader.poll`, `Read` with its four ways to treat a line; `Accept` and `Reject` commit event and
  position together as `Outbox` does; `Answered` and `Unanswered` are `deliver`. Writers of the container's two streams,
  three kinds of rotation and `Crash` are the environment. Fragments are kept by file, as in the code: those of two streams mix. Lines are a record's number and a part:
  `P` a fragment, `F` the last one, `long` a line over the limit.
- `JournalInput`: `JournalReader` with its buffer, flag and cursor. `LogSanitizer`: `sanitize` over records
  whose fields are classes of text. `MCLogCollector` has the three.
- `CertificateLifecycle`: a run from lock to `state.json` (`Begin`, `Renew`, `NotRenewed`, `ActivateNginx`,
  `ActivateDeferred`, `Rehearse`, `Health`, `Save`), which may die before it saves; `served` is the truth.
  Lineages are served by nginx, or by the relay, which an operator restarts when it is empty.
- `IdentitySync`: `apply`, `verify` and `rollback` of the identity tool, with edits, starts and stops of both
  Keycloaks by anyone at any time. An identity is the version of dev's that it was copied from, and
  whether the copy is whole. `MariaWindow` puts the launcher around it (extends it; `ToolStep` is a step of
  the tool); `MCMaria` runs the tool by hand or by the launcher.
- `BundlePlan`: the pure part, as operators: extraction, plan, comparison, manifest, and what `apply.sql`
  does to five tables that stand for the 29, one of each way in which rows are known and kept. `BundleReview`
  applies a reviewed bundle over every pair of small databases; `LearningApply` is the script over database and
  bucket: each object is copied, removed and put back by a step of its own, which may fail unseen where bash or `|| true`
  hides it, or end the script where they do not; `mc stat` may fail for any object. `MCLearning` has both.

Runs that put several programs side by side (`HostTimers`: fence, debt and certificates; `HostPrograms` and `MCLearning`, both in
`MCPrograms`; `MCLogCollector`, `MCMaria`) or
several instances of one (`MCObservationProof`) do so as a sum: a variable that never changes
(`timer`, `program`, `part`, `by`, `instance`) says which one a behaviour is of, and the others stay where they began. Nothing is
shared, so each is explored as in a run of its own.

Auxiliary variables, which the code does not have: `used`, `granted`, `faults` in
`ControlPlane`; `tunnels`, `opening`, `proof` and the ticks of the samples
in `ObservationProof`; `old`, `upgrades`, `starts`, `seen`, `restarts` in `ServiceDebt`;
`granted`, `touched`, `faults` in `PackageStep`; `inside` in `PackageLock`; `begun` in `ReplayJournal`;
`records`, `rest`, `server`, `crashes` and the sets of rejected and dropped records in `LogCollector`; `done` and `ends` in
`JournalInput`; `served`, `waiting`, `crashes` in `CertificateLifecycle`; `reported` and `run.still` in `IdentitySync`; `run.was`
and the `unseen` keys of a backup in `LearningApply`; `approved`, `before` in `BundleReview`. `aged` in `AdmissionFence` stands for the comparison with
the record's time.

## 3. Runs

| run | instance | shows |
|---|---|---|
| `safety` | 2 leases, 2 coordinator and 2 peer handlers, 2 grants, 1 fault, symmetry; 1.09 million states | `UnsafeWorkIsBarred`, `HoldBelongsToLease`, every part of `IInv` (the first is `TypeOK`), and that the control plane implements `ExclusiveMaintenance` |
| `liveness` | `HostRecovery`: 1 lease, 2 and 1 handlers, 2 grants, 1 fault, 1 recovery on each host, `FairSpec`; 46 thousand states | `NativeWorkIsBarred`, `RunEnds`, `CabinetsReopen`, `LeaseEnds` |
| `denied` | 1 lease, 1 handler each | violated: see the first finding |
| `proof` | one source in half seconds, 6 seconds, 1 process restart; a guest and TURN in whole seconds; 3.7 million states | `ProofIsPostFence`, `ProofIsSeparated`, `NativeMeetsNobody`, and all three for two sources read independently (`SourcesAreApart`) |
| `spacing` | one source, as above | violated: see the second finding |
| `timers` | the fence with 2 leases; libvirtd and an ordinary service with 2 upgrades and 2 foreign starts; 1 lineage of either kind, 3 renewals, 3 points in time and 1 dying run; fair; 281 thousand states | `NoOrphan`, `HeldStaysShut`, `BarrierExpires`, and that the fence implements `AtomicFence`; `OldProcessOwes`, `RestartsAreFew`, `DebtIsSettled`; `PendingIsNotYounger`, `FailedActivationIsKept`, `MismatchIsTold` |
| `programs` | 3 packages with every dependency relation and every outcome of the review, 2 steps, 2 faults; 8 sections at the read lock; 3 requests, window 2, retention 4, capacity 2, skew 3, 7 seconds; every pair of databases of up to 2 rows per table through plan and transaction; the script over 1 bundle, 2 targets and 2 runs; 2.6 million states | `OnlyConfirmedSteps`, `NeverDeniedHalfway`, `SuccessIsWhole`; `ReadersAreSafe`, `NothingIsLeftLocked`; `StartedOnce`; `PlanIsExact`, `SuccessIsTrue`, `ChangesAreUndone` |
| `logs` | 2 streams, 2 inodes, 3 records of 4 shapes, 2 events in the outbox, batches of 1, 1 crash; a journal of 4 records; every kind of record through the sanitizer; 385 thousand states | `ApartRecordsAreWhole`, `ReadOnce`, `JournalIsTaken`, `OnlyForeseen`, `RecordsArrive` |
| `replay` | 2 streams, 2 records that fit, 1 crash | violated: see the third finding |
| `partials` | 1 stream, 2 records, no crash | violated: see the fourth finding |
| `maria` | 2 students, 1 edit each, 2 backups, 2 windows; 2.5 million states | `CopiesAreAsSaid`, `RunsCanBeUndone`, `NothingOverwritten`, `WindowsEndRunning` |
| `restore` | the script as in `programs` | violated: see the fifth finding |

All runs set `CHECK_DEADLOCK FALSE`: a behaviour ends when its leases, upgrades, records, runs or ticks
are used up, and without a next lease both hosts simply stay idle; in the code the next timer comes.

Bounds, and why they suffice for the case in question:

- `Leases`: two are needed for a late request of one lease to meet the next, and
  for one host to follow another. A third adds a second predecessor, which
  `IInv` shows to be no different from the first: it speaks of each lease out
  of force separately.
- `Slots`, `PeerSlots`: two AX41 handlers let an abandoned one run beside its successor.
  Two peer handlers let a late close, hold or open run beside a current one.
- `MaxSteps` (`ControlPlane`): the second grant comes from `verifying` with the barriers already
  held, the first one from `fenced`; later ones repeat the second. It bounds
  when a worker asks for a proof, not what the coordinator does.
- `HostRecovery` needs two grants: the tool accepts a completed step with a further commit behind it. Its one fault is
  the crash or the strandable rollback that makes the tool necessary.
- `MaxFaults` (`ControlPlane`): one lost or late message, busy lock, crash or reboot at any point.
  Refusals (`denied`, `retry`), fence expiry, failing fence commands and overruns
  are not faults: they may happen any number of times. So one fault meets any
  combination of those.
- `ObservationProof` scales the code's constants down (spacing 10 s to 1, age 30 to 2, read
  25 to 1, expiry 60 to 3, grant age 15 to 1, budget 120 or 900 and margin 120 to 1), keeping
  read <= age < expiry and the rounding. With `TicksPerSecond = 2` half a second is hidden
  by each stamp. The horizon of twelve ticks leaves time for a proof, an
  expiry and a denied proof before it, and a lesson may open at the tick at which native work
  must have ended. The second instance exchanges half seconds for a second source.
- `ServiceDebt`: two upgrades let the second arrive at every stage of the
  first one's debt, two foreign starts let a process be replaced while a reading of the
  previous one waits for the lock.
- `PackageStep`: three packages have chains, cycles and diamonds short of a fourth member; the second
  step meets whatever the first left: its permit, its half-installed packages, its dead worker.
- `PackageLock` has no history beyond its sections; eight of them are more than any case needs, two being the least
  that share. `ReplayJournal`: three requests overfill a capacity of two, the clock runs past the retention of
  an accepted request, and the skew exceeds the window, so a stamp lies on either side of it and at its ends.
- `LogCollector`: two fragments join (`MaxJoined`), so a record of three overflows with its last one, and one of two that meets a fragment of the other
  stream does too; a line may be too long by itself. Two files follow one another, two events fill the outbox while a third comes. One crash at
  any point. A record is written before, across or after a rotation. Two writers of three records have every order in which parts of two can
  meet, before, in and behind a third, which is of a kind that fits (`FewRecords`): it has to survive what the others leave; where the writer is late, or files are truncated, two records have every place relative to the rotation.
  Crashes are in the behaviours of the late writer, which may do all that the prompt one does.
- `CertificateLifecycle`: three certificates are a renewal whose activation fails and another on top; lineages
  share nothing but the lock, so one of either kind stands for any number (the proofs are for any).
- `IdentitySync`: the second student's run meets what the first has left, and its restore might take back the
  first's copy; one edit makes the copy of an identity old; two windows let the second take over what the first left.
- `BundleReview`: two rows by UUID and by natural key with two values have every way in which both can agree, collide or
  cross. `LearningApply`: an object that only the target has, one that both have, one that preserved and replaced rows share, one that a
  lesson saves between runs; the second run meets whatever the first, its restore or a rollback has left.

## 4. Fairness

Always of steps that the program or the kernel takes by itself:

- `HostRecovery`: workers, handlers and peer handlers run on as threads do
  (weak fairness); a server takes a waiting request when it has a free handler;
  a retry loop ends at its deadline (strong fairness of `GiveUp`, since a loop is
  interrupted by its own attempts); the collector gets a barrier opened that it tries
  to open every three seconds. APT and systemd end what they started; the tool's own worker has the deadlines
  of every worker. Nobody has to call the tool, and nothing makes it go on. Nothing makes a proof succeed, a fault cease
  other than by its bound, a timer fire or native work succeed.
- `AdmissionFence`: operations go on; age comes with time; the expiry and each of its
  commands, tried again every three seconds, succeed at some time (strong
  fairness, because failures and reboots interrupt them).
- `ServiceDebt`: the observer runs every thirty seconds and does not fail for ever; the worker
  runs every night and is not denied for ever. The latter is the promise of the
  nightly window and not of the code: `DebtIsSettled` says what follows from it.
- `LogCollector`: the loop opens the path and reads every handle each time round; a writer ends the records it has begun
  and reopens its log; the server answers at some time (strong fairness: a posted batch may go unanswered in between).
  No crash is repaired by fairness alone: the runs with crashes are those of safety, `RecordsArrive` speaks of a collector that runs.
- `CertificateLifecycle`: a run goes on, the clock too, and the health timer fires again and again and gets the lock at
  some time. Nothing renews, and no activation, probe or rehearsal has to succeed.
- `MariaWindow`: scaling, the tool, the end of the launcher and its trap go on. Nothing makes a copy succeed; `kill -9` of the launcher is
  left out, since no trap runs then.

`CabinetsReopen` and `LeaseEnds` admit `NeedsRecovery`: a worker record that is neither
`idle` nor `deferred` stops the timer until an operator acts. That is the
code's answer to failed native work, and to a release that stays unacknowledged until its deadline. Both
exempt the bare `reserved` phase: when the answer to `/lease/claim` is lost, the run
defers, and nothing in the code gives the reservation back.

## 5. Assumptions of the models

Of host maintenance:

- Files are replaced atomically (`atomic_json` in `model.py` writes, syncs, renames and syncs the
  directory), and effects become durable in the order in which they are made. `_open` in
  `fence.py` removes the marker and then the record and syncs both directories at the end; the model takes
  the order of the two removals from the journaling file system.
- `restore` runs before nginx, TURN and virtualization, as the unit dependencies say.
- A lease token is never drawn twice (128 random bits), nor a nonce; signatures are not forged.
- Handlers under the coordinator's or the fence's lock are atomic; finding a lock
  taken is a fault (`LockBusy`, `HoldBusy`, `PeerFenceBusy`).
- The clocks of hosts and guests agree in `ObservationProof` (the code refuses samples from the
  future; drift is not modelled). In `ReplayJournal` they differ by up to `MaxSkew`, but the agent's own does not go back.
- A read counts what was there at one moment between its two stamps. A sample arrives
  when it has been taken, or never: a late or doubled one, which `agent.py:141` compares with what it has, is not in the model. Samples of failed reads carry no activity.
- A restarted agent has read its configuration: one that is disabled refuses every claim (`Serves`).
- Native work keeps its planned budget and margin (the worker does not kill an
  installation that overruns: it records the overrun, which the control plane models).
- Counts, names, versions and the schema of samples are reduced to what is decided from
  them: busy or quiet, healthy or not, same processes or not. Whether the archive of a package passes the audit is an input (`reviewed`).

Of the log collector:

- Rotations are days apart: a running collector has opened a file before the next rotation, and an inode does not come
  back under the same path within a behaviour.
- A truncated file does not outgrow the old position before the next poll; the collector does not die around a truncation.
  Its own documentation says that lines are lost there.
- A line of a file is whole when it is read: the container runtime writes lines, and the reader waits for the end of one.
- `MaxJoined > 0`: a single CRI line that is not too long fits by itself (in the code its stamp and stream name count against the line but not
  against the joined text).
- Positions of all inodes are kept: the limit of 128, and the one written longest ago giving way, are not in the model.

Of the certificate lifecycle: validity is not computed from dates; whether a lineage is due is certbot's own choice.

Of the Maria sync:

- Nobody but the operator and the launcher starts or stops a contour; in `MariaWindow` nobody but the launcher. With
  `Reachable = TRUE`, ssh works when the trap cleans up. What a contour runs is one Boolean, not a count.
- `Frozen = TRUE`: writers stay stopped once the guard has passed. `Answers = FALSE`: copies, removals, `mc stat` and the COMMIT may
  fail or not be heard of. Constants, so that a run can be made without: see section 7.
- `UnusedAssumption`: the application saves documents under names that neither side has had.
- The target does not change between the plan that an operator reads and the apply. The hash he confirms is of the source's manifest
  (`maria-learning-sync.sh:503`), so the code would not notice; `PlanIsExact` says nothing then.
- That rows of the target are the teacher's own (`apply.sql.in:318-352`) is not in the five tables: the preflight may fail for it (`Preflight`).
- `UuidsAgree`: a UUID that both databases hold belongs to the same natural key in both.
- SQL is one serializable transaction that does what its statements say; constraints are the keys and references of the five tables.

## 6. Proofs

All theorems are stated for the specifications that the runs check or instantiate, and hold for
every value of the constants that satisfies the named assumptions, which every run evaluates: `LeaseAssumption`,
`SlotAssumption`, `BoundAssumption` (`ControlPlane`), `LeaseAssumption` (`AdmissionFence`), `TimesAssumption`
(`ObservationProof`), `AgeAssumption` (`ServiceDebt`), `StepsAssumption` (`PackageStep`),
`WindowAssumption`, `BoundsAssumption` (`ReplayJournal`), `CertificatesAssumption`, `BoundsAssumption` (`IdentitySync`),
`LimitsAssumption`, `InodesAssumption`, `ShapesAssumption` (`LogCollector`), `BoundsAssumption` (`MCLogCollector`),
`CutoffAssumption` (`BundlePlan`), `DatabasesAssumption` (`BundleReview`), `RunsAssumption`, `SidesAssumption`, `UnusedAssumption` (`LearningApply`).
One hypothesis that the code does not enforce stands in the two theorems that need it: `Frozen`, no writer is started behind the guard. Each proof follows the same path: an
invariant `IInv` that is stronger than what is wanted, `Init => IInv`, one lemma or step per action for `IInv'`, and the
temporal step at the end.

- `HostMaintenanceProofs`, types: `TypeCorrect` is `Spec => []TypeOK` for any number of leases,
  handlers, steps and faults. `TypeOK` alone is not inductive: an accepted request puts
  the worker's lease and position into a handler, and an ended handler answers with the code
  it remembers. `Typed` adds `Asking` (a worker that issues a request is at a point
  that has one) and `Remembering` (a handler that rolls back remembers an answer that a worker knows).
  `TypedInductive` has one step per action; the worker's steps go through one summary each
  (`Moved`, `InOrder`), the handlers' through `Ended` and `Advanced`.
- `HostMaintenanceProofs`, safety: `IInvInductive` and `InvariantHolds` are `IInv` of `HostMaintenanceInvariant`;
  `UnsafeWorkBarred`, `HoldHasLease` and `FinishedRunIsFree` follow from it, and `Refines` is
  `Spec => ImplementsExclusive`, for any number of leases, handlers, peer handlers, steps and faults.

  *Why the control plane is safe*, in the words of `IInv`: a lease is armed by one request, once, before any
  of its commits (`ArmingFits`, `OneArming`, `NotYetArmed`), so no late close can appear behind a commit; past its commit a
  handler is alone with its lease unless a release has overtaken it (`CommitsAlone`), and then the phase check of
  the grant stops it; what it has held stays held (`CommitsHeld`), and after a grant both barriers
  stay until a verified release (`DestructiveHeld`); a barrier of a lease out of force is uncommitted
  for good (`OldBarriersExpire`), and handlers that open belong to a lease being released (`ReleasesOpen`);
  a worker with a step in hand agrees with the coordinator, and no completion of that step is
  under way (`StepAgreed`), and the step of a failure stays with the coordinator (`FailuresAgree`). All but the last
  are `CoreInv`, which `CoreInductive` shows to be inductive alone: the recovery tool needs it without `FailuresAgree`.

  *What the proof had to add*, since these parts are not inductive by themselves. That leases are armed once
  needs that the second handler, on Selectel, is the first one's own and ends before it (`OneArming`), and that nobody
  arms before the worker asks (`NotYetArmed`). That a finished run leaves no lease needs the records from
  the claim on: which positions have a resting record (`PhasesFit`), that an acknowledged release has ended the lease
  (`ReleasesEnd`), and that the lease of a resting record is over or a reservation nobody works on (`RestsSpent`).
  `Named` ties everything that acts to a lease, and an open barrier to none; `RollbacksFail` keeps a rollback from
  answering with a grant.

  *How it is laid out*. Most steps only take something away, so there are three lemmas about such steps, one for each
  group of conjuncts: `FadingSafe` (clients, callers and tokens), `JournalSafe` (the journal and its handlers) and
  `BarriersSafe` (the barriers). On them rest nine lemmas for the sections that move the journal (`ArmBeginSafe` to `ClaimSafe`),
  three for the moves of a barrier (`CloseSafe`, `HoldSafe`, `OpenSafe`), and those for what is sent (`SendSafe`, `AcceptSafe`,
  `StartSafe`, `WorkerSafe`). The action lemmas (`ArmHandlingSafe`, ..., `PeerSafe`, `HostsSafe`) put them together.

  *The refinement*. `Held`, `Native` and `Proven` are the abstract variables. A grant maps to `Grant` because the handler
  that makes it has both barriers held (`CommitsHeld`); a worker's entry into native work to `Begin`, because with the grant
  in its hands its step is open and so nobody else's is (`StepAgreed`); the opening of a held barrier to `Lift`, because that barrier
  belongs to the lease in force, which is then being released after a verification. Claims and verifications map to `Verify`,
  and every other step leaves the three alone.

- `HostMaintenanceProofs`, the recovery tool: `RecoveryInductive` is `RecoveryInv`, and `NativeBarred` is `RecoverySpec => []NativeWorkIsBarred`, for any
  number of leases, handlers and faults, wherever the operator uses the tool or the tool gives up.

  *Why the tool cannot reopen cabinets under native work*. Its steps leave `IInv`: the lease of a failed step goes back to verification
  while its record still says `failed_unsafe`. They keep `CoreInv`, if what is still in flight cannot use what they reopen, and that is what the
  other parts say. A host on which the tool is used starts nothing (`ToolInOrder`). A lease that is to be verified can
  neither be armed nor claimed any more (`PreparedForRelease`). After the restart of AX41's agent no handler can commit or grant for the
  lease whose commit may be taken back, and no worker of Selectel can send such a request, because it asks for recovery or
  is quarantined (`CommitIsDead`): otherwise a late grant would follow `Prepare`. And native work, whatever its
  executor recorded, is of a step that the coordinator keeps open, on a host that the tool has not touched (`NativeIsTracked`); so
  the tool's look at systemd and at the package locks is enough to keep it away. The check of the journals alone is not: that is the mutant of `NativeIdle`.

  *How it is laid out*. `PrepareSafe`, `ResumeSafe`, `RestartSafe` and `LeaveSafe` are the tool's own steps on `CoreInv`. `OwnOrBystander` splits every step into one
  of the host's own process or tool (`Own`) and one beside it (`Bystander`), for which `AroundKept` says that the process keeps its
  place and its record; `SentByWorker` and `ClosesForArming` say where requests come from. Then there is one lemma for each part of `RecoveryInv`.
- `HostProgramsProofs`, the admission fence: `FenceTypeCorrect`, `FenceHasNoOrphan`, `FenceHeldStaysShut`,
  `FenceImplementsAtomic`, all from `IInv == TypeOK /\ NoOrphan /\ Progress`. `Progress` is what
  an operation knows in its middle: its record is there and its own, the marker stands before the
  table is installed, the table is down before the marker goes, an expiry never works on
  a held record, a restoration never runs while the host serves.
- `ServiceDebtProofs`: `DebtTypeCorrect` and `OldProcessKeepsOwing`, from
  `DebtInv == TypeOK /\ InTime /\ Owed`, and `RestartsStayFew`, from that with `InOrder` and `FewLeft`: no record or reading is of a
  process yet to come, and once the restarts an upgrade costs are used up, nothing that was decided, recorded or read
  speaks of the present process any more (`Spent`). `Owed` adds to the property that the debt, and any
  inspection waiting to be recorded, are of the very process that was reported: otherwise a clean
  reading of a new process, or of one before it, would settle it. `InTime` keeps ages out of the future.
- `ObservationProofs`: `ReadPostFence`, `ReadApart`, `NobodyMet`. The invariant follows the evidence on its way: stamps are in the
  past, a sample taken behind the fence is true as long as the gate holds, the lease's epoch is later than the second in which
  the gate was armed, a proof in hand has two readings apart, and native work is alone. The arithmetic of truncated stamps
  (`Second`) is in lemmas of its own: a stamp not before the epoch implies a tick after the gate, and a distance of stamps a
  distance of ticks less than one second shorter.
- `HostProgramsProofs`, the package step: `StepsAreConfirmed`, `NotDeniedHalfway`, `CompletedIsWhole`, for any set of packages and any dependencies. A permit is
  of a step confirmed, never of one to come (`PermitIsOfConfirmed`); what dpkg has touched belongs to the step whose permit is there
  (`HelperIsRight`), so a later helper of the same transaction always finds itself entered.
- `HostProgramsProofs`, the package locks: `PackageReadersAreSafe` and `NothingStaysLocked`, for any number of sections: the count is the cardinality of
  the sections inside, and only three constellations of guard, sections and files exist.
- `HostProgramsProofs`, the replay journal: `RequestStartedOnce`: an accepted request either still has its entry, made while its stamp was at most a window
  ahead, or is too old. Retention of twice the window is what closes the gap; `StartedOnce` has a mutant one second short of it.
- `CertificateProofs`: `FailureIsKept`, `WaitIsNotYounger`, for any lineages and renewals.
- `MariaProofs`: `SaidCopiesAreTrue`, `CopiesCanBeUndone`, `NoneOverwritten`, for any students, roles, edits, backups and windows, with
  the tool in an operator's hands or run by the launcher. `MariaInv` follows what is known along a run: with both Keycloaks stopped since the guards, what has been read is
  what dev has (`StoppedIsStill`) and the run's own backup is all that prod was (`OwnBackup`), so that the transaction is
  prod's only change; a copy taken back is one that failed its comparison (`RestoresHalfCopies`), hence none that was reported. With a Keycloak started
  behind the guards nothing is left of that but the student's absence from the run's sealed backup, and this is enough for `AllUndoable`: every copy in prod, *and in every
  backup*, can be taken out by a sealed one. Without the backups in it the statement would not survive a rollback. `InWindow` is the launcher's part: the
  process belongs to a student still to do, and in a first window whoever is no longer to do has been reported.
- `LogCollectorProofs`: `EventsAreWholeRecords` and `LinesAreReadOnce`, for any inodes, streams, shapes of records, limits, rotations, truncations and
  crashes. With two streams in a file, or a record whose last part overflows, a neighbour is damaged: these are findings. What is proved is that the damage ends:
  a record whose parts stand together behind a place where no fragment is open (`Boundary`) is never rejected or joined to anything.
  `FilesInv` says how files come about: lines are parts of their records (`LinesAreKnown`), no line stands twice (`LinesAreDistinct`). `ReaderInv` says what
  is held at a position: the mark, or the fragments right before it; nothing at a boundary; and, behind one, exactly the parts of the record that fits
  (`HeldWell`). `SavedInv` makes a crash harmless: what is held is what lies behind the *stored* position, unless it is too long together (`HeldIsUnsaved`), and no stored
  position is inside of a record that stands apart (`SavedBetween`). `EventsInv` says that no line behind the point from which reading could go on has been taken (`NotTakenYet`), hence
  no second event of the same line, and that what has come of a record that stands alone is the whole of it (`CameWhole`). That it stands alone is foreseen while it is
  being written (`Alone`), since the collector reads it before it has an end.
- `LogCollectorProofs`, the journal: `JournalRecordsAreTaken`, for a journal of any length and any number of ends of either process, from `JournalInv`: once a
  position is kept, the flag is only up before a record that cannot be taken (`FlagIsMeant`), nothing was given after that position which would have moved it (`PositionIsKept`), so that
  reading again from there meets the same record; and every record after one that came to an end has an outcome, as far as was read (`NoneIsMissed`).
- `LearningProofs`, the apply: `RunsCanBeUndone`, for any bundles, target databases and object keys, with the writers stopped since the guard, whatever copies, removals, stats and
  answers fail. From the backup on, the run's backup has the database of before and every object the run may touch but those that `mc stat` denied, and nothing else
  was touched (`HasAllOf`, `BackupKnown`). `PutBack` says how far a restore has come: each present object has its contents or is still to do, wherever it is cut off; a removal that failed
  leaves an object too many, which is the fifth finding, but never one too few. The keys that are backed up are those of the scope read *before* the guard; that they are enough for what `Delete` takes is part of the proof.
- `LearningProofs`, rows: what `apply.sql` does by UUID after a remapping is what `bundle_tool.py` says by natural keys. `IdsAreApart` and `Laid` (incoming rows get different
  UUIDs, each is found under its own, all others stay) rest on the collision checks; `OldRows` (a row of the target keeps its key, and is replaced by the incoming row of that key and no
  other) needs that a UUID means the same key on both sides, which is the precondition of the plan's exactness. References are followed through the remapped caches (`Merged`,
  `IncomingRows`, `TargetRows`). From these: `CompareAccepts`, for any bundle and target over which the transaction passes, and `PlanOfTables`.
- `LearningProofs`, the review: `PlansAreExact` and, with the script, `SuccessIsWhole`, for any databases that obey the schema and the contract, on which `ReviewInv` says that what was applied is what was
  reviewed (`ConfirmedIsReviewed`). `ScriptWhole` is the script's part. It speaks of all databases that the target has, has had for the run or may be given back (`Dbs`): what one
  of them keeps of objects that the bundle does not bring is in the bucket (`ObjectsKnown`), and no other calls it a document that may be replaced
  (`DocsKept`; that needs `UnusedAssumption`: else a rollback to a database that does could bring back a row without its object).

Only model-checked: `OnlyForeseen`, whose tables and classes of records are fixed, so that the run looks at all there is;
`SourcesAreApart`, which is `ReadPostFence`, `ReadApart` and `NobodyMet` for one more choice of the constants; and every liveness
property (`RunEnds`, `CabinetsReopen`, `LeaseEnds`, `BarrierExpires`, `DebtIsSettled`, `RecordsArrive`, `MismatchIsTold`,
`WindowsEndRunning`): liveness under fairness is beyond the prover.

## 7. Findings, and what the code does not promise

Five statements of the documentation, of a test or of a message do not hold of the code:

1. **A denied proof can strand `committing`** (`denied`, `DeniedProofIsNotStranded`).
   `docs/host-maintenance-control.md:29` says of a commit that fails before its grant: "It must not
   strand `committing` after a denied new activity proof". The rollback (`agent.py:248`) takes the
   coordinator's lock without waiting (`model.py:138-142`). If the worker's own heartbeat or
   any other handler holds it at that moment, the rollback ends in `lock_busy` and the phase stays: no later step
   or verification accepts it, and after an earlier step the release is refused as well. The run ends in
   recovery by an operator, and the barriers stay held until then.
2. **The second reading may start less than ten seconds after the first** (`spacing`,
   `SecondReadStartsLater`). `docs/host-maintenance-control.md:9` says "Every second read starts at least
   ten seconds after the first read completed". `model.py:104` compares stamps truncated to whole seconds: 9.1
   seconds may pass for ten. `ProofIsSeparated` (run `proof`) shows that less than one second is lost.
3. **Fragments are not always replayed** (`replay`, `FragmentsAreReplayed`). `docs/production-classroom-logs.md:34` says "CRI
   fragments stay in memory and are replayed from the last committed record after restart". `collector.py:268` takes
   stdout and stderr of one file, but keeps fragments by file (`:270-274`). A fragment of stdout, then a final line of stderr: they become one text, and the position behind
   both is committed (`:278`). A crash before the rest of the stdout record is written loses its first part.
   Without a crash both records are damaged; `ApartRecordsAreWhole` shows that the damage stays with them.
4. **An oversized record takes the next one with it** (`partials`, `OversizeStaysAlone`). `test_oversize_and_partial_never_become_events`
   (`scripts/tests/test_production_logs.py:68`) expects the record behind an oversized line as an event. Where joined fragments exceed the limit with
   their *final* part, the mark of an oversized text is set although nothing of it is left to come (`collector.py:271-272`), and the next line, a record that fits, goes with it (`:265-266`). Where they
   exceed it two or more parts before the end, the mark is taken off too early, and the last part becomes a text of its own.
5. **"pre-apply objects were restored"** (`restore`, `FailedRestoresObjects`; `maria-learning-sync.sh:527`, `:534`) is said whether or not they were. `restore_objects` swallows
   a removal that fails (`:231`), so a new object stays; and an object that `mc stat` did not answer for (`:200-204`) is recorded as absent in the backup, and removed.
   `ChangesAreUndone` shows what holds: no object that `mc stat` told of is lost or changed.

Three promises are contradicted by what the models leave out or make room for, without a run of their own:

- `maria-learning-sync.sh:536-540` announces a rollback after a failed comparison. It never happens: the comparison runs as a condition, and
  `die` in it ends the script there. A refused run is left as it is (`Verify` ends in `refused`); `ChangesAreUndone` covers it, since its backup is enough for the operator's rollback.
- The Maria sync's `README.md:132` says that replicas are restored "even on failure". If ssh fails while the trap cleans up, contours stay stopped and the
  record of what ran goes with the work directory (`Reachable = FALSE` violates `WindowsEndRunning`).
- `README.md:137-139` there says that a rerun "keeps already verified identities". It keeps every identity that it finds: a copy into a table with columns that prod lacks fails its
  comparison and is restored, but killed before that the half copy stays, and the next window takes it for verified (`windows = 1` in `CohortIsCopied`).

And what the properties make room for, since no document promises otherwise, or one says so (the place is named where they do):

- The control plane. When the answer to `/lease/claim` is lost, nothing gives the reservation back; `IInv` and `LeaseEnds` exempt it, and no property catches it.
- The recovery tool. It works once: after it has put the coordinator back to `verifying`, its own checks no longer find the state they
  ask for (`expected_failure` wants `failed_unsafe`, `expected_completed_commit` wants `committing`). If health, a lock or a crash ends it between that
  write and the release, calling it again is refused; on AX41 nothing else takes the lease up, since the timer is disabled
  too. `--finish-selectel` can be repeated by hand as long as its worker's record says `recovery_required`. So `LeaseEnds` keeps its
  exemption of `NeedsRecovery`.
- The log collector. `docs/production-classroom-logs.md:34` says that "File rename rotation is handled with held inode handles". What a late writer adds to a rotated file
  that has been read to its end and closed is not read (`RecordsArrive` speaks of `create` only). What is truncated
  while the collector is down cannot be told from what it has read (`Crash`; the same document names the case of a running collector). At its first start the collector has no journal cursor, and begins
  with what comes (`done.early`). Of more than 128 file positions the one written longest ago is forgotten (a hazard without a property).
- The certificate lifecycle. A renewal is activated by the run that made it, if certbot ends well; later runs report a failed activation but do not repeat it.
  A run that dies between renewal and `state.json` leaves a mismatch that only the health check tells (`MismatchIsTold`), and a waiting activation
  whose age starts anew (`crashes = 0` in `PendingIsNotYounger`).
- The identity sync. A restore takes back the whole
  database, with what a Keycloak started behind the guards has written since (`NothingOverwritten` excepts `Restore`).
- The bundle apply. Lost answers of `mc rm` leave objects that nothing refers to. A failed copy that is not the last of its loop
  goes unnoticed until the comparison (`WriteObject`). If writers run behind the guard, what they write may go (`Frozen = FALSE`).

## 8. What is not modelled

- In the control plane: contents of packages, `readiness` and `state` (they read only), logs and metrics,
  the message authentication code, and what the restarts of services do to the services.
- `ObservationProof` follows one lease with one handler at a time; concurrency of
  handlers is the control plane's subject.
- Collectors of activity beyond the package read lock: they parse `/proc`, `ss`, nginx status and databases, and return counts. Whether the parsing
  is right is a question for tests with recorded output.
- The certificate lifecycle's `_unmanaged_failure`, publication and installation; the identity sync's `inventory` and `plan` output.
- The rows of 24 of the bundle's 29 tables: each is known and kept in one of the ways of the five that are modelled.
- The host observer, the ingress installer, the edge release, GeoIP and backups: planned, below.
- Of the recovery tool: which package or service a step is about, health, and the copies that it makes of the journals. An agent re-enabled by an operator after a recovery, and so a second recovery, is not modelled.
- Parts without a protocol (section 1): there is no state of their own between two steps to go wrong.

## 9. Plan

Done, in this order: the control plane with its abstract specification; its recovery tool; the observation proof; the admission fence with its refinement; the service
debt; package step, read lock and replay journal; log collector; certificates; Maria sync; the proofs of section 6.

Next, most important first:

1. A refinement from `PackageStep` to the worker's `Preflighted`, `Overrun` and `NativeDone`.
2. `IngressInstall`, `RfEdgeRelease` and `GeoipUpdate` as instances of one abstract swap with rollback; `BackupRotation`.
3. Liveness of the control plane with two leases: a host whose turn it is gets its lease.
4. `HostObserver`, whose aggregate debt the service debt adopts its first age from.

Every safety property that can be stated for all values of the constants has its theorem. What is left for proofs comes with the modules above.
