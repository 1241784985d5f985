------------------------- MODULE HostProgramsProofs -------------------------
(***************************************************************************)
(* Four programs of a host: the package step, for any packages and         *)
(* dependencies between them, any number of granted steps, deaths and      *)
(* transactions of other tools; the shared package locks, for any number   *)
(* of sections; the replay journal, for any window and any retention at    *)
(* least twice as long, any requests, any skew and any capacity; and the   *)
(* admission fence, for any leases.                                        *)
(***************************************************************************)
EXTENDS HostPrograms, AdmissionFence, FiniteSetTheorems, TLAPS

----------------------------------------------------------------------------
(* The package step *)

Phases == {"idle", "planned", "installing", "completed", "failed"}
Workers == [phase : Phases, step : Nat, up : BOOLEAN]
Transactions == [at : {"none", "running", "ended", "failed"},
                 left : SUBSET Packages,
                 helper : {"none", "asked", "confirmed", "passed", "denied"}]

StepTypes ==
  /\ dpkg \in [Packages -> {"old", "half", "new"}]
  /\ plan \subseteq Packages /\ reviewed \subseteq Packages
  /\ worker \in Workers /\ apt \in Transactions /\ permit \in Nat

\* There is a transaction, or a trace of one, in the phases of an install only.
InInstall ==
  /\ apt.at # "none" \/ touched # {} =>
       worker.phase \in {"installing", "completed", "failed"}
  /\ apt.at = "running" => worker.phase = "installing"
  /\ apt.left \subseteq plan
  /\ apt.at # "running" => apt.left = {}

\* Permits are of steps confirmed, never of one to come.
PermitIsOfConfirmed ==
  /\ permit <= worker.step
  /\ permit # 0 => permit \in granted
  /\ worker.phase = "installing" => worker.step # 0

\* What the helper has said of the step that is running, and what dpkg has done.
HelperIsRight ==
  /\ apt.helper = "confirmed" => worker.step \in granted
  /\ apt.helper = "passed" => permit = worker.step /\ worker.phase = "installing"
  /\ apt.helper = "denied" => apt.at = "failed"
  /\ apt.helper \in {"confirmed", "passed", "asked"} => apt.at = "running"
  /\ touched # {} => permit = worker.step /\ worker.step # 0 /\ touched \subseteq plan

StepInv ==
  /\ StepTypes /\ InInstall /\ PermitIsOfConfirmed /\ HelperIsRight
  /\ NeverDeniedHalfway /\ SuccessIsWhole

\* The beginning is inside.
LEMMA StepInitIsInside == Init => StepInv
BY DEF Init, NoApt, StepInv, StepTypes, Phases, Workers, inputs, Transactions, InInstall,
       PermitIsOfConfirmed, HelperIsRight, NeverDeniedHalfway, SuccessIsWhole

\* A plan is of packages that the review let through, and is made without a
\* transaction.
LEMMA PlanKeeps == ASSUME StepInv, Plan PROVE StepInv'
<1>1. plan' \subseteq Packages
  <2>1. ClosedSubset(Old(reviewed)) \subseteq Old(reviewed)
    BY DEF ClosedSubset
  <2>2. Old(reviewed) \subseteq Packages
    BY DEF Old, StepInv, StepTypes
  <2> QED
    BY <2>1, <2>2 DEF Plan
<1>2. apt.at = "none" /\ apt.left = {} /\ touched = {}
  BY DEF Plan, StepInv, InInstall, StepTypes, Transactions
<1> QED
  BY <1>1, <1>2 DEF Plan, StepInv, StepTypes, Phases, Workers, inputs, InInstall,
    PermitIsOfConfirmed, HelperIsRight, NeverDeniedHalfway, SuccessIsWhole

\* A new step finds permits of earlier ones only.
LEMMA WorkerKeeps ==
  ASSUME StepInv, Begin \/ Defer \/ Finish \/ NextRun \/ WorkerDies PROVE StepInv'
<1> USE DEF StepInv, StepTypes, Phases, Workers, Transactions, inputs, InInstall,
            PermitIsOfConfirmed, HelperIsRight, NeverDeniedHalfway, SuccessIsWhole
<1>1. ASSUME Begin PROVE StepInv'
  <2>1. worker.step + 1 \in Nat /\ worker \in Workers
    OBVIOUS
  <2>2. worker' \in Workers /\ worker'.phase = "installing"
        /\ worker'.step = worker.step + 1 /\ worker.phase = "planned"
    BY <1>1, <2>1 DEF Begin
  <2>3. permit <= worker.step + 1 /\ worker.step + 1 # 0
    BY <2>1
  <2> QED
    BY <1>1, <2>2, <2>3 DEF Begin, NoApt
<1>2. ASSUME Defer PROVE StepInv'
  BY <1>2 DEF Defer, NoApt
<1>3. ASSUME Finish PROVE StepInv'
  BY <1>3 DEF Finish, PreinstallDeferred, Entered
<1>4. ASSUME NextRun PROVE StepInv'
  BY <1>4 DEF NextRun, NoApt
<1>5. ASSUME WorkerDies PROVE StepInv'
  BY <1>5 DEF WorkerDies, NoApt
<1> QED
  BY <1>1, <1>2, <1>3, <1>4, <1>5

\* dpkg runs behind a helper that has let it pass.
LEMMA AptKeeps ==
  ASSUME StepInv, StartApt \/ Dpkg \/ DpkgFails \/ HostDies PROVE StepInv'
<1> USE DEF StepInv, StepTypes, Phases, Workers, Transactions, inputs, InInstall,
            PermitIsOfConfirmed, HelperIsRight, NeverDeniedHalfway, SuccessIsWhole
<1>1. ASSUME StartApt PROVE StepInv'
  BY <1>1 DEF StartApt, NoApt, Resolved, Old
<1>2. ASSUME Dpkg PROVE StepInv'
  BY <1>2 DEF Dpkg, NoApt
<1>3. ASSUME DpkgFails PROVE StepInv'
  BY <1>3 DEF DpkgFails, NoApt
<1>4. ASSUME HostDies PROVE StepInv'
  BY <1>4 DEF HostDies, NoApt
<1> QED
  BY <1>1, <1>2, <1>3, <1>4

\* A helper permits what was confirmed, and denies only before dpkg's first run.
LEMMA HelperKeeps ==
  ASSUME StepInv, HelperEntered \/ HelperConfirmed \/ HelperPermits \/ HelperDenies
  PROVE StepInv'
<1> USE DEF StepInv, StepTypes, Phases, Workers, Transactions, inputs, InInstall,
            PermitIsOfConfirmed, HelperIsRight, NeverDeniedHalfway, SuccessIsWhole
<1>1. ASSUME HelperEntered PROVE StepInv'
  BY <1>1 DEF HelperEntered, Asked, Entered
<1>2. ASSUME HelperConfirmed PROVE StepInv'
  BY <1>2 DEF HelperConfirmed, Asked, Entered
<1>3. ASSUME HelperPermits PROVE StepInv'
  BY <1>3 DEF HelperPermits
<1>4. ASSUME HelperDenies PROVE StepInv'
  BY <1>4 DEF HelperDenies, Asked, Entered, NoApt
<1> QED
  BY <1>1, <1>2, <1>3, <1>4

\* Repairs end the step; other tools leave installed upgrades alone.
LEMMA OthersKeep == ASSUME StepInv, Recover \/ OtherTool PROVE StepInv'
<1> USE DEF StepInv, StepTypes, Phases, Workers, Transactions, inputs, InInstall,
            PermitIsOfConfirmed, HelperIsRight, NeverDeniedHalfway, SuccessIsWhole
<1>1. ASSUME Recover PROVE StepInv'
  BY <1>1 DEF Recover, NoApt
<1>2. ASSUME OtherTool PROVE StepInv'
  BY <1>2 DEF OtherTool, Resolved, Old
<1> QED
  BY <1>1, <1>2

\* The invariant is inductive.
LEMMA StepInvHolds == Spec => []StepInv
<1>1. ASSUME StepInv, [Next]_vars PROVE StepInv'
  <2>1. CASE UNCHANGED vars
    BY <1>1, <2>1 DEF vars, inputs, StepInv, StepTypes, InInstall, PermitIsOfConfirmed, HelperIsRight,
       NeverDeniedHalfway, SuccessIsWhole
  <2> QED
    BY <1>1, <2>1, PlanKeeps, WorkerKeeps, AptKeeps, HelperKeeps, OthersKeep DEF Next
<1> QED
  BY <1>1, StepInitIsInside, PTL DEF Spec

\* Whatever deaths, other tools and further steps there are, dpkg changes packages of
\* the plan only, in a step that the coordinator confirmed.
THEOREM StepsAreConfirmed == Spec => []OnlyConfirmedSteps
<1>1. StepInv => OnlyConfirmedSteps
  BY DEF StepInv, HelperIsRight, PermitIsOfConfirmed, OnlyConfirmedSteps
<1> QED
  BY <1>1, StepInvHolds, PTL

\* The helper of APT never denies a transaction in which dpkg has begun.
THEOREM NotDeniedHalfway == Spec => []NeverDeniedHalfway
<1>1. StepInv => NeverDeniedHalfway
  BY DEF StepInv
<1> QED
  BY <1>1, StepInvHolds, PTL

\* A completed step has installed the whole plan or touched nothing.
THEOREM CompletedIsWhole == Spec => []SuccessIsWhole
<1>1. StepInv => SuccessIsWhole
  BY DEF StepInv
<1> QED
  BY <1>1, StepInvHolds, PTL

----------------------------------------------------------------------------
(* The shared package locks *)

(* What makes both inductive: the count is of the sections inside, and the
   tools' locks and the process's never meet. *)
LockInv ==
  /\ IsFiniteSet(inside) /\ users = Cardinality(inside)
  /\ writer \subseteq Files
  /\ writer \cap held = {}
  /\ \/ inside # {} /\ guard = {} /\ held = Files
     \/ inside = {} /\ guard = {} /\ held = {}
     \/ inside = {} /\ held = {Frontend} /\ \E s \in Sections : guard = {s}

\* The inductive invariant says what the two properties ask for.
LEMMA LockInvIsEnough == LockInv => ReadersAreSafe /\ NothingIsLeftLocked
BY DEF LockInv, ReadersAreSafe, NothingIsLeftLocked

\* Nobody reads at the start.
LEMMA LockInitIsInside == LockInit => LockInv
BY FS_EmptySet DEF LockInit, LockInv

\* A section that is counted is one more.
LEMMA CountIsExact ==
  ASSUME LockInv, NEW s, s \notin inside, Count(s)
  PROVE  IsFiniteSet(inside') /\ users' = Cardinality(inside')
BY FS_AddElement DEF LockInv, Count

\* The count is zero when the section that leaves is the last one, only then.
LEMMA LastOneIsZero ==
  ASSUME LockInv, NEW s \in inside
  PROVE  /\ IsFiniteSet(inside \ {s}) /\ users - 1 = Cardinality(inside \ {s})
         /\ users - 1 = 0 <=> inside \ {s} = {}
<1>1. IsFiniteSet(inside) /\ users = Cardinality(inside)
  BY DEF LockInv
<1>2. IsFiniteSet(inside \ {s}) /\ Cardinality(inside \ {s}) = Cardinality(inside) - 1
  BY <1>1, FS_RemoveElement
<1>3. Cardinality(inside \ {s}) = 0 <=> inside \ {s} = {}
  BY <1>2, FS_EmptySet
<1> QED
  BY <1>1, <1>2, <1>3

\* Every step of a section and of a package tool keeps the invariant.
LEMMA LockStepKeeps == LockInv /\ [LockNext]_lockVars => LockInv'
<1> SUFFICES ASSUME LockInv, [LockNext]_lockVars PROVE LockInv'
  OBVIOUS
<1>1. ASSUME NEW s \in Sections, EnterShared(s) PROVE LockInv'
  <2>1. inside # {} /\ held = Files
    BY <1>1, FS_EmptySet DEF EnterShared, LockInv
  <2>2. IsFiniteSet(inside') /\ users' = Cardinality(inside')
    BY <1>1, CountIsExact DEF EnterShared
  <2> QED
    BY <1>1, <2>1, <2>2 DEF EnterShared, Count, LockInv
<1>2. ASSUME NEW s \in Sections, Enter(s) PROVE LockInv'
  <2>1. inside = {} /\ held = {}
    <3>1. inside = {}
      BY <1>2, FS_EmptySet DEF Enter, LockInv
    <3> QED
      BY <1>2, <3>1 DEF Enter, LockInv
  <2> QED
    BY <1>2, <2>1 DEF Enter, LockInv
<1>3. ASSUME NEW s \in Sections, EnterSecond(s) PROVE LockInv'
  <2>1. inside = {} /\ held = {Frontend}
    BY <1>3 DEF EnterSecond, LockInv
  <2>2. CASE "lock" \in writer
    BY <1>3, <2>1, <2>2 DEF EnterSecond, LockInv
  <2>3. CASE "lock" \notin writer
    <3>1. Count(s) /\ held' = Files /\ guard' = {} /\ writer' = writer
      BY <1>3, <2>3 DEF EnterSecond
    <3>2. IsFiniteSet(inside') /\ users' = Cardinality(inside')
      BY <2>1, <3>1, CountIsExact
    <3>3. writer = {}
      BY <2>1, <2>3 DEF LockInv, Files
    <3> QED
      BY <3>1, <3>2, <3>3 DEF Count, LockInv
  <2> QED
    BY <2>2, <2>3
<1>4. ASSUME NEW s \in Sections, Leave(s) PROVE LockInv'
  <2>1. s \in inside /\ held = Files /\ guard = {}
    BY <1>4 DEF Leave, LockInv
  <2>2. IsFiniteSet(inside') /\ users' = Cardinality(inside')
    BY <1>4, <2>1, LastOneIsZero DEF Leave
  <2>3. CASE inside' = {}
    BY <1>4, <2>1, <2>2, <2>3, LastOneIsZero DEF Leave, ClosedByLast, LockInv
  <2>4. CASE inside' # {}
    BY <1>4, <2>1, <2>2, <2>4, LastOneIsZero DEF Leave, ClosedByLast, LockInv
  <2> QED
    BY <2>3, <2>4
<1>5. CASE Write
  BY <1>5 DEF Write, LockInv, Files
<1>6. CASE Written
  BY <1>6 DEF Written, LockInv
<1>7. CASE UNCHANGED lockVars
  BY <1>7 DEF lockVars, LockInv
<1> QED
  BY <1>1, <1>2, <1>3, <1>4, <1>5, <1>6, <1>7 DEF LockNext

\* Whatever sections of whatever threads begin and end, readers keep both locks
\* from the first in to the last out.
THEOREM PackageReadersAreSafe == LockSpec => []ReadersAreSafe
<1>1. LockSpec => []LockInv
  BY LockInitIsInside, LockStepKeeps, PTL DEF LockSpec
<1> QED
  BY <1>1, LockInvIsEnough, PTL

\* With no reader left, the process holds no lock.
THEOREM NothingStaysLocked == LockSpec => []NothingIsLeftLocked
<1>1. LockSpec => []LockInv
  BY LockInitIsInside, LockStepKeeps, PTL DEF LockSpec
<1> QED
  BY <1>1, LockInvIsEnough, PTL

----------------------------------------------------------------------------
(* The replay journal *)

(* A request that was let through either still has its entry, made while its
   stamp was at most Window ahead of the clock, or is too old for the window. *)
Remembered(r) == \E s \in seen : s.request = r /\ stamp[r] <= s.at + Window
TooOld(r) == now - stamp[r] > Window

JournalTypes ==
  /\ now \in Nat /\ sent \subseteq Requests /\ begun \subseteq sent
  /\ stamp \in [Requests -> Int]
  /\ seen \subseteq [request : Requests, at : Nat]

JournalInv == JournalTypes /\ \A r \in begun : Remembered(r) \/ TooOld(r)

\* The empty journal fits.
LEMMA JournalInitIsInside == JournalInit => JournalInv
BY WindowAssumption DEF JournalInit, JournalInv, JournalTypes

\* A step keeps the types.
LEMMA JournalTypesKept == JournalTypes /\ [JournalNext]_journalVars => JournalTypes'
<1> SUFFICES ASSUME JournalTypes, [JournalNext]_journalVars PROVE JournalTypes'
  OBVIOUS
<1>1. CASE Second
  BY <1>1 DEF Second, JournalTypes
<1>2. ASSUME NEW r \in Requests, Request(r) PROVE JournalTypes'
  <2>1. PICK d \in -MaxSkew..MaxSkew : stamp' = [stamp EXCEPT ![r] = now + d]
    BY <1>2 DEF Request
  <2>2. now + d \in Int
    BY <2>1, BoundsAssumption DEF JournalTypes
  <2>3. stamp' \in [Requests -> Int]
    BY <2>1, <2>2 DEF JournalTypes
  <2> QED
    BY <1>2, <2>3 DEF Request, JournalTypes
<1>3. ASSUME NEW r \in Requests, Accept(r) PROVE JournalTypes'
  <2>1. Kept \subseteq seen
    BY DEF Kept
  <2>2. [request |-> r, at |-> now] \in [request : Requests, at : Nat]
    BY DEF JournalTypes
  <2> QED
    BY <1>3, <2>1, <2>2 DEF Accept, JournalTypes
<1>4. CASE UNCHANGED journalVars
  BY <1>4 DEF journalVars, JournalTypes
<1> QED
  BY <1>1, <1>2, <1>3, <1>4 DEF JournalNext

\* The entry of a request that is inside the window is still fresh: this is
\* where the retention has to be twice the window.
LEMMA EntryOutlivesWindow ==
  ASSUME JournalTypes, NEW r \in begun, Remembered(r), ~TooOld(r)
  PROVE  \E s \in Kept : s.request = r /\ stamp[r] <= s.at + Window
<1>1. PICK s \in seen : s.request = r /\ stamp[r] <= s.at + Window
  BY DEF Remembered
<1>2. s.at \in Nat /\ stamp[r] \in Int /\ now \in Nat
  BY <1>1 DEF JournalTypes
<1>3. s.at >= now - Keep
  BY <1>1, <1>2, WindowAssumption DEF TooOld
<1> QED
  BY <1>1, <1>3 DEF Kept, Fresh

\* No request is accepted that was let through before.
LEMMA AcceptsNew ==
  ASSUME JournalInv, NEW r \in begun
  PROVE  ~Accept(r)
<1> SUFFICES ASSUME Accept(r) PROVE FALSE
  OBVIOUS
<1>1. ~TooOld(r)
  <2>1. stamp[r] \in Int /\ now \in Nat
    BY DEF JournalInv, JournalTypes
  <2> QED
    BY <2>1, WindowAssumption DEF Accept, InWindow, TooOld
<1>2. \E s \in Kept : s.request = r
  BY <1>1, EntryOutlivesWindow DEF JournalInv
<1> QED
  BY <1>2 DEF Accept

\* Every step keeps what is remembered, or the request is too old by then.
LEMMA JournalStepKeeps == JournalInv /\ [JournalNext]_journalVars => JournalInv'
<1> SUFFICES ASSUME JournalInv, [JournalNext]_journalVars PROVE JournalInv'
  OBVIOUS
<1>t. JournalTypes /\ JournalTypes'
  BY JournalTypesKept DEF JournalInv
<1>1. CASE Second
  <2> SUFFICES ASSUME NEW r \in begun PROVE Remembered(r)' \/ TooOld(r)'
    BY <1>1, <1>t DEF Second, JournalInv
  <2>1. CASE Remembered(r)
    BY <1>1, <2>1 DEF Second, Remembered
  <2>2. CASE TooOld(r)
    <3>1. stamp[r] \in Int /\ now \in Nat
      BY <1>t DEF JournalTypes
    <3> QED
      BY <1>1, <2>2, <3>1, WindowAssumption DEF Second, TooOld
  <2> QED
    BY <2>1, <2>2 DEF JournalInv
<1>2. ASSUME NEW q \in Requests, Request(q) PROVE JournalInv'
  <2> SUFFICES ASSUME NEW r \in begun PROVE Remembered(r)' \/ TooOld(r)'
    BY <1>2, <1>t DEF Request, JournalInv
  <2>1. r # q /\ r \in Requests
    BY <1>2, <1>t DEF Request, JournalTypes
  <2>2. stamp'[r] = stamp[r]
    BY <1>2, <1>t, <2>1 DEF Request, JournalTypes
  <2> QED
    BY <1>2, <2>2 DEF Request, JournalInv, Remembered, TooOld
<1>3. ASSUME NEW q \in Requests, Accept(q) PROVE JournalInv'
  <2> SUFFICES ASSUME NEW r \in begun' PROVE Remembered(r)' \/ TooOld(r)'
    BY <1>t DEF JournalInv
  <2>1. stamp' = stamp /\ now' = now /\ seen' = Kept \cup {[request |-> q, at |-> now]}
    BY <1>3 DEF Accept
  <2>2. CASE r = q
    <3>1. [request |-> q, at |-> now] \in seen'
      BY <2>1
    <3>2. stamp[q] <= now + Window
      <4>1. stamp[q] \in Int /\ now \in Nat
        BY <1>t DEF JournalTypes
      <4> QED
        BY <1>3, <4>1, WindowAssumption DEF Accept, InWindow
    <3> QED
      BY <2>1, <2>2, <3>1, <3>2 DEF Remembered
  <2>3. CASE r # q /\ TooOld(r)
    BY <2>1, <2>3 DEF TooOld
  <2>4. CASE r # q /\ ~TooOld(r)
    <3>1. r \in begun
      BY <1>3, <2>4 DEF Accept
    <3>2. PICK s \in Kept : s.request = r /\ stamp[r] <= s.at + Window
      BY <1>t, <2>4, <3>1, EntryOutlivesWindow DEF JournalInv
    <3> QED
      BY <2>1, <3>2 DEF Remembered
  <2> QED
    BY <2>2, <2>3, <2>4
<1>4. CASE UNCHANGED journalVars
  BY <1>4, <1>t DEF journalVars, JournalInv, Remembered, TooOld
<1> QED
  BY <1>1, <1>2, <1>3, <1>4 DEF JournalNext

\* However late, often and across restarts a request is delivered, it is let
\* through once.
THEOREM RequestStartedOnce == JournalSpec => StartedOnce
<1>1. JournalSpec => []JournalInv
  BY JournalInitIsInside, JournalStepKeeps, PTL DEF JournalSpec
<1>2. JournalInv /\ [JournalNext]_journalVars => [\A r \in begun : ~Accept(r)]_journalVars
  BY AcceptsNew
<1> QED
  BY <1>1, <1>2, PTL DEF JournalSpec, StartedOnce

----------------------------------------------------------------------------
(* The admission fence: the barriers never outlive their record, a held    *)
(* barrier is opened by its own lease only, and the fence implements       *)
(* AtomicFence.                                                            *)


Restoring == {"remark", "reinstall"}

Opening == {"lower", "unmark", "erase"}

\* What an operation under way knows: its record is there and is its own, the
\* barriers stand as far as it has come, and expiry met no held record.
Progress ==
  /\ op.pc # "free" => Recorded /\ record.lease = op.lease
  /\ op.pc \in {"install", "reinstall"} => marker
  /\ op.pc \in {"unmark", "erase"} => ~table
  /\ op.pc = "erase" => ~marker
  /\ op.pc \in Restoring => ~serving
  /\ op.pc \in Opening => op.kind \in {"open", "expire"}
  /\ op.pc \in Opening /\ op.kind = "expire" => ~record.committed

IInv == TypeOK /\ NoOrphan /\ Progress

USE DEF Restoring, Opening

\* A record has a lease exactly when there is one: leases are not NoLease.
LEMMA RecordLease ==
  ASSUME TypeOK
  PROVE  Recorded <=> record.lease \in Leases
BY LeaseAssumption DEF TypeOK, Record, NoRecord, Recorded

\* The fence begins open, without a record and an operation.
LEMMA InitIInv == FenceInit => IInv
<1> SUFFICES ASSUME FenceInit PROVE IInv
  OBVIOUS
<1>1. TypeOK
  <2>1. NoOp \in Operation
    BY DEF NoOp, Operation
  <2> QED BY <2>1 DEF FenceInit, TypeOK, Record
<1>2. NoOrphan /\ Progress
  BY DEF FenceInit, NoOrphan, Progress, NoOp
<1> QED BY <1>1, <1>2 DEF IInv

\* The type invariant is inductive with what operations know of their record.
LEMMA TypeStep == ASSUME IInv, [FenceNext]_fenceVars PROVE TypeOK'
<1> USE DEF IInv, TypeOK, Operation, Go, BeginOp, At
<1>1. ASSUME NEW l \in Leases, Close(l) PROVE TypeOK'
  <2>1. record' \in Record
    <3>1. CASE record = NoRecord
      BY <1>1, <3>1 DEF Close, Record, NoRecord
    <3>2. CASE record \in [lease: Leases, committed: BOOLEAN, aged: BOOLEAN]
      BY <1>1, <3>2 DEF Close, Record
    <3> QED BY <3>1, <3>2 DEF Record
  <2> QED BY <1>1, <2>1 DEF Close
<1>2. ASSUME NEW l \in Leases, Hold(l) PROVE TypeOK'
  <2>1. record \in [lease: Leases, committed: BOOLEAN, aged: BOOLEAN]
    BY <1>2 DEF Hold, Closed, Recorded, Record
  <2>2. record' \in Record
    BY <1>2, <2>1 DEF Hold, Record
  <2> QED BY <1>2, <2>2 DEF Hold
<1>3. ASSUME NEW l \in Leases, Open(l) PROVE TypeOK'
  BY <1>3 DEF Open
<1>4. CASE Mark BY <1>4 DEF Mark
<1>5. CASE Install BY <1>5 DEF Install, NoOp
<1>6. CASE Age
  BY <1>6, RecordLease, LeaseAssumption DEF Age, Record, NoRecord, Recorded
<1>7. CASE Expire
  BY <1>7, RecordLease DEF Expire
<1>8. CASE Lower BY <1>8 DEF Lower
<1>9. CASE Unmark BY <1>9 DEF Unmark
<1>10. CASE Erase BY <1>10 DEF Erase, Record, NoOp
<1>11. CASE RestoreNothing BY <1>11 DEF RestoreNothing
<1>12. CASE Restore
  BY <1>12, RecordLease DEF Restore
<1>13. CASE Remark BY <1>13 DEF Remark
<1>14. CASE Reinstall BY <1>14 DEF Reinstall, NoOp
<1>15. CASE Fail BY <1>15 DEF Fail, NoOp
<1>16. CASE Reboot BY <1>16 DEF Reboot, NoOp
<1>17. CASE UNCHANGED fenceVars BY <1>17 DEF fenceVars
<1> QED
  BY <1>1, <1>2, <1>3, <1>4, <1>5, <1>6, <1>7, <1>8, <1>9, <1>10, <1>11, <1>12,
     <1>13, <1>14, <1>15, <1>16, <1>17 DEF FenceNext

\* Every step of an operation leaves what the next one relies on, and no orphan.
LEMMA ProgressStep ==
  ASSUME IInv, [FenceNext]_fenceVars PROVE NoOrphan' /\ Progress'
<1> USE DEF IInv, TypeOK, NoOrphan, Progress, Recorded, Operation, Go, BeginOp, At
<1>1. ASSUME NEW l \in Leases, Close(l) PROVE NoOrphan' /\ Progress'
  BY <1>1, LeaseAssumption DEF Close, Record, NoRecord
<1>2. ASSUME NEW l \in Leases, Hold(l) PROVE NoOrphan' /\ Progress'
  BY <1>2, LeaseAssumption DEF Hold, Record, NoRecord
<1>3. ASSUME NEW l \in Leases, Open(l) PROVE NoOrphan' /\ Progress'
  BY <1>3 DEF Open
<1>4. CASE Mark BY <1>4 DEF Mark
<1>5. CASE Install BY <1>5 DEF Install, NoOp
<1>6. CASE Age
  BY <1>6, LeaseAssumption DEF Age, Record, NoRecord
<1>7. CASE Expire BY <1>7 DEF Expire
<1>8. CASE Lower BY <1>8 DEF Lower
<1>9. CASE Unmark BY <1>9 DEF Unmark
<1>10. CASE Erase BY <1>10 DEF Erase, NoOp
<1>11. CASE RestoreNothing BY <1>11 DEF RestoreNothing
<1>12. CASE Restore BY <1>12 DEF Restore
<1>13. CASE Remark BY <1>13 DEF Remark
<1>14. CASE Reinstall BY <1>14 DEF Reinstall, NoOp
<1>15. CASE Fail BY <1>15 DEF Fail, NoOp
<1>16. CASE Reboot BY <1>16 DEF Reboot, NoOp
<1>17. CASE UNCHANGED fenceVars BY <1>17 DEF fenceVars
<1> QED
  BY <1>1, <1>2, <1>3, <1>4, <1>5, <1>6, <1>7, <1>8, <1>9, <1>10, <1>11, <1>12,
     <1>13, <1>14, <1>15, <1>16, <1>17 DEF FenceNext

\* The fence's invariant holds of every behaviour.
LEMMA FenceInductive == FenceSpec => []IInv
<1>1. IInv /\ [FenceNext]_fenceVars => IInv'
  BY TypeStep, ProgressStep DEF IInv
<1> QED BY <1>1, InitIInv, PTL DEF FenceSpec

\* The fence of every host keeps its types, whatever fails or dies in between.
THEOREM FenceTypeCorrect == FenceSpec => []TypeOK
BY FenceInductive, PTL DEF IInv

\* No table without marker and no marker without record, for any leases: close,
\* open and restore order their effects so that every crash leaves a barrier
\* that open and restore take for their own.
THEOREM FenceHasNoOrphan == FenceSpec => []NoOrphan
BY FenceInductive, PTL DEF IInv

----------------------------------------------------------------------------
(* Steps that only an opening may take from a held barrier *)

\* Only an opening for the record's own lease ends a held fence.
LEMMA HeldStep ==
  ASSUME IInv, FenceNext, record.committed, Shut, ~(record'.committed /\ Shut')
  PROVE  op.kind = "open" /\ op.lease = record.lease
<1> USE DEF IInv, TypeOK, Progress, Recorded, Shut, At, Go, BeginOp
<1>1. ASSUME NEW l \in Leases, Close(l) \/ Hold(l) \/ Open(l) PROVE FALSE
  <2>1. record \in [lease: Leases, committed: BOOLEAN, aged: BOOLEAN]
    BY DEF Record, NoRecord
  <2> QED BY <1>1, <2>1 DEF Close, Hold, Open
<1>2. CASE Mark \/ Install \/ Remark \/ Reinstall \/ Restore \/ Expire
  BY <1>2 DEF Mark, Install, Remark, Reinstall, Restore, Expire, NoOp, NoOrphan
<1>3. CASE Age
  <2>1. record \in [lease: Leases, committed: BOOLEAN, aged: BOOLEAN]
    BY DEF Record, NoRecord
  <2> QED BY <1>3, <2>1 DEF Age
<1>4. CASE Lower \/ Unmark \/ Erase
  BY <1>4 DEF Lower, Unmark, Erase, Operation
<1>5. CASE RestoreNothing
  BY <1>5 DEF RestoreNothing, NoRecord
<1>6. CASE Fail \/ Reboot
  BY <1>6 DEF Fail, Reboot
<1> QED BY <1>1, <1>2, <1>3, <1>4, <1>5, <1>6 DEF FenceNext

\* A held barrier of any lease goes down only in an opening that this lease asked
\* for: expiry, repeated closing, restoration, a dying agent and a reboot leave
\* it shut.
THEOREM FenceHeldStaysShut == FenceSpec => HeldStaysShut
<1>1. IInv /\ [FenceNext]_fenceVars
        => [record.committed /\ Shut /\ ~(record'.committed /\ Shut')
              => op.kind = "open" /\ op.lease = record.lease]_fenceVars
  <2> SUFFICES ASSUME IInv, [FenceNext]_fenceVars
               PROVE  [record.committed /\ Shut /\ ~(record'.committed /\ Shut')
                         => op.kind = "open" /\ op.lease = record.lease]_fenceVars
    OBVIOUS
  <2>1. CASE FenceNext
    BY <2>1, HeldStep
  <2>2. CASE UNCHANGED fenceVars
    BY <2>2
  <2> QED BY <2>1, <2>2
<1> QED BY <1>1, FenceInductive, PTL DEF FenceSpec, HeldStaysShut

----------------------------------------------------------------------------
(* The refinement *)

AtomicVars == <<record.lease, record.committed, Recorded /\ Shut>>

\* Every step of the files is one of the atomic fence, or none.
LEMMA AtomicStep == ASSUME IInv, FenceNext PROVE Atomic!Next \/ UNCHANGED AtomicVars
<1> USE DEF IInv, TypeOK, Progress, Recorded, Shut, At, Go, BeginOp
<1>1. ASSUME NEW l \in Leases, Close(l) PROVE Atomic!Close(l)
  <2>1. record'.lease = l /\ record'.committed = record.committed
    <3>1. CASE record = NoRecord
      BY <1>1, <3>1 DEF Close, NoRecord
    <3>2. CASE record \in [lease: Leases, committed: BOOLEAN, aged: BOOLEAN]
      BY <1>1, <3>2 DEF Close
    <3> QED BY <3>1, <3>2 DEF Record
  <2>2. record' # NoRecord
    BY <2>1, LeaseAssumption DEF NoRecord
  <2> QED BY <1>1, <2>1, <2>2 DEF Close, Atomic!Close
<1>2. ASSUME NEW l \in Leases, Hold(l) PROVE Atomic!Hold
  <2>1. record \in [lease: Leases, committed: BOOLEAN, aged: BOOLEAN]
    BY <1>2 DEF Hold, Closed, Record
  <2>2. record'.lease = record.lease /\ record'.committed = TRUE
    BY <1>2, <2>1 DEF Hold
  <2>3. record.lease # NoLease /\ record' # NoRecord
    BY <2>1, <2>2, LeaseAssumption DEF NoRecord
  <2> QED BY <1>2, <2>2, <2>3 DEF Hold, Closed, Atomic!Hold
<1>3. ASSUME NEW l \in Leases, Open(l) PROVE UNCHANGED AtomicVars
  BY <1>3 DEF Open, AtomicVars
<1>4. CASE Mark \/ Install
  <2>1. record.lease \in Leases /\ record' = record
    BY <1>4, RecordLease DEF Mark, Install
  <2>2. Atomic!Close(record.lease)
    BY <1>4, <2>1 DEF Mark, Install, Atomic!Close
  <2> QED BY <2>1, <2>2 DEF Atomic!Next
<1>5. CASE Age
  <2>1. record \in [lease: Leases, committed: BOOLEAN, aged: BOOLEAN]
    BY <1>5 DEF Age, Record
  <2>2. record'.lease = record.lease /\ record'.committed = record.committed
    BY <1>5, <2>1 DEF Age
  <2>3. record' # NoRecord
    BY <2>1, <2>2, LeaseAssumption DEF NoRecord
  <2> QED BY <1>5, <2>2, <2>3 DEF Age, AtomicVars
<1>6. CASE Expire \/ Restore \/ RestoreNothing \/ Fail
  BY <1>6 DEF Expire, Restore, RestoreNothing, Fail, AtomicVars
<1>7. CASE Lower
  <2>1. CASE serving
    <3>1. Atomic!OpenPartly
      BY <1>7, <2>1, RecordLease, LeaseAssumption DEF Lower, Atomic!OpenPartly
    <3> QED BY <3>1 DEF Atomic!Next
  <2>2. CASE ~serving
    BY <1>7, <2>2 DEF Lower, AtomicVars
  <2> QED BY <2>1, <2>2
<1>8. CASE Unmark
  BY <1>8 DEF Unmark, AtomicVars
<1>9. CASE Erase
  <2>1. Atomic!Open
    BY <1>9 DEF Erase, NoRecord, Atomic!Open
  <2> QED BY <2>1 DEF Atomic!Next
<1>10. CASE Remark \/ Reinstall
  BY <1>10 DEF Remark, Reinstall, AtomicVars
<1>11. CASE Reboot
  <2>1. Recorded <=> record.lease # NoLease
    BY RecordLease, LeaseAssumption DEF Record, NoRecord
  <2>2. Atomic!Reboot
    BY <1>11, <2>1 DEF Reboot, Atomic!Reboot
  <2> QED BY <2>2 DEF Atomic!Next
<1> QED
  BY <1>1, <1>2, <1>3, <1>4, <1>5, <1>6, <1>7, <1>8, <1>9, <1>10, <1>11
  DEF FenceNext, Atomic!Next

\* The fence, with its three effects one after the other and every crash in
\* between, implements the atomic one that the control plane is modelled with.
THEOREM FenceImplementsAtomic == FenceSpec => ImplementsAtomicFence
<1>1. FenceInit => Atomic!Init
  BY DEF FenceInit, NoRecord, Recorded, Atomic!Init
<1>2. IInv /\ [FenceNext]_fenceVars => [Atomic!Next]_AtomicVars
  <2> SUFFICES ASSUME IInv, [FenceNext]_fenceVars PROVE Atomic!Next \/ UNCHANGED AtomicVars
    OBVIOUS
  <2>1. CASE FenceNext
    BY <2>1, AtomicStep
  <2>2. CASE UNCHANGED fenceVars
    BY <2>2 DEF fenceVars, AtomicVars, Recorded, Shut
  <2> QED BY <2>1, <2>2
<1> QED
  BY <1>1, <1>2, FenceInductive, PTL
  DEF FenceSpec, ImplementsAtomicFence, Atomic!Spec, AtomicVars
===============================================================================
