-------------------------- MODULE CertificateProofs --------------------------
(***************************************************************************)
(* The certificate runs, for any lineages, renewals and times: what a      *)
(* failed or delayed activation leaves in state.json.                      *)
(***************************************************************************)
EXTENDS CertificateLifecycle, TLAPS

Row == [activated : BOOLEAN, failing : Nat, rehearsal : Nat, healthy : BOOLEAN,
        mismatch : Nat, pending : Nat]
Rows == [Items -> Row]
Jobs == [mode : {"idle", "health", "renew", "rehearse"}, now : Nat, state : Rows,
         renew : SUBSET Items, activate : SUBSET Items, check : SUBSET Items]

TypeInv ==
  /\ time \in Nat /\ crashes \in Nat
  /\ disk \in [Items -> Nat] /\ served \in [Items -> Nat]
  /\ flag \in [Items -> Nat] /\ waiting \in [Items -> Nat]
  /\ saved \in Rows /\ job \in Jobs

\* A fresh row and a run not begun have their types.
LEMMA RowsFit ==
  /\ NewRow \in Row /\ Idle \in Jobs
  /\ \A i \in Items : Idle.state[i] = NewRow
  /\ Idle.mode = "idle" /\ Idle.activate = {}
BY DEF NewRow, Idle, Row, Rows, Jobs

\* Every change of a row of the run keeps its type.
LEMMA RowTyped ==
  ASSUME NEW r \in Row, TypeInv, NEW i \in Items, NEW b \in BOOLEAN
  PROVE  /\ Result(r, b) \in Row /\ Unseen(r) \in Row /\ Seen(i, r, b) \in Row
         /\ [r EXCEPT !.activated = b] \in Row
         /\ [r EXCEPT !.rehearsal = IF b THEN 0 ELSE First(@)] \in Row
         /\ PendingSince(i) \in Nat
<1>1. \A n \in Nat : First(n) \in Nat
  BY DEF First, TypeInv, Jobs
<1>2. Result(r, b) \in Row /\ Unseen(r) \in Row /\ [r EXCEPT !.activated = b] \in Row
      /\ [r EXCEPT !.rehearsal = IF b THEN 0 ELSE First(@)] \in Row
  BY <1>1 DEF Result, Unseen, Row
<1>3. Seen(i, r, b) \in Row
  <2>1. (r.activated \/ (b /\ served[i] = disk[i])) \in BOOLEAN
    BY Zenon
  <2> QED
    BY <1>1, <2>1 DEF Seen, Row
<1>4. PendingSince(i) \in Nat
  BY DEF PendingSince, TypeInv, Jobs, Rows, Row
<1> QED
  BY <1>2, <1>3, <1>4

\* One row of the run changes, with the sets of lineages still to be handled.
RowSet(i, r) ==
  /\ job' \in Jobs /\ job'.mode = job.mode /\ job'.now = job.now
  /\ job'.state = [job.state EXCEPT ![i] = r]

\* A renewal, done or not, sets its row.
LEMMA RenewedSets ==
  ASSUME TypeInv, NEW i \in Items, NEW b \in BOOLEAN, NEW a \in SUBSET Items,
         Renewed(i, b, a)
  PROVE  /\ RowSet(i, Result(job.state[i], b))
         /\ job'.renew = job.renew \ {i} /\ job'.activate = a /\ job'.check = job.check
<1>1. job.state[i] \in Row
  BY DEF TypeInv, Jobs, Rows
<1>2. Result(job.state[i], b) \in Row
  BY <1>1, RowTyped
<1>3. job.renew \ {i} \in SUBSET Items /\ a \in SUBSET Items /\ job.check \in SUBSET Items
  BY DEF TypeInv, Jobs
<1>4. job' = [job EXCEPT !.renew = job.renew \ {i}, !.activate = a, !.check = job.check,
                         !.state[i] = Result(job.state[i], b)]
  BY DEF Renewed, TypeInv, Jobs, Rows
<1> QED
  BY <1>2, <1>3, <1>4 DEF RowSet, TypeInv, Jobs, Rows

\* So does an activation.
LEMMA ActivatedSets ==
  ASSUME TypeInv, NEW i \in Items, NEW b \in BOOLEAN, Activated(i, b)
  PROVE  /\ RowSet(i, [job.state[i] EXCEPT !.activated = b])
         /\ job'.renew = job.renew /\ job'.activate = {} /\ job'.check = job.check
<1>1. job.state[i] \in Row
  BY DEF TypeInv, Jobs, Rows
<1>2. [job.state[i] EXCEPT !.activated = b] \in Row
  BY <1>1, RowTyped
<1>3. job.renew \in SUBSET Items /\ {} \in SUBSET Items /\ job.check \in SUBSET Items
  BY DEF TypeInv, Jobs
<1>4. job' = [job EXCEPT !.renew = job.renew, !.activate = {}, !.check = job.check,
                         !.state[i] = [job.state[i] EXCEPT !.activated = b]]
  BY DEF Activated, TypeInv, Jobs, Rows
<1> QED
  BY <1>2, <1>3, <1>4 DEF RowSet, TypeInv, Jobs, Rows

\* So does a rehearsal.
LEMMA RehearsalSets ==
  ASSUME TypeInv, NEW i \in Items, NEW b \in BOOLEAN
  PROVE  job' = [job EXCEPT !.renew = @ \ {i},
                            !.state[i].rehearsal = IF b THEN 0 ELSE First(@)]
         => /\ RowSet(i, [job.state[i] EXCEPT !.rehearsal = IF b THEN 0 ELSE First(@)])
            /\ job'.renew = job.renew \ {i} /\ job'.activate = job.activate
            /\ job'.check = job.check
<1>1. job.state[i] \in Row
  BY DEF TypeInv, Jobs, Rows
<1>2. PICK r \in Row : r = [job.state[i] EXCEPT !.rehearsal = IF b THEN 0 ELSE First(@)]
  BY <1>1, RowTyped
<1>3. ASSUME job' = [job EXCEPT !.renew = @ \ {i},
                                !.state[i].rehearsal = IF b THEN 0 ELSE First(@)]
      PROVE  /\ RowSet(i, r) /\ job'.renew = job.renew \ {i}
             /\ job'.activate = job.activate /\ job'.check = job.check
  <2>1. job' = [job EXCEPT !.renew = job.renew \ {i}, !.state[i] = r]
    BY <1>2, <1>3 DEF TypeInv, Jobs, Rows
  <2> QED
    BY <2>1 DEF RowSet, TypeInv, Jobs, Rows
<1> QED
  BY <1>2, <1>3

\* So does a look at what is served.
LEMMA HealthSets ==
  ASSUME TypeInv, NEW i \in Items, NEW row \in Row
  PROVE  job' = [job EXCEPT !.check = @ \ {i},
                            !.state[i] = [row EXCEPT !.pending = PendingSince(i)]]
         => /\ RowSet(i, [row EXCEPT !.pending = PendingSince(i)])
            /\ job'.renew = job.renew /\ job'.activate = job.activate
            /\ job'.check = job.check \ {i}
<1>1. PendingSince(i) \in Nat
  BY RowTyped DEF Row
<1>2. PICK r \in Row : r = [row EXCEPT !.pending = PendingSince(i)]
  BY <1>1 DEF Row
<1>3. ASSUME job' = [job EXCEPT !.check = @ \ {i},
                                !.state[i] = [row EXCEPT !.pending = PendingSince(i)]]
      PROVE  /\ RowSet(i, r) /\ job'.renew = job.renew
             /\ job'.activate = job.activate /\ job'.check = job.check \ {i}
  <2>1. job' = [job EXCEPT !.check = job.check \ {i}, !.state[i] = r]
    BY <1>2, <1>3 DEF TypeInv, Jobs, Rows
  <2> QED
    BY <2>1 DEF RowSet, TypeInv, Jobs, Rows
<1> QED
  BY <1>2, <1>3

----------------------------------------------------------------------------
(* Types *)

\* What a run does to one of its rows.
RowStep(i) ==
  \/ \E b \in BOOLEAN :
       /\ RowSet(i, Result(job.state[i], b))
       /\ job.mode = "renew" /\ i \in job.renew /\ job.activate = {}
       /\ job'.renew = job.renew \ {i} /\ job'.activate \subseteq {i}
       /\ job'.check = job.check
  \/ \E b \in BOOLEAN :
       /\ RowSet(i, [job.state[i] EXCEPT !.activated = b])
       /\ b /\ i \in Nginx => served'[i] = disk'[i]
       /\ i \in job.activate /\ job'.renew = job.renew /\ job'.activate = {}
       /\ job'.check = job.check
  \/ \E b \in BOOLEAN :
       /\ RowSet(i, [job.state[i] EXCEPT !.rehearsal = IF b THEN 0 ELSE First(@)])
       /\ job.mode = "rehearse"
       /\ job'.renew = job.renew \ {i} /\ job'.activate = job.activate
       /\ job'.check = job.check
  \/ \E row \in {Unseen(job.state[i])} \cup {Seen(i, job.state[i], v) : v \in BOOLEAN} :
       /\ RowSet(i, [row EXCEPT !.pending = PendingSince(i)])
       /\ job # Idle /\ job.renew = {} /\ job.activate = {} /\ i \in job.check
       /\ job'.renew = {} /\ job'.activate = {} /\ job'.check = job.check \ {i}
       /\ UNCHANGED world

\* Each step on one lineage changes only that lineage's row.
LEMMA RowSteps ==
  ASSUME TypeInv, NEW i \in Items,
         \/ Renew(i) \/ NotRenewed(i) \/ ActivateNginx(i) \/ ActivateDeferred(i)
         \/ Rehearse(i) \/ Health(i)
  PROVE  RowStep(i)
<1>0. /\ disk \in [Items -> Nat] /\ served \in [Items -> Nat] /\ job \in Jobs
  BY DEF TypeInv
<1>1. ASSUME Renew(i) PROVE RowStep(i)
  <2>1. Renewed(i, TRUE, {i}) /\ job.mode = "renew" /\ i \in job.renew /\ job.activate = {}
    BY <1>1 DEF Renew
  <2> QED
    BY <2>1, RenewedSets DEF RowStep
<1>2. ASSUME NotRenewed(i) PROVE RowStep(i)
  <2>1. /\ \E b \in BOOLEAN : Renewed(i, b, {})
        /\ job.mode = "renew" /\ i \in job.renew /\ job.activate = {}
    BY <1>2 DEF NotRenewed
  <2> QED
    BY <2>1, RenewedSets DEF RowStep
<1>3. ASSUME ActivateNginx(i) PROVE RowStep(i)
  <2>1. \E b \in BOOLEAN : Activated(i, b) /\ (b => served'[i] = disk'[i])
    BY <1>0, <1>3 DEF ActivateNginx
  <2> QED
    BY <1>3, <2>1, ActivatedSets DEF RowStep, ActivateNginx
<1>4. ASSUME ActivateDeferred(i) PROVE RowStep(i)
  <2>1. Activated(i, TRUE) /\ i \notin Nginx /\ i \in job.activate
    BY <1>4 DEF ActivateDeferred, Deferred
  <2> QED
    BY <2>1, ActivatedSets DEF RowStep
<1>5. ASSUME Rehearse(i) PROVE RowStep(i)
  BY <1>5, RehearsalSets DEF Rehearse, RowStep
<1>6. ASSUME Health(i) PROVE RowStep(i)
  <2>1. PICK row \in {Unseen(job.state[i])} \cup {Seen(i, job.state[i], v) : v \in BOOLEAN} :
          job' = [job EXCEPT !.check = @ \ {i},
                             !.state[i] = [row EXCEPT !.pending = PendingSince(i)]]
    BY <1>6 DEF Health
  <2>2. job.state[i] \in Row
    BY <1>0 DEF Jobs, Rows
  <2>3. row \in Row
    BY <2>1, <2>2, RowTyped
  <2>4. /\ RowSet(i, [row EXCEPT !.pending = PendingSince(i)])
        /\ job'.renew = job.renew /\ job'.activate = job.activate
        /\ job'.check = job.check \ {i}
    BY <2>1, <2>3, HealthSets
  <2> QED
    BY <1>6, <2>1, <2>4 DEF Health, RowStep
<1> QED
  BY <1>1, <1>2, <1>3, <1>4, <1>5, <1>6

\* A step of the run sets a row; the others begin, save or lose the whole run.
JobStep ==
  \/ job' = job /\ saved' = saved
  \/ \E i \in Items : RowStep(i) /\ saved' = saved
  \/ job # Idle /\ job' = Idle /\ crashes' # 0 /\ saved' = saved
  \/ /\ job # Idle /\ job' = Idle /\ saved' = job.state /\ UNCHANGED world
     /\ job.renew = {} /\ job.activate = {} /\ job.check = {}
  \/ /\ job = Idle /\ job' \in Jobs /\ job'.state = saved /\ job'.now = time
     /\ job'.mode # "idle" /\ job'.activate = {} /\ saved' = saved
     /\ job'.mode # "rehearse" => job'.check = Items
     /\ job'.mode = "rehearse" => job'.check = {}
     /\ UNCHANGED world

\* Every step, as what it does to the run's place and rows.
LEMMA JobSteps ==
  ASSUME TypeInv, [CertNext]_certVars PROVE JobStep
<1>1. ASSUME NEW i \in Items,
             \/ Renew(i) \/ NotRenewed(i) \/ ActivateNginx(i) \/ ActivateDeferred(i)
             \/ Rehearse(i) \/ Health(i)
      PROVE  JobStep
  <2>1. saved' = saved
    BY <1>1 DEF Renew, NotRenewed, ActivateNginx, ActivateDeferred, Rehearse, Health
  <2> QED
    BY <1>1, <2>1, RowSteps DEF JobStep
<1>2. ASSUME \E mode \in {"health", "renew", "rehearse"} : Begin(mode) PROVE JobStep
  <2>1. saved \in Rows /\ time \in Nat
    BY DEF TypeInv
  <2> QED
    BY <1>2, <2>1 DEF Begin, JobStep, Jobs
<1>3. ASSUME Save \/ Crash PROVE JobStep
  <2>1. crashes + 1 # 0
    BY DEF TypeInv
  <2> QED
    BY <1>3, <2>1 DEF Save, Crash, JobStep
<1>4. ASSUME TimePasses \/ ReloadNginx \/ (\E i \in Items : Consume(i)) \/ UNCHANGED certVars PROVE JobStep
  BY <1>4 DEF TimePasses, ReloadNginx, Consume, certVars, JobStep
<1> QED
  BY <1>1, <1>2, <1>3, <1>4 DEF CertNext, Step

\* What a step does to the marker of a lineage: only its own renewal touches it.
MarkerStep(i) ==
  \/ flag'[i] = flag[i] /\ waiting'[i] = waiting[i]
  \/ flag'[i] = 0 /\ waiting'[i] = 0 /\ job' = job /\ saved' = saved
  \/ /\ flag'[i] = time /\ waiting'[i] = IF waiting[i] = 0 THEN time ELSE waiting[i]
     /\ RowStep(i) /\ saved' = saved
     /\ (job.mode = "renew" /\ i \in job.renew) \/ i \in job.activate
     /\ crashes' = crashes

\* Certificates, markers and counters keep their types.
LEMMA WorldTyped ==
  ASSUME TypeInv, [CertNext]_certVars
  PROVE  /\ time' \in Nat /\ crashes' \in Nat
         /\ disk' \in [Items -> Nat] /\ served' \in [Items -> Nat]
         /\ flag' \in [Items -> Nat] /\ waiting' \in [Items -> Nat]
<1> DEFINE Typed == /\ time' \in Nat /\ crashes' \in Nat
                    /\ disk' \in [Items -> Nat] /\ served' \in [Items -> Nat]
                    /\ flag' \in [Items -> Nat] /\ waiting' \in [Items -> Nat]
<1>1. ASSUME NEW i \in Items, UNCHANGED disk \/ disk' = [disk EXCEPT ![i] = @ + 1],
             Hooks(i), UNCHANGED <<time, crashes>>
      PROVE  Typed
  <2>1. disk[i] + 1 \in Nat
    BY DEF TypeInv
  <2>2. disk' \in [Items -> Nat]
    BY <1>1, <2>1 DEF TypeInv
  <2> QED
    BY <1>1, <2>2 DEF TypeInv, Hooks, Touch
<1>2. ASSUME NEW i \in Items, Renew(i) \/ NotRenewed(i) PROVE Typed
  <2>1. \/ UNCHANGED world
        \/ disk' = [disk EXCEPT ![i] = @ + 1] /\ Hooks(i)
    BY <1>2 DEF Renew, NotRenewed, Issue
  <2>2. UNCHANGED <<time, crashes>>
    BY <1>2 DEF Renew, NotRenewed
  <2> QED
    BY <1>1, <2>1, <2>2 DEF world, TypeInv
<1>3. ASSUME NEW i \in Items, ActivateNginx(i) \/ ActivateDeferred(i) PROVE Typed
  BY <1>3 DEF ActivateNginx, ActivateDeferred, Touch, TypeInv
<1>4. ASSUME NEW i \in Items, Rehearse(i) \/ Health(i) PROVE Typed
  BY <1>4 DEF Rehearse, Health, world, TypeInv
<1>7. ASSUME NEW i \in Items, Consume(i) PROVE Typed
  BY <1>7 DEF Consume, TypeInv
<1>5. ASSUME Save \/ (\E mode \in {"health", "renew", "rehearse"} : Begin(mode))
             \/ ReloadNginx \/ UNCHANGED certVars
      PROVE  Typed
  BY <1>5 DEF Save, Begin, ReloadNginx, world, certVars, TypeInv
<1>6. ASSUME Crash \/ TimePasses PROVE Typed
  <2>1. crashes + 1 \in Nat /\ time + 1 \in Nat
    BY DEF TypeInv
  <2> QED
    BY <1>6, <2>1 DEF Crash, TimePasses, world, TypeInv
<1> QED
  BY <1>2, <1>3, <1>4, <1>5, <1>6, <1>7 DEF CertNext, Step

\* A step keeps the types.
LEMMA TypesKept == ASSUME TypeInv, [CertNext]_certVars PROVE TypeInv'
<1>1. job' \in Jobs /\ saved' \in Rows
  <2>1. ASSUME NEW i \in Items, RowStep(i) PROVE job' \in Jobs
    BY <2>1 DEF RowStep, RowSet
  <2> QED
    BY <2>1, JobSteps, RowsFit DEF JobStep, TypeInv, Jobs
<1> QED
  BY <1>1, WorldTyped DEF TypeInv

\* Every step, as what it does to one marker and the age behind it.
LEMMA MarkerSteps ==
  ASSUME TypeInv, [CertNext]_certVars, NEW k \in Items PROVE MarkerStep(k)
<1> DEFINE Same == flag'[k] = flag[k] /\ waiting'[k] = waiting[k]
<1>1. ASSUME NEW i \in Items, Hooks(i) PROVE Same \/ (i = k /\ Touch(i))
  BY <1>1 DEF Hooks, Touch, TypeInv
<1>2. ASSUME NEW i \in Items,
             Renew(i) \/ NotRenewed(i) \/ ActivateNginx(i) \/ ActivateDeferred(i)
      PROVE  MarkerStep(k)
  <2>1. Same \/ (i = k /\ Touch(i))
    BY <1>1, <1>2 DEF Renew, NotRenewed, Issue, ActivateNginx, ActivateDeferred, world,
         Touch, TypeInv
  <2>2. /\ RowStep(i) /\ saved' = saved /\ crashes' = crashes
        /\ (job.mode = "renew" /\ i \in job.renew) \/ i \in job.activate
    BY <1>2, RowSteps DEF Renew, NotRenewed, ActivateNginx, ActivateDeferred
  <2> QED
    BY <2>1, <2>2 DEF MarkerStep, Touch, TypeInv
<1>3. ASSUME NEW i \in Items, Consume(i) PROVE MarkerStep(k)
  BY <1>3 DEF Consume, MarkerStep, TypeInv
<1>4. ASSUME \/ \E i \in Items : Rehearse(i) \/ Health(i)
             \/ Save \/ \E mode \in {"health", "renew", "rehearse"} : Begin(mode)
             \/ Crash \/ TimePasses \/ ReloadNginx \/ UNCHANGED certVars
      PROVE  MarkerStep(k)
  BY <1>4 DEF Rehearse, Health, Save, Begin, Crash, TimePasses, ReloadNginx, world, certVars, MarkerStep
<1> QED
  BY <1>2, <1>3, <1>4 DEF CertNext, Step

----------------------------------------------------------------------------
(* A failed activation *)

\* A failed activation is forgotten in a row only where nginx serves what is on
\* disk, and in the state only with its row.
LEMMA ActivationStaysFailed ==
  ASSUME TypeInv, [CertNext]_certVars, NEW i \in Nginx
  PROVE  /\ job # Idle /\ ~job.state[i].activated /\ job'.state[i].activated
              => served'[i] = disk'[i] \/ job' = Idle
         /\ ~saved[i].activated /\ saved'[i].activated => job.state[i].activated
<1>1. /\ i \in Items /\ job.state \in [Items -> Row]
      /\ job.state[i] \in Row
  BY DEF Nginx, TypeInv, Jobs, Rows
<1>2. ASSUME NEW k \in Items, RowStep(k), ~job.state[i].activated,
             job'.state[i].activated
      PROVE  served'[i] = disk'[i]
  <2>1. k = i
    BY <1>1, <1>2 DEF RowStep, RowSet
  <2>2. ASSUME NEW b \in BOOLEAN,
               \/ RowSet(i, Result(job.state[i], b))
               \/ RowSet(i, [job.state[i] EXCEPT !.rehearsal = IF b THEN 0 ELSE First(@)])
        PROVE  FALSE
    BY <1>1, <1>2, <2>2 DEF RowSet, Result, Row
  <2>3. ASSUME NEW b \in BOOLEAN, RowSet(i, [job.state[i] EXCEPT !.activated = b])
        PROVE  b
    BY <1>1, <1>2, <2>3 DEF RowSet, Row
  <2>4. ASSUME NEW row \in {Unseen(job.state[i])}
                            \cup {Seen(i, job.state[i], v) : v \in BOOLEAN},
               RowSet(i, [row EXCEPT !.pending = PendingSince(i)])
        PROVE  served[i] = disk[i]
    <3>1. row.activated
      <4>1. job'.state[i] = [row EXCEPT !.pending = PendingSince(i)]
        BY <1>1, <2>4 DEF RowSet
      <4> QED
        BY <1>1, <1>2, <2>4, <4>1 DEF Unseen, Seen, Row
    <3> QED
      BY <1>1, <1>2, <2>4, <3>1 DEF Unseen, Seen, Row
  <2> QED
    BY <1>2, <2>1, <2>2, <2>3, <2>4 DEF RowStep, world
<1> QED
  BY <1>2, JobSteps DEF JobStep

\* For any lineages, a failed activation of a certificate that nginx serves stays
\* in the run and in state.json until the new certificate is served.
THEOREM FailureIsKept == CertSpec => FailedActivationIsKept
<1>1. CertInit => TypeInv
  BY RowsFit DEF CertInit, TypeInv, Rows
<1>2. TypeInv /\ [CertNext]_certVars => TypeInv'
  BY TypesKept
<1>3. TypeInv /\ [CertNext]_certVars =>
        [\A i \in Nginx :
           /\ job # Idle /\ ~job.state[i].activated /\ job'.state[i].activated
                => served'[i] = disk'[i] \/ job' = Idle
           /\ ~saved[i].activated /\ saved'[i].activated => job.state[i].activated]_certVars
  BY ActivationStaysFailed
<1> QED
  BY <1>1, <1>2, <1>3, PTL DEF CertSpec, FailedActivationIsKept

----------------------------------------------------------------------------
(* The age of a waiting activation *)

\* A run looks at a lineage after it has renewed and activated all of them.
JobShape ==
  /\ time # 0
  /\ job # Idle => job.now # 0 /\ job.now <= time /\ job.mode # "idle"
  /\ job.activate # {} => job.mode = "renew"
  /\ job.mode = "renew" /\ (job.renew # {} \/ job.activate # {}) => job.check = Items
  /\ job.mode = "rehearse" => job.check = {}

\* What state.json says of the wait is not younger than the marker; while it says
\* nothing, a run that began before the marker came has yet to look; and what a
\* run has seen, or not yet looked at, fits both.
AgeIsKept(i) ==
  /\ waiting[i] # 0 => flag[i] # 0
  /\ saved[i].pending <= time
  /\ job # Idle => job.state[i].pending <= time
  /\ job # Idle /\ (i \in job.check \/ job.mode = "rehearse") =>
       job.state[i].pending = saved[i].pending
  /\ crashes = 0 /\ waiting[i] # 0 =>
       /\ saved[i].pending <= waiting[i]
       /\ saved[i].pending = 0 => job.mode = "renew" /\ job.now <= waiting[i]
       /\ job # Idle /\ job.mode # "rehearse" /\ i \notin job.check =>
            job.state[i].pending # 0 /\ job.state[i].pending <= waiting[i]

\* Time and crashes move one by one.
LEMMA ClockSteps ==
  ASSUME [CertNext]_certVars
  PROVE  /\ time' = time \/ time' = time + 1
         /\ crashes' = crashes \/ crashes' = crashes + 1
BY DEF CertNext, Step, certVars, TimePasses, ReloadNginx, Consume, Begin, Save, Crash, Renew, NotRenewed,
       ActivateNginx, ActivateDeferred, Rehearse, Health

\* What each mode of the run has touched stays so.
LEMMA ShapeKept ==
  ASSUME TypeInv, TypeInv', JobShape, [CertNext]_certVars PROVE JobShape'
<1>1. time' # 0 /\ time <= time' /\ time \in Nat /\ time' \in Nat
  BY ClockSteps DEF TypeInv, JobShape
<1>2. ASSUME NEW i \in Items, RowStep(i) PROVE JobShape'
  <2>1. /\ job'.mode = job.mode /\ job'.now = job.now /\ job.mode # "idle"
    BY <1>2 DEF RowStep, RowSet, JobShape, Idle
  <2> QED
    BY <1>1, <1>2, <2>1 DEF RowStep, RowSet, JobShape, Idle, TypeInv, Jobs
<1> QED
  BY <1>1, <1>2, JobSteps DEF JobStep, JobShape, Idle, TypeInv, Jobs

\* Only its own look changes what a run says of a lineage's wait.
LEMMA PendingSteps ==
  ASSUME TypeInv, NEW k \in Items, RowStep(k), NEW i \in Items
  PROVE  \/ /\ job'.state[i].pending = job.state[i].pending
            /\ i \in job'.check <=> i \in job.check
         \/ k = i /\ job'.state[i].pending = PendingSince(i) /\ i \in job.check
            /\ job'.check = job.check \ {i} /\ UNCHANGED world
<1>1. job.state \in [Items -> Row] /\ job.state[i] \in Row /\ job.state[k] \in Row
  BY DEF TypeInv, Jobs, Rows
<1>2. ASSUME k # i
      PROVE  /\ job'.state[i].pending = job.state[i].pending
             /\ i \in job'.check <=> i \in job.check
  BY <1>1, <1>2 DEF RowStep, RowSet
<1>3. ASSUME k = i, NEW b \in BOOLEAN,
             \/ RowSet(k, Result(job.state[k], b))
             \/ RowSet(k, [job.state[k] EXCEPT !.activated = b])
             \/ RowSet(k, [job.state[k] EXCEPT !.rehearsal = IF b THEN 0 ELSE First(@)])
      PROVE  job'.state[i].pending = job.state[i].pending
  BY <1>1, <1>3 DEF RowSet, Result, Row
<1>4. ASSUME k = i,
             NEW row \in {Unseen(job.state[k])}
                          \cup {Seen(k, job.state[k], v) : v \in BOOLEAN},
             RowSet(k, [row EXCEPT !.pending = PendingSince(k)])
      PROVE  job'.state[i].pending = PendingSince(i)
  <2>1. job'.state[i] = [row EXCEPT !.pending = PendingSince(i)]
    BY <1>1, <1>4 DEF RowSet
  <2>2. row \in Row
    BY <1>1, <1>4, RowTyped
  <2> QED
    BY <2>1, <2>2 DEF Row
<1> QED
  BY <1>2, <1>3, <1>4 DEF RowStep

\* No step makes a waiting activation look younger.
LEMMA AgeStaysKept ==
  ASSUME TypeInv, TypeInv', JobShape, [CertNext]_certVars, NEW i \in Items, AgeIsKept(i)
  PROVE  AgeIsKept(i)'
<1>0. /\ time \in Nat /\ time' \in Nat /\ time <= time' /\ time # 0
      /\ waiting[i] \in Nat /\ flag[i] \in Nat /\ saved[i].pending \in Nat
      /\ job.state[i].pending \in Nat /\ job.now \in Nat
  BY ClockSteps DEF TypeInv, JobShape, Jobs, Rows, Row
<1>1. crashes' = 0 => crashes = 0
  BY ClockSteps DEF TypeInv
<1>2. ASSUME job' = job, saved' = saved, waiting'[i] = 0 PROVE AgeIsKept(i)'
  BY <1>0, <1>2 DEF AgeIsKept
\* A touch, before this run's look.
<1>3. ASSUME flag'[i] = time,
             waiting'[i] = IF waiting[i] = 0 THEN time ELSE waiting[i],
             RowStep(i), saved' = saved,
             (job.mode = "renew" /\ i \in job.renew) \/ i \in job.activate
      PROVE  AgeIsKept(i)'
  <2>1. job # Idle /\ job.mode = "renew" /\ job.check = Items
    BY <1>3 DEF JobShape, Idle
  <2>2. job'.check = Items /\ job'.mode = "renew" /\ job'.now = job.now
        /\ job'.state[i].pending = job.state[i].pending
    BY <1>3, <2>1, PendingSteps DEF RowStep, RowSet
  <2>3. job.now <= time
    BY <2>1 DEF JobShape
  <2> QED
    BY <1>0, <1>1, <1>3, <2>1, <2>2, <2>3 DEF AgeIsKept
<1>4. ASSUME flag'[i] = flag[i], waiting'[i] = waiting[i] PROVE AgeIsKept(i)'
  <2>1. ASSUME job' = job, saved' = saved PROVE AgeIsKept(i)'
    BY <1>0, <1>1, <1>4, <2>1 DEF AgeIsKept
  <2>2. ASSUME NEW k \in Items, RowStep(k), saved' = saved PROVE AgeIsKept(i)'
    <3>1. /\ job # Idle /\ job'.mode = job.mode /\ job'.now = job.now
      <4>1. job # Idle
        BY <2>2, RowsFit DEF RowStep
      <4>2. job'.mode = job.mode /\ job'.now = job.now
        BY <2>2 DEF RowStep, RowSet
      <4> QED
        BY <4>1, <4>2
    <3>2. ASSUME job'.state[i].pending = job.state[i].pending,
                 i \in job'.check <=> i \in job.check
          PROVE  AgeIsKept(i)'
      BY <1>0, <1>1, <1>4, <2>2, <3>1, <3>2 DEF AgeIsKept
    <3>3. ASSUME k = i, job'.state[i].pending = PendingSince(i), i \in job.check,
                 job'.check = job.check \ {i}
          PROVE  AgeIsKept(i)'
      BY <1>0, <1>1, <1>4, <2>2, <3>1, <3>3 DEF AgeIsKept, PendingSince, JobShape
    <3> QED
      BY <2>2, <3>2, <3>3, PendingSteps
  <2>3. ASSUME job' = Idle, crashes' # 0, saved' = saved PROVE AgeIsKept(i)'
    BY <1>0, <1>4, <2>3 DEF AgeIsKept
  <2>4. ASSUME job # Idle, job' = Idle, saved' = job.state, job.check = {}
        PROVE  AgeIsKept(i)'
    BY <1>0, <1>1, <1>4, <2>4 DEF AgeIsKept
  <2>5. ASSUME job = Idle, job'.state = saved, job'.now = time, job'.mode # "idle",
               job'.mode # "rehearse" => job'.check = Items, saved' = saved
        PROVE  AgeIsKept(i)'
    BY <1>0, <1>1, <1>4, <2>5 DEF AgeIsKept, Idle
  <2> QED
    BY <2>1, <2>2, <2>3, <2>4, <2>5, JobSteps DEF JobStep
<1> QED
  BY <1>2, <1>3, <1>4, MarkerSteps DEF MarkerStep

\* For any lineages and any number of renewals that touch the marker again, the age
\* of a waiting activation is not understated as long as no run dies.
THEOREM WaitIsNotYounger == CertSpec => []PendingIsNotYounger
<1> DEFINE Inside == TypeInv /\ JobShape /\ \A i \in Items : AgeIsKept(i)
<1>1. CertInit => Inside
  BY RowsFit DEF CertInit, TypeInv, Rows, JobShape, Idle, AgeIsKept, NewRow
<1>2. Inside /\ [CertNext]_certVars => Inside'
  BY TypesKept, ShapeKept, AgeStaysKept
<1>3. Inside => PendingIsNotYounger
  BY DEF PendingIsNotYounger, Deferred, AgeIsKept
<1> QED
  BY <1>1, <1>2, <1>3, PTL DEF CertSpec
=============================================================================
