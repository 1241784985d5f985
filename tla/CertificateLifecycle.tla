------------------------ MODULE CertificateLifecycle ------------------------
(***************************************************************************)
(* certificate-lifecycle.py on one host: runs started by timers take a     *)
(* lock or give up, let certbot renew what is due, have nginx load it or   *)
(* leave a marker for the relay, look at what is served, and write         *)
(* state.json at their end.  A run may die anywhere; state.json is all     *)
(* that the alerts see.                                                    *)
(***************************************************************************)
EXTENDS Naturals

CONSTANTS Items,        \* lineages
          MaxTime,      \* bound: the clock
          MaxRenewals,  \* bound: certificates issued for each lineage
          MaxCrashes    \* bound: runs that die

ASSUME CertificatesAssumption == {MaxTime, MaxRenewals, MaxCrashes} \subseteq Nat

VARIABLES kind,     \* of each lineage: nginx serves it, or the relay
          time,
          disk,     \* the certificate of each lineage on disk, by its number
          served,   \* the certificate that clients get
          flag,     \* the time of the marker of a relay's lineage; 0 for none
          waiting,  \* since when that marker has been there without a break
          saved,    \* state.json
          job,      \* the run that holds the lock
          crashes

certVars == <<kind, time, disk, served, flag, waiting, saved, job, crashes>>
world == <<kind, disk, served, flag, waiting>>

Nginx == {i \in Items : kind[i] = "nginx"}
Deferred == Items \ Nginx

\* activated: renewal.activation_success; failing, rehearsal: failure_since.
NewRow == [activated |-> TRUE, failing |-> 0, rehearsal |-> 0,
           healthy |-> FALSE, mismatch |-> 0, pending |-> 0]
Idle == [mode |-> "idle", now |-> 0, state |-> [i \in Items |-> NewRow],
         renew |-> {}, activate |-> {}, check |-> {}]

CertInit ==
  /\ kind \in [Items -> {"nginx", "relay"}]
  /\ time = 1 /\ crashes = 0
  /\ disk = [i \in Items |-> 1] /\ served = disk
  /\ flag = [i \in Items |-> 0] /\ waiting = flag
  /\ saved = [i \in Items |-> NewRow] /\ job = Idle

TimePasses == time < MaxTime /\ time' = time + 1 /\ UNCHANGED <<world, saved, job, crashes>>

----------------------------------------------------------------------------
(* A run *)

\* Every mode takes the lock without waiting; publish only reads.
Begin(mode) ==
  /\ job = Idle
  /\ job' = [mode |-> mode, now |-> time, state |-> saved, activate |-> {},
             renew |-> IF mode = "health" THEN {} ELSE Items,
             check |-> IF mode = "rehearse" THEN {} ELSE Items]
  /\ UNCHANGED <<time, world, saved, crashes>>

First(since) == IF since = 0 THEN job.now ELSE since

\* Mutant: the result of this run stands for itself.
OwnResult(row, success) ==
  [row EXCEPT !.activated = TRUE, !.failing = IF success THEN 0 ELSE First(@)]

\* What the new renewal row keeps of the previous one.
Result(row, success) == [row EXCEPT !.failing = IF success THEN 0 ELSE First(@)]

Touch(i) ==
  /\ flag' = [flag EXCEPT ![i] = time]
  /\ waiting' = [waiting EXCEPT ![i] = IF @ = 0 THEN time ELSE @]

\* certbot with its hooks, which may have activated what it renewed.
Hooks(i) ==
  \/ UNCHANGED <<served, flag, waiting>>
  \/ i \in Nginx /\ served' = [served EXCEPT ![i] = disk'[i]] /\ UNCHANGED <<flag, waiting>>
  \/ i \in Deferred /\ Touch(i) /\ UNCHANGED served

Issue(i) == disk[i] < MaxRenewals /\ disk' = [disk EXCEPT ![i] = @ + 1] /\ Hooks(i)

Renewed(i, success, activate) ==
  job' = [job EXCEPT !.renew = @ \ {i}, !.activate = activate,
                     !.state[i] = Result(@, success)]

\* Not due, or not done: certbot may fail after it has changed the disk.
NotRenewed(i) ==
  /\ job.mode = "renew" /\ i \in job.renew /\ job.activate = {}
  /\ \/ UNCHANGED world /\ \E success \in BOOLEAN : Renewed(i, success, {})
     \/ Issue(i) /\ Renewed(i, FALSE, {})
  /\ UNCHANGED <<kind, time, saved, crashes>>

Renew(i) ==
  /\ job.mode = "renew" /\ i \in job.renew /\ job.activate = {}
  /\ Issue(i) /\ Renewed(i, TRUE, {i})
  /\ UNCHANGED <<kind, time, saved, crashes>>

Activated(i, success) ==
  job' = [job EXCEPT !.activate = {}, !.state[i].activated = success]

\* nginx is left alone where probes find that a hook has reloaded it; where they find
\* anything else, or fail, nginx -t or the reload may fail as well.
ActivateNginx(i) ==
  /\ i \in job.activate \cap Nginx
  /\ \/ served' = [served EXCEPT ![i] = disk[i]] /\ Activated(i, TRUE)
     \/ UNCHANGED served /\ Activated(i, FALSE)
  /\ UNCHANGED <<kind, time, disk, flag, waiting, saved, crashes>>

ActivateDeferred(i) ==
  /\ i \in job.activate \cap Deferred
  /\ IF flag[i] = 0 THEN Touch(i) ELSE UNCHANGED <<flag, waiting>>
  /\ Activated(i, TRUE)
  /\ UNCHANGED <<kind, time, disk, served, saved, crashes>>

Rehearse(i) ==
  /\ job.mode = "rehearse" /\ i \in job.renew
  /\ \E success \in BOOLEAN :
       job' = [job EXCEPT !.renew = @ \ {i},
                          !.state[i].rehearsal = IF success THEN 0 ELSE First(@)]
  /\ UNCHANGED <<time, world, saved, crashes>>

\* Mutant: the age of the marker that is there.
PendingOfMarker(i) == IF flag[i] = 0 THEN 0 ELSE flag[i]

\* The marker as it was first seen, or as old as it is.
PendingSince(i) ==
  IF flag[i] = 0 THEN 0
  ELSE IF job.state[i].pending # 0 THEN job.state[i].pending
  ELSE IF flag[i] < job.now THEN flag[i] ELSE job.now

Seen(i, row, valid) ==
  [row EXCEPT !.healthy = valid,
              !.mismatch = IF served[i] = disk[i] THEN 0 ELSE First(@),
              !.activated = @ \/ (valid /\ served[i] = disk[i])]

\* Mutant: what was seen before stands for what cannot be seen.
UnseenAsBefore(row) == row

Unseen(row) == [row EXCEPT !.healthy = FALSE, !.mismatch = 0]

\* A probe may fail, and what is served may have expired or have a bad chain.
Health(i) ==
  /\ job # Idle /\ job.renew = {} /\ job.activate = {} /\ i \in job.check
  /\ \E row \in {Unseen(job.state[i])} \cup {Seen(i, job.state[i], valid) : valid \in BOOLEAN} :
       job' = [job EXCEPT !.check = @ \ {i}, !.state[i] = [row EXCEPT !.pending = PendingSince(i)]]
  /\ UNCHANGED <<time, world, saved, crashes>>

Save ==
  /\ job # Idle /\ job.renew = {} /\ job.activate = {} /\ job.check = {}
  /\ saved' = job.state /\ job' = Idle
  /\ UNCHANGED <<time, world, crashes>>

\* The time limit of the service, a reboot, or an error that is not caught.
Crash ==
  /\ job # Idle /\ crashes < MaxCrashes
  /\ job' = Idle /\ crashes' = crashes + 1
  /\ UNCHANGED <<time, world, saved>>

\* An operator finds the relay without allocations, restarts it, removes the marker.
Consume(i) ==
  /\ flag[i] # 0
  /\ served' = [served EXCEPT ![i] = disk[i]]
  /\ flag' = [flag EXCEPT ![i] = 0] /\ waiting' = [waiting EXCEPT ![i] = 0]
  /\ UNCHANGED <<kind, time, disk, saved, job, crashes>>

\* A deployment reloads nginx for reasons of its own.
ReloadNginx ==
  /\ \E i \in Nginx : served[i] # disk[i]
  /\ served' = [i \in Items |-> IF i \in Nginx THEN disk[i] ELSE served[i]]
  /\ UNCHANGED <<kind, time, disk, flag, waiting, saved, job, crashes>>

Step ==
  \/ \E i \in Items : Renew(i) \/ NotRenewed(i) \/ ActivateNginx(i) \/ ActivateDeferred(i)
                        \/ Rehearse(i) \/ Health(i)
  \/ Save

CertNext ==
  \/ \E mode \in {"health", "renew", "rehearse"} : Begin(mode)
  \/ Step \/ Crash \/ TimePasses \/ ReloadNginx \/ \E i \in Items : Consume(i)

CertSpec == CertInit /\ [][CertNext]_certVars

\* Each timer fires again and again, and the clock goes on.
CertFairSpec == CertSpec /\ WF_certVars(Step) /\ WF_certVars(TimePasses) /\ SF_certVars(Begin("health"))

----------------------------------------------------------------------------
(* Properties *)

\* A failed activation stays reported until the new certificate is served: a run
\* that finds nothing due, fails or dies does not clear it.
FailedActivationIsKept ==
  [][\A i \in Nginx :
       /\ job # Idle /\ ~job.state[i].activated /\ job'.state[i].activated
            => served'[i] = disk'[i] \/ job' = Idle
       /\ ~saved[i].activated /\ saved'[i].activated => job.state[i].activated]_certVars

\* Whatever run died or failed: a certificate that nginx has not loaded shows in
\* state.json, by the health of the lineage if not by the activation.
Told(i) == ~saved[i].healthy \/ saved[i].mismatch # 0 \/ ~saved[i].activated
MismatchIsTold ==
  \A i \in Items : (kind[i] = "nginx" /\ disk[i] # served[i]) ~> (disk[i] = served[i] \/ Told(i))

\* As long as no run dies before it has recorded what it saw, the age of a waiting
\* activation is not understated when a further renewal touches the marker.
PendingIsNotYounger ==
  \A i \in Deferred : crashes = 0 /\ saved[i].pending # 0 /\ waiting[i] # 0
                       => saved[i].pending <= waiting[i]
=============================================================================
