--------------------------- MODULE LearningApply ---------------------------
(***************************************************************************)
(* maria-learning-sync.sh apply and rollback: bucket and database are      *)
(* written one after the other under an encrypted backup of both.  Inside  *)
(* `if ! f` and `f || g` bash ignores every failing command of f but the   *)
(* last, and `die` in f ends the whole script.                             *)
(***************************************************************************)
EXTENDS BundlePlan, Sequences

CONSTANTS Bundles,     \* extracted sources
          Targets,     \* target databases
          Unused,      \* object keys that the target's writers may use later
          Frozen,      \* whether writers stay stopped once the guard has passed
          Answers,     \* whether mc and COMMIT always answer
          MaxRuns      \* bound: runs of apply

ASSUME RunsAssumption == {Frozen, Answers} \subseteq BOOLEAN /\ MaxRuns \in Nat
ASSUME SidesAssumption ==
  (\A d \in Bundles : IsBundle(d)) /\ (\A d \in Targets : IsDatabase(d))
\* Documents are saved under new names.
ASSUME UnusedAssumption ==
  \A d \in Bundles \cup Targets : Unused \cap DOMAIN BuildObjects(d) = {}

VARIABLES bundle,   \* the decrypted payload
          db,       \* the target database
          bucket,   \* object keys to the contents they have in the target
          writers,  \* whether the target's writers run
          backups,  \* of earlier steps: the database, the objects, and the keys taken
            \* for absent because mc stat did not answer
          run,      \* the process: stage, scope before, keys to go over, its own backup
            \* and the one it puts back (0: none); and, for the properties,
            \* database and bucket when the guard had passed
          runs

avars == <<bundle, db, bucket, writers, backups, run, runs>>

Missing == "missing"
AllKeys == Unused \cup UNION {DOMAIN BuildObjects(d) : d \in Bundles \cup Targets}

AtRest == {"idle", "complete", "failed", "refused", "killed", "rolledback"}

\* No run of apply, or nothing that counts of the last one.
NoRun ==
  [stage |-> "idle", scope |-> bundle, todo |-> {}, own |-> 0, of |-> 0,
   was |-> [db |-> bundle, bucket |-> <<>>]]

\* Objects of the target first have the target's contents.
AInit ==
  /\ bundle \in Bundles /\ db \in Targets
  /\ bucket = [k \in AllKeys |-> IF k \in DOMAIN BuildObjects(db) THEN "old" ELSE Missing]
  /\ writers = TRUE /\ backups = <<>> /\ runs = 0
  /\ run = NoRun

SourceKeys == DOMAIN BuildObjects(bundle)
ScopeKeys == DOMAIN BuildObjects(run.scope)
Goes(stage, todo) == run' = [run EXCEPT !.stage = stage, !.todo = todo]
To(stage) == Goes(stage, {})

\* The objects of this backup are to be put back.
PutsBack(stage, b, r) ==
  run' = [r EXCEPT !.stage = stage, !.todo = DOMAIN backups[b].objects, !.of = b]

----------------------------------------------------------------------------
(* The environment *)

StopWriters ==
  /\ writers /\ writers' = FALSE
  /\ UNCHANGED <<bundle, db, bucket, backups, run, runs>>

\* The launcher does so at the end of every run; what the run left is then used.
StartWriters ==
  /\ ~writers /\ (Frozen => run.stage \in AtRest)
  /\ writers' = TRUE
  /\ run' = IF run.stage \in AtRest THEN NoRun ELSE run
  /\ UNCHANGED <<bundle, db, bucket, backups, runs>>

\* A lesson's document is saved: first the object, then the row.
SaveDocument(k) ==
  /\ writers /\ k \in Unused /\ k \notin DOMAIN BuildObjects(db)
  /\ bucket' = [bucket EXCEPT ![k] = "old"]
  /\ db' = [db EXCEPT !.doc = [i \in DOMAIN @ \cup {k} |-> IF i = k THEN k ELSE @[i]]]
  /\ UNCHANGED <<bundle, writers, backups, run, runs>>

----------------------------------------------------------------------------
(* apply *)

\* The bundle is decrypted and validated, and the target's scope read.
Start ==
  /\ run.stage \in AtRest /\ runs < MaxRuns
  /\ run' = [NoRun EXCEPT !.stage = "scoped", !.scope = Extract(db)]
  /\ runs' = runs + 1
  /\ UNCHANGED <<bundle, db, bucket, writers, backups>>

Guarded == ~writers

\* run_maintenance_guard, then the same transaction rolled back; it may also fail
\* for rows that are not the teacher's.
Preflight ==
  /\ run.stage = "scoped" /\ Guarded
  /\ \E stage \in {"tried", "failed"} :
       /\ stage = "tried" => SqlApplies(bundle, db)
       /\ run' = [run EXCEPT !.was = [db |-> db, bucket |-> bucket], !.stage = stage]
  /\ UNCHANGED <<bundle, db, bucket, writers, backups, runs>>

\* Mutant: only what the bundle brings is backed up.
BroughtKeys == SourceKeys

TouchedKeys == SourceKeys \cup ScopeKeys

Present(keys) == {k \in keys : bucket[k] # Missing}

\* pg_dump and a copy of each touched object that mc stat finds; encrypted, and
\* decrypted once.  A key that stat does not answer for is recorded as absent.
BackUp ==
  /\ run.stage = "tried"
  /\ \E unseen \in SUBSET Present(TouchedKeys) :
       /\ Answers => unseen = {}
       /\ backups' = Append(backups,
            [db |-> db, unseen |-> unseen,
             objects |-> [k \in TouchedKeys |-> IF k \in unseen THEN Missing ELSE bucket[k]]])
  /\ run' = [run EXCEPT !.stage = "writing", !.todo = SourceKeys, !.own = Len(backups) + 1]
  /\ UNCHANGED <<bundle, db, bucket, writers, runs>>

\* write_source_objects: a copy that fails goes unnoticed, but for the last one.
WriteObject(k) ==
  /\ run.stage = "writing" /\ k \in run.todo
  /\ \/ /\ bucket' = [bucket EXCEPT ![k] = "new"]
        /\ Goes("writing", run.todo \ {k})
     \/ /\ ~Answers /\ UNCHANGED bucket
        /\ IF run.todo = {k} THEN PutsBack("restoring", run.own, run)
           ELSE Goes("writing", run.todo \ {k})
  /\ UNCHANGED <<bundle, db, writers, backups, runs>>

\* psql fails with the transaction rolled back, or does not hear of its COMMIT.
Sql ==
  /\ run.stage = "writing" /\ run.todo = {}
  /\ \/ /\ SqlApplies(bundle, db) /\ db' = ApplySql(bundle, db)
        /\ To("deleting")
     \/ /\ UNCHANGED db
        /\ PutsBack("restoring", run.own, run)
     \/ /\ ~Answers /\ SqlApplies(bundle, db) /\ db' = ApplySql(bundle, db)
        /\ PutsBack("restoring", run.own, run)
  /\ UNCHANGED <<bundle, bucket, writers, backups, runs>>

\* delete_target_only_objects ends with a successful rm -rf whatever mc rm says.
Delete ==
  /\ run.stage = "deleting"
  /\ \E heard \in SUBSET DeletedObjects(bundle, run.scope) :
       /\ Answers => heard = DeletedObjects(bundle, run.scope)
       /\ bucket' = [k \in AllKeys |-> IF k \in heard THEN Missing ELSE bucket[k]]
  /\ To("verifying")
  /\ UNCHANGED <<bundle, db, writers, backups, runs>>

SourceObjectsThere == \A k \in SourceKeys : bucket[k] = "new"

\* command_verify_target_inner as a condition: prepare_target_scope and
\* compare-target are run for nothing; an object that differs, or is not
\* answered for, ends the script there.
Verify ==
  /\ run.stage = "verifying"
  /\ \/ SourceObjectsThere /\ To("complete")
     \/ (~SourceObjectsThere \/ ~Answers) /\ To("refused")
  /\ UNCHANGED <<bundle, db, bucket, writers, backups, runs>>

\* The script or its connection is lost, or a command fails where that ends it,
\* as a copy in restore_objects does; what has been written stays.
Kill ==
  /\ run.stage \notin AtRest
  /\ To(IF run.stage = "scoped" THEN "idle" ELSE "killed")
  /\ UNCHANGED <<bundle, db, bucket, writers, backups, runs>>

\* The rollback command, under the guard: first the database, at once.
Rollback(b) ==
  /\ run.stage \in AtRest /\ Guarded
  /\ b \in 1..Len(backups)
  /\ db' = backups[b].db
  /\ PutsBack("undoing", b, IF b = run.own THEN run ELSE NoRun)
  /\ UNCHANGED <<bundle, bucket, writers, backups, runs>>

\* restore_objects, of the run or of the rollback: present objects are copied, then
\* absent ones removed, and it makes no difference whether mc rm does so.
RestoreObject(k) ==
  /\ run.stage \in {"restoring", "undoing"} /\ k \in run.todo
  /\ LET objects == backups[run.of].objects
     IN \/ /\ objects[k] # Missing
           /\ bucket' = [bucket EXCEPT ![k] = objects[k]]
        \/ /\ \A j \in run.todo : objects[j] = Missing
           /\ bucket' = [bucket EXCEPT ![k] = Missing] \/ (~Answers /\ UNCHANGED bucket)
  /\ Goes(run.stage, run.todo \ {k})
  /\ UNCHANGED <<bundle, db, writers, backups, runs>>

\* "pre-apply objects were restored", or "rolled-back".
RestoreEnds ==
  /\ run.stage \in {"restoring", "undoing"} /\ run.todo = {}
  /\ To(IF run.stage = "restoring" THEN "failed" ELSE "rolledback")
  /\ UNCHANGED <<bundle, db, bucket, writers, backups, runs>>

ANext ==
  \/ StopWriters \/ StartWriters \/ Start \/ Preflight \/ BackUp \/ Sql \/ Delete
  \/ Verify \/ Kill \/ RestoreEnds
  \/ \E k \in AllKeys : SaveDocument(k) \/ WriteObject(k) \/ RestoreObject(k)
  \/ \E b \in 1..MaxRuns : Rollback(b)

ASpec == AInit /\ [][ANext]_avars

----------------------------------------------------------------------------
(* Properties *)

\* This backup has, of what a run has changed, the database and each object that
\* mc stat told of; no other object has changed.
HasAllOf(b, was) ==
  /\ b.db = was.db
  /\ \A k \in AllKeys :
       IF k \in DOMAIN b.objects THEN k \in b.unseen \/ b.objects[k] = was.bucket[k]
       ELSE bucket[k] = was.bucket[k]

\* Wherever a run is cut off, or the rollback of it, what it has changed can be
\* undone as long as the writers are not started: nothing has changed, or its
\* backup has all of it, also the objects that the run has removed.
CanBeUndone ==
  run.stage \notin {"idle", "scoped"} =>
    IF run.own # 0 THEN HasAllOf(backups[run.own], run.was)
    ELSE run.of = 0 => db = run.was.db /\ bucket = run.was.bucket

\* When the script says that it has put objects back, or database and objects,
\* none that mc stat had told of is gone or has other contents.
UndoneIsBack ==
  run.stage \in {"failed", "rolledback"} /\ run.own # 0 =>
    /\ run.stage = "rolledback" => db = run.was.db
    /\ \A k \in AllKeys :
         \/ run.was.bucket[k] \in {Missing, bucket[k]}
         \/ k \in backups[run.own].unseen

\* Objects that a backup has taken for absent.
Lost == UNION {backups[b].unseen : b \in DOMAIN backups}

\* Unless the writers are started, a run is complete only over a target that agrees
\* with the bundle and has an object for every row that names one; also after runs
\* that were cut off, undone, or half undone.
CompleteIsWhole ==
  run.stage = "complete" =>
    /\ CompareTarget(bundle, Extract(db))
    /\ \A k \in DOMAIN BuildObjects(db) : bucket[k] # Missing \/ k \in Lost

\* "pre-apply objects were restored": the bucket of a run that failed is as before.
FailedRestoresObjects == run.stage = "failed" => bucket = run.was.bucket
============================================================================
