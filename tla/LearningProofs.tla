--------------------------- MODULE LearningProofs ---------------------------
(***************************************************************************)
(* The learning sync, for any bundles, target databases and object keys,   *)
(* whether or not mc and COMMIT answer: what a run changes can be taken    *)
(* back; what the SQL does by UUID is what plan and comparison say by      *)
(* natural keys; and success is what it says.                              *)
(***************************************************************************)
EXTENDS MCLearning, SequenceTheorems, TLAPS

----------------------------------------------------------------------------
(* The script between its steps *)

Stages == AtRest \cup
  {"scoped", "tried", "writing", "restoring", "deleting", "verifying", "undoing"}

\* In these, and after them, the run has a backup of its own.
BackedUp == {"writing", "restoring", "deleting", "verifying", "complete", "refused"}

\* Objects are put back, or are said to be.
Undoing == {"restoring", "undoing", "failed", "rolledback"}

IsBucket(b) == b = [k \in AllKeys |-> b[k]]

IsRun(r) == r \in [stage : {r.stage}, scope : {r.scope}, todo : {r.todo}, own : {r.own},
                   of : {r.of}, was : {r.was}]

ScriptTyped ==
  /\ IsRun(run) /\ run.stage \in Stages
  /\ backups \in Seq(Range(backups)) /\ IsBucket(bucket)
  /\ run.own \in 0..Len(backups) /\ run.of \in 0..Len(backups)

\* The run and its backup: which stages have one, and what it covers.
BackupKnown ==
  /\ run.stage \in {"idle", "scoped", "tried"} => run.own = 0 /\ run.of = 0
  /\ run.stage \in BackedUp => run.own # 0
  /\ run.stage \in {"writing", "deleting"} => DOMAIN backups[run.own].objects = TouchedKeys
  /\ run.stage = "writing" => run.todo \subseteq SourceKeys
  /\ run.stage \in {"scoped", "failed", "rolledback"} => run.todo = {}
  /\ run.stage = "restoring" => run.of = run.own
  /\ run.stage = "undoing" => run.of # 0 /\ run.own \in {0, run.of}
  /\ run.stage \in {"restoring", "undoing"} => run.todo \subseteq DOMAIN backups[run.of].objects

\* What was not put back yet is still to do.
PutBack ==
  \A k \in AllKeys :
    k \in DOMAIN backups[run.own].objects =>
      \/ k \in run.todo \/ backups[run.own].objects[k] = Missing
      \/ bucket[k] = backups[run.own].objects[k]

Undoable ==
  /\ run.stage \notin {"idle", "scoped"} => ~writers
  /\ run.stage \notin {"idle", "scoped"} /\ run.own = 0 /\ run.of = 0 =>
       db = run.was.db /\ bucket = run.was.bucket
  /\ run.own # 0 => HasAllOf(backups[run.own], run.was)
  /\ run.own # 0 /\ run.stage \in Undoing => PutBack
  /\ run.own # 0 /\ run.stage \in {"undoing", "rolledback"} => db = backups[run.own].db

ScriptInv == ScriptTyped /\ BackupKnown /\ Undoable

UndoInv ==
  \/ part # "script" /\ run.stage = "idle"
  \/ part = "script" /\ ScriptInv

\* The parts of the invariant say that changes can be undone.
LEMMA UndoableIsUndone ==
  ASSUME UndoInv
  PROVE  ChangesAreUndone
<1>1. CASE part # "script" /\ run.stage = "idle"
  BY <1>1 DEF ChangesAreUndone, CanBeUndone, UndoneIsBack
<1>2. CASE ScriptInv
  <2>1. CanBeUndone
    BY <1>2 DEF CanBeUndone, ScriptInv, Undoable
  <2>2. ASSUME run.stage \in {"failed", "rolledback"}, run.own # 0
        PROVE  /\ run.stage = "rolledback" => db = run.was.db
               /\ \A k \in AllKeys : \/ run.was.bucket[k] \in {Missing, bucket[k]}
                                     \/ k \in backups[run.own].unseen
    <3>1. HasAllOf(backups[run.own], run.was) /\ PutBack /\ run.todo = {}
          /\ (run.stage = "rolledback" => db = backups[run.own].db)
      BY <1>2, <2>2 DEF ScriptInv, BackupKnown, Undoable, Undoing
    <3> QED BY <3>1 DEF HasAllOf, PutBack
  <2> QED BY <2>1, <2>2 DEF ChangesAreUndone, UndoneIsBack
<1> QED BY <1>1, <1>2 DEF UndoInv

\* A step to another stage of the same run.
LEMMA GoesFacts ==
  ASSUME IsRun(run), NEW stage, NEW todo, Goes(stage, todo)
  PROVE  /\ run'.stage = stage /\ run'.todo = todo /\ run'.scope = run.scope
         /\ run'.own = run.own /\ run'.of = run.of /\ run'.was = run.was /\ IsRun(run')
<1>1. run' = [run EXCEPT !.stage = stage, !.todo = todo]
  BY DEF Goes
<1> QED BY <1>1 DEF IsRun

\* A step that begins to put a backup back.
LEMMA PutsBackFacts ==
  ASSUME NEW r, IsRun(r), NEW stage, NEW b, PutsBack(stage, b, r)
  PROVE  /\ run'.stage = stage /\ run'.todo = DOMAIN backups[b].objects /\ run'.scope = r.scope
         /\ run'.own = r.own /\ run'.of = b /\ run'.was = r.was /\ IsRun(run')
<1> SUFFICES ASSUME NEW todo, todo = DOMAIN backups[b].objects
    PROVE /\ run'.stage = stage /\ run'.todo = todo /\ run'.scope = r.scope
          /\ run'.own = r.own /\ run'.of = b /\ run'.was = r.was /\ IsRun(run')
  OBVIOUS
<1>1. run' = [r EXCEPT !.stage = stage, !.todo = todo, !.of = b]
  BY DEF PutsBack
<1> QED BY <1>1 DEF IsRun

LEMMA NoRunFacts ==
  /\ IsRun(NoRun) /\ NoRun.stage = "idle" /\ NoRun.own = 0 /\ NoRun.of = 0
  /\ NoRun.scope = bundle /\ NoRun.todo = {}
BY DEF NoRun, IsRun

\* What a sequence is with one more at its end.
LEMMA Appended ==
  ASSUME NEW s, s \in Seq(Range(s)), NEW x
  PROVE  /\ Append(s, x) \in Seq(Range(Append(s, x)))
         /\ Len(s) \in Nat /\ Len(Append(s, x)) = Len(s) + 1
         /\ DOMAIN s = 1..Len(s) /\ DOMAIN Append(s, x) = 1..(Len(s) + 1)
         /\ Append(s, x)[Len(s) + 1] = x
         /\ \A i \in 1..Len(s) : Append(s, x)[i] = s[i]
         /\ \A i \in 1..(Len(s) + 1) : i = Len(s) + 1 \/ i \in 1..Len(s)
<1> DEFINE S == Range(s) \cup {x}
           a == Append(s, x)
<1>1. s \in Seq(S) /\ x \in S
  <2>1. s \in Seq(Range(s)) /\ Range(s) \subseteq S
    OBVIOUS
  <2> HIDE DEF S
  <2> QED BY <2>1 DEF S
<1> HIDE DEF S
<1>2. /\ a \in Seq(S) /\ Len(a) = Len(s) + 1 /\ Len(s) \in Nat /\ DOMAIN s = 1..Len(s)
      /\ a[Len(s) + 1] = x /\ \A i \in 1..Len(s) : a[i] = s[i]
  BY <1>1, AppendProperties
<1>3. a \in [1..Len(a) -> S] /\ Len(a) \in Nat /\ DOMAIN a = 1..Len(a)
  <2> HIDE DEF a
  <2> QED BY <1>2
<1>4. a \in Seq(Range(a))
  <2> HIDE DEF a
  <2>1. a \in [1..Len(a) -> Range(a)]
    BY <1>3 DEF Range
  <2> QED BY <1>3, <2>1
<1>5. \A i \in 1..(Len(s) + 1) : i = Len(s) + 1 \/ i \in 1..Len(s)
  <2>1. ASSUME NEW m \in Nat PROVE \A i \in 1..(m + 1) : i = m + 1 \/ i \in 1..m
    OBVIOUS
  <2> QED BY <1>2, <2>1
<1> QED BY <1>2, <1>3, <1>4, <1>5

----------------------------------------------------------------------------
(* The steps *)

\* Objects of the run's own backup are written or removed, or none is.
LEMMA SameBackup ==
  ASSUME UNCHANGED <<bundle, backups>>, run'.own = run.own, run'.was = run.was,
         HasAllOf(backups[run.own], run.was),
         \A k \in AllKeys : k \in DOMAIN backups[run.own].objects \/ bucket'[k] = bucket[k]
  PROVE  HasAllOf(backups[run.own], run.was)'
BY DEF HasAllOf

\* The script ends, well or not, wherever it is.
LEMMA EndKeeps ==
  ASSUME ScriptInv, Verify \/ Kill \/ RestoreEnds
  PROVE  ScriptInv'
<1>1. UNCHANGED <<bundle, db, bucket, writers, backups>>
  BY DEF Verify, Kill, RestoreEnds
<1>2. PICK stage \in {"idle", "complete", "refused", "killed", "failed", "rolledback"} :
        /\ Goes(stage, {}) /\ (stage = "idle" <=> run.stage = "scoped")
        /\ stage \in {"complete", "refused"} => run.stage = "verifying"
        /\ stage = "failed" => run.stage = "restoring" /\ run.todo = {}
        /\ stage = "rolledback" => run.stage = "undoing" /\ run.todo = {}
        /\ stage = "killed" => run.stage \notin AtRest \cup {"scoped"}
  BY DEF Verify, Kill, RestoreEnds, To
<1>3. /\ run'.stage = stage /\ run'.todo = {} /\ run'.scope = run.scope
      /\ run'.own = run.own /\ run'.of = run.of /\ run'.was = run.was /\ IsRun(run')
  BY <1>2, GoesFacts DEF ScriptInv, ScriptTyped
<1>4. ScriptTyped'
  <2>1. stage \in Stages
    BY DEF Stages, AtRest
  <2> QED BY <1>1, <1>3, <2>1 DEF ScriptInv, ScriptTyped
<1>5. BackupKnown'
  BY <1>2, <1>3 DEF ScriptInv, BackupKnown, BackedUp
<1>6. Undoable'
  <2>1. run.own # 0 => HasAllOf(backups[run.own], run.was)'
    BY <1>1, <1>3, SameBackup DEF ScriptInv, Undoable
  <2>2. run.own # 0 /\ stage \in Undoing => PutBack'
    BY <1>1, <1>2, <1>3 DEF ScriptInv, Undoable, PutBack, Undoing
  <2>3. stage \notin {"idle", "scoped"} => run.stage \notin {"idle", "scoped"}
    BY <1>2 DEF AtRest
  <2>4. stage \in {"undoing", "rolledback"} => run.stage = "undoing"
    BY <1>2
  <2> QED BY <1>1, <1>3, <2>1, <2>2, <2>3, <2>4 DEF ScriptInv, Undoable
<1> QED BY <1>4, <1>5, <1>6 DEF ScriptInv

\* The guard has passed: what is there now is what must be there again.
LEMMA PreflightKeeps ==
  ASSUME ScriptInv, Preflight
  PROVE  ScriptInv'
<1>1. PICK stage \in {"tried", "failed"} :
        run' = [run EXCEPT !.was = [db |-> db, bucket |-> bucket], !.stage = stage]
  BY DEF Preflight
<1>2. /\ run.stage = "scoped" /\ ~writers
      /\ UNCHANGED <<bundle, db, bucket, writers, backups, runs>>
  BY DEF Preflight, Guarded
<1>3. /\ run'.stage = stage /\ run'.was = [db |-> db, bucket |-> bucket] /\ run'.todo = {}
      /\ run'.own = run.own /\ run'.of = run.of /\ IsRun(run')
  <2>1. IsRun(run) /\ run.todo = {}
    BY <1>2 DEF ScriptInv, ScriptTyped, BackupKnown
  <2> QED BY <1>1, <2>1 DEF IsRun
<1>4. run.own = 0 /\ run.of = 0
  BY <1>2 DEF ScriptInv, BackupKnown
<1>5. stage \in Stages
  BY DEF Stages, AtRest
<1>6. ScriptTyped'
  BY <1>2, <1>3, <1>5 DEF ScriptInv, ScriptTyped
<1>7. BackupKnown'
  BY <1>3, <1>4 DEF BackupKnown, BackedUp
<1>8. db' = run'.was.db /\ bucket' = run'.was.bucket
  BY <1>2, <1>3
<1> QED BY <1>2, <1>3, <1>4, <1>6, <1>7, <1>8 DEF ScriptInv, Undoable

\* The new backup has all that was seen.
LEMMA BackUpKeeps ==
  ASSUME ScriptInv, BackUp
  PROVE  ScriptInv' /\ run'.stage = "writing"
<1>1. PICK unseen \in SUBSET Present(TouchedKeys) :
        backups' = Append(backups,
          [db |-> db, unseen |-> unseen,
           objects |-> [k \in TouchedKeys |-> IF k \in unseen THEN Missing ELSE bucket[k]]])
  BY DEF BackUp
<1>2. PICK b : b = [db |-> db, unseen |-> unseen,
                    objects |-> [k \in TouchedKeys |-> IF k \in unseen THEN Missing ELSE bucket[k]]]
  OBVIOUS
<1>3. backups' = Append(backups, b)
  BY <1>1, <1>2
<1>4. /\ b.db = db /\ b.unseen = unseen
      /\ b.objects = [k \in TouchedKeys |-> IF k \in unseen THEN Missing ELSE bucket[k]]
  BY <1>2
<1>5. PICK own : own = Len(backups) + 1
  OBVIOUS
<1>6. /\ run.stage = "tried" /\ UNCHANGED <<bundle, db, bucket, writers>>
      /\ run' = [run EXCEPT !.stage = "writing", !.todo = SourceKeys, !.own = own]
  BY <1>5 DEF BackUp
<1>7. /\ run'.stage = "writing" /\ run'.todo = SourceKeys /\ run'.scope = run.scope
      /\ run'.own = own /\ run'.of = run.of /\ run'.was = run.was /\ IsRun(run')
  BY <1>6 DEF ScriptInv, ScriptTyped, IsRun
<1>8. TouchedKeys' = TouchedKeys /\ SourceKeys' = SourceKeys
  BY <1>6, <1>7 DEF TouchedKeys, SourceKeys, ScopeKeys
<1>9. /\ backups' \in Seq(Range(backups')) /\ Len(backups) \in Nat /\ Len(backups') = own
      /\ backups'[own] = b
  BY <1>3, <1>5, Appended DEF ScriptInv, ScriptTyped
<1>10. run.own = 0 /\ run.of = 0 /\ ~writers /\ db = run.was.db /\ bucket = run.was.bucket
  BY <1>6 DEF ScriptInv, BackupKnown, Undoable
<1>11. own \in Nat /\ own # 0 /\ own \in 0..own /\ 0 \in 0..own
  BY <1>5, <1>9
<1>12. HasAllOf(backups[run.own], run.was)'
  BY <1>4, <1>6, <1>7, <1>9, <1>10 DEF HasAllOf
<1>13. ScriptTyped'
  BY <1>6, <1>7, <1>9, <1>10, <1>11 DEF ScriptInv, ScriptTyped, Stages
<1>14. BackupKnown'
  BY <1>4, <1>7, <1>8, <1>9, <1>11 DEF BackupKnown
<1>15. Undoable'
  BY <1>6, <1>7, <1>10, <1>11, <1>12 DEF Undoable, Undoing
<1> QED BY <1>7, <1>13, <1>14, <1>15 DEF ScriptInv

\* A step of the run that writes or removes objects of its backup, or the database,
\* and goes on, or begins to put the backup back.
LEMMA TouchingKeeps ==
  ASSUME ScriptInv, run.stage \in {"writing", "deleting"}, UNCHANGED <<bundle, writers, backups>>,
         IsBucket(bucket'), \A k \in AllKeys \ TouchedKeys : bucket'[k] = bucket[k],
         NEW stage \in {"writing", "deleting", "verifying", "restoring"}, NEW todo,
         \/ Goes(stage, todo) /\ stage # "restoring"
         \/ PutsBack(stage, run.own, run) /\ stage = "restoring",
         stage = "writing" => todo \subseteq SourceKeys
  PROVE  ScriptInv' /\ run'.stage = stage /\ run'.scope = run.scope
<1>1. /\ run'.stage = stage /\ run'.scope = run.scope /\ run'.own = run.own /\ run'.was = run.was
      /\ run'.of = (IF stage = "restoring" THEN run.own ELSE run.of)
      /\ run'.todo = (IF stage = "restoring" THEN DOMAIN backups[run.own].objects ELSE todo)
      /\ IsRun(run')
  <2>0. IsRun(run)
    BY DEF ScriptInv, ScriptTyped
  <2>1. CASE Goes(stage, todo) /\ stage # "restoring"
    BY <2>0, <2>1, GoesFacts
  <2>2. CASE PutsBack(stage, run.own, run) /\ stage = "restoring"
    <3>1. /\ run'.stage = stage /\ run'.todo = DOMAIN backups[run.own].objects /\ run'.scope = run.scope
          /\ run'.own = run.own /\ run'.of = run.own /\ run'.was = run.was /\ IsRun(run')
      BY <2>0, <2>2, PutsBackFacts
    <3> QED BY <2>2, <3>1
  <2> QED BY <2>1, <2>2
<1>2. TouchedKeys' = TouchedKeys /\ SourceKeys' = SourceKeys
  BY <1>1 DEF TouchedKeys, SourceKeys, ScopeKeys
<1>3. run.own # 0 /\ DOMAIN backups[run.own].objects = TouchedKeys /\ ~writers
      /\ HasAllOf(backups[run.own], run.was)
  BY DEF ScriptInv, BackupKnown, Undoable, BackedUp
<1>4. HasAllOf(backups[run.own], run.was)'
  BY <1>1, <1>3, SameBackup
<1>5. ScriptTyped'
  <2>1. stage \in Stages
    BY DEF Stages
  <2> QED BY <1>1, <2>1 DEF ScriptInv, ScriptTyped
<1>6. BackupKnown'
  BY <1>1, <1>2, <1>3 DEF BackupKnown, BackedUp
<1>7. stage = "restoring" => PutBack'
  BY <1>1 DEF PutBack
<1>8. Undoable'
  BY <1>1, <1>3, <1>4, <1>7 DEF Undoable, Undoing
<1> QED BY <1>1, <1>5, <1>6, <1>8 DEF ScriptInv

\* One object is copied, or its copy is lost.
LEMMA WriteObjectKeeps ==
  ASSUME ScriptInv, NEW k \in AllKeys, WriteObject(k)
  PROVE  ScriptInv' /\ run'.stage \in {"writing", "restoring"} /\ run'.scope = run.scope
<1>1. /\ run.stage = "writing" /\ k \in run.todo /\ UNCHANGED <<bundle, db, writers, backups>>
      /\ bucket' = [bucket EXCEPT ![k] = "new"] \/ bucket' = bucket
      /\ Goes("writing", run.todo \ {k}) \/ PutsBack("restoring", run.own, run)
  BY DEF WriteObject
<1>2. run.todo \subseteq SourceKeys /\ bucket = [j \in AllKeys |-> bucket[j]]
  BY <1>1 DEF ScriptInv, BackupKnown, ScriptTyped, IsBucket
<1>3. k \in TouchedKeys
  BY <1>1, <1>2 DEF TouchedKeys
<1>4. IsBucket(bucket') /\ \A j \in AllKeys : j # k => bucket'[j] = bucket[j]
  <2>1. CASE bucket' = bucket
    BY <1>2, <2>1 DEF IsBucket
  <2>2. CASE bucket' = [bucket EXCEPT ![k] = "new"]
    <3>1. bucket' = [j \in AllKeys |-> IF j = k THEN "new" ELSE bucket[j]]
      BY <1>2, <2>2
    <3> QED BY <3>1 DEF IsBucket
  <2> QED BY <1>1, <2>1, <2>2
<1>5. \A j \in AllKeys \ TouchedKeys : bucket'[j] = bucket[j]
  BY <1>3, <1>4
<1>6. CASE Goes("writing", run.todo \ {k})
  <2>1. run.todo \ {k} \subseteq SourceKeys
    BY <1>2
  <2> QED BY <1>1, <1>4, <1>5, <1>6, <2>1, TouchingKeeps
<1>7. CASE PutsBack("restoring", run.own, run)
  BY <1>1, <1>4, <1>5, <1>7, TouchingKeeps
<1> QED BY <1>1, <1>6, <1>7

\* The transaction, whatever is heard of it.
LEMMA SqlKeeps ==
  ASSUME ScriptInv, Sql
  PROVE  /\ ScriptInv' /\ run'.stage \in {"deleting", "restoring"} /\ run'.scope = run.scope
         /\ run'.stage = "deleting" => SqlApplies(bundle, db) /\ db' = ApplySql(bundle, db)
<1>1. /\ run.stage = "writing" /\ UNCHANGED <<bundle, bucket, writers, backups>>
      /\ IsBucket(bucket') /\ \A j \in AllKeys \ TouchedKeys : bucket'[j] = bucket[j]
  BY DEF Sql, ScriptInv, ScriptTyped
<1>2. CASE Goes("deleting", {}) /\ SqlApplies(bundle, db) /\ db' = ApplySql(bundle, db)
  BY <1>1, <1>2, TouchingKeeps
<1>3. CASE PutsBack("restoring", run.own, run)
  <2>1. ScriptInv' /\ run'.stage = "restoring" /\ run'.scope = run.scope
    BY <1>1, <1>3, TouchingKeeps
  <2> QED BY <2>1
<1> QED BY <1>2, <1>3 DEF Sql, To

\* The target-only objects are removed: those of the scope.
LEMMA DeleteKeeps ==
  ASSUME ScriptInv, Delete
  PROVE  ScriptInv' /\ run'.stage = "verifying" /\ run'.scope = run.scope
<1>1. PICK heard \in SUBSET DeletedObjects(bundle, run.scope) :
        bucket' = [k \in AllKeys |-> IF k \in heard THEN Missing ELSE bucket[k]]
  BY DEF Delete
<1>2. /\ run.stage = "deleting" /\ Goes("verifying", {})
      /\ UNCHANGED <<bundle, db, writers, backups>>
  BY DEF Delete, To
<1>3. heard \subseteq TouchedKeys
  BY DEF DeletedObjects, TouchedKeys, ScopeKeys
<1>4. IsBucket(bucket') /\ \A j \in AllKeys \ TouchedKeys : bucket'[j] = bucket[j]
  BY <1>1, <1>3 DEF IsBucket
<1> QED BY <1>2, <1>4, TouchingKeeps

\* The operator's rollback, of any backup.
LEMMA RollbackKeeps ==
  ASSUME ScriptInv, NEW b, Rollback(b)
  PROVE  ScriptInv' /\ run'.stage = "undoing" /\ run'.scope \in {run.scope, bundle}
<1>1. PICK r : r = IF b = run.own THEN run ELSE NoRun
  OBVIOUS
<1>2. /\ ~writers /\ b \in 1..Len(backups) /\ db' = backups[b].db /\ PutsBack("undoing", b, r)
      /\ UNCHANGED <<bundle, bucket, writers, backups>> /\ run.stage \in AtRest
  BY <1>1 DEF Rollback, Guarded
<1>3. /\ IsRun(r) /\ r.own \in {0, b} /\ r.scope \in {run.scope, bundle}
      /\ r.own # 0 => r = run
  <2>1. CASE b = run.own
    BY <1>1, <2>1 DEF ScriptInv, ScriptTyped
  <2>2. CASE b # run.own
    BY <1>1, <2>2, NoRunFacts
  <2> QED BY <2>1, <2>2
<1>4. /\ run'.stage = "undoing" /\ run'.todo = DOMAIN backups[b].objects /\ run'.scope = r.scope
      /\ run'.own = r.own /\ run'.of = b /\ run'.was = r.was /\ IsRun(run')
  BY <1>2, <1>3, PutsBackFacts
<1>5. b # 0 /\ b \in 0..Len(backups) /\ 0 \in 0..Len(backups)
  <2>1. Len(backups) \in Nat
    BY DEF ScriptInv, ScriptTyped
  <2> QED BY <1>2, <2>1
<1>6. ScriptTyped'
  BY <1>2, <1>3, <1>4, <1>5 DEF ScriptInv, ScriptTyped, Stages
<1>7. BackupKnown'
  BY <1>2, <1>3, <1>4, <1>5 DEF BackupKnown, BackedUp
<1>8. run'.own # 0 => HasAllOf(backups[run.own], run.was)' /\ PutBack' /\ db' = backups'[run'.own].db
  <2>1. ASSUME run'.own # 0
        PROVE  HasAllOf(backups[run.own], run.was)' /\ PutBack' /\ db' = backups'[run'.own].db
    <3>1. r = run /\ run.own = b /\ run'.was = run.was /\ run'.own = run.own
      BY <1>3, <1>4, <2>1
    <3>2. HasAllOf(backups[run.own], run.was)
      BY <1>5, <3>1 DEF ScriptInv, Undoable
    <3>3. HasAllOf(backups[run.own], run.was)'
      BY <1>2, <3>1, <3>2, SameBackup
    <3> QED BY <1>2, <1>4, <3>1, <3>3 DEF PutBack
  <2> QED BY <2>1
<1>9. Undoable'
  BY <1>2, <1>4, <1>5, <1>8 DEF Undoable
<1> QED BY <1>3, <1>4, <1>6, <1>7, <1>9 DEF ScriptInv

\* One object is put back, or removed, or mc rm does not say so.
LEMMA RestoreObjectKeeps ==
  ASSUME ScriptInv, NEW k \in AllKeys, RestoreObject(k)
  PROVE  ScriptInv' /\ run'.stage = run.stage /\ run'.scope = run.scope
<1>1. /\ run.stage \in {"restoring", "undoing"} /\ k \in run.todo
      /\ Goes(run.stage, run.todo \ {k}) /\ UNCHANGED <<bundle, db, writers, backups>>
  BY DEF RestoreObject
<1>2. /\ run'.stage = run.stage /\ run'.todo = run.todo \ {k} /\ run'.scope = run.scope
      /\ run'.own = run.own /\ run'.of = run.of /\ run'.was = run.was /\ IsRun(run')
  BY <1>1, GoesFacts DEF ScriptInv, ScriptTyped
<1>3. PICK objects : objects = backups[run.of].objects
  OBVIOUS
<1>4. \/ objects[k] # Missing /\ bucket' = [bucket EXCEPT ![k] = objects[k]]
      \/ objects[k] = Missing /\ (bucket' = [bucket EXCEPT ![k] = Missing] \/ bucket' = bucket)
  BY <1>1, <1>3 DEF RestoreObject
<1>5. bucket = [j \in AllKeys |-> bucket[j]]
  BY DEF ScriptInv, ScriptTyped, IsBucket
<1>6. /\ IsBucket(bucket') /\ \A j \in AllKeys : j # k => bucket'[j] = bucket[j]
      /\ objects[k] = Missing \/ bucket'[k] = objects[k]
  <2>1. CASE bucket' = bucket /\ objects[k] = Missing
    BY <1>5, <2>1 DEF IsBucket
  <2>2. ASSUME NEW x, bucket' = [bucket EXCEPT ![k] = x], objects[k] \in {Missing, x}
        PROVE  /\ IsBucket(bucket') /\ \A j \in AllKeys : j # k => bucket'[j] = bucket[j]
               /\ objects[k] = Missing \/ bucket'[k] = objects[k]
    <3>1. bucket' = [j \in AllKeys |-> IF j = k THEN x ELSE bucket[j]]
      BY <1>5, <2>2
    <3> QED BY <2>2, <3>1 DEF IsBucket
  <2> QED BY <1>4, <2>1, <2>2
<1>7. run.own # 0 => run.of = run.own
  BY <1>1 DEF ScriptInv, BackupKnown
<1>8. k \in DOMAIN objects
  BY <1>1, <1>3 DEF ScriptInv, BackupKnown
<1>9. run.own # 0 => HasAllOf(backups[run.own], run.was)' /\ PutBack'
  <2>1. ASSUME run.own # 0
        PROVE  HasAllOf(backups[run.own], run.was)' /\ PutBack'
    <3>1. objects = backups[run.own].objects /\ HasAllOf(backups[run.own], run.was) /\ PutBack
      BY <1>1, <1>3, <1>7, <2>1 DEF ScriptInv, Undoable, Undoing
    <3>2. HasAllOf(backups[run.own], run.was)'
      BY <1>1, <1>2, <1>6, <1>8, <3>1, SameBackup
    <3>3. PutBack'
      BY <1>1, <1>2, <1>6, <3>1 DEF PutBack
    <3> QED BY <3>2, <3>3
  <2> QED BY <2>1
<1>10. ScriptTyped'
  BY <1>1, <1>2, <1>6 DEF ScriptInv, ScriptTyped
<1>11. BackupKnown'
  BY <1>1, <1>2 DEF ScriptInv, BackupKnown, BackedUp
<1>12. Undoable'
  <2>1. run.own = 0 => run.of # 0
    BY <1>1 DEF ScriptInv, BackupKnown, BackedUp
  <2> QED BY <1>1, <1>2, <1>9, <2>1 DEF ScriptInv, Undoable
<1> QED BY <1>2, <1>10, <1>11, <1>12 DEF ScriptInv

\* The writers, and the beginning of a run.
LEMMA OutsideKeeps ==
  ASSUME ScriptInv, Frozen,
         StopWriters \/ StartWriters \/ Start \/ \E k \in AllKeys : SaveDocument(k)
  PROVE  /\ ScriptInv' /\ (run' = run \/ run'.stage \in {"idle", "scoped"})
         /\ run' = run \/ run'.scope = bundle \/ (run'.scope = Extract(db) /\ db' = db)
<1>1. CASE StopWriters
  <2>1. UNCHANGED <<bundle, db, bucket, backups, run>> /\ writers' = FALSE
    BY <1>1 DEF StopWriters
  <2>2. /\ TouchedKeys' = TouchedKeys /\ SourceKeys' = SourceKeys /\ (PutBack' <=> PutBack)
        /\ HasAllOf(backups[run.own], run.was)' <=> HasAllOf(backups[run.own], run.was)
    BY <2>1 DEF TouchedKeys, SourceKeys, ScopeKeys, PutBack, HasAllOf
  <2> QED BY <2>1, <2>2 DEF ScriptInv, ScriptTyped, BackupKnown, Undoable
<1>2. ASSUME UNCHANGED <<bundle, bucket, backups>>, IsRun(run'), run'.own = 0, run'.of = 0,
             run'.stage \in {"idle", "scoped"}, run'.todo = {}
      PROVE  ScriptInv'
  <2>1. 0 \in 0..Len(backups)
    BY DEF ScriptInv, ScriptTyped
  <2>2. ScriptTyped'
    BY <1>2, <2>1 DEF ScriptInv, ScriptTyped, Stages, AtRest
  <2> QED BY <1>2, <2>2 DEF ScriptInv, BackupKnown, Undoable, BackedUp
<1>3. CASE StartWriters
  <2>1. run' = NoRun /\ UNCHANGED <<bundle, db, bucket, backups>>
    BY <1>3 DEF StartWriters
  <2> QED BY <1>2, <2>1, NoRunFacts
<1>4. CASE Start
  <2>1. /\ UNCHANGED <<bundle, db, bucket, writers, backups>>
        /\ run' = [NoRun EXCEPT !.stage = "scoped", !.scope = Extract(db)]
    BY <1>4 DEF Start
  <2>2. /\ run'.stage = "scoped" /\ run'.scope = Extract(db) /\ run'.own = 0 /\ run'.of = 0
        /\ run'.todo = {} /\ IsRun(run')
    BY <2>1 DEF NoRun, IsRun
  <2> QED BY <1>2, <2>1, <2>2
<1>5. ASSUME NEW k \in AllKeys, SaveDocument(k)
      PROVE  ScriptInv' /\ run' = run
  <2>1. /\ writers /\ bucket' = [bucket EXCEPT ![k] = "old"]
        /\ UNCHANGED <<bundle, writers, backups, run>>
    BY <1>5 DEF SaveDocument
  <2>2. run.stage \in {"idle", "scoped"} /\ run.own = 0 /\ run.of = 0
    BY <2>1 DEF ScriptInv, Undoable, BackupKnown
  <2>3. IsBucket(bucket')
    <3>1. bucket = [j \in AllKeys |-> bucket[j]]
      BY DEF ScriptInv, ScriptTyped, IsBucket
    <3>2. bucket' = [j \in AllKeys |-> IF j = k THEN "old" ELSE bucket[j]]
      BY <2>1, <3>1
    <3> QED BY <3>2 DEF IsBucket
  <2>4. ScriptTyped'
    BY <2>1, <2>3 DEF ScriptInv, ScriptTyped
  <2> QED BY <2>1, <2>2, <2>4 DEF ScriptInv, BackupKnown, Undoable, BackedUp
<1> QED BY <1>1, <1>3, <1>4, <1>5

\* Every step of the script, and of the other part.
LEMMA UndoKept ==
  ASSUME UndoInv, Frozen, [MCNext]_mcvars
  PROVE  UndoInv'
<1>1. CASE UNCHANGED <<avars, part>>
  <2>1. UNCHANGED <<bundle, db, bucket, writers, backups, run, part>>
    BY <1>1 DEF avars
  <2>2. /\ TouchedKeys' = TouchedKeys /\ SourceKeys' = SourceKeys /\ (PutBack' <=> PutBack)
        /\ HasAllOf(backups[run.own], run.was)' <=> HasAllOf(backups[run.own], run.was)
    BY <2>1 DEF TouchedKeys, SourceKeys, ScopeKeys, PutBack, HasAllOf
  <2> QED BY <2>1, <2>2 DEF UndoInv, ScriptInv, ScriptTyped, BackupKnown, Undoable
<1>2. CASE part = "script" /\ ANext /\ UNCHANGED part
  <2>1. ScriptInv
    BY <1>2 DEF UndoInv
  <2>2. ScriptInv'
    BY <1>2, <2>1, EndKeeps, PreflightKeeps, BackUpKeeps, WriteObjectKeeps, SqlKeeps,
       DeleteKeeps, RollbackKeeps, RestoreObjectKeeps, OutsideKeeps DEF ANext
  <2> QED BY <1>2, <2>2 DEF UndoInv
<1> QED BY <1>1, <1>2 DEF MCNext, mcvars

\* No run has begun.
LEMMA UndoInit == MCInit => UndoInv
<1>1. ASSUME part = "script", AInit
      PROVE  UndoInv
  <2>1. /\ run = NoRun /\ backups = <<>>
        /\ bucket = [k \in AllKeys |-> IF k \in DOMAIN BuildObjects(db) THEN "old" ELSE Missing]
    BY <1>1 DEF AInit
  <2>2. /\ IsRun(run) /\ run.stage = "idle" /\ run.own = 0 /\ run.of = 0
    BY <2>1, NoRunFacts
  <2>3. backups \in Seq(Range(backups)) /\ IsBucket(bucket) /\ 0 \in 0..Len(backups)
    BY <2>1 DEF IsBucket
  <2> QED BY <1>1, <2>2, <2>3 DEF UndoInv, ScriptInv, ScriptTyped, BackupKnown, Undoable,
            BackedUp, Stages, AtRest
<1>2. ASSUME part = "review", NoScript
      PROVE  UndoInv
  BY <1>2, NoRunFacts DEF NoScript, UndoInv
<1> QED BY <1>1, <1>2 DEF MCInit

\* With any bundles, target databases and object keys, whether or not mc and COMMIT
\* answer: wherever a run of apply ends or is cut off, or a rollback of it, database
\* and bucket are as before, or the run's backup has what it has changed, but for the
\* objects that mc stat did not tell of; and what the script says it has put back is.
THEOREM RunsCanBeUndone ==
  ASSUME Frozen
  PROVE  MCSpec => []ChangesAreUndone
<1>1. UndoInv /\ [MCNext]_mcvars => UndoInv'
  BY UndoKept
<1>2. UndoInv => ChangesAreUndone
  BY UndoableIsUndone
<1> QED BY UndoInit, <1>1, <1>2, PTL DEF MCSpec

----------------------------------------------------------------------------
(* Rows with natural keys *)

\* The row of a key has it, and is the only one where keys are unique.
LEMMA RowOfFacts ==
  ASSUME NEW rows
  PROVE  /\ \A k \in Keys(rows) : RowOf(rows, k) \in DOMAIN rows /\ rows[RowOf(rows, k)].key = k
         /\ \A i \in DOMAIN rows : rows[i].key \in Keys(rows)
         /\ KeysAreUnique(rows) => \A i \in DOMAIN rows : RowOf(rows, rows[i].key) = i
<1>1. ASSUME NEW k \in Keys(rows)
      PROVE  RowOf(rows, k) \in DOMAIN rows /\ rows[RowOf(rows, k)].key = k
  <2>1. \E i \in DOMAIN rows : rows[i].key = k
    BY DEF Keys
  <2> QED BY <2>1 DEF RowOf
<1>2. \A i \in DOMAIN rows : rows[i].key \in Keys(rows)
  BY DEF Keys
<1> QED BY <1>1, <1>2 DEF KeysAreUnique

\* No two incoming rows get the same UUID.
LEMMA IdsAreApart ==
  ASSUME NEW rows, NEW old, KeysAreUnique(rows), ~Collides(rows, old),
         NEW i \in DOMAIN rows, NEW j \in DOMAIN rows, Ids(rows, old)[i] = Ids(rows, old)[j]
  PROVE  i = j
<1>1. /\ Ids(rows, old)[i] = IF rows[i].key \in Keys(old) THEN RowOf(old, rows[i].key) ELSE i
      /\ Ids(rows, old)[j] = IF rows[j].key \in Keys(old) THEN RowOf(old, rows[j].key) ELSE j
  BY DEF Ids, TargetId
<1>2. Ids(rows, old)[i] = i \/ Ids(rows, old)[i] # j
  BY DEF Collides
<1>3. Ids(rows, old)[j] = j \/ Ids(rows, old)[j] # i
  BY DEF Collides
<1>4. CASE rows[i].key \in Keys(old) /\ rows[j].key \in Keys(old)
  <2>1. \A k \in Keys(old) : old[RowOf(old, k)].key = k
    BY RowOfFacts
  <2>2. RowOf(old, rows[i].key) = RowOf(old, rows[j].key)
    BY <1>1, <1>4
  <2>3. rows[i].key = rows[j].key
    BY <1>4, <2>1, <2>2
  <2> QED BY <2>3 DEF KeysAreUnique
<1> QED BY <1>1, <1>2, <1>3, <1>4

\* What the upsert of remapped rows leaves: every incoming row, under its UUID in the
\* target, and the other rows of the target.
Laid(rows, old, ids, new) ==
  /\ DOMAIN ids = DOMAIN rows
  /\ DOMAIN new = DOMAIN old \cup Range(ids)
  /\ \A i \in DOMAIN rows : ids[i] \in DOMAIN new /\ ids[i] \in Range(ids) /\ new[ids[i]] = rows[i]
  /\ \A j \in DOMAIN old \ Range(ids) : j \in DOMAIN new /\ new[j] = old[j]
  /\ \A j \in Range(ids) : \E i \in DOMAIN rows : j = ids[i]

\* The upsert lays the incoming rows so.
LEMMA UpsertedFacts ==
  ASSUME NEW rows, NEW old, KeysAreUnique(rows), ~Collides(rows, old)
  PROVE  Laid(rows, old, Ids(rows, old), Upserted(rows, old))
<1> SUFFICES ASSUME NEW ids, ids = Ids(rows, old), NEW new, new = Upserted(rows, old)
    PROVE Laid(rows, old, ids, new)
  OBVIOUS
<1>1. DOMAIN ids = DOMAIN rows
  BY DEF Ids
<1>2. new = [j \in DOMAIN old \cup Range(ids) |->
               IF j \in Range(ids) THEN rows[CHOOSE i \in DOMAIN rows : ids[i] = j] ELSE old[j]]
  BY DEF Upserted
<1>3. ASSUME NEW i \in DOMAIN rows
      PROVE  /\ ids[i] \in Range(ids)
             /\ (CHOOSE x \in DOMAIN rows : ids[x] = ids[i]) = i
  <2>1. ids[i] \in Range(ids)
    BY <1>1 DEF Range
  <2>2. \A x \in DOMAIN rows : ids[x] = ids[i] => x = i
    BY IdsAreApart
  <2> QED BY <2>1, <2>2
<1>4. \A i \in DOMAIN rows : ids[i] \in DOMAIN new /\ new[ids[i]] = rows[i]
  BY <1>2, <1>3
<1>5. \A j \in Range(ids) : \E i \in DOMAIN rows : j = ids[i]
  BY <1>1 DEF Range
<1> QED BY <1>1, <1>2, <1>3, <1>4, <1>5 DEF Laid

\* A row of the target keeps its key where UUIDs agree, and is replaced by the incoming
\* row of that key, if there is one, and by no other.
LEMMA OldRows ==
  ASSUME NEW rows, NEW old, NEW ids, NEW new, Laid(rows, old, ids, new), ids = Ids(rows, old),
         KeysAreUnique(old),
         \A i \in DOMAIN rows \cap DOMAIN old : rows[i].key = old[i].key, NEW j \in DOMAIN old
  PROVE  /\ j \in DOMAIN new /\ new[j].key = old[j].key
         /\ \/ old[j].key \notin Keys(rows) /\ new[j] = old[j]
            \/ \E i \in DOMAIN rows : rows[i].key = old[j].key /\ j = ids[i] /\ new[j] = rows[i]
<1>1. \A i \in DOMAIN rows :
        ids[i] = IF rows[i].key \in Keys(old) THEN RowOf(old, rows[i].key) ELSE i
  BY DEF Ids, TargetId
<1>2. /\ \A k \in Keys(old) : old[RowOf(old, k)].key = k
      /\ old[j].key \in Keys(old) /\ RowOf(old, old[j].key) = j
  BY RowOfFacts
<1>3. CASE j \notin Range(ids)
  <2>1. j \in DOMAIN new /\ new[j] = old[j]
    BY <1>3 DEF Laid
  <2>2. ASSUME NEW i \in DOMAIN rows, rows[i].key = old[j].key
        PROVE  FALSE
    <3>1. ids[i] = j
      BY <1>1, <1>2, <2>2
    <3> QED BY <1>3, <3>1 DEF Laid
  <2>3. old[j].key \notin Keys(rows)
    BY <2>2 DEF Keys
  <2> QED BY <2>1, <2>3
<1>4. CASE j \in Range(ids)
  <2>1. PICK i \in DOMAIN rows : j = ids[i]
    BY <1>4 DEF Laid
  <2>2. j \in DOMAIN new /\ new[j] = rows[i]
    BY <2>1 DEF Laid
  <2>3. rows[i].key = old[j].key
    BY <1>1, <1>2, <2>1
  <2> QED BY <2>1, <2>2, <2>3
<1> QED BY <1>3, <1>4

----------------------------------------------------------------------------
(* What apply.sql leaves, and what compare-target finds *)

\* The tables of an extraction.
LEMMA ExtractTables ==
  ASSUME NEW d, IsDatabase(d)
  PROVE  /\ Extract(d).reminder = NormalizeReminders(d.reminder)
         /\ Extract(d).doc = d.doc /\ Extract(d).asset = d.asset /\ Extract(d).ref = d.ref
         /\ Extract(d).cache = [c \in Referenced(d) |-> d.cache[c]]
         /\ Referenced(Extract(d)) = Referenced(d)
<1>1. d \in [reminder : {d.reminder}, doc : {d.doc}, asset : {d.asset},
             cache : {d.cache}, ref : {d.ref}]
  BY DEF IsDatabase
<1>2. Extract(d) = [d EXCEPT !.reminder = NormalizeReminders(d.reminder),
                            !.cache = Restrict(d.cache, Referenced(d))]
  BY DEF Extract
<1>3. /\ Extract(d).reminder = NormalizeReminders(d.reminder)
      /\ Extract(d).doc = d.doc /\ Extract(d).asset = d.asset /\ Extract(d).ref = d.ref
      /\ Extract(d).cache = Restrict(d.cache, Referenced(d))
  <2> HIDE DEF Restrict, Referenced, NormalizeReminders
  <2> QED BY <1>1, <1>2
<1>4. Referenced(Extract(d)) = Referenced(d)
  BY <1>3 DEF Referenced
<1> QED BY <1>3, <1>4 DEF Restrict

\* Normalizing twice is normalizing once.
LEMMA NormalizedOnce ==
  ASSUME NEW rows, \A i \in DOMAIN rows : rows[i] \in [status : {rows[i].status}, due : Nat],
         NEW new, new = NormalizeReminders(rows)
  PROVE  /\ DOMAIN new = DOMAIN rows /\ NormalizeReminders(new) = new
         /\ \A i \in DOMAIN new : /\ new[i] \in [status : {new[i].status}, due : Nat]
                                  /\ new[i].status = "PENDING" => new[i].due > Cutoff
<1>1. ASSUME NEW row, row \in [status : {row.status}, due : Nat], NEW x, x = Skipped(row)
      PROVE  /\ x \in [status : {x.status}, due : Nat] /\ Skipped(x) = x
             /\ x.status = "PENDING" => x.due > Cutoff
  <2>1. CASE row.status \in {"PENDING", "FAILED"} /\ row.due <= Cutoff
    <3>1. x = [row EXCEPT !.status = "SKIPPED"]
      BY <1>1, <2>1 DEF Skipped
    <3>2. x.status = "SKIPPED" /\ x \in [status : {x.status}, due : Nat]
      BY <1>1, <3>1
    <3>3. Skipped(x) = x
      BY <3>2 DEF Skipped
    <3> QED BY <3>2, <3>3
  <2>2. CASE ~(row.status \in {"PENDING", "FAILED"} /\ row.due <= Cutoff)
    <3>1. x = row
      BY <1>1, <2>2 DEF Skipped
    <3>2. Cutoff \in Nat /\ row.due \in Nat
      BY <1>1, CutoffAssumption
    <3>3. Skipped(x) = x
      BY <2>2, <3>1 DEF Skipped
    <3> QED BY <1>1, <2>2, <3>1, <3>2, <3>3
  <2> QED BY <2>1, <2>2
<1>2. new = [i \in DOMAIN rows |-> Skipped(rows[i])]
  BY DEF NormalizeReminders
<1>3. \A i \in DOMAIN rows : /\ new[i] \in [status : {new[i].status}, due : Nat]
                             /\ Skipped(new[i]) = new[i]
                             /\ new[i].status = "PENDING" => new[i].due > Cutoff
  BY <1>1, <1>2
<1>4. NormalizeReminders(new) = [i \in DOMAIN rows |-> Skipped(new[i])]
  BY <1>2 DEF NormalizeReminders
<1>5. NormalizeReminders(new) = new
  BY <1>2, <1>3, <1>4
<1> QED BY <1>2, <1>3, <1>5

\* References are remapped, their keys kept.
LEMMA RemappedRows ==
  ASSUME NEW s, NEW d, IsDatabase(s)
  PROVE  /\ DOMAIN Remapped(s, d) = DOMAIN s.ref
         /\ \A r \in DOMAIN s.ref :
              /\ s.ref[r].cache \in DOMAIN s.cache
              /\ Remapped(s, d)[r].key = s.ref[r].key
              /\ Remapped(s, d)[r].cache = Ids(s.cache, d.cache)[s.ref[r].cache]
         /\ Keys(Remapped(s, d)) = Keys(s.ref)
         /\ KeysAreUnique(Remapped(s, d)) <=> KeysAreUnique(s.ref)
         /\ Ids(Remapped(s, d), d.ref) = Ids(s.ref, d.ref)
         /\ Collides(Remapped(s, d), d.ref) <=> Collides(s.ref, d.ref)
<1> SUFFICES ASSUME NEW m, m = Remapped(s, d), NEW ids, ids = Ids(s.cache, d.cache)
    PROVE /\ DOMAIN m = DOMAIN s.ref
          /\ \A r \in DOMAIN s.ref :
               s.ref[r].cache \in DOMAIN s.cache /\ m[r].key = s.ref[r].key
                 /\ m[r].cache = ids[s.ref[r].cache]
          /\ Keys(m) = Keys(s.ref) /\ (KeysAreUnique(m) <=> KeysAreUnique(s.ref))
          /\ Ids(m, d.ref) = Ids(s.ref, d.ref)
          /\ Collides(m, d.ref) <=> Collides(s.ref, d.ref)
  OBVIOUS
<1>1. m = [r \in DOMAIN s.ref |-> [s.ref[r] EXCEPT !.cache = ids[s.ref[r].cache]]]
  BY DEF Remapped
<1>2. \A r \in DOMAIN s.ref : s.ref[r] \in [key : Keys(s.ref), cache : DOMAIN s.cache]
  BY DEF IsDatabase
<1>3. ASSUME NEW r \in DOMAIN s.ref
      PROVE  /\ s.ref[r].cache \in DOMAIN s.cache
             /\ m[r].key = s.ref[r].key /\ m[r].cache = ids[s.ref[r].cache]
  <2>1. s.ref[r] \in [key : Keys(s.ref), cache : DOMAIN s.cache]
    BY <1>2
  <2>2. m[r] = [s.ref[r] EXCEPT !.cache = ids[s.ref[r].cache]]
    BY <1>1
  <2> HIDE DEF Keys
  <2> QED BY <2>1, <2>2
<1>4. DOMAIN m = DOMAIN s.ref
  BY <1>1
<1>5. Keys(m) = Keys(s.ref) /\ (KeysAreUnique(m) <=> KeysAreUnique(s.ref))
  BY <1>3, <1>4 DEF Keys, KeysAreUnique
<1>6. Ids(m, d.ref) = Ids(s.ref, d.ref)
  BY <1>3, <1>4 DEF Ids, TargetId
<1>7. Collides(m, d.ref) <=> Collides(s.ref, d.ref)
  BY <1>4, <1>6 DEF Collides
<1> QED BY <1>3, <1>4, <1>5, <1>6, <1>7

\* The new tables n hold bundle s over target d: each incoming cache and reference
\* under its UUID there, ci and ri, with the other rows of d.
Merged(s, d, n, ci, ri) ==
  /\ Laid(s.cache, d.cache, ci, n.cache) /\ Laid(Remapped(s, d), d.ref, ri, n.ref)
  /\ ci = Ids(s.cache, d.cache) /\ ri = Ids(s.ref, d.ref)
  /\ KeysAreUnique(n.cache) /\ KeysAreUnique(n.ref)
  /\ \A r \in DOMAIN n.ref : n.ref[r].cache \in DOMAIN n.cache
  /\ n.reminder = s.reminder /\ n.doc = s.doc /\ n.asset = Upsert(s.asset, d.asset)

\* The transaction leaves them so, wherever it passes.
LEMMA AppliedIsMerged ==
  ASSUME NEW s, NEW d, IsBundle(s), IsDatabase(d), SqlApplies(s, d)
  PROVE  Merged(s, d, ApplySql(s, d), Ids(s.cache, d.cache), Ids(s.ref, d.ref))
<1> SUFFICES ASSUME NEW n, n = ApplySql(s, d), NEW ci, ci = Ids(s.cache, d.cache),
                    NEW ri, ri = Ids(s.ref, d.ref), NEW m, m = Remapped(s, d)
    PROVE Merged(s, d, n, ci, ri)
  OBVIOUS
<1>1. /\ n.reminder = NormalizeReminders(s.reminder) /\ n.doc = s.doc
      /\ n.asset = Upsert(s.asset, d.asset)
      /\ n.cache = Upserted(s.cache, d.cache) /\ n.ref = Upserted(m, d.ref)
  <2>1. n = [reminder |-> NormalizeReminders(s.reminder), doc |-> s.doc,
             asset |-> Upsert(s.asset, d.asset), cache |-> Upserted(s.cache, d.cache),
             ref |-> Upserted(m, d.ref)]
    BY DEF ApplySql
  <2> QED BY <2>1
<1>2. /\ KeysAreUnique(s.cache) /\ KeysAreUnique(s.ref) /\ IsDatabase(s)
      /\ NormalizeReminders(s.reminder) = s.reminder
  BY DEF IsBundle, Contract
<1>3. /\ ~Collides(s.cache, d.cache) /\ ~Collides(s.ref, d.ref)
      /\ KeysAreUnique(n.cache) /\ KeysAreUnique(n.ref)
      /\ \A r \in DOMAIN s.ref : m[r].cache \in DOMAIN n.cache
  BY <1>1 DEF SqlApplies
<1>4. Laid(s.cache, d.cache, ci, n.cache)
  BY <1>1, <1>2, <1>3, UpsertedFacts
<1>5. DOMAIN m = DOMAIN s.ref /\ KeysAreUnique(m) /\ ~Collides(m, d.ref)
  BY <1>2, <1>3, RemappedRows
<1>6. Ids(m, d.ref) = ri
  BY <1>2, RemappedRows
<1>7. Laid(m, d.ref, ri, n.ref)
  BY <1>1, <1>5, <1>6, UpsertedFacts
<1>8. ASSUME NEW r \in DOMAIN n.ref
      PROVE  n.ref[r].cache \in DOMAIN n.cache
  <2>1. CASE r \in Range(ri)
    <3>1. PICK q \in DOMAIN m : r = ri[q]
      BY <1>7, <2>1 DEF Laid
    <3>2. n.ref[r] = m[q]
      BY <1>7, <3>1 DEF Laid
    <3> QED BY <1>3, <1>5, <3>2
  <2>2. CASE r \notin Range(ri)
    <3>1. r \in DOMAIN d.ref /\ n.ref[r] = d.ref[r]
      BY <1>7, <2>2 DEF Laid
    <3>2. d.ref[r] \in [key : Keys(d.ref), cache : DOMAIN d.cache]
      BY <3>1 DEF IsDatabase
    <3>3. d.ref[r].cache \in DOMAIN d.cache
      BY <3>2
    <3>4. DOMAIN d.cache \subseteq DOMAIN n.cache
      BY <1>4 DEF Laid
    <3> QED BY <3>1, <3>3, <3>4
  <2> QED BY <2>1, <2>2
<1> QED BY <1>1, <1>2, <1>3, <1>4, <1>7, <1>8 DEF Merged

\* The logical rows of caches and of references, by key.
LEMMA LogicalByKey ==
  ASSUME NEW d, KeysAreUnique(d.cache), KeysAreUnique(d.ref)
  PROVE  /\ DOMAIN LogicalCaches(d) = Keys(d.cache)
         /\ \A c \in DOMAIN d.cache : /\ d.cache[c].key \in Keys(d.cache)
                                      /\ LogicalCaches(d)[d.cache[c].key] = d.cache[c].obj
         /\ \A k \in Keys(d.cache) : \E c \in DOMAIN d.cache : k = d.cache[c].key
         /\ DOMAIN LogicalRefs(d) = Keys(d.ref)
         /\ \A r \in DOMAIN d.ref : /\ d.ref[r].key \in Keys(d.ref)
                                    /\ LogicalRefs(d)[d.ref[r].key] = d.cache[d.ref[r].cache].key
         /\ \A k \in Keys(d.ref) : \E r \in DOMAIN d.ref : k = d.ref[r].key
<1>1. ASSUME NEW rows, KeysAreUnique(rows)
      PROVE  \A i \in DOMAIN rows : rows[i].key \in Keys(rows) /\ RowOf(rows, rows[i].key) = i
  BY <1>1, RowOfFacts
<1>2. /\ LogicalCaches(d) = [k \in Keys(d.cache) |-> d.cache[RowOf(d.cache, k)].obj]
      /\ LogicalRefs(d) = [k \in Keys(d.ref) |-> d.cache[d.ref[RowOf(d.ref, k)].cache].key]
  BY DEF LogicalCaches, LogicalRefs
<1>3. /\ \A c \in DOMAIN d.cache : d.cache[c].key \in Keys(d.cache) /\ RowOf(d.cache, d.cache[c].key) = c
      /\ \A r \in DOMAIN d.ref : d.ref[r].key \in Keys(d.ref) /\ RowOf(d.ref, d.ref[r].key) = r
  BY <1>1
<1>4. /\ \A k \in Keys(d.cache) : \E c \in DOMAIN d.cache : k = d.cache[c].key
      /\ \A k \in Keys(d.ref) : \E r \in DOMAIN d.ref : k = d.ref[r].key
  BY DEF Keys
<1> QED BY <1>2, <1>3, <1>4

\* The databases after an apply, and their scope, have what the schema and the
\* natural keys say; the scope's caches are those of its references.
LEMMA MergedScope ==
  ASSUME NEW s, NEW d, NEW n, NEW ci, NEW ri, IsBundle(s), Merged(s, d, n, ci, ri),
         IsDatabase(n), NEW e, e = Extract(n)
  PROVE  /\ Contract(e) /\ e.reminder = s.reminder /\ e.doc = s.doc
         /\ e.asset = Upsert(s.asset, d.asset) /\ e.ref = n.ref
         /\ e.cache = [c \in Referenced(n) |-> n.cache[c]] /\ Referenced(n) \subseteq DOMAIN n.cache
<1>1. /\ e.reminder = NormalizeReminders(n.reminder) /\ e.doc = n.doc /\ e.asset = n.asset
      /\ e.ref = n.ref /\ e.cache = [c \in Referenced(n) |-> n.cache[c]]
      /\ Referenced(e) = Referenced(n)
  BY ExtractTables
<1>2. /\ n.reminder = s.reminder /\ n.doc = s.doc /\ n.asset = Upsert(s.asset, d.asset)
      /\ KeysAreUnique(n.cache) /\ KeysAreUnique(n.ref)
      /\ \A r \in DOMAIN n.ref : n.ref[r].cache \in DOMAIN n.cache
  BY DEF Merged
<1>3. Referenced(n) \subseteq DOMAIN n.cache
  BY <1>2 DEF Referenced
<1>4. KeysAreUnique(e.cache)
  BY <1>1, <1>2, <1>3 DEF KeysAreUnique
<1>5. Contract(e)
  BY <1>1, <1>2, <1>4 DEF Contract
<1>6. NormalizeReminders(s.reminder) = s.reminder
  BY DEF IsBundle
<1> QED BY <1>1, <1>2, <1>3, <1>5, <1>6

\* Where the incoming rows are in the scope of the merged tables.
LEMMA IncomingRows ==
  ASSUME NEW s, NEW d, NEW n, NEW ci, NEW ri, IsBundle(s), Merged(s, d, n, ci, ri)
  PROVE  /\ \A i \in DOMAIN s.cache : ci[i] \in Referenced(n) /\ n.cache[ci[i]] = s.cache[i]
         /\ \A r \in DOMAIN s.ref : /\ ri[r] \in DOMAIN n.ref /\ n.ref[ri[r]].key = s.ref[r].key
                                    /\ s.ref[r].cache \in DOMAIN s.cache
                                    /\ n.ref[ri[r]].cache = ci[s.ref[r].cache]
<1>1. IsDatabase(s) /\ Referenced(s) = DOMAIN s.cache
  BY DEF IsBundle
<1>2. ci = Ids(s.cache, d.cache)
  BY DEF Merged
<1>3. /\ DOMAIN Remapped(s, d) = DOMAIN s.ref
      /\ \A r \in DOMAIN s.ref : /\ s.ref[r].cache \in DOMAIN s.cache
                                 /\ Remapped(s, d)[r].key = s.ref[r].key
                                 /\ Remapped(s, d)[r].cache = ci[s.ref[r].cache]
  BY <1>1, <1>2, RemappedRows
<1>4. \A r \in DOMAIN Remapped(s, d) : ri[r] \in DOMAIN n.ref /\ n.ref[ri[r]] = Remapped(s, d)[r]
  BY DEF Merged, Laid
<1>5. \A r \in DOMAIN s.ref : /\ ri[r] \in DOMAIN n.ref /\ n.ref[ri[r]].key = s.ref[r].key
                              /\ s.ref[r].cache \in DOMAIN s.cache
                              /\ n.ref[ri[r]].cache = ci[s.ref[r].cache]
  BY <1>3, <1>4
<1>6. \A i \in DOMAIN s.cache : n.cache[ci[i]] = s.cache[i]
  BY DEF Merged, Laid
<1>7. ASSUME NEW i \in DOMAIN s.cache
      PROVE  ci[i] \in Referenced(n)
  <2>1. PICK r \in DOMAIN s.ref : s.ref[r].cache = i
    BY <1>1 DEF Referenced
  <2>2. ri[r] \in DOMAIN n.ref /\ n.ref[ri[r]].cache = ci[i]
    BY <1>5, <2>1
  <2> QED BY <2>2 DEF Referenced
<1> QED BY <1>5, <1>6, <1>7

\* What apply.sql writes for a bundle is what compare-target looks for.
LEMMA CompareAccepts ==
  ASSUME NEW s, NEW d, NEW n, NEW ci, NEW ri, IsBundle(s), Merged(s, d, n, ci, ri), IsDatabase(n)
  PROVE  CompareTarget(s, Extract(n))
<1> SUFFICES ASSUME NEW e, e = Extract(n) PROVE CompareTarget(s, e)
  OBVIOUS
<1>1. /\ Contract(e) /\ e.reminder = s.reminder /\ e.doc = s.doc
      /\ e.asset = Upsert(s.asset, d.asset) /\ e.ref = n.ref
      /\ e.cache = [c \in Referenced(n) |-> n.cache[c]] /\ Referenced(n) \subseteq DOMAIN n.cache
  BY MergedScope
<1>2. Contract(s)
  BY DEF IsBundle
<1>3. /\ \A i \in DOMAIN s.cache : ci[i] \in DOMAIN e.cache /\ e.cache[ci[i]] = s.cache[i]
      /\ \A r \in DOMAIN s.ref : /\ ri[r] \in DOMAIN e.ref /\ e.ref[ri[r]].key = s.ref[r].key
                                 /\ s.ref[r].cache \in DOMAIN s.cache
                                 /\ e.ref[ri[r]].cache = ci[s.ref[r].cache]
  <2>1. /\ \A i \in DOMAIN s.cache : ci[i] \in Referenced(n) /\ n.cache[ci[i]] = s.cache[i]
        /\ \A r \in DOMAIN s.ref : /\ ri[r] \in DOMAIN n.ref /\ n.ref[ri[r]].key = s.ref[r].key
                                   /\ s.ref[r].cache \in DOMAIN s.cache
                                   /\ n.ref[ri[r]].cache = ci[s.ref[r].cache]
    BY IncomingRows
  <2> QED BY <1>1, <2>1
<1>4. /\ KeysAreUnique(e.cache) /\ KeysAreUnique(e.ref)
      /\ KeysAreUnique(s.cache) /\ KeysAreUnique(s.ref)
  BY <1>1, <1>2 DEF Contract
<1>5. /\ DOMAIN LogicalCaches(s) = Keys(s.cache)
      /\ \A c \in DOMAIN s.cache : LogicalCaches(s)[s.cache[c].key] = s.cache[c].obj
      /\ \A k \in Keys(s.cache) : \E c \in DOMAIN s.cache : k = s.cache[c].key
      /\ DOMAIN LogicalRefs(s) = Keys(s.ref)
      /\ \A r \in DOMAIN s.ref : LogicalRefs(s)[s.ref[r].key] = s.cache[s.ref[r].cache].key
      /\ \A k \in Keys(s.ref) : \E r \in DOMAIN s.ref : k = s.ref[r].key
  BY <1>4, LogicalByKey
<1>6. /\ DOMAIN LogicalCaches(e) = Keys(e.cache)
      /\ \A c \in DOMAIN e.cache : /\ e.cache[c].key \in Keys(e.cache)
                                   /\ LogicalCaches(e)[e.cache[c].key] = e.cache[c].obj
      /\ DOMAIN LogicalRefs(e) = Keys(e.ref)
      /\ \A r \in DOMAIN e.ref : /\ e.ref[r].key \in Keys(e.ref)
                                 /\ LogicalRefs(e)[e.ref[r].key] = e.cache[e.ref[r].cache].key
  BY <1>4, LogicalByKey
<1>7. ASSUME NEW k \in DOMAIN LogicalCaches(s)
      PROVE  k \in DOMAIN LogicalCaches(e) /\ LogicalCaches(e)[k] = LogicalCaches(s)[k]
  <2>1. PICK c \in DOMAIN s.cache : k = s.cache[c].key
    BY <1>5
  <2>2. ci[c] \in DOMAIN e.cache /\ e.cache[ci[c]] = s.cache[c]
    BY <1>3
  <2>3. k \in Keys(e.cache) /\ LogicalCaches(e)[k] = s.cache[c].obj
    BY <1>6, <2>1, <2>2
  <2> QED BY <1>5, <1>6, <2>1, <2>3
<1>8. ASSUME NEW k \in DOMAIN LogicalRefs(s)
      PROVE  k \in DOMAIN LogicalRefs(e) /\ LogicalRefs(e)[k] = LogicalRefs(s)[k]
  <2>1. PICK r \in DOMAIN s.ref : k = s.ref[r].key
    BY <1>5
  <2>2. /\ ri[r] \in DOMAIN e.ref /\ e.ref[ri[r]].key = k /\ s.ref[r].cache \in DOMAIN s.cache
        /\ e.ref[ri[r]].cache = ci[s.ref[r].cache]
    BY <1>3, <2>1
  <2>3. k \in Keys(e.ref) /\ LogicalRefs(e)[k] = e.cache[ci[s.ref[r].cache]].key
    BY <1>6, <2>2
  <2>4. e.cache[ci[s.ref[r].cache]] = s.cache[s.ref[r].cache]
    BY <1>3, <2>2
  <2> QED BY <1>5, <1>6, <2>1, <2>3, <2>4
<1>9. ASSUME NEW t \in Tables
      PROVE  /\ \A i \in DOMAIN LogicalRows(s, t) :
                  i \in DOMAIN LogicalRows(e, t) /\ LogicalRows(e, t)[i] = LogicalRows(s, t)[i]
             /\ t \in Supersets \/ DOMAIN LogicalRows(e, t) = DOMAIN LogicalRows(s, t)
  <2>1. CASE t = "cache"
    BY <1>7, <2>1 DEF LogicalRows, Supersets
  <2>2. CASE t = "ref"
    BY <1>8, <2>2 DEF LogicalRows, Supersets
  <2>3. CASE t = "asset"
    <3>1. LogicalRows(s, t) = s.asset /\ LogicalRows(e, t) = Upsert(s.asset, d.asset)
      BY <1>1, <2>3 DEF LogicalRows
    <3> QED BY <2>3, <3>1 DEF Upsert, Supersets
  <2>4. CASE t \in {"reminder", "doc"}
    <3>1. LogicalRows(s, t) = LogicalRows(e, t)
      BY <1>1, <2>4 DEF LogicalRows
    <3> QED BY <3>1
  <2> QED BY <2>1, <2>2, <2>3, <2>4 DEF Tables
<1> QED BY <1>1, <1>2, <1>9 DEF CompareTarget

----------------------------------------------------------------------------
(* What the plan had said *)

\* Two databases that hold a UUID hold it for the same natural key.
Agreed(s, d) ==
  /\ \A i \in DOMAIN s.cache \cap DOMAIN d.cache : s.cache[i].key = d.cache[i].key
  /\ \A r \in DOMAIN s.ref \cap DOMAIN d.ref : s.ref[r].key = d.ref[r].key

\* New logical rows over old ones: the incoming ones replace, and appear in the new
\* scope, and nothing else does.
Overlaid(in, old, new, scope) ==
  /\ DOMAIN old \subseteq DOMAIN new
  /\ \A k \in DOMAIN old : new[k] = IF k \in DOMAIN in THEN in[k] ELSE old[k]
  /\ DOMAIN in \subseteq DOMAIN scope /\ DOMAIN scope \subseteq DOMAIN in \cup DOMAIN old

\* The target's own rows after the apply.
LEMMA TargetRows ==
  ASSUME NEW s, NEW d, NEW n, NEW ci, NEW ri, IsBundle(s), IsDatabase(d), Contract(d), Agreed(s, d),
         Merged(s, d, n, ci, ri)
  PROVE  /\ \A c \in DOMAIN d.cache :
              /\ c \in DOMAIN n.cache /\ n.cache[c].key = d.cache[c].key
              /\ \/ d.cache[c].key \notin Keys(s.cache) /\ n.cache[c] = d.cache[c]
                 \/ \E i \in DOMAIN s.cache : s.cache[i].key = d.cache[c].key /\ n.cache[c] = s.cache[i]
         /\ \A r \in DOMAIN d.ref :
              /\ r \in DOMAIN n.ref /\ n.ref[r].key = d.ref[r].key
              /\ \/ d.ref[r].key \notin Keys(s.ref) /\ n.ref[r] = d.ref[r]
                 \/ \E q \in DOMAIN s.ref : s.ref[q].key = d.ref[r].key /\ r = ri[q]
<1> SUFFICES ASSUME NEW m, m = Remapped(s, d)
    PROVE /\ \A c \in DOMAIN d.cache :
               /\ c \in DOMAIN n.cache /\ n.cache[c].key = d.cache[c].key
               /\ \/ d.cache[c].key \notin Keys(s.cache) /\ n.cache[c] = d.cache[c]
                  \/ \E i \in DOMAIN s.cache : s.cache[i].key = d.cache[c].key /\ n.cache[c] = s.cache[i]
          /\ \A r \in DOMAIN d.ref :
               /\ r \in DOMAIN n.ref /\ n.ref[r].key = d.ref[r].key
               /\ \/ d.ref[r].key \notin Keys(s.ref) /\ n.ref[r] = d.ref[r]
                  \/ \E q \in DOMAIN s.ref : s.ref[q].key = d.ref[r].key /\ r = ri[q]
  OBVIOUS
<1>1. /\ Laid(s.cache, d.cache, ci, n.cache) /\ Laid(m, d.ref, ri, n.ref)
      /\ ci = Ids(s.cache, d.cache) /\ ri = Ids(s.ref, d.ref)
  BY DEF Merged
<1>2. KeysAreUnique(d.cache) /\ KeysAreUnique(d.ref)
  BY DEF Contract
<1>3. IsDatabase(s)
  BY DEF IsBundle
<1>4. /\ DOMAIN m = DOMAIN s.ref /\ \A r \in DOMAIN s.ref : m[r].key = s.ref[r].key
      /\ Keys(m) = Keys(s.ref) /\ Ids(m, d.ref) = ri
  BY <1>1, <1>3, RemappedRows
<1>5. /\ \A i \in DOMAIN s.cache \cap DOMAIN d.cache : s.cache[i].key = d.cache[i].key
      /\ \A r \in DOMAIN m \cap DOMAIN d.ref : m[r].key = d.ref[r].key
  BY <1>4 DEF Agreed
<1>6. ASSUME NEW c \in DOMAIN d.cache
      PROVE  /\ c \in DOMAIN n.cache /\ n.cache[c].key = d.cache[c].key
             /\ \/ d.cache[c].key \notin Keys(s.cache) /\ n.cache[c] = d.cache[c]
                \/ \E i \in DOMAIN s.cache : s.cache[i].key = d.cache[c].key /\ n.cache[c] = s.cache[i]
  BY <1>1, <1>2, <1>5, OldRows
<1>7. ASSUME NEW r \in DOMAIN d.ref
      PROVE  /\ r \in DOMAIN n.ref /\ n.ref[r].key = d.ref[r].key
             /\ \/ d.ref[r].key \notin Keys(s.ref) /\ n.ref[r] = d.ref[r]
                \/ \E q \in DOMAIN s.ref : s.ref[q].key = d.ref[r].key /\ r = ri[q]
  <2>1. /\ r \in DOMAIN n.ref /\ n.ref[r].key = d.ref[r].key
        /\ \/ d.ref[r].key \notin Keys(m) /\ n.ref[r] = d.ref[r]
           \/ \E q \in DOMAIN m : m[q].key = d.ref[r].key /\ r = ri[q] /\ n.ref[r] = m[q]
    BY <1>1, <1>2, <1>4, <1>5, OldRows
  <2> QED BY <1>4, <2>1
<1> QED BY <1>6, <1>7

\* The caches in the target's scope.
LEMMA CachesOverlaid ==
  ASSUME NEW s, NEW d, NEW n, NEW ci, NEW ri, IsBundle(s), IsDatabase(d), Contract(d), Agreed(s, d),
         Merged(s, d, n, ci, ri), IsDatabase(n)
  PROVE  Overlaid(LogicalCaches(s), LogicalCaches(Extract(d)), LogicalCaches(n),
                  LogicalCaches(Extract(n)))
<1> SUFFICES ASSUME NEW o, o = Extract(d), NEW e, e = Extract(n)
    PROVE Overlaid(LogicalCaches(s), LogicalCaches(o), LogicalCaches(n), LogicalCaches(e))
  OBVIOUS
<1>1. /\ Contract(e) /\ e.cache = [c \in Referenced(n) |-> n.cache[c]] /\ e.ref = n.ref
      /\ Referenced(n) \subseteq DOMAIN n.cache
  BY MergedScope
<1>2. o.cache = [c \in Referenced(d) |-> d.cache[c]] /\ o.ref = d.ref
  BY ExtractTables
<1>3. /\ KeysAreUnique(d.cache) /\ KeysAreUnique(d.ref) /\ Referenced(d) \subseteq DOMAIN d.cache
  BY DEF Contract
<1>4. /\ KeysAreUnique(o.cache) /\ KeysAreUnique(o.ref) /\ KeysAreUnique(e.cache) /\ KeysAreUnique(e.ref)
      /\ KeysAreUnique(n.cache) /\ KeysAreUnique(n.ref) /\ KeysAreUnique(s.cache) /\ KeysAreUnique(s.ref)
  <2>1. KeysAreUnique(o.cache)
    BY <1>2, <1>3 DEF KeysAreUnique
  <2> QED BY <1>1, <1>2, <1>3, <2>1 DEF Contract, Merged, IsBundle
<1>5. /\ DOMAIN LogicalCaches(o) = Keys(o.cache)
      /\ \A c \in DOMAIN o.cache : /\ o.cache[c].key \in Keys(o.cache)
                                   /\ LogicalCaches(o)[o.cache[c].key] = o.cache[c].obj
      /\ \A k \in Keys(o.cache) : \E c \in DOMAIN o.cache : k = o.cache[c].key
  BY <1>4, LogicalByKey
<1>6. /\ DOMAIN LogicalCaches(n) = Keys(n.cache)
      /\ \A c \in DOMAIN n.cache : /\ n.cache[c].key \in Keys(n.cache)
                                   /\ LogicalCaches(n)[n.cache[c].key] = n.cache[c].obj
  BY <1>4, LogicalByKey
<1>7. /\ DOMAIN LogicalCaches(s) = Keys(s.cache)
      /\ \A c \in DOMAIN s.cache : /\ s.cache[c].key \in Keys(s.cache)
                                   /\ LogicalCaches(s)[s.cache[c].key] = s.cache[c].obj
      /\ \A k \in Keys(s.cache) : \E c \in DOMAIN s.cache : k = s.cache[c].key
  BY <1>4, LogicalByKey
<1>8. /\ DOMAIN LogicalCaches(e) = Keys(e.cache)
      /\ \A c \in DOMAIN e.cache : e.cache[c].key \in Keys(e.cache)
      /\ \A k \in Keys(e.cache) : \E c \in DOMAIN e.cache : k = e.cache[c].key
  BY <1>4, LogicalByKey
<1>9. ASSUME NEW k \in DOMAIN LogicalCaches(o)
      PROVE  /\ k \in DOMAIN LogicalCaches(n)
             /\ LogicalCaches(n)[k] = IF k \in DOMAIN LogicalCaches(s) THEN LogicalCaches(s)[k]
                                      ELSE LogicalCaches(o)[k]
  <2>1. PICK c \in DOMAIN o.cache : k = o.cache[c].key
    BY <1>5
  <2>2. c \in DOMAIN d.cache /\ o.cache[c] = d.cache[c] /\ LogicalCaches(o)[k] = d.cache[c].obj
    BY <1>2, <1>3, <1>5, <2>1
  <2>3. /\ c \in DOMAIN n.cache /\ n.cache[c].key = k
        /\ \/ k \notin Keys(s.cache) /\ n.cache[c] = d.cache[c]
           \/ \E i \in DOMAIN s.cache : s.cache[i].key = k /\ n.cache[c] = s.cache[i]
    BY <2>1, <2>2, TargetRows
  <2>4. k \in Keys(n.cache) /\ LogicalCaches(n)[k] = n.cache[c].obj
    BY <1>6, <2>3
  <2> QED BY <1>6, <1>7, <2>2, <2>3, <2>4
<1>10. ASSUME NEW k \in DOMAIN LogicalCaches(s)
       PROVE  k \in DOMAIN LogicalCaches(e)
  <2>1. PICK i \in DOMAIN s.cache : k = s.cache[i].key
    BY <1>7
  <2>2. ci[i] \in Referenced(n) /\ n.cache[ci[i]] = s.cache[i]
    BY IncomingRows
  <2>3. ci[i] \in DOMAIN e.cache /\ e.cache[ci[i]].key = k
    BY <1>1, <2>1, <2>2
  <2> QED BY <1>8, <2>3
<1>11. ASSUME NEW k \in DOMAIN LogicalCaches(e)
       PROVE  k \in DOMAIN LogicalCaches(s) \cup DOMAIN LogicalCaches(o)
  <2>1. PICK c \in DOMAIN e.cache : k = e.cache[c].key
    BY <1>8
  <2>2. c \in Referenced(n) /\ k = n.cache[c].key
    BY <1>1, <2>1
  <2>3. PICK r \in DOMAIN n.ref : n.ref[r].cache = c
    BY <2>2 DEF Referenced
  <2>4. CASE r \in Range(ri)
    <3>1. PICK q \in DOMAIN Remapped(s, d) : r = ri[q]
      BY <2>4 DEF Merged, Laid
    <3>2. q \in DOMAIN s.ref
      BY <3>1, RemappedRows DEF IsBundle
    <3>3. s.ref[q].cache \in DOMAIN s.cache /\ c = ci[s.ref[q].cache]
      BY <2>3, <3>1, <3>2, IncomingRows
    <3>4. n.cache[c] = s.cache[s.ref[q].cache]
      BY <3>3, IncomingRows
    <3> QED BY <1>7, <2>2, <3>3, <3>4
  <2>5. CASE r \notin Range(ri)
    <3>1. r \in DOMAIN d.ref /\ n.ref[r] = d.ref[r]
      BY <2>5 DEF Merged, Laid
    <3>2. c \in Referenced(d)
      BY <2>3, <3>1 DEF Referenced
    <3>3. c \in DOMAIN o.cache /\ o.cache[c].key = d.cache[c].key /\ c \in DOMAIN d.cache
      BY <1>2, <1>3, <3>2
    <3>4. n.cache[c].key = d.cache[c].key
      BY <3>3, TargetRows
    <3> QED BY <1>5, <2>2, <3>3, <3>4
  <2> QED BY <2>4, <2>5
<1> QED BY <1>9, <1>10, <1>11 DEF Overlaid

\* The references.
LEMMA RefsOverlaid ==
  ASSUME NEW s, NEW d, NEW n, NEW ci, NEW ri, IsBundle(s), IsDatabase(d), Contract(d), Agreed(s, d),
         Merged(s, d, n, ci, ri), IsDatabase(n)
  PROVE  Overlaid(LogicalRefs(s), LogicalRefs(Extract(d)), LogicalRefs(n), LogicalRefs(Extract(n)))
<1> SUFFICES ASSUME NEW o, o = Extract(d), NEW e, e = Extract(n)
    PROVE Overlaid(LogicalRefs(s), LogicalRefs(o), LogicalRefs(n), LogicalRefs(e))
  OBVIOUS
<1>1. /\ Contract(e) /\ e.ref = n.ref /\ e.cache = [c \in Referenced(n) |-> n.cache[c]]
      /\ Referenced(n) \subseteq DOMAIN n.cache
  BY MergedScope
<1>2. o.cache = [c \in Referenced(d) |-> d.cache[c]] /\ o.ref = d.ref
  BY ExtractTables
<1>3. /\ KeysAreUnique(d.cache) /\ KeysAreUnique(d.ref) /\ Referenced(d) \subseteq DOMAIN d.cache
  BY DEF Contract
<1>4. /\ KeysAreUnique(o.cache) /\ KeysAreUnique(o.ref) /\ KeysAreUnique(e.cache) /\ KeysAreUnique(e.ref)
      /\ KeysAreUnique(n.cache) /\ KeysAreUnique(n.ref) /\ KeysAreUnique(s.cache) /\ KeysAreUnique(s.ref)
  <2>1. KeysAreUnique(o.cache)
    BY <1>2, <1>3 DEF KeysAreUnique
  <2> QED BY <1>1, <1>2, <1>3, <2>1 DEF Contract, Merged, IsBundle
<1>5. /\ DOMAIN LogicalRefs(o) = Keys(d.ref)
      /\ \A r \in DOMAIN d.ref : /\ d.ref[r].key \in Keys(d.ref)
                                 /\ LogicalRefs(o)[d.ref[r].key] = o.cache[d.ref[r].cache].key
      /\ \A k \in Keys(d.ref) : \E r \in DOMAIN d.ref : k = d.ref[r].key
  <2>1. /\ DOMAIN LogicalRefs(o) = Keys(o.ref)
        /\ \A r \in DOMAIN o.ref : /\ o.ref[r].key \in Keys(o.ref)
                                   /\ LogicalRefs(o)[o.ref[r].key] = o.cache[o.ref[r].cache].key
        /\ \A k \in Keys(o.ref) : \E r \in DOMAIN o.ref : k = o.ref[r].key
    BY <1>4, LogicalByKey
  <2> QED BY <1>2, <2>1
<1>6. /\ DOMAIN LogicalRefs(n) = Keys(n.ref)
      /\ \A r \in DOMAIN n.ref : /\ n.ref[r].key \in Keys(n.ref)
                                 /\ LogicalRefs(n)[n.ref[r].key] = n.cache[n.ref[r].cache].key
      /\ \A k \in Keys(n.ref) : \E r \in DOMAIN n.ref : k = n.ref[r].key
  BY <1>4, LogicalByKey
<1>7. /\ DOMAIN LogicalRefs(s) = Keys(s.ref)
      /\ \A r \in DOMAIN s.ref : /\ s.ref[r].key \in Keys(s.ref)
                                 /\ LogicalRefs(s)[s.ref[r].key] = s.cache[s.ref[r].cache].key
      /\ \A k \in Keys(s.ref) : \E r \in DOMAIN s.ref : k = s.ref[r].key
  BY <1>4, LogicalByKey
<1>8. DOMAIN LogicalRefs(e) = Keys(n.ref)
  BY <1>1, <1>4, LogicalByKey
<1>9. ASSUME NEW k \in DOMAIN LogicalRefs(o)
      PROVE  /\ k \in DOMAIN LogicalRefs(n)
             /\ LogicalRefs(n)[k] = IF k \in DOMAIN LogicalRefs(s) THEN LogicalRefs(s)[k]
                                    ELSE LogicalRefs(o)[k]
  <2>1. PICK r \in DOMAIN d.ref : k = d.ref[r].key
    BY <1>5
  <2>2. /\ d.ref[r].cache \in Referenced(d) /\ d.ref[r].cache \in DOMAIN d.cache
        /\ o.cache[d.ref[r].cache] = d.cache[d.ref[r].cache]
    BY <1>2, <1>3 DEF Referenced
  <2>3. /\ r \in DOMAIN n.ref /\ n.ref[r].key = k
        /\ \/ k \notin Keys(s.ref) /\ n.ref[r] = d.ref[r]
           \/ \E q \in DOMAIN s.ref : s.ref[q].key = k /\ r = ri[q]
    BY <2>1, TargetRows
  <2>4. k \in Keys(n.ref) /\ LogicalRefs(n)[k] = n.cache[n.ref[r].cache].key
    BY <1>6, <2>3
  <2>5. CASE k \notin Keys(s.ref) /\ n.ref[r] = d.ref[r]
    <3>1. n.cache[d.ref[r].cache].key = d.cache[d.ref[r].cache].key
      BY <2>2, TargetRows
    <3> QED BY <1>5, <1>6, <1>7, <2>1, <2>2, <2>4, <2>5, <3>1
  <2>6. ASSUME NEW q \in DOMAIN s.ref, s.ref[q].key = k, r = ri[q]
        PROVE  /\ k \in DOMAIN LogicalRefs(n) /\ k \in DOMAIN LogicalRefs(s)
               /\ LogicalRefs(n)[k] = LogicalRefs(s)[k]
    <3>1. s.ref[q].cache \in DOMAIN s.cache /\ n.ref[r].cache = ci[s.ref[q].cache]
      BY <2>6, IncomingRows
    <3>2. n.cache[n.ref[r].cache] = s.cache[s.ref[q].cache]
      BY <3>1, IncomingRows
    <3> QED BY <1>6, <1>7, <2>4, <2>6, <3>2
  <2> QED BY <2>3, <2>5, <2>6
<1>10. ASSUME NEW k \in DOMAIN LogicalRefs(s)
       PROVE  k \in DOMAIN LogicalRefs(e)
  <2>1. PICK q \in DOMAIN s.ref : k = s.ref[q].key
    BY <1>7
  <2>2. ri[q] \in DOMAIN n.ref /\ n.ref[ri[q]].key = k
    BY <2>1, IncomingRows
  <2> QED BY <1>6, <1>8, <2>2
<1>11. ASSUME NEW k \in DOMAIN LogicalRefs(e)
       PROVE  k \in DOMAIN LogicalRefs(s) \cup DOMAIN LogicalRefs(o)
  <2>1. PICK r \in DOMAIN n.ref : k = n.ref[r].key
    BY <1>6, <1>8
  <2>2. CASE r \in Range(ri)
    <3>1. PICK q \in DOMAIN Remapped(s, d) : r = ri[q]
      BY <2>2 DEF Merged, Laid
    <3>2. q \in DOMAIN s.ref
      BY <3>1, RemappedRows DEF IsBundle
    <3>3. k = s.ref[q].key
      BY <2>1, <3>1, <3>2, IncomingRows
    <3> QED BY <1>7, <3>2, <3>3
  <2>3. CASE r \notin Range(ri)
    <3>1. r \in DOMAIN d.ref /\ n.ref[r] = d.ref[r]
      BY <2>3 DEF Merged, Laid
    <3> QED BY <1>5, <2>1, <3>1
  <2> QED BY <2>2, <2>3
<1> QED BY <1>9, <1>10, <1>11 DEF Overlaid

\* What the plan of one table says is what an apply does to its logical rows.
PlanHolds(s, d, n, t) ==
  LET p == PlanTable(s, Extract(d), t)
      old == LogicalRows(Extract(d), t)
      new == LogicalRows(n, t)
  IN /\ DOMAIN old \ DOMAIN new = p.delete
     /\ Changed(old, IF t = "reminder" THEN NormalizeReminders(new) ELSE new) = p.update
     /\ DOMAIN LogicalRows(Extract(n), t) \ DOMAIN old = p.insert

\* With rows overlaid on the old ones, or in their place.
LEMMA PlanOfRows ==
  ASSUME NEW s, NEW d, NEW n, NEW t \in Tables \ {"reminder"},
         IF t = "doc" THEN LogicalRows(n, t) = LogicalRows(s, t)
                             /\ LogicalRows(Extract(n), t) = LogicalRows(s, t)
         ELSE Overlaid(LogicalRows(s, t), LogicalRows(Extract(d), t), LogicalRows(n, t),
                       LogicalRows(Extract(n), t))
  PROVE  PlanHolds(s, d, n, t)
<1> SUFFICES ASSUME NEW in, in = LogicalRows(s, t), NEW old, old = LogicalRows(Extract(d), t),
                    NEW new, new = LogicalRows(n, t), NEW scope, scope = LogicalRows(Extract(n), t)
    PROVE PlanHolds(s, d, n, t)
  OBVIOUS
<1>1. PlanTable(s, Extract(d), t) =
        [insert |-> DOMAIN in \ DOMAIN old, update |-> Changed(old, in),
         delete |-> IF Preserved(t) THEN {} ELSE DOMAIN old \ DOMAIN in,
         preserved |-> IF Preserved(t) THEN DOMAIN old \ DOMAIN in ELSE {}]
  BY DEF PlanTable
<1>2. (t = "doc" \/ Preserved(t)) /\ ~(t = "doc" /\ Preserved(t))
  BY DEF Tables, Preserved, Supersets
<1>3. /\ DOMAIN old \ DOMAIN new = IF Preserved(t) THEN {} ELSE DOMAIN old \ DOMAIN in
      /\ Changed(old, new) = Changed(old, in)
      /\ DOMAIN scope \ DOMAIN old = DOMAIN in \ DOMAIN old
  <2>1. CASE t = "doc"
    BY <1>2, <2>1
  <2>2. CASE t # "doc"
    <3>1. /\ DOMAIN old \subseteq DOMAIN new
          /\ \A k \in DOMAIN old : new[k] = IF k \in DOMAIN in THEN in[k] ELSE old[k]
          /\ DOMAIN in \subseteq DOMAIN scope /\ DOMAIN scope \subseteq DOMAIN in \cup DOMAIN old
      BY <2>2 DEF Overlaid
    <3> QED BY <1>2, <2>2, <3>1 DEF Changed
  <2> QED BY <2>1, <2>2
<1> QED BY <1>1, <1>3 DEF PlanHolds

\* What the plan says of every table.
LEMMA PlanOfTables ==
  ASSUME NEW s, NEW d, NEW n, NEW ci, NEW ri, IsBundle(s), IsDatabase(d), Contract(d), Agreed(s, d),
         Merged(s, d, n, ci, ri), IsDatabase(n), NEW t \in Tables
  PROVE  PlanHolds(s, d, n, t)
<1>1. /\ Extract(n).reminder = s.reminder /\ Extract(n).doc = s.doc
      /\ Extract(n).asset = Upsert(s.asset, d.asset)
      /\ n.reminder = s.reminder /\ n.doc = s.doc /\ n.asset = Upsert(s.asset, d.asset)
      /\ Extract(d).asset = d.asset /\ NormalizeReminders(s.reminder) = s.reminder
  <2>1. /\ Extract(n).reminder = s.reminder /\ Extract(n).doc = s.doc
        /\ Extract(n).asset = Upsert(s.asset, d.asset)
    <3> SUFFICES ASSUME NEW e, e = Extract(n)
        PROVE e.reminder = s.reminder /\ e.doc = s.doc /\ e.asset = Upsert(s.asset, d.asset)
      OBVIOUS
    <3>1. /\ Contract(e) /\ e.reminder = s.reminder /\ e.doc = s.doc
          /\ e.asset = Upsert(s.asset, d.asset) /\ e.ref = n.ref
          /\ e.cache = [c \in Referenced(n) |-> n.cache[c]] /\ Referenced(n) \subseteq DOMAIN n.cache
      BY MergedScope
    <3> QED BY <3>1
  <2>2. n.reminder = s.reminder /\ n.doc = s.doc /\ n.asset = Upsert(s.asset, d.asset)
    BY DEF Merged
  <2>3. Extract(d).asset = d.asset
    BY ExtractTables
  <2> QED BY <2>1, <2>2, <2>3 DEF IsBundle
<1>2. CASE t = "reminder"
  <2>1. /\ LogicalRows(n, t) = s.reminder /\ LogicalRows(Extract(n), t) = s.reminder
        /\ LogicalRows(s, t) = s.reminder /\ NormalizeReminders(s.reminder) = s.reminder
        /\ ~Preserved(t)
    BY <1>1, <1>2 DEF LogicalRows, Preserved, Supersets
  <2> QED BY <1>2, <2>1 DEF PlanHolds, PlanTable
<1>3. CASE t = "doc"
  <2>1. LogicalRows(n, t) = LogicalRows(s, t) /\ LogicalRows(Extract(n), t) = LogicalRows(s, t)
    BY <1>1, <1>3 DEF LogicalRows
  <2> QED BY <1>3, <2>1, PlanOfRows
<1>4. CASE t \in {"asset", "cache", "ref"}
  <2>1. Overlaid(LogicalRows(s, t), LogicalRows(Extract(d), t), LogicalRows(n, t),
                 LogicalRows(Extract(n), t))
    <3>1. CASE t = "asset"
      <4>1. /\ LogicalRows(s, t) = s.asset /\ LogicalRows(Extract(d), t) = d.asset
            /\ LogicalRows(n, t) = Upsert(s.asset, d.asset)
            /\ LogicalRows(Extract(n), t) = Upsert(s.asset, d.asset)
        BY <1>1, <3>1 DEF LogicalRows
      <4> QED BY <4>1 DEF Overlaid, Upsert
    <3>2. CASE t = "cache"
      BY <3>2, CachesOverlaid DEF LogicalRows
    <3>3. CASE t = "ref"
      BY <3>3, RefsOverlaid DEF LogicalRows
    <3> QED BY <1>4, <3>1, <3>2, <3>3
  <2> QED BY <1>4, <2>1, PlanOfRows
<1> QED BY <1>2, <1>3, <1>4 DEF Tables

----------------------------------------------------------------------------
(* Databases stay databases *)

\* What is extracted from a database is one, with its reminders normalized.
LEMMA ExtractIsDatabase ==
  ASSUME NEW d, IsDatabase(d)
  PROVE  /\ IsDatabase(Extract(d))
         /\ NormalizeReminders(Extract(d).reminder) = Extract(d).reminder
<1> SUFFICES ASSUME NEW e, e = Extract(d)
    PROVE IsDatabase(e) /\ NormalizeReminders(e.reminder) = e.reminder
  OBVIOUS
<1>1. /\ e.reminder = NormalizeReminders(d.reminder)
      /\ e.doc = d.doc /\ e.asset = d.asset /\ e.ref = d.ref
      /\ e.cache = [c \in Referenced(d) |-> d.cache[c]] /\ Referenced(e) = Referenced(d)
  BY ExtractTables
<1>2. /\ \A i \in DOMAIN d.reminder : d.reminder[i] \in [status : {d.reminder[i].status}, due : Nat]
      /\ d \in [reminder : {d.reminder}, doc : {d.doc}, asset : {d.asset},
                cache : {d.cache}, ref : {d.ref}]
      /\ d.ref \in [DOMAIN d.ref -> [key : Keys(d.ref), cache : DOMAIN d.cache]]
  BY DEF IsDatabase
<1>3. e \in [reminder : {e.reminder}, doc : {e.doc}, asset : {e.asset}, cache : {e.cache}, ref : {e.ref}]
  <2>1. e = [d EXCEPT !.reminder = NormalizeReminders(d.reminder),
                      !.cache = Restrict(d.cache, Referenced(d))]
    BY DEF Extract
  <2> HIDE DEF Restrict, Referenced, NormalizeReminders
  <2> QED BY <1>2, <2>1
<1>4. /\ NormalizeReminders(e.reminder) = e.reminder
      /\ \A i \in DOMAIN e.reminder : e.reminder[i] \in [status : {e.reminder[i].status}, due : Nat]
  BY <1>1, <1>2, NormalizedOnce
<1>5. e.ref \in [DOMAIN e.ref -> [key : Keys(e.ref), cache : DOMAIN e.cache]]
  <2>1. \A r \in DOMAIN d.ref : d.ref[r] \in [key : Keys(d.ref), cache : DOMAIN d.cache]
    BY <1>2
  <2>2. \A r \in DOMAIN d.ref : d.ref[r].cache \in Referenced(d)
    BY DEF Referenced
  <2>3. \A r \in DOMAIN d.ref : d.ref[r] \in [key : Keys(d.ref), cache : Referenced(d)]
    BY <2>1, <2>2
  <2> QED BY <1>1, <1>2, <2>3
<1> QED BY <1>3, <1>4, <1>5 DEF IsDatabase

\* What is extracted from a database with unique keys is a bundle.
LEMMA ExtractIsBundle ==
  ASSUME NEW d, IsDatabase(d), Contract(d)
  PROVE  IsBundle(Extract(d))
<1> SUFFICES ASSUME NEW e, e = Extract(d) PROVE IsBundle(e)
  OBVIOUS
<1>1. /\ e.ref = d.ref /\ e.cache = [c \in Referenced(d) |-> d.cache[c]]
      /\ Referenced(e) = Referenced(d)
  BY ExtractTables
<1>2. IsDatabase(e) /\ NormalizeReminders(e.reminder) = e.reminder
  BY ExtractIsDatabase
<1>3. Contract(e) /\ Referenced(e) = DOMAIN e.cache
  <2>1. KeysAreUnique(e.cache)
    BY <1>1 DEF Contract, KeysAreUnique
  <2> QED BY <1>1, <2>1 DEF Contract
<1> QED BY <1>2, <1>3 DEF IsBundle

\* What the transaction leaves is a database.
LEMMA AppliedIsDatabase ==
  ASSUME NEW s, NEW d, IsBundle(s), IsDatabase(d), SqlApplies(s, d)
  PROVE  IsDatabase(ApplySql(s, d))
<1> SUFFICES ASSUME NEW n, n = ApplySql(s, d), NEW m, m = Remapped(s, d),
                    NEW ci, ci = Ids(s.cache, d.cache), NEW ri, ri = Ids(s.ref, d.ref)
    PROVE IsDatabase(n)
  OBVIOUS
<1>1. n = [reminder |-> NormalizeReminders(s.reminder), doc |-> s.doc,
           asset |-> Upsert(s.asset, d.asset), cache |-> Upserted(s.cache, d.cache),
           ref |-> Upserted(m, d.ref)]
  BY DEF ApplySql
<1>2. Merged(s, d, n, ci, ri)
  BY AppliedIsMerged
<1>3. n \in [reminder : {n.reminder}, doc : {n.doc}, asset : {n.asset}, cache : {n.cache}, ref : {n.ref}]
  BY <1>1
<1>4. \A i \in DOMAIN n.reminder : n.reminder[i] \in [status : {n.reminder[i].status}, due : Nat]
  BY <1>2 DEF Merged, IsBundle, IsDatabase
<1>5. n.ref = [r \in DOMAIN n.ref |-> n.ref[r]]
  <2>1. n.ref = Upserted(m, d.ref)
    BY <1>1
  <2> QED BY <2>1 DEF Upserted
<1>6. ASSUME NEW r \in DOMAIN n.ref
      PROVE  n.ref[r] \in [key : Keys(n.ref), cache : DOMAIN n.cache]
  <2>1. n.ref[r].key \in Keys(n.ref) /\ n.ref[r].cache \in DOMAIN n.cache
    BY <1>2, RowOfFacts DEF Merged
  <2>2. n.ref[r] \in [key : {n.ref[r].key}, cache : {n.ref[r].cache}]
    <3>1. CASE r \in Range(ri)
      <4>1. PICK q \in DOMAIN m : r = ri[q]
        BY <1>2, <3>1 DEF Merged, Laid
      <4>2. n.ref[r] = m[q]
        BY <1>2, <4>1 DEF Merged, Laid
      <4>3. m = [x \in DOMAIN s.ref |-> [s.ref[x] EXCEPT !.cache = ci[s.ref[x].cache]]]
        BY DEF Remapped
      <4>4. m[q] = [s.ref[q] EXCEPT !.cache = ci[s.ref[q].cache]] /\ q \in DOMAIN s.ref
        BY <4>1, <4>3
      <4>5. s.ref[q] \in [key : Keys(s.ref), cache : DOMAIN s.cache]
        BY <4>4 DEF IsBundle, IsDatabase
      <4> HIDE DEF Keys
      <4> QED BY <4>2, <4>4, <4>5
    <3>2. CASE r \notin Range(ri)
      <4>1. r \in DOMAIN d.ref /\ n.ref[r] = d.ref[r]
        BY <1>2, <3>2 DEF Merged, Laid
      <4>2. d.ref[r] \in [key : Keys(d.ref), cache : DOMAIN d.cache]
        BY <4>1 DEF IsDatabase
      <4> HIDE DEF Keys
      <4> QED BY <4>1, <4>2
    <3> QED BY <3>1, <3>2
  <2> QED BY <2>1, <2>2
<1> QED BY <1>3, <1>4, <1>5, <1>6 DEF IsDatabase

\* The keys of the objects that an apply keeps with the rows that only the target has.
KeptKeys(d) == Range(d.asset) \cup CacheObjects(d)

\* The objects of rows: those of documents, and those that are kept.
LEMMA ObjectsOf ==
  ASSUME NEW d
  PROVE  /\ DOMAIN BuildObjects(d) = Range(d.doc) \cup KeptKeys(d)
         /\ \A k \in KeptKeys(d) : KindKept(BuildObjects(d)[k])
<1> SUFFICES ASSUME NEW docs, docs = Range(d.doc), NEW assets, assets = Range(d.asset),
                    NEW caches, caches = CacheObjects(d)
    PROVE /\ DOMAIN BuildObjects(d) = docs \cup (assets \cup caches)
          /\ \A k \in assets \cup caches : KindKept(BuildObjects(d)[k])
  BY DEF KeptKeys
<1>1. BuildObjects(d) = [k \in docs \cup assets \cup caches |->
                           {"COLLABORATION_SNAPSHOT" : x \in docs \cap {k}}
                             \cup {"MATERIAL_ASSET" : x \in assets \cap {k}}
                             \cup {"YOUTUBE_CACHE" : x \in caches \cap {k}}]
  BY DEF BuildObjects
<1>2. ASSUME NEW k \in assets \cup caches
      PROVE  KindKept(BuildObjects(d)[k])
  <2>1. "MATERIAL_ASSET" \in BuildObjects(d)[k] \/ "YOUTUBE_CACHE" \in BuildObjects(d)[k]
    BY <1>1
  <2> QED BY <2>1 DEF KindKept, PreservedKinds
<1> QED BY <1>1, <1>2

\* The scope of a database has the same documents, assets and cache objects.
LEMMA ScopeObjects ==
  ASSUME NEW d, IsDatabase(d)
  PROVE  Extract(d).doc = d.doc /\ KeptKeys(Extract(d)) = KeptKeys(d)
<1> SUFFICES ASSUME NEW e, e = Extract(d)
    PROVE e.doc = d.doc /\ KeptKeys(e) = KeptKeys(d)
  OBVIOUS
<1>1. /\ e.doc = d.doc /\ e.asset = d.asset /\ e.cache = [c \in Referenced(d) |-> d.cache[c]]
      /\ Referenced(e) = Referenced(d)
  BY ExtractTables
<1>2. CacheObjects(e) = CacheObjects(d)
  BY <1>1 DEF CacheObjects
<1> QED BY <1>1, <1>2 DEF KeptKeys

\* What the transaction leaves refers to objects of the bundle and to those of the
\* target that are kept.
LEMMA AppliedObjects ==
  ASSUME NEW s, NEW d, NEW n, NEW ci, NEW ri, IsBundle(s), Merged(s, d, n, ci, ri)
  PROVE  /\ Range(n.doc) \subseteq DOMAIN BuildObjects(s)
         /\ KeptKeys(n) \subseteq DOMAIN BuildObjects(s) \cup KeptKeys(d)
<1>1. /\ n.doc = s.doc /\ n.asset = Upsert(s.asset, d.asset)
      /\ Laid(s.cache, d.cache, ci, n.cache) /\ Laid(Remapped(s, d), d.ref, ri, n.ref)
      /\ ci = Ids(s.cache, d.cache)
  BY DEF Merged
<1>2. IsDatabase(s) /\ Referenced(s) = DOMAIN s.cache
  BY DEF IsBundle
<1>3. DOMAIN BuildObjects(s) = Range(s.doc) \cup KeptKeys(s)
  BY ObjectsOf
<1>4. Range(n.asset) \subseteq Range(s.asset) \cup Range(d.asset)
  <2>1. \A i \in DOMAIN Upsert(s.asset, d.asset) :
          Upsert(s.asset, d.asset)[i] \in Range(s.asset) \cup Range(d.asset)
    BY DEF Upsert, Range
  <2> QED BY <1>1, <2>1 DEF Range
<1>5. ASSUME NEW r \in DOMAIN n.ref
      PROVE  n.cache[n.ref[r].cache].obj \in CacheObjects(s) \cup CacheObjects(d)
  <2> DEFINE c == n.ref[r].cache
  <2>1. CASE c \in Range(ci)
    <3>1. PICK i \in DOMAIN s.cache : c = ci[i]
      BY <1>1, <2>1 DEF Laid
    <3>2. n.cache[c] = s.cache[i] /\ i \in Referenced(s)
      BY <1>1, <1>2, <3>1 DEF Laid
    <3> QED BY <3>2 DEF CacheObjects
  <2>2. CASE c \notin Range(ci)
    <3>1. r \notin Range(ri)
      <4>1. ASSUME NEW q \in DOMAIN Remapped(s, d), r = ri[q]
            PROVE  FALSE
        <5>1. n.ref[r] = Remapped(s, d)[q]
          BY <1>1, <4>1 DEF Laid
        <5>2. /\ q \in DOMAIN s.ref /\ s.ref[q].cache \in DOMAIN s.cache
              /\ Remapped(s, d)[q].cache = ci[s.ref[q].cache]
          BY <1>1, <1>2, <4>1, RemappedRows
        <5>3. ci[s.ref[q].cache] \in Range(ci)
          BY <1>1, <5>2 DEF Laid
        <5> QED BY <2>2, <5>1, <5>2, <5>3
      <4> QED BY <1>1, <4>1 DEF Laid
    <3>2. r \in DOMAIN d.ref /\ n.ref[r] = d.ref[r]
      BY <1>1, <3>1 DEF Laid
    <3>3. c \in Referenced(d)
      BY <3>2 DEF Referenced
    <3>4. c \in DOMAIN n.cache
      BY DEF Merged
    <3>5. n.cache[c] = d.cache[c]
      BY <1>1, <2>2, <3>4 DEF Laid
    <3> QED BY <3>3, <3>5 DEF CacheObjects
  <2> QED BY <2>1, <2>2
<1>6. CacheObjects(n) \subseteq CacheObjects(s) \cup CacheObjects(d)
  BY <1>5 DEF CacheObjects, Referenced
<1> QED BY <1>1, <1>3, <1>4, <1>6 DEF KeptKeys

----------------------------------------------------------------------------
(* The review *)

IsRows(d) == d = [t \in Tables |-> d[t]]

\* What the transaction of a reviewed bundle leaves of the bucket.
KeptByApply(s, d) ==
  (DOMAIN BuildObjects(d) \cup DOMAIN BuildObjects(s)) \ DeletedObjects(s, Extract(d))

ReviewInv ==
  /\ IsBundle(approved) /\ IsDatabase(before) /\ Contract(before) /\ IsRows(payload)
  /\ outcome = "planned" => target = before /\ kept = DOMAIN BuildObjects(target)
  /\ outcome = "applied" =>
       /\ payload = approved /\ SqlApplies(payload, before)
       /\ target = ApplySql(payload, before) /\ kept = KeptByApply(payload, before)

PartsReview ==
  \/ part = "review" /\ ReviewInv
  \/ part = "script" /\ outcome = "planned"

\* A database is a table of tables.
LEMMA DatabaseIsRows ==
  ASSUME NEW d, IsDatabase(d)
  PROVE  IsRows(d)
<1>1. d \in [reminder : {d.reminder}, doc : {d.doc}, asset : {d.asset},
             cache : {d.cache}, ref : {d.ref}]
  BY DEF IsDatabase
<1>2. DOMAIN d = Tables /\ d = [t \in DOMAIN d |-> d[t]]
  BY <1>1 DEF Tables
<1> QED BY <1>2 DEF IsRows

\* A bundle whose digests are those of the reviewed one is the reviewed one.
LEMMA ConfirmedIsReviewed ==
  ASSUME ReviewInv, Applies
  PROVE  payload = approved
<1>1. \A t \in Tables : manifest[t] = payload[t]
  BY DEF Applies, Confirmed
<1>2. manifest = [t \in Tables |-> approved[t]]
  BY DEF Applies, Confirmed, BuildManifest
<1>3. IsRows(approved) /\ IsRows(payload)
  BY DatabaseIsRows DEF ReviewInv, IsBundle
<1>4. \A t \in Tables : payload[t] = approved[t]
  BY <1>1, <1>2
<1> QED BY <1>3, <1>4 DEF IsRows

\* The review begins with a bundle extracted from one of the databases.
LEMMA ReviewBegins ==
  ASSUME ReviewInit
  PROVE  ReviewInv
<1>1. PICK dbs \in Databases : target \in dbs /\ \E d \in dbs : payload = Extract(d)
  BY DEF ReviewInit
<1>2. PICK d \in dbs : payload = Extract(d)
  BY <1>1
<1>3. IsDatabase(target) /\ Contract(target) /\ IsDatabase(d) /\ Contract(d)
  BY <1>1, DatabasesAssumption
<1>4. IsBundle(payload)
  BY <1>2, <1>3, ExtractIsBundle
<1>5. IsRows(payload)
  BY <1>4, DatabaseIsRows DEF IsBundle
<1> QED BY <1>3, <1>4, <1>5 DEF ReviewInit, ReviewInv

\* Files that were exported anew do not get through, and what gets through is applied.
LEMMA ReviewKeeps ==
  ASSUME ReviewInv, ReviewNext
  PROVE  ReviewInv'
<1>1. CASE ApplyReviewed
  <2>1. /\ outcome = "planned" /\ Applies /\ target' = ApplySql(payload, target)
        /\ kept' = (kept \cup DOMAIN BuildObjects(payload))
                     \ DeletedObjects(payload, Extract(target))
        /\ outcome' = "applied" /\ UNCHANGED <<payload, manifest, approved, before>>
    BY <1>1 DEF ApplyReviewed
  <2>2. target = before /\ kept = DOMAIN BuildObjects(target)
    BY <2>1 DEF ReviewInv
  <2>3. payload = approved /\ SqlApplies(payload, before)
    BY <2>1, <2>2, ConfirmedIsReviewed DEF Applies
  <2>4. kept' = KeptByApply(payload, before) /\ target' = ApplySql(payload, before)
    BY <2>1, <2>2 DEF KeptByApply
  <2> HIDE DEF KeptByApply
  <2> QED BY <2>1, <2>3, <2>4 DEF ReviewInv
<1>2. CASE RefuseReviewed
  BY <1>2 DEF RefuseReviewed, ReviewInv
<1>3. ASSUME NEW t \in Tables, Reexport(t)
      PROVE  ReviewInv'
  <2>1. /\ outcome = "planned" /\ payload' = [payload EXCEPT ![t] = <<>>]
        /\ UNCHANGED <<approved, target, before, kept, outcome>>
    BY <1>3 DEF Reexport
  <2>2. IsRows(payload')
    <3>1. payload = [u \in Tables |-> payload[u]]
      BY DEF ReviewInv, IsRows
    <3>2. payload' = [u \in Tables |-> IF u = t THEN <<>> ELSE payload[u]]
      BY <2>1, <3>1
    <3> QED BY <3>2 DEF IsRows
  <2> QED BY <2>1, <2>2 DEF ReviewInv
<1> QED BY <1>1, <1>2, <1>3 DEF ReviewNext

\* What was applied: the reviewed bundle, merged into the target of the review.
LEMMA AppliedFacts ==
  ASSUME ReviewInv, outcome = "applied"
  PROVE  /\ payload = approved /\ IsBundle(payload) /\ IsDatabase(before) /\ Contract(before)
         /\ Merged(payload, before, target, Ids(payload.cache, before.cache),
                   Ids(payload.ref, before.ref))
         /\ IsDatabase(target) /\ kept = KeptByApply(payload, before)
<1>1. /\ payload = approved /\ IsBundle(payload) /\ IsDatabase(before) /\ Contract(before)
      /\ SqlApplies(payload, before) /\ target = ApplySql(payload, before)
      /\ kept = KeptByApply(payload, before)
  BY DEF ReviewInv
<1> QED BY <1>1, AppliedIsMerged, AppliedIsDatabase

\* No object of a row that is left is removed.
LEMMA NothingDangles ==
  ASSUME ReviewInv
  PROVE  NoDanglingObject
<1> SUFFICES ASSUME outcome = "applied", NEW k \in DOMAIN BuildObjects(target)
    PROVE k \in kept
  BY DEF NoDanglingObject
<1>1. /\ IsDatabase(before) /\ kept = KeptByApply(payload, before) /\ IsBundle(payload)
      /\ Merged(payload, before, target, Ids(payload.cache, before.cache),
                Ids(payload.ref, before.ref))
  BY AppliedFacts
<1>2. k \in DOMAIN BuildObjects(payload) \cup KeptKeys(before)
  <2>1. /\ Range(target.doc) \subseteq DOMAIN BuildObjects(payload)
        /\ KeptKeys(target) \subseteq DOMAIN BuildObjects(payload) \cup KeptKeys(before)
    BY <1>1, AppliedObjects
  <2> QED BY <2>1, ObjectsOf
<1>3. CASE k \in DOMAIN BuildObjects(payload)
  <2>1. k \notin DeletedObjects(payload, Extract(before))
    BY <1>3 DEF DeletedObjects
  <2> QED BY <1>1, <1>3, <2>1 DEF KeptByApply
<1>4. CASE k \in KeptKeys(before)
  <2>1. k \in DOMAIN BuildObjects(before)
    BY <1>4, ObjectsOf
  <2>2. KindKept(BuildObjects(Extract(before))[k])
    BY <1>1, <1>4, ScopeObjects, ObjectsOf
  <2>3. k \notin DeletedObjects(payload, Extract(before))
    BY <2>2 DEF DeletedObjects
  <2> QED BY <1>1, <2>1, <2>3 DEF KeptByApply
<1> QED BY <1>2, <1>3, <1>4

\* The review's part of SuccessIsTrue.
LEMMA ReviewIsSound ==
  ASSUME ReviewInv
  PROVE  AppliedAsReviewed
<1>1. NoDanglingObject
  BY NothingDangles
<1>2. CompareAcceptsApply
  BY AppliedFacts, CompareAccepts DEF CompareAcceptsApply
<1>3. NothingIsSentLate
  <2> SUFFICES ASSUME outcome = "applied"
      PROVE \A i \in DOMAIN target.reminder :
              target.reminder[i].status = "PENDING" => target.reminder[i].due > Cutoff
    BY DEF NothingIsSentLate
  <2>1. target.reminder = payload.reminder /\ IsBundle(payload)
    BY AppliedFacts DEF Merged
  <2>2. /\ NormalizeReminders(payload.reminder) = payload.reminder
        /\ \A i \in DOMAIN payload.reminder :
             payload.reminder[i] \in [status : {payload.reminder[i].status}, due : Nat]
    BY <2>1 DEF IsBundle, IsDatabase
  <2>3. \A i \in DOMAIN payload.reminder :
          payload.reminder[i].status = "PENDING" => payload.reminder[i].due > Cutoff
    BY <2>2, NormalizedOnce
  <2> QED BY <2>1, <2>3
<1> QED BY <1>1, <1>2, <1>3 DEF AppliedAsReviewed

\* What was applied is what the plan of the reviewed bundle had said.
LEMMA ReviewIsExact ==
  ASSUME ReviewInv
  PROVE  PlanIsExact
<1> SUFFICES ASSUME outcome = "applied", UuidsAgree
    PROVE \A t \in Tables : PlanHolds(payload, before, target, t)
  BY AppliedFacts DEF PlanIsExact, PlanHolds
<1>1. Agreed(payload, before)
  BY DEF UuidsAgree, Agreed
<1> QED BY <1>1, AppliedFacts, PlanOfTables

\* Every step of the review, and of the script.
LEMMA PartsReviewKept ==
  ASSUME PartsReview, [MCNext]_mcvars
  PROVE  PartsReview'
<1>1. CASE UNCHANGED <<rvars, part>>
  BY <1>1 DEF rvars, PartsReview, ReviewInv
<1>2. CASE part = "review" /\ ReviewNext /\ UNCHANGED part
  <2>1. ReviewInv
    BY <1>2 DEF PartsReview
  <2> QED BY <1>2, <2>1, ReviewKeeps DEF PartsReview
<1> QED BY <1>1, <1>2 DEF MCNext, mcvars

\* With any bundle and any target whose UUIDs agree, whatever happens to the bundle's
\* files after its plan was read: the rows that an apply takes from the target, changes
\* and adds are exactly those the plan had named.
THEOREM PlansAreExact == MCSpec => []PlanIsExact
<1>1. MCInit => PartsReview
  BY ReviewBegins DEF MCInit, NoReview, PartsReview
<1>2. PartsReview /\ [MCNext]_mcvars => PartsReview'
  BY PartsReviewKept
<1>3. PartsReview => PlanIsExact
  BY ReviewIsExact DEF PartsReview, PlanIsExact
<1> QED BY <1>1, <1>2, <1>3, PTL DEF MCSpec

----------------------------------------------------------------------------
(* The script ends over a whole target *)

\* The databases that the target has, has had for the run or may be given back.
Dbs == {db, run.scope} \cup {backups[i].db : i \in DOMAIN backups}

\* The keys of objects that one of these databases keeps and that the bundle does
\* not bring.
Others(dbs) == (UNION {KeptKeys(e) : e \in dbs}) \ SourceKeys

\* A key of these is kept by each of these databases that has it for a document.
DocsKept(dbs) ==
  \A e \in dbs : \A k \in Others(dbs) : k \in Range(e.doc) => k \in KeptKeys(e)

Agrees == CompareTarget(bundle, Extract(db)) /\ db.doc = bundle.doc

DatabasesKnown ==
  /\ bundle \in Bundles /\ \A e \in Dbs : IsDatabase(e)
  /\ Others(Dbs) \subseteq AllKeys \ Unused /\ DocsKept(Dbs)

ObjectsKnown ==
  /\ \A k \in Others(Dbs) : bucket[k] # Missing \/ k \in Lost
  /\ \A i \in DOMAIN backups : \A k \in Others(Dbs) :
       k \in DOMAIN backups[i].objects /\ backups[i].objects[k] = Missing => k \in Lost

Compared ==
  /\ run.stage \in {"deleting", "verifying", "complete"} => Agrees
  /\ run.stage = "complete" => SourceObjectsThere

ScriptWhole == DatabasesKnown /\ ObjectsKnown /\ Compared

WholeInv ==
  \/ part # "script" /\ run.stage = "idle"
  \/ part = "script" /\ ScriptWhole

\* The bundle's objects are among those that are looked at, and are all there is of
\* the bundle.
LEMMA SourceKeysCount ==
  ASSUME bundle \in Bundles
  PROVE  /\ IsBundle(bundle) /\ IsDatabase(bundle) /\ SourceKeys \subseteq AllKeys
         /\ Range(bundle.doc) \subseteq SourceKeys /\ KeptKeys(bundle) \subseteq SourceKeys
<1>1. DOMAIN BuildObjects(bundle) \in {DOMAIN BuildObjects(d) : d \in Bundles \cup Targets}
  OBVIOUS
<1>2. SourceKeys \subseteq AllKeys
  BY <1>1 DEF SourceKeys, AllKeys
<1>3. Range(bundle.doc) \subseteq SourceKeys /\ KeptKeys(bundle) \subseteq SourceKeys
  BY ObjectsOf DEF SourceKeys
<1> QED BY <1>2, <1>3, SidesAssumption DEF IsBundle

\* A complete run is one over a whole target.
LEMMA CompleteOverWhole ==
  ASSUME WholeInv
  PROVE  CompleteIsWhole
<1> SUFFICES ASSUME run.stage = "complete", ScriptWhole
    PROVE /\ CompareTarget(bundle, Extract(db))
          /\ \A k \in DOMAIN BuildObjects(db) : bucket[k] # Missing \/ k \in Lost
  BY DEF WholeInv, CompleteIsWhole
<1>1. Agrees /\ SourceObjectsThere /\ bundle \in Bundles
  BY DEF ScriptWhole, Compared, DatabasesKnown
<1>2. ASSUME NEW k \in DOMAIN BuildObjects(db)
      PROVE  bucket[k] # Missing \/ k \in Lost
  <2>1. k \in SourceKeys \/ k \in KeptKeys(db)
    BY <1>1, ObjectsOf, SourceKeysCount DEF Agrees
  <2>2. CASE k \in SourceKeys
    BY <1>1, <2>2 DEF SourceObjectsThere, Missing
  <2>3. CASE k \in KeptKeys(db) \ SourceKeys
    <3>1. k \in Others(Dbs)
      BY <2>3 DEF Others, Dbs
    <3> QED BY <3>1 DEF ScriptWhole, ObjectsKnown
  <2> QED BY <2>1, <2>2, <2>3
<1> QED BY <1>1, <1>2 DEF Agrees

\* The database e keeps no object that these do not, and its documents are the
\* bundle's, or new, or those of one of these that keeps no more.
From(e, dbs) ==
  /\ IsDatabase(e)
  /\ KeptKeys(e) \subseteq SourceKeys \cup UNION {KeptKeys(d) : d \in dbs}
  /\ \A k \in Range(e.doc) :
       \/ k \in SourceKeys \cup Unused
       \/ \E d \in dbs : k \in Range(d.doc) /\ KeptKeys(d) \subseteq KeptKeys(e)

\* What is made of known databases is known.
LEMMA DatabasesShrink ==
  ASSUME DatabasesKnown, bundle' = bundle, \A e \in Dbs' : From(e, Dbs)
  PROVE  DatabasesKnown' /\ Others(Dbs)' \subseteq Others(Dbs)
<1>1. SourceKeys' = SourceKeys
  BY DEF SourceKeys
<1>2. PICK new : new = Dbs'
  OBVIOUS
<1>3. PICK old : old = Dbs
  OBVIOUS
<1>4. \A e \in new : From(e, old)
  BY <1>2, <1>3
<1>5. Others(new) \subseteq Others(old)
  BY <1>4 DEF Others, From
<1>6. Others(old) \subseteq AllKeys \ Unused /\ DocsKept(old)
  BY <1>3 DEF DatabasesKnown
<1>7. ASSUME NEW e \in new, NEW k \in Others(new), k \in Range(e.doc)
      PROVE  k \in KeptKeys(e)
  <2>1. k \in Others(old) /\ k \notin SourceKeys \cup Unused
    BY <1>5, <1>6, <1>7 DEF Others
  <2>2. PICK d \in old : k \in Range(d.doc) /\ KeptKeys(d) \subseteq KeptKeys(e)
    BY <1>4, <1>7, <2>1 DEF From
  <2>3. k \in KeptKeys(d)
    BY <1>6, <2>1, <2>2 DEF DocsKept
  <2> QED BY <2>2, <2>3
<1>8. DocsKept(new)
  BY <1>7 DEF DocsKept
<1>9. \A e \in new : IsDatabase(e)
  BY <1>4 DEF From
<1>10. Others(Dbs)' = Others(new) /\ (DocsKept(Dbs)' <=> DocsKept(new))
  BY <1>1, <1>2 DEF Others, DocsKept
<1> QED BY <1>2, <1>3, <1>5, <1>6, <1>8, <1>9, <1>10 DEF DatabasesKnown

\* A known database, and the bundle, are so made.
LEMMA KnownFrom ==
  ASSUME DatabasesKnown
  PROVE  From(bundle, Dbs) /\ \A e \in Dbs : From(e, Dbs)
<1>1. From(bundle, Dbs)
  BY SourceKeysCount DEF DatabasesKnown, From
<1>2. ASSUME NEW e \in Dbs
      PROVE  From(e, Dbs)
  BY <1>2 DEF From, DatabasesKnown
<1> QED BY <1>1, <1>2

\* A step that leaves every object of others as it is in the bucket, or puts it there,
\* or takes away one that a backup has taken for absent.
LEMMA WholeKeeps ==
  ASSUME ScriptWhole, bundle' = bundle, \A e \in Dbs' : From(e, Dbs), Lost \subseteq Lost',
         \A k \in Others(Dbs) : bucket'[k] = bucket[k] \/ bucket'[k] # Missing \/ k \in Lost,
         backups' = backups \/ ObjectsKnown'
  PROVE  DatabasesKnown' /\ ObjectsKnown'
<1>1. DatabasesKnown' /\ Others(Dbs)' \subseteq Others(Dbs)
  BY DatabasesShrink DEF ScriptWhole
<1>2. CASE backups' = backups
  <2>1. PICK new : new = Others(Dbs)'
    OBVIOUS
  <2>2. new \subseteq Others(Dbs)
    BY <1>1, <2>1
  <2>3. \A k \in new : bucket'[k] # Missing \/ k \in Lost'
    BY <2>2 DEF ScriptWhole, ObjectsKnown
  <2>4. \A i \in DOMAIN backups : \A k \in new :
          k \in DOMAIN backups[i].objects /\ backups[i].objects[k] = Missing => k \in Lost'
    BY <2>2 DEF ScriptWhole, ObjectsKnown
  <2>5. ObjectsKnown'
    BY <1>2, <2>1, <2>3, <2>4 DEF ObjectsKnown
  <2> QED BY <1>1, <2>5
<1> QED BY <1>1, <1>2

\* A step of the run, or of no run, with the databases that there are.
LEMMA SameDatabases ==
  ASSUME ScriptWhole, UNCHANGED <<bundle, db, backups>>,
         run'.scope \in {run.scope, bundle} \/ run'.scope = Extract(db),
         \A k \in Others(Dbs) : bucket'[k] = bucket[k] \/ bucket'[k] # Missing \/ k \in Lost
  PROVE  DatabasesKnown' /\ ObjectsKnown' /\ SourceKeys' = SourceKeys /\ (Agrees' <=> Agrees)
<1>1. SourceKeys' = SourceKeys /\ Lost' = Lost /\ (Agrees' <=> Agrees)
  BY DEF SourceKeys, Lost, Agrees
<1>2. From(bundle, Dbs) /\ \A e \in Dbs : From(e, Dbs)
  BY KnownFrom DEF ScriptWhole
<1>3. db \in Dbs /\ run.scope \in Dbs /\ IsDatabase(db) /\ bundle \in Bundles
  BY DEF Dbs, ScriptWhole, DatabasesKnown
<1>4. From(Extract(db), Dbs)
  <2>1. PICK e : e = Extract(db)
    OBVIOUS
  <2>2. e.doc = db.doc /\ KeptKeys(e) = KeptKeys(db)
    BY <1>3, <2>1, ScopeObjects
  <2>3. IsDatabase(e)
    BY <1>3, <2>1, ExtractIsDatabase
  <2> QED BY <1>3, <2>1, <2>2, <2>3 DEF From
<1>5. Dbs' \subseteq Dbs \cup {bundle, Extract(db)}
  BY DEF Dbs
<1>6. \A e \in Dbs' : From(e, Dbs)
  BY <1>2, <1>4, <1>5
<1>7. DatabasesKnown' /\ ObjectsKnown'
  BY <1>1, <1>6, WholeKeeps
<1> QED BY <1>1, <1>7

\* The run ends otherwise or goes on, and neither database nor bucket changes.
LEMMA WholeQuiet ==
  ASSUME ScriptWhole, UNCHANGED <<bundle, db, bucket, backups>>,
         run'.scope \in {run.scope, bundle} \/ run'.scope = Extract(db),
         run' = run \/ run'.stage \notin {"deleting", "verifying", "complete"}
  PROVE  ScriptWhole'
<1>1. DatabasesKnown' /\ ObjectsKnown' /\ SourceKeys' = SourceKeys /\ (Agrees' <=> Agrees)
  BY SameDatabases
<1>2. Compared'
  BY <1>1 DEF ScriptWhole, Compared, SourceObjectsThere
<1> QED BY <1>1, <1>2 DEF ScriptWhole

\* The script ends.
LEMMA WholeEnd ==
  ASSUME ScriptInv, ScriptWhole, Kill \/ RestoreEnds \/ Preflight
  PROVE  ScriptWhole'
<1>1. UNCHANGED <<bundle, db, bucket, backups>>
  BY DEF Kill, RestoreEnds, Preflight
<1>2. run'.scope = run.scope /\ run'.stage \notin {"deleting", "verifying", "complete"}
  <2>1. CASE Kill \/ RestoreEnds
    <3>1. PICK stage \in {"idle", "killed", "failed", "rolledback"} : Goes(stage, {})
      BY <2>1 DEF Kill, RestoreEnds, To
    <3>2. run'.stage = stage /\ run'.scope = run.scope
      BY <3>1, GoesFacts DEF ScriptInv, ScriptTyped
    <3> QED BY <3>1, <3>2
  <2>2. CASE Preflight
    <3>1. PICK stage \in {"tried", "failed"} :
            run' = [run EXCEPT !.was = [db |-> db, bucket |-> bucket], !.stage = stage]
      BY <2>2 DEF Preflight
    <3>2. run'.stage = stage /\ run'.scope = run.scope
      BY <3>1 DEF ScriptInv, ScriptTyped, IsRun
    <3> QED BY <3>1, <3>2
  <2> QED BY <2>1, <2>2
<1> QED BY <1>1, <1>2, WholeQuiet

\* What is backed up is what is there; what is missed there is missed in the bucket.
LEMMA WholeBackUp ==
  ASSUME ScriptInv, ScriptWhole, BackUp
  PROVE  ScriptWhole'
<1>1. PICK unseen \in SUBSET Present(TouchedKeys) :
        backups' = Append(backups,
          [db |-> db, unseen |-> unseen,
           objects |-> [k \in TouchedKeys |-> IF k \in unseen THEN Missing ELSE bucket[k]]])
  BY DEF BackUp
<1>2. PICK b : b = [db |-> db, unseen |-> unseen,
                    objects |-> [k \in TouchedKeys |-> IF k \in unseen THEN Missing ELSE bucket[k]]]
  OBVIOUS
<1>3. /\ b.db = db /\ b.unseen = unseen /\ backups' = Append(backups, b)
      /\ \A k \in DOMAIN b.objects : b.objects[k] = Missing => k \in unseen \/ bucket[k] = Missing
  BY <1>1, <1>2
<1>4. UNCHANGED <<bundle, db, bucket>> /\ run'.stage = "writing" /\ run'.scope = run.scope
  <2>1. PICK own : own = Len(backups) + 1
    OBVIOUS
  <2>2. /\ UNCHANGED <<bundle, db, bucket>>
        /\ run' = [run EXCEPT !.stage = "writing", !.todo = SourceKeys, !.own = own]
    BY <2>1 DEF BackUp
  <2> QED BY <2>2 DEF ScriptInv, ScriptTyped, IsRun
<1>5. PICK own : own = Len(backups) + 1
  OBVIOUS
<1>6. /\ DOMAIN backups = 1..Len(backups) /\ DOMAIN backups' = 1..own /\ backups'[own] = b
      /\ Len(backups) \in Nat
      /\ \A i \in DOMAIN backups : backups'[i] = backups[i]
      /\ \A i \in DOMAIN backups' : i = own \/ i \in DOMAIN backups
  BY <1>3, <1>5, Appended DEF ScriptInv, ScriptTyped
<1>7. DOMAIN backups \subseteq DOMAIN backups' /\ own \in DOMAIN backups'
  BY <1>5, <1>6
<1>8. Lost \subseteq Lost' /\ unseen \subseteq Lost'
  BY <1>3, <1>6, <1>7 DEF Lost
<1>9. Dbs' = Dbs
  <2>1. {backups'[i].db : i \in DOMAIN backups'} = {db} \cup {backups[i].db : i \in DOMAIN backups}
    BY <1>3, <1>6, <1>7
  <2> QED BY <1>4, <2>1 DEF Dbs
<1>10. \A e \in Dbs' : From(e, Dbs)
  BY <1>9, KnownFrom DEF ScriptWhole
<1>11. Others(Dbs)' = Others(Dbs)
  BY <1>4, <1>9 DEF Others, SourceKeys
<1>12. \A k \in Others(Dbs) : bucket[k] # Missing \/ k \in Lost
  BY DEF ScriptWhole, ObjectsKnown
<1>13. ASSUME NEW i \in DOMAIN backups', NEW k \in Others(Dbs),
              k \in DOMAIN backups'[i].objects, backups'[i].objects[k] = Missing
       PROVE  k \in Lost'
  <2>1. CASE i = own
    BY <1>3, <1>6, <1>8, <1>12, <1>13, <2>1
  <2>2. CASE i \in DOMAIN backups
    BY <1>6, <1>8, <1>13, <2>2 DEF ScriptWhole, ObjectsKnown
  <2> QED BY <1>6, <2>1, <2>2
<1>14. ObjectsKnown'
  BY <1>4, <1>8, <1>11, <1>12, <1>13 DEF ObjectsKnown
<1>15. DatabasesKnown'
  BY <1>4, <1>8, <1>10, <1>14, WholeKeeps
<1> QED BY <1>4, <1>14, <1>15 DEF ScriptWhole, Compared

\* A copy removes nothing.
LEMMA WholeWriteObject ==
  ASSUME ScriptInv, ScriptWhole, NEW k \in AllKeys, WriteObject(k)
  PROVE  ScriptWhole'
<1>1. /\ UNCHANGED <<bundle, db, backups>>
      /\ bucket' = [bucket EXCEPT ![k] = "new"] \/ bucket' = bucket
  BY DEF WriteObject
<1>2. run'.stage \in {"writing", "restoring"} /\ run'.scope = run.scope
  BY WriteObjectKeeps
<1>3. \A j \in AllKeys : bucket'[j] = bucket[j] \/ bucket'[j] # Missing
  <2>1. bucket = [j \in AllKeys |-> bucket[j]]
    BY DEF ScriptInv, ScriptTyped, IsBucket
  <2> QED BY <1>1, <2>1 DEF Missing
<1>4. DatabasesKnown' /\ ObjectsKnown'
  BY <1>1, <1>2, <1>3, SameDatabases DEF ScriptWhole, DatabasesKnown
<1> QED BY <1>2, <1>4 DEF ScriptWhole, Compared

\* The transaction keeps only what the target had, and leaves what compare-target
\* looks for.
LEMMA WholeSql ==
  ASSUME ScriptInv, ScriptWhole, Sql
  PROVE  ScriptWhole'
<1>1. UNCHANGED <<bundle, bucket, backups>>
  BY DEF Sql
<1>2. /\ run'.stage \in {"deleting", "restoring"} /\ run'.scope = run.scope
      /\ run'.stage = "deleting" => SqlApplies(bundle, db) /\ db' = ApplySql(bundle, db)
  BY SqlKeeps
<1>3. /\ bundle \in Bundles /\ IsBundle(bundle) /\ IsDatabase(db) /\ db \in Dbs
      /\ From(bundle, Dbs) /\ \A e \in Dbs : From(e, Dbs)
  BY KnownFrom, SourceKeysCount DEF ScriptWhole, DatabasesKnown, Dbs
<1>4. ASSUME SqlApplies(bundle, db), db' = ApplySql(bundle, db)
      PROVE  Agrees' /\ From(db', Dbs)
  <2>1. IsDatabase(db')
    BY <1>3, <1>4, AppliedIsDatabase
  <2>2. Merged(bundle, db, db', Ids(bundle.cache, db.cache), Ids(bundle.ref, db.ref))
    BY <1>3, <1>4, AppliedIsMerged
  <2>3. CompareTarget(bundle, Extract(db'))
    BY <1>3, <2>1, <2>2, CompareAccepts
  <2>4. db'.doc = bundle.doc
    BY <2>2 DEF Merged
  <2>5. Range(db'.doc) \subseteq SourceKeys /\ KeptKeys(db') \subseteq SourceKeys \cup KeptKeys(db)
    BY <1>3, <2>2, AppliedObjects DEF SourceKeys
  <2>6. From(db', Dbs)
    BY <1>3, <2>1, <2>5 DEF From
  <2> QED BY <1>1, <2>3, <2>4, <2>6 DEF Agrees
<1>5. From(db', Dbs)
  BY <1>3, <1>4 DEF Sql
<1>6. Dbs' \subseteq Dbs \cup {db'}
  BY <1>1, <1>2 DEF Dbs
<1>7. Lost' = Lost
  BY <1>1 DEF Lost
<1>8. \A e \in Dbs' : From(e, Dbs)
  BY <1>3, <1>5, <1>6
<1>9. DatabasesKnown' /\ ObjectsKnown'
  BY <1>1, <1>7, <1>8, WholeKeeps
<1>10. Compared'
  BY <1>2, <1>4 DEF Compared
<1> QED BY <1>9, <1>10 DEF ScriptWhole

\* Nothing that is kept for the scope is deleted.
LEMMA WholeDelete ==
  ASSUME ScriptInv, ScriptWhole, Delete
  PROVE  ScriptWhole'
<1>1. PICK heard \in SUBSET DeletedObjects(bundle, run.scope) :
        bucket' = [k \in AllKeys |-> IF k \in heard THEN Missing ELSE bucket[k]]
  BY DEF Delete
<1>2. run.stage = "deleting" /\ UNCHANGED <<bundle, db, backups>>
  BY DEF Delete
<1>3. run'.stage = "verifying" /\ run'.scope = run.scope
  BY DeleteKeeps
<1>4. ASSUME NEW k \in Others(Dbs)
      PROVE  k \in AllKeys /\ k \notin heard
  <2>1. k \in AllKeys /\ DocsKept(Dbs) /\ run.scope \in Dbs
    BY <1>4 DEF ScriptWhole, DatabasesKnown, Dbs
  <2>2. k \in Range(run.scope.doc) => k \in KeptKeys(run.scope)
    BY <1>4, <2>1 DEF DocsKept
  <2>3. k \in KeptKeys(run.scope) => KindKept(BuildObjects(run.scope)[k])
    BY ObjectsOf
  <2>4. k \notin DeletedObjects(bundle, run.scope)
    BY <2>2, <2>3, ObjectsOf DEF DeletedObjects
  <2> QED BY <2>1, <2>4
<1>5. \A k \in Others(Dbs) : bucket'[k] = bucket[k]
  BY <1>1, <1>4
<1>6. DatabasesKnown' /\ ObjectsKnown' /\ (Agrees' <=> Agrees)
  BY <1>2, <1>3, <1>5, SameDatabases
<1> QED BY <1>2, <1>3, <1>6 DEF ScriptWhole, Compared

\* What was found equal is complete.
LEMMA WholeVerify ==
  ASSUME ScriptInv, ScriptWhole, Verify
  PROVE  ScriptWhole'
<1>1. run.stage = "verifying" /\ UNCHANGED <<bundle, db, bucket, backups>>
  BY DEF Verify
<1>2. PICK stage \in {"complete", "refused"} :
        Goes(stage, {}) /\ (stage = "complete" => SourceObjectsThere)
  BY DEF Verify, To
<1>3. run'.stage = stage /\ run'.scope = run.scope
  BY <1>2, GoesFacts DEF ScriptInv, ScriptTyped
<1>4. DatabasesKnown' /\ ObjectsKnown' /\ SourceKeys' = SourceKeys /\ (Agrees' <=> Agrees)
  BY <1>1, <1>3, SameDatabases
<1>5. Compared'
  BY <1>1, <1>2, <1>3, <1>4 DEF ScriptWhole, Compared, SourceObjectsThere
<1> QED BY <1>4, <1>5 DEF ScriptWhole

\* A database of before is one that was known.
LEMMA WholeRollback ==
  ASSUME ScriptInv, ScriptWhole, NEW n, Rollback(n)
  PROVE  ScriptWhole'
<1>1. /\ n \in 1..Len(backups) /\ db' = backups[n].db
      /\ UNCHANGED <<bundle, bucket, backups>>
  BY DEF Rollback
<1>2. run'.stage = "undoing" /\ run'.scope \in {run.scope, bundle}
  BY RollbackKeeps
<1>3. From(bundle, Dbs) /\ \A e \in Dbs : From(e, Dbs)
  BY KnownFrom DEF ScriptWhole
<1>4. db' \in Dbs
  <2>1. n \in DOMAIN backups
    BY <1>1, Appended DEF ScriptInv, ScriptTyped
  <2> QED BY <1>1, <2>1 DEF Dbs
<1>5. Dbs' \subseteq Dbs \cup {bundle}
  BY <1>1, <1>2, <1>4 DEF Dbs
<1>6. \A e \in Dbs' : From(e, Dbs)
  BY <1>3, <1>5
<1>7. Lost' = Lost
  BY <1>1 DEF Lost
<1>8. DatabasesKnown' /\ ObjectsKnown'
  BY <1>1, <1>6, <1>7, WholeKeeps
<1> QED BY <1>2, <1>8 DEF ScriptWhole, Compared

\* What a restore removes is what the backup has taken for absent.
LEMMA WholeRestore ==
  ASSUME ScriptInv, ScriptWhole, NEW k \in AllKeys, RestoreObject(k)
  PROVE  ScriptWhole'
<1>1. /\ run.stage \in {"restoring", "undoing"} /\ k \in run.todo
      /\ UNCHANGED <<bundle, db, backups>>
  BY DEF RestoreObject
<1>2. run'.stage = run.stage /\ run'.scope = run.scope
  BY RestoreObjectKeeps
<1>3. PICK objects : objects = backups[run.of].objects
  OBVIOUS
<1>4. k \in DOMAIN objects /\ run.of \in DOMAIN backups
  <2>1. run.of # 0 /\ k \in DOMAIN objects /\ run.of \in 0..Len(backups)
    BY <1>1, <1>3 DEF ScriptInv, ScriptTyped, BackupKnown, BackedUp
  <2>2. Len(backups) \in Nat /\ DOMAIN backups = 1..Len(backups)
    BY Appended DEF ScriptInv, ScriptTyped
  <2> QED BY <2>1, <2>2
<1>5. \/ objects[k] # Missing /\ bucket' = [bucket EXCEPT ![k] = objects[k]]
      \/ objects[k] = Missing /\ (bucket' = [bucket EXCEPT ![k] = Missing] \/ bucket' = bucket)
  BY <1>1, <1>3 DEF RestoreObject
<1>6. k \in Others(Dbs) /\ objects[k] = Missing => k \in Lost
  BY <1>3, <1>4 DEF ScriptWhole, ObjectsKnown
<1>7. \A j \in AllKeys : bucket'[j] = bucket[j] \/ (j = k /\ (objects[k] = Missing \/ bucket'[j] # Missing))
  <2>1. bucket = [j \in AllKeys |-> bucket[j]]
    BY DEF ScriptInv, ScriptTyped, IsBucket
  <2> QED BY <1>5, <2>1
<1>8. \A j \in Others(Dbs) : bucket'[j] = bucket[j] \/ bucket'[j] # Missing \/ j \in Lost
  BY <1>6, <1>7 DEF ScriptWhole, DatabasesKnown
<1>9. DatabasesKnown' /\ ObjectsKnown'
  BY <1>1, <1>2, <1>8, SameDatabases
<1> QED BY <1>1, <1>2, <1>9 DEF ScriptWhole, Compared

\* A document is saved under a new key: nothing that is kept is touched.
LEMMA WholeSave ==
  ASSUME ScriptInv, ScriptWhole, NEW k \in AllKeys, SaveDocument(k)
  PROVE  ScriptWhole'
<1>1. /\ writers /\ k \in Unused /\ bucket' = [bucket EXCEPT ![k] = "old"]
      /\ db' = [db EXCEPT !.doc = [i \in DOMAIN db.doc \cup {k} |-> IF i = k THEN k ELSE db.doc[i]]]
      /\ UNCHANGED <<bundle, writers, backups, run>>
  BY DEF SaveDocument
<1>2. run.stage \in {"idle", "scoped"}
  BY <1>1 DEF ScriptInv, Undoable
<1>3. db \in Dbs /\ IsDatabase(db) /\ \A e \in Dbs : From(e, Dbs)
  BY KnownFrom DEF ScriptWhole, DatabasesKnown, Dbs
<1>4. PICK doc : doc = [i \in DOMAIN db.doc \cup {k} |-> IF i = k THEN k ELSE db.doc[i]]
  OBVIOUS
<1>5. /\ db \in [reminder : {db.reminder}, doc : {db.doc}, asset : {db.asset},
                 cache : {db.cache}, ref : {db.ref}]
      /\ \A i \in DOMAIN db.reminder :
           db.reminder[i] \in [status : {db.reminder[i].status}, due : Nat]
      /\ db.ref \in [DOMAIN db.ref -> [key : Keys(db.ref), cache : DOMAIN db.cache]]
  BY <1>3 DEF IsDatabase
<1>6. /\ db' \in [reminder : {db'.reminder}, doc : {db'.doc}, asset : {db'.asset},
                  cache : {db'.cache}, ref : {db'.ref}]
      /\ db'.reminder = db.reminder /\ db'.asset = db.asset /\ db'.doc = doc
      /\ db'.cache = db.cache /\ db'.ref = db.ref
  BY <1>1, <1>4, <1>5
<1>7. IsDatabase(db')
  BY <1>5, <1>6 DEF IsDatabase
<1>8. KeptKeys(db') = KeptKeys(db)
  BY <1>6 DEF KeptKeys, CacheObjects, Referenced
<1>9. \A j \in Range(db'.doc) : j = k \/ j \in Range(db.doc)
  BY <1>4, <1>6 DEF Range
<1>10. From(db', Dbs)
  BY <1>1, <1>3, <1>7, <1>8, <1>9 DEF From
<1>11. Dbs' \subseteq Dbs \cup {db'} /\ Lost' = Lost
  BY <1>1 DEF Dbs, Lost
<1>12. \A j \in Others(Dbs) : bucket'[j] = bucket[j]
  <2>1. bucket = [j \in AllKeys |-> bucket[j]]
    BY DEF ScriptInv, ScriptTyped, IsBucket
  <2>2. \A j \in AllKeys \ Unused : bucket'[j] = bucket[j]
    BY <1>1, <2>1
  <2> QED BY <2>2 DEF ScriptWhole, DatabasesKnown
<1>13. \A e \in Dbs' : From(e, Dbs)
  BY <1>3, <1>10, <1>11
<1>14. DatabasesKnown' /\ ObjectsKnown'
  BY <1>1, <1>11, <1>12, <1>13, WholeKeeps
<1> QED BY <1>1, <1>2, <1>14 DEF ScriptWhole, Compared

\* Every step.
LEMMA WholeKept ==
  ASSUME UndoInv, WholeInv, Frozen, [MCNext]_mcvars
  PROVE  WholeInv'
<1>1. CASE UNCHANGED <<avars, part>>
  <2>1. UNCHANGED <<bundle, db, bucket, backups, run, part>>
    BY <1>1 DEF avars
  <2> QED BY <2>1, WholeQuiet DEF WholeInv
<1>2. CASE part = "script" /\ ANext /\ UNCHANGED part
  <2>1. ScriptInv /\ ScriptWhole
    BY <1>2 DEF UndoInv, WholeInv
  <2>2. ASSUME StopWriters \/ StartWriters \/ Start
        PROVE  ScriptWhole'
    <3>1. UNCHANGED <<bundle, db, bucket, backups>>
      BY <2>2 DEF StopWriters, StartWriters, Start
    <3>2. /\ run' = run \/ run'.stage \in {"idle", "scoped"}
          /\ run'.scope \in {run.scope, bundle} \/ run'.scope = Extract(db)
      BY <1>2, <2>1, <2>2, OutsideKeeps
    <3> QED BY <2>1, <3>1, <3>2, WholeQuiet
  <2>3. ScriptWhole'
    BY <1>2, <2>1, <2>2, WholeEnd, WholeBackUp, WholeWriteObject, WholeSql, WholeDelete,
       WholeVerify, WholeRollback, WholeRestore, WholeSave DEF ANext
  <2> QED BY <1>2, <2>3 DEF WholeInv
<1> QED BY <1>1, <1>2 DEF MCNext, mcvars

\* First the objects of the target's rows are there.
LEMMA WholeInit == MCInit => WholeInv
<1>1. ASSUME AInit
      PROVE  ScriptWhole
  <2>1. /\ bundle \in Bundles /\ db \in Targets /\ backups = <<>> /\ run = NoRun
        /\ bucket = [k \in AllKeys |-> IF k \in DOMAIN BuildObjects(db) THEN "old" ELSE Missing]
    BY <1>1 DEF AInit
  <2>2. DOMAIN BuildObjects(db) \subseteq AllKeys \ Unused
    <3>1. /\ DOMAIN BuildObjects(db) \in {DOMAIN BuildObjects(d) : d \in Bundles \cup Targets}
          /\ Unused \cap DOMAIN BuildObjects(db) = {}
      BY <2>1, UnusedAssumption
    <3> QED BY <3>1 DEF AllKeys
  <2>3. Dbs = {db, bundle} /\ run.stage = "idle"
    <3>1. run.scope = bundle /\ run.stage = "idle" /\ DOMAIN backups = {}
      BY <2>1, NoRunFacts
    <3> QED BY <3>1 DEF Dbs
  <2>4. IsDatabase(db) /\ IsDatabase(bundle) /\ KeptKeys(bundle) \subseteq SourceKeys
        /\ Range(bundle.doc) \subseteq SourceKeys
    BY <2>1, SidesAssumption, SourceKeysCount
  <2>5. Others(Dbs) = KeptKeys(db) \ SourceKeys
    BY <2>3, <2>4 DEF Others
  <2>6. KeptKeys(db) \subseteq DOMAIN BuildObjects(db)
    BY ObjectsOf
  <2>7. DocsKept(Dbs)
    BY <2>3, <2>4, <2>5 DEF DocsKept
  <2>8. DatabasesKnown
    BY <2>1, <2>2, <2>3, <2>4, <2>5, <2>6, <2>7 DEF DatabasesKnown
  <2>9. ObjectsKnown
    <3>1. \A k \in Others(Dbs) : bucket[k] = "old" /\ DOMAIN backups = {}
      BY <2>1, <2>2, <2>5, <2>6
    <3>2. \A k \in Others(Dbs) : bucket[k] # Missing
      BY <3>1 DEF Missing
    <3>3. DOMAIN backups = {}
      BY <2>1
    <3> QED BY <3>2, <3>3 DEF ObjectsKnown
  <2> QED BY <2>3, <2>8, <2>9 DEF ScriptWhole, Compared
<1>2. ASSUME part = "review", NoScript
      PROVE  WholeInv
  BY <1>2, NoRunFacts DEF NoScript, WholeInv
<1> QED BY <1>1, <1>2 DEF MCInit, WholeInv

\* With any bundles, target databases and object keys, whether or not mc and COMMIT
\* answer: compare-target accepts what an apply wrote, no row that is left loses its
\* object and no reminder is left to be sent late; and a run of the script that ends
\* complete ends over a target that agrees with the bundle and has every object that
\* no backup has taken for absent.
THEOREM SuccessIsWhole ==
  ASSUME Frozen
  PROVE  MCSpec => []SuccessIsTrue
<1>1. MCInit => PartsReview /\ UndoInv /\ WholeInv
  BY ReviewBegins, UndoInit, WholeInit DEF MCInit, NoReview, PartsReview
<1>2. PartsReview /\ UndoInv /\ WholeInv /\ [MCNext]_mcvars => (PartsReview /\ UndoInv /\ WholeInv)'
  BY PartsReviewKept, UndoKept, WholeKept
<1>3. PartsReview /\ UndoInv /\ WholeInv => SuccessIsTrue
  <2>1. ASSUME PartsReview
        PROVE  AppliedAsReviewed
    BY <2>1, ReviewIsSound DEF PartsReview, AppliedAsReviewed,
       CompareAcceptsApply, NoDanglingObject, NothingIsSentLate
  <2> QED BY <2>1, CompleteOverWhole DEF SuccessIsTrue
<1> QED BY <1>1, <1>2, <1>3, PTL DEF MCSpec
=============================================================================
