---------------------------- MODULE IdentitySync ----------------------------
(***************************************************************************)
(* keycloak_identity_sync.py: one student identity at a time is copied     *)
(* from the dev Keycloak database to prod.  Both Keycloaks are found       *)
(* stopped first; then come a rollback-only preflight, an encrypted backup *)
(* of the whole prod database, one serializable transaction, a comparison, *)
(* and the restore of the backup where the comparison fails.               *)
(***************************************************************************)
EXTENDS Naturals, Sequences

CONSTANTS Students,
          Mapped,     \* students all of whose roles exist in prod
          MaxEdits,   \* bound: edits of an identity in dev
          MaxBackups  \* bound: runs that reach the backup

ASSUME StudentsAssumption == Mapped \subseteq Students
ASSUME BoundsAssumption == MaxEdits \in Nat /\ MaxBackups \in Nat

VARIABLES up,       \* the Keycloaks that run
          source,   \* dev: version of the identity, whether it may be copied, and whether
                    \* a child row has a column that prod lacks
          prod,     \* prod: the students' identities, names used by other accounts
          backups,  \* backup directory: dumps, sealed by the transport checksums
          run,      \* the process of one command; still: both Keycloaks have been
                    \* stopped since its guards
          reported  \* students reported synchronized since both were stopped

vars == <<up, source, prod, backups, run, reported>>

\* Version 0 is what prod itself has written.
Absent == [v |-> 0, whole |-> FALSE]
Snapshot == [v: 1..MaxEdits + 1, fit: BOOLEAN, wide: BOOLEAN]
Over == {"done", "failed"}
Unread == [v |-> 0, fit |-> FALSE, wide |-> FALSE]

\* Prod may hold an identity of its own for a subject, or use its name.
Init ==
  /\ up = {"dev", "prod"}
  /\ source \in [Students -> {x \in Snapshot : x.v = 1}]
  /\ prod \in [ids: [Students -> {Absent, [v |-> 0, whole |-> TRUE]}],
               taken: SUBSET Students]
  /\ \A s \in prod.taken : prod.ids[s] = Absent
  /\ backups = <<>>
  /\ run = [stage |-> "done", who |-> CHOOSE s \in Students : TRUE, still |-> FALSE,
            snap |-> Unread]
  /\ reported = {}

----------------------------------------------------------------------------
(* The two Keycloaks, while they run *)

DevEdit(s) ==
  /\ "dev" \in up /\ source[s].v <= MaxEdits
  /\ \E x \in Snapshot :
       x.v = source[s].v + 1 /\ source' = [source EXCEPT ![s] = x]
  /\ UNCHANGED <<up, prod, backups, run, reported>>

\* A subject is imported or edited, or another account takes the student's name.
ProdWrite(s) ==
  /\ "prod" \in up
  /\ \/ /\ s \notin prod.taken
        /\ prod' = [prod EXCEPT !.ids[s] = [v |-> 0, whole |-> TRUE]]
     \/ /\ prod.ids[s] = Absent
        /\ prod' = [prod EXCEPT !.taken = @ \cup {s}]
  /\ UNCHANGED <<up, source, backups, run, reported>>

Stop(k) ==
  /\ k \in up
  /\ up' = up \ {k}
  /\ UNCHANGED <<source, prod, backups, run, reported>>

\* Nothing keeps an operator from doing so in the middle of a run.
Start(k) ==
  /\ k \notin up
  /\ up' = up \cup {k}
  /\ reported' = {} /\ run' = [run EXCEPT !.still = FALSE]
  /\ UNCHANGED <<source, prod, backups>>

----------------------------------------------------------------------------
(* The steps of apply *)

To(stage) == run' = [run EXCEPT !.stage = stage]

\* What the process has read goes with it.
Ends(stage) == run' = [stage |-> stage, who |-> run.who, still |-> FALSE, snap |-> Unread]

\* What was said with a Keycloak running may be over at once.
Report(s) == reported' = IF run.still THEN reported \cup {s} ELSE reported

\* The operator's two guards, one after the other: each is a command that finds its
\* Keycloak stopped.
Guard(k) == k \notin up

Begin(s) ==
  /\ run.stage \in Over
  /\ Guard("dev")
  /\ run' = [run EXCEPT !.stage = "guarded", !.who = s, !.still = (up = {})]
  /\ UNCHANGED <<up, source, prod, backups, reported>>

GuardTarget ==
  /\ run.stage = "guarded"
  /\ Guard("prod")
  /\ run' = [run EXCEPT !.stage = "checked", !.still = (up = {})]
  /\ UNCHANGED <<up, source, prod, backups, reported>>

\* validate_source: a password, no forced change, no federation, groups, consents.
ReadSource ==
  /\ run.stage = "checked"
  /\ IF source[run.who].fit
     THEN run' = [run EXCEPT !.stage = "read", !.snap = source[run.who]]
     ELSE Ends("failed")
  /\ UNCHANGED <<up, source, prod, backups, reported>>

\* Mutant: only the portable columns of the user row are compared.
MatchesUser(s) == prod.ids[s].v = run.snap.v

\* The fingerprint covers the user's portable columns and all its child rows.
Matches(s) == prod.ids[s] = [v |-> run.snap.v, whole |-> TRUE]

\* validate_target_context: realm and tables, no conflict, every role.
TargetFits(s) == s \notin prod.taken /\ s \in Mapped

ReadTarget ==
  LET s == run.who IN
  /\ run.stage = "read"
  /\ \/ TargetFits(s) /\ prod.ids[s] = Absent /\ To("missing") /\ UNCHANGED reported
     \/ /\ TargetFits(s) /\ prod.ids[s] # Absent /\ Matches(s) /\ Ends("done")
        /\ Report(s)
     \/ /\ ~TargetFits(s) \/ (prod.ids[s] # Absent /\ ~Matches(s))
        /\ Ends("failed") /\ UNCHANGED reported
  /\ UNCHANGED <<up, source, prod, backups>>

\* Mutant: what the plan found of the subject is not asked again.
NameStillFree(s) == s \notin prod.taken /\ s \in Mapped

\* The checks inside the transaction; a role that is gone fails its foreign key.
SqlPasses(s) == prod.ids[s] = Absent /\ s \notin prod.taken /\ s \in Mapped

\* Only columns that prod has are inserted; realm and role ids are mapped to prod's.
Inserted(s) == [v |-> run.snap.v, whole |-> ~run.snap.wide]

\* The same transaction, rolled back.
Preflight ==
  /\ run.stage = "missing"
  /\ SqlPasses(run.who)
  /\ To("tried")
  /\ UNCHANGED <<up, source, prod, backups, reported>>

\* pg_dump, archive and encryption: nothing seals these files yet.
Dump ==
  /\ run.stage = "tried" /\ Len(backups) < MaxBackups
  /\ backups' = Append(backups, [db |-> prod, sealed |-> FALSE])
  /\ To("dumped")
  /\ UNCHANGED <<up, source, prod, reported>>

\* The key and the archive are decrypted once before the checksums are written.
Seal ==
  /\ run.stage = "dumped"
  /\ backups' = [backups EXCEPT ![Len(backups)].sealed = TRUE]
  /\ To("backed")
  /\ UNCHANGED <<up, source, prod, reported>>

\* Mutant: the transaction does not wait for the backup to be verified.
BackupBegun == run.stage \in {"dumped", "backed"}

BackedUp == run.stage = "backed"

\* One transaction; the answer to its COMMIT may be lost.
Apply ==
  /\ BackedUp
  /\ SqlPasses(run.who)
  /\ prod' = [prod EXCEPT !.ids[run.who] = Inserted(run.who)]
  /\ To("applied") \/ Ends("failed")
  /\ UNCHANGED <<up, source, backups, reported>>

Verify ==
  /\ run.stage = "applied"
  /\ \/ /\ Matches(run.who) /\ Ends("done")
        /\ Report(run.who)
     \/ ~Matches(run.who) /\ To("restoring") /\ UNCHANGED reported
  /\ UNCHANGED <<up, source, prod, backups>>

\* pg_restore --clean in one transaction: the whole database.
Restored(k) ==
  /\ k \in 1..Len(backups) /\ backups[k].sealed
  /\ prod' = backups[k].db

Restore ==
  /\ run.stage = "restoring"
  /\ Restored(Len(backups))
  /\ Ends("failed")
  /\ UNCHANGED <<up, source, backups, reported>>

\* Any command fails, the transaction does, or the tool is killed.
Fail ==
  /\ run.stage \notin Over
  /\ Ends("failed")
  /\ UNCHANGED <<up, source, prod, backups, reported>>

----------------------------------------------------------------------------
(* The other commands *)

\* verify reads the same pair, and compares; it has no guard of its own.
VerifyCommand(s) ==
  /\ run.stage \in Over
  /\ source[s].fit /\ TargetFits(s)
  /\ prod.ids[s] = [v |-> source[s].v, whole |-> TRUE]
  /\ reported' = IF up = {} THEN reported \cup {s} ELSE reported
  /\ UNCHANGED <<up, source, prod, backups, run>>

\* The operator names a backup; Keycloak must be stopped in prod.
Rollback(k) ==
  /\ run.stage \in Over
  /\ "prod" \notin up
  /\ Restored(k)
  /\ reported' = {}
  /\ UNCHANGED <<up, source, backups, run>>

Tool == GuardTarget \/ ReadSource \/ ReadTarget \/ Preflight \/ Dump \/ Seal \/ Apply
          \/ Verify \/ Restore \/ Fail

Environment ==
  \/ \E s \in Students : DevEdit(s) \/ ProdWrite(s)
  \/ \E k \in {"dev", "prod"} : Stop(k) \/ Start(k)

Next ==
  \/ Environment \/ Tool
  \/ \E s \in Students : Begin(s) \/ VerifyCommand(s)
  \/ \E k \in 1..MaxBackups : Rollback(k)

Spec == Init /\ [][Next]_vars

----------------------------------------------------------------------------
(* Properties *)

\* As long as both Keycloaks stay stopped, a student that apply or verify has
\* reported synchronized is in prod, and is what dev holds, through later runs
\* for other students, their automatic restores, failures and kills.
ReportedIsTrue ==
  \A s \in reported : prod.ids[s] = [v |-> source[s].v, whole |-> TRUE]

\* Whatever a run does can be undone.  A copy that the tool has put into prod can be
\* taken out again: some sealed backup holds the database without it, after any
\* failure, kill, restore or rollback.  And if both Keycloaks stay stopped, prod is
\* its backup but for the one student, so that the restore undoes exactly the run.
RunsCanBeUndone ==
  /\ \A s \in Students : prod.ids[s].v # 0 =>
       \E k \in DOMAIN backups : backups[k].sealed /\ backups[k].db.ids[s].v = 0
  /\ run.still /\ run.stage \in {"applied", "restoring"} =>
       [prod EXCEPT !.ids[run.who] = Absent] = backups[Len(backups)].db

\* Even if Keycloak is started behind the guards, no step of a run replaces an
\* identity that prod has, but for the restore of the run's own backup.
NothingOverwritten ==
  [][Tool /\ ~Restore => \A s \in Students :
       prod.ids[s] # Absent => prod'.ids[s] = prod.ids[s]]_vars
============================================================================
