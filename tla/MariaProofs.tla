----------------------------- MODULE MariaProofs -----------------------------
(***************************************************************************)
(* The identity sync and its launcher, for any students, roles, edits,     *)
(* backups and windows, run by hand or by the launcher: what is said of    *)
(* the copies is true, every copy can be taken out again, and no step but  *)
(* the restore overwrites what prod has.                                   *)
(***************************************************************************)
EXTENDS MCMaria, TLAPS

----------------------------------------------------------------------------
(* Types *)

Identity == [v: 0..MaxEdits + 1, whole: BOOLEAN]
Database == [ids: [Students -> Identity], taken: SUBSET Students]
Backup == [db: Database, sealed: BOOLEAN]
Unaware == {"guarded", "checked"}
Stages == Over \cup Unaware \cup {"read", "missing", "tried", "dumped", "backed",
                                   "applied", "restoring"}

IdentityTypes ==
  /\ up \subseteq {"dev", "prod"}
  /\ source \in [Students -> Snapshot]
  /\ prod \in Database
  /\ backups \in Seq(Backup)
  /\ run.stage \in Stages /\ run.still \in BOOLEAN
  /\ run.snap \in Snapshot \cup {Unread}
  /\ run = [stage |-> run.stage, who |-> run.who, still |-> run.still, snap |-> run.snap]
  /\ reported \subseteq Students

----------------------------------------------------------------------------
(* What the properties rest on *)

Last == backups[Len(backups)]

\* The process works for a student, with what it has read of it.
RunFits ==
  run.stage \notin Over =>
    /\ run.who \in Students
    /\ run.stage \notin Unaware => run.snap \in Snapshot

\* What is reported, and what a run with both Keycloaks stopped has read, is as it
\* is said as long as both stay stopped.
StoppedIsStill ==
  /\ reported # {} => up = {}
  /\ run.still =>
       /\ up = {} /\ run.stage \notin Over
       /\ run.stage \notin Unaware => run.snap = source[run.who]
  /\ run.stage \notin Over /\ ~run.still => reported = {}

\* Only a copy that is not whole is taken back.
RestoresHalfCopies == run.still /\ run.stage = "restoring" => ~Matches(run.who)

\* Until its transaction, the run's student is not one that the tool has copied.
NotYetCopied ==
  run.stage \in {"tried", "dumped", "backed"} => prod.ids[run.who].v = 0

\* The run's own backup is of the database without the student, is sealed before
\* the transaction, and is all that prod was.
OwnBackup ==
  run.stage \in {"dumped", "backed", "applied", "restoring"} =>
    /\ backups # <<>> /\ Last.db.ids[run.who].v = 0
    /\ run.stage # "dumped" => Last.sealed
    /\ run.still /\ run.stage \in {"dumped", "backed"} => Last.db = prod

\* Every copy in the database d can be taken out again by some sealed backup.
Undoable(d) ==
  \A s \in Students : d.ids[s].v # 0 =>
    \E k \in DOMAIN backups : backups[k].sealed /\ backups[k].db.ids[s].v = 0

AllUndoable == Undoable(prod) /\ \A k \in DOMAIN backups : Undoable(backups[k].db)

\* The launcher in its windows; by hand there are none.
InWindow ==
  /\ win \in {"closed", "recorded", "identities", "applying", "learned", "cleaning"}
  /\ windows \in Nat /\ todo \subseteq Students /\ recorded \subseteq {"dev", "prod"}
  /\ by = "hand" => win = "closed"
  /\ by # "hand" =>
       /\ IF win = "applying" THEN run.who \in todo ELSE run.stage \in Over
       /\ win \in {"identities", "applying", "learned"} => up = {}
       /\ windows = 0 => win = "closed" /\ \A s \in Students : prod.ids[s] = Absent
       /\ windows = 1 /\ win \in {"recorded", "identities", "applying", "learned"} =>
            Students \ todo \subseteq reported
       /\ win = "learned" => todo = {}

RunInv ==
  /\ IdentityTypes /\ RunFits /\ StoppedIsStill /\ RestoresHalfCopies /\ NotYetCopied
  /\ OwnBackup /\ AllUndoable /\ ReportedIsTrue /\ RunsCanBeUndone

MariaInv == RunInv /\ InWindow

----------------------------------------------------------------------------
(* The steps of the two Keycloaks *)

\* Facts that the steps below share: the record of the run, and its updates.
LEMMA RunFacts ==
  ASSUME IdentityTypes
  PROVE  /\ \A stage : To(stage) =>
              /\ run'.stage = stage /\ run'.who = run.who /\ run'.still = run.still
              /\ run'.snap = run.snap
              /\ run' = [stage |-> run'.stage, who |-> run'.who, still |-> run'.still,
                         snap |-> run'.snap]
         /\ \A stage : Ends(stage) =>
              /\ run'.stage = stage /\ run'.who = run.who /\ run'.still = FALSE
              /\ run'.snap = Unread
              /\ run' = [stage |-> run'.stage, who |-> run'.who, still |-> run'.still,
                         snap |-> run'.snap]
<1>1. PICK a, b, c, d : run = [stage |-> a, who |-> b, still |-> c, snap |-> d]
  BY DEF IdentityTypes
<1> QED BY <1>1 DEF To, Ends

\* What a backup holds.
LEMMA BackupFacts ==
  ASSUME backups \in Seq(Backup), NEW k \in DOMAIN backups
  PROVE  backups[k] \in Backup /\ backups[k].db \in Database
<1>1. backups[k] \in Backup OBVIOUS
<1>2. backups[k].db \in Database BY <1>1 DEF Backup
<1> QED BY <1>1, <1>2

\* A Keycloak starts: nothing is still, and nothing reported.
LEMMA UnstillSafe ==
  ASSUME RunInv, up' \subseteq {"dev", "prod"}, reported' = {},
         run' = [run EXCEPT !.still = FALSE], UNCHANGED <<source, prod, backups>>
  PROVE  RunInv'
<1> USE DEF RunInv
<1>1. /\ run'.stage = run.stage /\ run'.who = run.who /\ run'.still = FALSE
      /\ run'.snap = run.snap
      /\ run' = [stage |-> run'.stage, who |-> run'.who, still |-> run'.still,
                 snap |-> run'.snap]
  <2>1. PICK a, b, c, d : run = [stage |-> a, who |-> b, still |-> c, snap |-> d]
    BY DEF IdentityTypes
  <2> QED BY <2>1
<1>2. IdentityTypes' BY <1>1 DEF IdentityTypes
<1>3. RunFits' /\ StoppedIsStill' /\ RestoresHalfCopies' /\ NotYetCopied'
  BY <1>1 DEF RunFits, StoppedIsStill, RestoresHalfCopies, NotYetCopied
<1>4. OwnBackup' BY <1>1 DEF OwnBackup, Last
<1>5. AllUndoable' BY DEF AllUndoable, Undoable
<1>6. ReportedIsTrue' BY DEF ReportedIsTrue
<1>7. RunsCanBeUndone' BY <1>1 DEF RunsCanBeUndone
<1> QED BY <1>2, <1>3, <1>4, <1>5, <1>6, <1>7

\* Edits and imports need a Keycloak that runs, and write no copies.
LEMMA EnvironmentSafe ==
  ASSUME RunInv, Environment
  PROVE  RunInv'
<1> USE DEF RunInv
<1>1. ASSUME NEW s \in Students, DevEdit(s) PROVE RunInv'
  <2>1. /\ source' \in [Students -> Snapshot] /\ reported = {} /\ ~run.still
        /\ UNCHANGED <<up, prod, backups, run, reported>>
    BY <1>1 DEF DevEdit, IdentityTypes, StoppedIsStill
  <2>2. IdentityTypes' BY <2>1 DEF IdentityTypes
  <2>3. RunFits' /\ StoppedIsStill' /\ RestoresHalfCopies' /\ NotYetCopied'
    BY <2>1 DEF RunFits, StoppedIsStill, RestoresHalfCopies, NotYetCopied
  <2>4. OwnBackup' /\ AllUndoable'
    BY <2>1 DEF OwnBackup, Last, AllUndoable, Undoable
  <2>5. ReportedIsTrue' /\ RunsCanBeUndone'
    BY <2>1 DEF ReportedIsTrue, RunsCanBeUndone
  <2> QED BY <2>2, <2>3, <2>4, <2>5
<1>2. ASSUME NEW s \in Students, ProdWrite(s) PROVE RunInv'
  <2>1. /\ reported = {} /\ ~run.still /\ UNCHANGED <<up, source, backups, run, reported>>
    BY <1>2 DEF ProdWrite, StoppedIsStill
  <2>2. [v |-> 0, whole |-> TRUE] \in Identity BY BoundsAssumption DEF Identity
  <2>3. /\ prod' \in Database
        /\ \A t \in Students : prod'.ids[t] = prod.ids[t] \/ prod'.ids[t].v = 0
    <3>1. PICK i \in [Students -> Identity], n \in SUBSET Students :
            prod = [ids |-> i, taken |-> n]
      BY DEF IdentityTypes, Database
    <3>2. CASE prod' = [prod EXCEPT !.ids[s] = [v |-> 0, whole |-> TRUE]]
      <4>1. prod' = [ids |-> [i EXCEPT ![s] = [v |-> 0, whole |-> TRUE]], taken |-> n]
        BY <3>1, <3>2
      <4>2. [i EXCEPT ![s] = [v |-> 0, whole |-> TRUE]] \in [Students -> Identity]
        BY <2>2
      <4>3. prod' \in Database BY <4>1, <4>2 DEF Database
      <4> QED BY <3>1, <4>1, <4>3
    <3>3. CASE prod' = [prod EXCEPT !.taken = @ \cup {s}]
      <4>1. prod' = [ids |-> i, taken |-> n \cup {s}] BY <3>1, <3>3
      <4>2. prod' \in Database BY <4>1 DEF Database
      <4> QED BY <3>1, <4>1, <4>2
    <3> QED BY <1>2, <3>2, <3>3 DEF ProdWrite
  <2>4. \A t \in Students : prod'.ids[t] = prod.ids[t] \/ prod'.ids[t].v = 0
    BY <2>3
  <2>5. IdentityTypes' BY <2>1, <2>3 DEF IdentityTypes
  <2>6. /\ RunFits' /\ StoppedIsStill' /\ RestoresHalfCopies'
        /\ NotYetCopied'
    <3>1. RunFits' /\ StoppedIsStill' /\ RestoresHalfCopies'
      BY <2>1 DEF RunFits, StoppedIsStill, RestoresHalfCopies
    <3>2. NotYetCopied' BY <2>1, <2>4 DEF NotYetCopied, RunFits, Over, Unaware
    <3> QED BY <3>1, <3>2
  <2>7. OwnBackup' BY <2>1 DEF OwnBackup, Last
  <2>8. AllUndoable' BY <2>1, <2>4 DEF AllUndoable, Undoable
  <2>9. ReportedIsTrue' /\ RunsCanBeUndone'
    BY <2>1, <2>8 DEF ReportedIsTrue, RunsCanBeUndone, AllUndoable, Undoable
  <2> QED BY <2>5, <2>6, <2>7, <2>8, <2>9
<1>3. ASSUME NEW k \in {"dev", "prod"}, Stop(k) PROVE RunInv'
  <2>1. up' \subseteq up /\ UNCHANGED <<source, prod, backups, run, reported>>
    BY <1>3 DEF Stop
  <2>2. IdentityTypes' BY <2>1 DEF IdentityTypes
  <2>3. RunFits' /\ StoppedIsStill' /\ RestoresHalfCopies' /\ NotYetCopied'
    BY <2>1 DEF RunFits, StoppedIsStill, RestoresHalfCopies, NotYetCopied, Matches
  <2>4. OwnBackup' /\ AllUndoable'
    BY <2>1 DEF OwnBackup, Last, AllUndoable, Undoable
  <2>5. ReportedIsTrue' /\ RunsCanBeUndone'
    BY <2>1 DEF ReportedIsTrue, RunsCanBeUndone
  <2> QED BY <2>2, <2>3, <2>4, <2>5
<1>4. ASSUME NEW k \in {"dev", "prod"}, Start(k) PROVE RunInv'
  <2>1. up' \subseteq {"dev", "prod"} BY <1>4 DEF Start, IdentityTypes
  <2> QED BY <1>4, <2>1, UnstillSafe DEF Start
<1> QED BY <1>1, <1>2, <1>3, <1>4 DEF Environment

----------------------------------------------------------------------------
(* The steps of the tool *)

\* A run ends: it leaves prod with undoable copies, and reports what is true.
LEMMA EndsSafe ==
  ASSUME RunInv, NEW stage \in Over, Ends(stage),
         UNCHANGED <<up, source, backups>>, prod' \in Database, Undoable(prod'),
         reported' \subseteq Students, ReportedIsTrue', reported' # {} => up = {}
  PROVE  RunInv'
<1> USE DEF RunInv
<1>1. /\ run'.stage = stage /\ run'.who = run.who /\ run'.still = FALSE
      /\ run'.snap = Unread
      /\ run' = [stage |-> run'.stage, who |-> run'.who, still |-> run'.still,
                 snap |-> run'.snap]
  BY RunFacts
<1>2. IdentityTypes' BY <1>1 DEF IdentityTypes, Stages, Unaware
<1>3. RunFits' /\ StoppedIsStill' /\ RestoresHalfCopies' /\ NotYetCopied' /\ OwnBackup'
  BY <1>1 DEF RunFits, StoppedIsStill, RestoresHalfCopies, NotYetCopied, OwnBackup, Over, Unaware
<1>4. AllUndoable' BY DEF AllUndoable, Undoable
<1>5. RunsCanBeUndone' BY <1>1, <1>4 DEF RunsCanBeUndone, AllUndoable, Undoable
<1> QED BY <1>2, <1>3, <1>4, <1>5

\* What the process has found and compared is what is reported.
LEMMA ReportSafe ==
  ASSUME RunInv, run.stage \notin Over \cup Unaware, Matches(run.who),
         Report(run.who), UNCHANGED <<up, source, prod>>
  PROVE  reported' \subseteq Students /\ ReportedIsTrue' /\ (reported' # {} => up = {})
  BY DEF RunInv, IdentityTypes, RunFits, StoppedIsStill, Matches, Report, ReportedIsTrue

\* A run goes on, with nothing written.
LEMMA GoesOnSafe ==
  ASSUME RunInv, NEW stage \in Stages \ Over, To(stage),
         UNCHANGED <<up, source, prod, backups, reported>>,
         run.stage \notin Over \cup Unaware, stage \notin Unaware,
         stage = "restoring" => run.stage = "applied" /\ ~Matches(run.who),
         stage \in {"dumped", "backed", "applied"} => FALSE,
         stage = "tried" => prod.ids[run.who].v = 0
  PROVE  RunInv'
<1> USE DEF RunInv
<1>1. /\ run'.stage = stage /\ run'.who = run.who /\ run'.still = run.still
      /\ run'.snap = run.snap
      /\ run' = [stage |-> run'.stage, who |-> run'.who, still |-> run'.still,
                 snap |-> run'.snap]
  BY RunFacts
<1>2. IdentityTypes' BY <1>1 DEF IdentityTypes
<1>3. RunFits' /\ StoppedIsStill' BY <1>1 DEF RunFits, StoppedIsStill, Over, Unaware
<1>4. RestoresHalfCopies' /\ NotYetCopied'
  BY <1>1 DEF RestoresHalfCopies, NotYetCopied, Matches
<1>5. OwnBackup' BY <1>1 DEF OwnBackup, Last
<1>6. AllUndoable' /\ ReportedIsTrue' BY DEF AllUndoable, Undoable, ReportedIsTrue
<1>7. RunsCanBeUndone' BY <1>1 DEF RunsCanBeUndone
<1> QED BY <1>2, <1>3, <1>4, <1>5, <1>6, <1>7

\* A guard has passed: nothing has been read.
LEMMA GuardsSafe ==
  ASSUME RunInv, UNCHANGED <<up, source, prod, backups, reported>>,
         run'.stage \in Unaware, run'.who \in Students, run'.still \in BOOLEAN,
         run'.snap = run.snap,
         run' = [stage |-> run'.stage, who |-> run'.who, still |-> run'.still,
                 snap |-> run'.snap],
         run'.still => up = {}, ~run'.still => reported = {}
  PROVE  RunInv'
<1> USE DEF RunInv
<1>1. IdentityTypes' BY DEF IdentityTypes, Stages, Unaware
<1>2. RunFits' /\ StoppedIsStill' /\ RestoresHalfCopies' /\ NotYetCopied' /\ OwnBackup'
  BY DEF RunFits, StoppedIsStill, RestoresHalfCopies, NotYetCopied, OwnBackup, Over, Unaware
<1>3. AllUndoable' /\ ReportedIsTrue'
  BY DEF AllUndoable, Undoable, ReportedIsTrue
<1>4. RunsCanBeUndone' BY DEF RunsCanBeUndone, Unaware
<1> QED BY <1>1, <1>2, <1>3, <1>4

\* The second guard, the reads, the preflight and the comparison.
LEMMA ReadsSafe ==
  ASSUME RunInv, GuardTarget \/ ReadSource \/ ReadTarget \/ Preflight \/ Verify \/ Fail
  PROVE  RunInv'
<1> USE DEF RunInv
<1>0. prod \in Database /\ reported \subseteq Students /\ Undoable(prod)
      /\ ReportedIsTrue /\ (reported # {} => up = {})
  BY DEF IdentityTypes, AllUndoable, StoppedIsStill
<1>1. ASSUME NEW stage \in Over, Ends(stage),
             UNCHANGED <<up, source, prod, backups, reported>>
      PROVE  RunInv'
  BY <1>0, <1>1, EndsSafe DEF ReportedIsTrue, Undoable
<1>2. ASSUME NEW stage \in Over, Ends(stage), Report(run.who), Matches(run.who),
             UNCHANGED <<up, source, prod, backups>>,
             run.stage \in {"read", "applied"}
      PROVE  RunInv'
  <2>1. reported' \subseteq Students /\ ReportedIsTrue' /\ (reported' # {} => up = {})
    BY <1>2, ReportSafe DEF Over, Unaware
  <2> QED BY <1>0, <1>2, <2>1, EndsSafe DEF Undoable
<1>3. CASE ReadSource
  <2>1. CASE Ends("failed") BY <1>1, <1>3, <2>1 DEF ReadSource, Over, Unaware
  <2>2. CASE run' = [run EXCEPT !.stage = "read", !.snap = source[run.who]]
    <3>1. /\ run'.stage = "read" /\ run'.who = run.who /\ run'.still = run.still
          /\ run'.snap = source[run.who]
          /\ run' = [stage |-> run'.stage, who |-> run'.who, still |-> run'.still,
                     snap |-> run'.snap]
      <4>1. PICK a, b, c, d : run = [stage |-> a, who |-> b, still |-> c, snap |-> d]
        BY DEF IdentityTypes
      <4> QED BY <2>2, <4>1
    <3>2. /\ run.stage = "checked" /\ UNCHANGED <<up, source, prod, backups, reported>>
          /\ source[run.who] \in Snapshot /\ run.who \in Students
      BY <1>3 DEF ReadSource, RunFits, Over, Unaware, IdentityTypes
    <3>3. IdentityTypes' BY <3>1, <3>2 DEF IdentityTypes, Stages, Unaware
    <3>4. RunFits' /\ StoppedIsStill' /\ RestoresHalfCopies' /\ NotYetCopied' /\ OwnBackup'
      BY <3>1, <3>2
      DEF RunFits, StoppedIsStill, RestoresHalfCopies, NotYetCopied, OwnBackup, Over, Unaware
    <3>5. AllUndoable' /\ ReportedIsTrue'
      BY <3>2 DEF AllUndoable, Undoable, ReportedIsTrue
    <3>6. RunsCanBeUndone' BY <3>1, <3>2 DEF RunsCanBeUndone
    <3> QED BY <3>3, <3>4, <3>5, <3>6
  <2> QED BY <1>3, <2>1, <2>2 DEF ReadSource
<1>4. CASE ReadTarget
  <2>1. CASE To("missing") /\ UNCHANGED reported
    BY <1>4, <2>1, GoesOnSafe DEF ReadTarget, Stages, Unaware, Over
  <2>2. CASE Matches(run.who) /\ Ends("done") /\ Report(run.who)
    BY <1>2, <1>4, <2>2 DEF ReadTarget, Over, Unaware
  <2>3. CASE Ends("failed") /\ UNCHANGED reported
    BY <1>1, <1>4, <2>3 DEF ReadTarget, Over, Unaware
  <2> QED BY <1>4, <2>1, <2>2, <2>3 DEF ReadTarget
<1>5. CASE Preflight
  <2>1. prod.ids[run.who].v = 0 BY <1>5 DEF Preflight, SqlPasses, Absent
  <2> QED BY <1>5, <2>1, GoesOnSafe DEF Preflight, Stages, Unaware, Over
<1>6. CASE Verify
  <2>1. CASE Matches(run.who) /\ Ends("done") /\ Report(run.who)
    BY <1>2, <1>6, <2>1 DEF Verify, Over, Unaware
  <2>2. CASE ~Matches(run.who) /\ To("restoring") /\ UNCHANGED reported
    BY <1>6, <2>2, GoesOnSafe DEF Verify, Stages, Unaware, Over
  <2> QED BY <1>6, <2>1, <2>2 DEF Verify
<1>7. CASE Fail BY <1>1, <1>7 DEF Fail, Over, Unaware
<1>8. CASE GuardTarget
  <2>1. /\ run'.stage = "checked" /\ run'.who = run.who /\ run'.still = (up = {})
        /\ run'.snap = run.snap
        /\ run' = [stage |-> run'.stage, who |-> run'.who, still |-> run'.still,
                   snap |-> run'.snap]
    <3>1. PICK a, b, c, d : run = [stage |-> a, who |-> b, still |-> c, snap |-> d]
      BY DEF IdentityTypes
    <3>2. run' = [stage |-> "checked", who |-> b, still |-> (up = {}), snap |-> d]
      BY <1>8, <3>1 DEF GuardTarget
    <3> QED BY <3>1, <3>2
  <2>2. run.stage = "guarded" /\ UNCHANGED <<up, source, prod, backups, reported>>
    BY <1>8 DEF GuardTarget
  <2>3. run.who \in Students BY <2>2 DEF RunFits, Over, Unaware
  <2>4. run'.still => up = {} BY <2>1
  <2>5. ~run'.still => reported = {} BY <2>1 DEF StoppedIsStill
  <2>6. run'.stage \in Unaware /\ run'.who \in Students /\ run'.still \in BOOLEAN
    BY <2>1, <2>3 DEF Unaware
  <2> QED BY <2>1, <2>2, <2>4, <2>5, <2>6, GuardsSafe
<1> QED BY <1>3, <1>4, <1>5, <1>6, <1>7, <1>8

\* The backup, and its seal: it is of the database without the student.
LEMMA BackupsSafe ==
  ASSUME RunInv, Dump \/ Seal
  PROVE  RunInv'
<1> USE DEF RunInv
<1>0. /\ backups \in Seq(Backup) /\ Len(backups) \in Nat
      /\ DOMAIN backups = 1..Len(backups) /\ prod \in Database
  BY DEF IdentityTypes
<1>1. ASSUME NEW stage \in {"dumped", "backed"}, To(stage),
             run.stage \in {"tried", "dumped"},
             UNCHANGED <<up, source, prod, reported>>,
             backups' \in Seq(Backup)
      PROVE  /\ IdentityTypes' /\ RunFits' /\ StoppedIsStill' /\ RestoresHalfCopies'
             /\ NotYetCopied' /\ ReportedIsTrue'
             /\ run'.stage = stage /\ run'.who = run.who /\ run'.still = run.still
  <2>1. /\ run'.stage = stage /\ run'.who = run.who /\ run'.still = run.still
        /\ run'.snap = run.snap
        /\ run' = [stage |-> run'.stage, who |-> run'.who, still |-> run'.still,
                   snap |-> run'.snap]
    BY <1>1, RunFacts
  <2>2. IdentityTypes' BY <1>1, <2>1 DEF IdentityTypes, Stages, Unaware
  <2>3. RunFits' /\ StoppedIsStill' BY <1>1, <2>1 DEF RunFits, StoppedIsStill, Over, Unaware
  <2>4. RestoresHalfCopies' /\ NotYetCopied' /\ ReportedIsTrue'
    BY <1>1, <2>1 DEF RestoresHalfCopies, NotYetCopied, ReportedIsTrue
  <2> QED BY <2>1, <2>2, <2>3, <2>4
<1>2. CASE Dump
  <2> DEFINE new == [db |-> prod, sealed |-> FALSE]
  <2>1. /\ run.stage = "tried" /\ backups' = Append(backups, new) /\ To("dumped")
        /\ UNCHANGED <<up, source, prod, reported>>
    BY <1>2 DEF Dump
  <2>2. /\ backups' \in Seq(Backup)
        /\ Len(backups') = Len(backups) + 1 /\ Last' = new /\ backups' # <<>>
        /\ \A k \in DOMAIN backups : k \in DOMAIN backups' /\ backups'[k] = backups[k]
        /\ \A k \in DOMAIN backups' : k \in DOMAIN backups \/ backups'[k] = new
    <3>1. new \in Backup BY <1>0 DEF Backup
    <3> QED BY <1>0, <2>1, <3>1 DEF Last
  <2>3. /\ run'.stage = "dumped" /\ run'.who = run.who /\ run'.still = run.still
        /\ IdentityTypes' /\ RunFits' /\ StoppedIsStill' /\ RestoresHalfCopies'
        /\ NotYetCopied' /\ ReportedIsTrue'
    BY <1>1, <2>1, <2>2
  <2>4. OwnBackup' BY <2>1, <2>2, <2>3 DEF OwnBackup, NotYetCopied
  <2>5. ASSUME NEW d, Undoable(d) PROVE Undoable(d)' BY <2>2, <2>5 DEF Undoable
  <2>6. AllUndoable' BY <2>1, <2>2, <2>5 DEF AllUndoable
  <2>7. RunsCanBeUndone' BY <2>3, <2>6 DEF RunsCanBeUndone, AllUndoable, Undoable
  <2> QED BY <2>3, <2>4, <2>6, <2>7
<1>3. CASE Seal
  <2>1. /\ run.stage = "dumped" /\ backups' = [backups EXCEPT ![Len(backups)].sealed = TRUE]
        /\ To("backed") /\ UNCHANGED <<up, source, prod, reported>>
    BY <1>3 DEF Seal
  <2>2. /\ backups' \in Seq(Backup)
        /\ Len(backups') = Len(backups) /\ DOMAIN backups' = DOMAIN backups
        /\ \A k \in DOMAIN backups : backups'[k].db = backups[k].db
                                     /\ (backups[k].sealed => backups'[k].sealed)
        /\ Last'.sealed /\ Last'.db = Last.db /\ backups' # <<>>
    <3> DEFINE n == Len(backups)
               last == [backups[n] EXCEPT !.sealed = TRUE]
    <3>1. backups # <<>> BY <2>1 DEF OwnBackup
    <3>2. n \in DOMAIN backups BY <1>0, <3>1
    <3>3. last \in Backup /\ last.db = backups[n].db /\ last.sealed
      <4>1. backups[n] \in Backup BY <1>0, <3>2, BackupFacts
      <4> QED BY <4>1 DEF Backup
    <3>4. backups' = [backups EXCEPT ![n] = last] BY <2>1
    <3>5. last \in Backup BY <3>3
    <3>6. backups' \in Seq(Backup) /\ Len(backups') = n
          /\ DOMAIN backups' = DOMAIN backups
      BY <1>0, <3>2, <3>4, <3>5
    <3>7. \A k \in DOMAIN backups : backups'[k] = IF k = n THEN last ELSE backups[k]
      BY <1>0, <3>4
    <3>8. Last' = last BY <3>2, <3>6, <3>7 DEF Last
    <3>9. \A k \in DOMAIN backups : backups'[k].db = backups[k].db
                                     /\ (backups[k].sealed => backups'[k].sealed)
      <4> SUFFICES ASSUME NEW k \in DOMAIN backups
                   PROVE  /\ backups'[k].db = backups[k].db
                          /\ backups[k].sealed => backups'[k].sealed
        OBVIOUS
      <4>1. CASE k = n BY <3>3, <3>7, <4>1
      <4>2. CASE k # n BY <3>7, <4>2
      <4> QED BY <4>1, <4>2
    <3>10. Last'.sealed /\ Last'.db = Last.db BY <3>3, <3>8 DEF Last
    <3>11. backups' # <<>> BY <1>0, <3>1, <3>6
    <3> QED BY <3>6, <3>9, <3>10, <3>11
  <2>3. /\ run'.stage = "backed" /\ run'.who = run.who /\ run'.still = run.still
        /\ IdentityTypes' /\ RunFits' /\ StoppedIsStill' /\ RestoresHalfCopies'
        /\ NotYetCopied' /\ ReportedIsTrue'
    BY <1>1, <2>1, <2>2
  <2>4. OwnBackup' BY <2>1, <2>2, <2>3 DEF OwnBackup
  <2>5. ASSUME NEW d, Undoable(d) PROVE Undoable(d)' BY <2>2, <2>5 DEF Undoable
  <2>6. AllUndoable' BY <2>1, <2>2, <2>5 DEF AllUndoable
  <2>7. RunsCanBeUndone' BY <2>3, <2>6 DEF RunsCanBeUndone, AllUndoable, Undoable
  <2> QED BY <2>3, <2>4, <2>6, <2>7
<1> QED BY <1>2, <1>3

\* The transaction: the student's copy is prod's only change, and can be taken out.
LEMMA ApplySafe ==
  ASSUME RunInv, Apply
  PROVE  RunInv'
<1> USE DEF RunInv
<1> DEFINE s == run.who
           new == Inserted(s)
<1>1. /\ run.stage = "backed" /\ s \in Students /\ run.snap \in Snapshot
      /\ prod.ids[s] = Absent /\ UNCHANGED <<up, source, backups, reported>>
      /\ prod' = [prod EXCEPT !.ids[s] = new]
  BY DEF Apply, BackedUp, SqlPasses, RunFits, Over, Unaware
<1>2. PICK i \in [Students -> Identity], n \in SUBSET Students :
        prod = [ids |-> i, taken |-> n]
  BY DEF IdentityTypes, Database
<1>3. new \in Identity BY <1>1, BoundsAssumption DEF Inserted, Identity, Snapshot
<1>4. prod' = [ids |-> [i EXCEPT ![s] = new], taken |-> n] BY <1>1, <1>2
<1>5. [i EXCEPT ![s] = new] \in [Students -> Identity] BY <1>3
<1>6. prod' \in Database BY <1>4, <1>5 DEF Database
<1>7. \A t \in Students \ {s} : prod'.ids[t] = prod.ids[t] BY <1>2, <1>4
<1>8. [prod' EXCEPT !.ids[s] = Absent] = prod
  <2>1. [prod' EXCEPT !.ids[s] = Absent]
          = [ids |-> [[i EXCEPT ![s] = new] EXCEPT ![s] = Absent], taken |-> n]
    BY <1>4
  <2>2. i[s] = Absent BY <1>1, <1>2
  <2>3. [[i EXCEPT ![s] = new] EXCEPT ![s] = Absent] = i BY <1>1, <2>2
  <2> QED BY <1>2, <2>1, <2>3
<1>9. Len(backups) \in DOMAIN backups /\ Last.sealed /\ Last.db.ids[s].v = 0
  BY <1>1 DEF OwnBackup, IdentityTypes
<1>10. Undoable(prod')
  <2> SUFFICES ASSUME NEW t \in Students, prod'.ids[t].v # 0
               PROVE  \E k \in DOMAIN backups :
                        backups[k].sealed /\ backups[k].db.ids[t].v = 0
    BY DEF Undoable
  <2>1. CASE t = s BY <1>9, <2>1 DEF Last
  <2>2. CASE t # s BY <1>7, <2>2 DEF AllUndoable, Undoable
  <2> QED BY <2>1, <2>2
<1>11. ReportedIsTrue'
  <2> SUFFICES ASSUME NEW t \in reported
               PROVE  prod'.ids[t] = [v |-> source[t].v, whole |-> TRUE]
    BY <1>1 DEF ReportedIsTrue
  <2>1. prod.ids[t] = [v |-> source[t].v, whole |-> TRUE] /\ t \in Students
    BY DEF ReportedIsTrue, IdentityTypes
  <2>2. t # s BY <1>1, <2>1 DEF Absent
  <2> QED BY <1>7, <2>1, <2>2
<1>12. reported' \subseteq Students /\ (reported' # {} => up = {})
  BY <1>1 DEF IdentityTypes, StoppedIsStill
<1>13. CASE Ends("failed")
  BY <1>1, <1>6, <1>10, <1>11, <1>12, <1>13, EndsSafe DEF Over, Unaware
<1>14. CASE To("applied")
  <2>1. /\ run'.stage = "applied" /\ run'.who = run.who /\ run'.still = run.still
        /\ run'.snap = run.snap
        /\ run' = [stage |-> run'.stage, who |-> run'.who, still |-> run'.still,
                   snap |-> run'.snap]
    BY <1>14, RunFacts
  <2>2. IdentityTypes' BY <1>1, <1>6, <2>1 DEF IdentityTypes, Stages, Unaware
  <2>3. RunFits' /\ StoppedIsStill' /\ RestoresHalfCopies' /\ NotYetCopied'
    BY <1>1, <2>1 DEF RunFits, StoppedIsStill, RestoresHalfCopies, NotYetCopied, Over, Unaware
  <2>4. OwnBackup' BY <1>1, <2>1 DEF OwnBackup, Last
  <2>5. AllUndoable' BY <1>1, <1>10 DEF AllUndoable, Undoable
  <2>6. RunsCanBeUndone'
    <3>1. run.still => backups[Len(backups)].db = prod BY <1>1 DEF OwnBackup, Last
    <3>2. run'.still => [prod EXCEPT !.ids[run.who] = Absent]' = backups'[Len(backups')].db
      BY <1>1, <1>8, <2>1, <3>1
    <3> QED BY <1>1, <2>1, <2>5, <3>2 DEF RunsCanBeUndone, AllUndoable, Undoable
  <2> QED BY <1>11, <2>2, <2>3, <2>4, <2>5, <2>6
<1> QED BY <1>13, <1>14 DEF Apply

\* The restore: it undoes the run's own copy, which was never reported.
LEMMA RestoreSafe ==
  ASSUME RunInv, Restore
  PROVE  RunInv'
<1> USE DEF RunInv
<1>1. /\ run.stage = "restoring" /\ run.who \in Students /\ Ends("failed")
      /\ Len(backups) \in DOMAIN backups /\ prod' = Last.db
      /\ UNCHANGED <<up, source, backups, reported>>
  BY DEF Restore, Restored, RunFits, Over, Unaware, Last, IdentityTypes
<1>2. prod' \in Database /\ Undoable(prod')
  BY <1>1, BackupFacts DEF IdentityTypes, AllUndoable, Last
<1>3. ReportedIsTrue'
  <2> SUFFICES ASSUME NEW t \in reported
               PROVE  prod'.ids[t] = [v |-> source[t].v, whole |-> TRUE]
    BY <1>1 DEF ReportedIsTrue
  <2>1. prod.ids[t] = [v |-> source[t].v, whole |-> TRUE] /\ t \in Students
    BY DEF ReportedIsTrue, IdentityTypes
  <2>2. run.still /\ run.snap = source[run.who]
    BY <1>1 DEF StoppedIsStill, Over, Unaware
  <2>3. t # run.who
    BY <1>1, <2>1, <2>2 DEF RestoresHalfCopies, Matches
  <2>4. [prod EXCEPT !.ids[run.who] = Absent] = prod'
    BY <1>1, <2>2 DEF RunsCanBeUndone, Last
  <2>5. PICK i \in [Students -> Identity], n \in SUBSET Students :
          prod = [ids |-> i, taken |-> n]
    BY DEF IdentityTypes, Database
  <2>6. prod' = [ids |-> [i EXCEPT ![run.who] = Absent], taken |-> n] BY <2>4, <2>5
  <2>7. prod'.ids[t] = prod.ids[t] BY <2>1, <2>3, <2>5, <2>6
  <2> QED BY <2>1, <2>7
<1>4. reported' \subseteq Students /\ (reported' # {} => up = {})
  BY <1>1 DEF IdentityTypes, StoppedIsStill
<1> QED BY <1>1, <1>2, <1>3, <1>4, EndsSafe DEF Over, Unaware

\* What is done between two runs.
LEMMA BetweenRunsSafe ==
  ASSUME RunInv, run.stage \in Over, UNCHANGED <<source, backups, run>>,
         up' \subseteq {"dev", "prod"}, prod' \in Database, Undoable(prod'),
         reported' \subseteq Students, ReportedIsTrue', reported' # {} => up' = {}
  PROVE  RunInv'
<1> USE DEF RunInv
<1>1. ~run.still BY DEF StoppedIsStill
<1>2. IdentityTypes' BY DEF IdentityTypes
<1>3. RunFits' /\ StoppedIsStill' /\ RestoresHalfCopies' /\ NotYetCopied' /\ OwnBackup'
  BY <1>1 DEF RunFits, StoppedIsStill, RestoresHalfCopies, NotYetCopied, OwnBackup, Over, Unaware
<1>4. AllUndoable' BY DEF AllUndoable, Undoable
<1>5. RunsCanBeUndone' BY <1>1, <1>4 DEF RunsCanBeUndone, AllUndoable, Undoable
<1> QED BY <1>2, <1>3, <1>4, <1>5

\* apply begins, verify is run, and the operator takes a backup back.
LEMMA CommandsSafe ==
  ASSUME RunInv
  PROVE  /\ \A s \in Students : Begin(s) => RunInv'
         /\ \A s \in Students : VerifyCommand(s) => RunInv'
         /\ \A k \in 1..MaxBackups : Rollback(k) => RunInv'
<1> USE DEF RunInv
<1>1. ASSUME NEW s \in Students, Begin(s) PROVE RunInv'
  <2>1. run.stage \in Over /\ UNCHANGED <<up, source, prod, backups, reported>>
    BY <1>1 DEF Begin
  <2>2. /\ run'.stage = "guarded" /\ run'.who = s /\ run'.still = (up = {})
        /\ run'.snap = run.snap
        /\ run' = [stage |-> run'.stage, who |-> run'.who, still |-> run'.still,
                   snap |-> run'.snap]
    <3>1. PICK a, b, c, d : run = [stage |-> a, who |-> b, still |-> c, snap |-> d]
      BY DEF IdentityTypes
    <3>2. run' = [stage |-> "guarded", who |-> s, still |-> (up = {}), snap |-> d]
      BY <1>1, <3>1 DEF Begin
    <3> QED BY <3>1, <3>2
  <2>3. run'.still => up = {} BY <2>2
  <2>4. ~run'.still => reported = {} BY <2>2 DEF StoppedIsStill
  <2>5. run'.stage = "guarded" /\ run'.who \in Students BY <2>2
  <2>6. run'.still \in BOOLEAN BY <2>2
  <2>7. run'.stage \in Unaware BY <2>2 DEF Unaware
  <2> QED BY <2>1, <2>2, <2>3, <2>4, <2>5, <2>6, <2>7, GuardsSafe
<1>2. ASSUME NEW s \in Students, VerifyCommand(s) PROVE RunInv'
  <2>1. /\ run.stage \in Over /\ UNCHANGED <<up, source, prod, backups, run>>
        /\ prod.ids[s] = [v |-> source[s].v, whole |-> TRUE]
        /\ reported' = IF up = {} THEN reported \cup {s} ELSE reported
    BY <1>2 DEF VerifyCommand
  <2>2. reported' \subseteq Students /\ ReportedIsTrue' /\ (reported' # {} => up' = {})
    BY <2>1 DEF IdentityTypes, ReportedIsTrue, StoppedIsStill
  <2>3. up' \subseteq {"dev", "prod"} /\ prod' \in Database /\ Undoable(prod')
    BY <2>1 DEF IdentityTypes, AllUndoable, Undoable
  <2> QED BY <2>1, <2>2, <2>3, BetweenRunsSafe
<1>3. ASSUME NEW k \in 1..MaxBackups, Rollback(k) PROVE RunInv'
  <2>1. /\ run.stage \in Over /\ k \in DOMAIN backups /\ prod' = backups[k].db
        /\ reported' = {} /\ UNCHANGED <<up, source, backups, run>>
    BY <1>3 DEF Rollback, Restored, IdentityTypes
  <2>2. prod' \in Database /\ Undoable(prod') /\ up' \subseteq {"dev", "prod"}
    BY <2>1, BackupFacts DEF IdentityTypes, AllUndoable
  <2>3. ReportedIsTrue' BY <2>1 DEF ReportedIsTrue
  <2> QED BY <2>1, <2>2, <2>3, BetweenRunsSafe
<1> QED BY <1>1, <1>2, <1>3

\* All steps of the tool, and of an operator's hand.
LEMMA ToolSafe ==
  ASSUME RunInv
  PROVE  (Tool => RunInv') /\ (Next => RunInv')
<1>1. ASSUME Tool PROVE RunInv'
  BY <1>1, ReadsSafe, BackupsSafe, ApplySafe, RestoreSafe DEF Tool
<1>2. ASSUME Next PROVE RunInv'
  BY <1>1, <1>2, EnvironmentSafe, CommandsSafe DEF Next
<1> QED BY <1>1, <1>2

----------------------------------------------------------------------------
(* The steps of the launcher *)

\* A process of the tool works for one student, leaves the Keycloaks alone and takes
\* nothing back of what has been reported.
LEMMA ToolReports ==
  ASSUME IdentityTypes, Tool
  PROVE  up' = up /\ reported \subseteq reported' /\ run'.who = run.who
<1>1. Report(run.who) => reported \subseteq reported' BY DEF Report
<1>2. \A stage : To(stage) \/ Ends(stage) => run'.who = run.who BY RunFacts
<1>3. ReadSource => run'.who = run.who
  <2>1. PICK a, b, c, d : run = [stage |-> a, who |-> b, still |-> c, snap |-> d]
    BY DEF IdentityTypes
  <2>2. [run EXCEPT !.stage = "read", !.snap = source[run.who]].who = b BY <2>1
  <2>3. run.who = b BY <2>1
  <2> QED BY <1>2, <2>2, <2>3 DEF ReadSource
<1>4. CASE ReadSource BY <1>3, <1>4 DEF ReadSource
<1>5. CASE ReadTarget BY <1>1, <1>2, <1>5 DEF ReadTarget
<1>6. CASE Preflight BY <1>2, <1>6 DEF Preflight
<1>7. CASE Dump BY <1>2, <1>7 DEF Dump
<1>8. CASE Seal BY <1>2, <1>8 DEF Seal
<1>9. CASE Apply BY <1>2, <1>9 DEF Apply
<1>10. CASE Verify BY <1>1, <1>2, <1>10 DEF Verify
<1>11. CASE Restore BY <1>2, <1>11 DEF Restore
<1>12. CASE Fail BY <1>2, <1>12 DEF Fail
<1>13. CASE GuardTarget
  <2>1. PICK a, b, c, d : run = [stage |-> a, who |-> b, still |-> c, snap |-> d]
    BY DEF IdentityTypes
  <2>2. run' = [stage |-> "checked", who |-> b, still |-> (up = {}), snap |-> d]
    BY <1>13, <2>1 DEF GuardTarget
  <2> QED BY <1>13, <2>1, <2>2 DEF GuardTarget
<1> QED BY <1>4, <1>5, <1>6, <1>7, <1>8, <1>9, <1>10, <1>11, <1>12, <1>13 DEF Tool

\* A window, from its opening to the trap.
LEMMA LauncherSafe ==
  ASSUME MariaInv, ByLauncher
  PROVE  MariaInv'
<1> USE DEF MariaInv
<1>0. by = "launcher" /\ by' = by /\ WNext /\ by # "hand" BY DEF ByLauncher
<1>1. UNCHANGED vars => RunInv'
  BY DEF vars, RunInv, IdentityTypes, RunFits, StoppedIsStill, RestoresHalfCopies,
         NotYetCopied, OwnBackup, Last, AllUndoable, Undoable, ReportedIsTrue,
         RunsCanBeUndone, Matches
<1>2. CASE Open
  <2>1. /\ UNCHANGED vars /\ win = "closed" /\ windows' = windows + 1
        /\ todo' = {s \in Students : prod.ids[s] = Absent} /\ win' = "recorded"
        /\ recorded' = up /\ run.stage \in Over
    BY <1>2 DEF Open
  <2>2. windows' = 1 => todo' = Students
    BY <1>0, <2>1 DEF InWindow
  <2>3. UNCHANGED <<up, prod, run, reported>> /\ up \subseteq {"dev", "prod"}
    BY <2>1 DEF vars, RunInv, IdentityTypes
  <2> QED BY <1>0, <1>1, <2>1, <2>2, <2>3 DEF InWindow
<1>3. CASE Scale
  <2>1. PICK k \in up : Stop(k) BY <1>3 DEF Scale
  <2>2. k \in {"dev", "prod"} BY DEF RunInv, IdentityTypes
  <2>3. RunInv' BY <2>1, <2>2, EnvironmentSafe DEF Environment
  <2>4. /\ win = "recorded" /\ UNCHANGED <<win, todo, recorded, windows, run, prod, reported>>
    BY <1>3, <2>1 DEF Scale, Stop
  <2> QED BY <1>0, <2>3, <2>4 DEF InWindow
<1>4. CASE StartIdentities
  <2>1. /\ UNCHANGED vars /\ win = "recorded" /\ win' = "identities" /\ up = {}
        /\ UNCHANGED <<up, prod, run, reported, todo, recorded, windows>>
    BY <1>4 DEF StartIdentities, Frozen, vars
  <2> QED BY <1>0, <1>1, <2>1 DEF InWindow
<1>5. CASE ApplyOne
  <2>1. /\ win = "identities" /\ win' = "applying" /\ UNCHANGED <<todo, recorded, windows>>
        /\ UNCHANGED <<up, prod, reported>>
    BY <1>5 DEF ApplyOne, Begin
  <2>2. RunInv' /\ run'.who \in todo
    <3>1. PICK s \in todo : Begin(s) BY <1>5 DEF ApplyOne
    <3>2. s \in Students BY DEF InWindow
    <3>3. RunInv' BY <3>1, <3>2, CommandsSafe
    <3>4. PICK a, b, c, d : run = [stage |-> a, who |-> b, still |-> c, snap |-> d]
      BY DEF RunInv, IdentityTypes
    <3>5. run' = [stage |-> "guarded", who |-> s, still |-> (up = {}), snap |-> d]
      BY <3>1, <3>4 DEF Begin
    <3> QED BY <3>1, <3>3, <3>5
  <2> QED BY <1>0, <2>1, <2>2 DEF InWindow
<1>6. CASE ToolStep
  <2>1. win = "applying" /\ Tool /\ UNCHANGED <<win, todo, recorded, windows>>
    BY <1>6 DEF ToolStep
  <2>2. RunInv' /\ up' = up /\ reported \subseteq reported' /\ run'.who = run.who
    BY <2>1, ToolSafe, ToolReports DEF RunInv
  <2> QED BY <1>0, <2>1, <2>2 DEF InWindow
<1>7. CASE NextIdentity
  <2>1. /\ win = "applying" /\ win' = "identities" /\ todo' = todo \ {run.who}
        /\ run.stage = "done" /\ VerifyCommand(run.who)
        /\ UNCHANGED <<recorded, windows, up, prod, run>>
    BY <1>7 DEF NextIdentity, Verified, VerifyCommand
  <2>2. up = {} /\ run.who \in Students BY <1>0, <2>1 DEF InWindow
  <2>3. reported' = reported \cup {run.who} BY <2>1, <2>2 DEF VerifyCommand
  <2>4. RunInv' BY <2>1, <2>2, CommandsSafe
  <2> QED BY <1>0, <2>1, <2>2, <2>3, <2>4 DEF InWindow, Over, Unaware
<1>8. CASE Learn
  <2>1. /\ UNCHANGED vars /\ win = "identities" /\ win' = "learned" /\ todo = {}
        /\ UNCHANGED <<up, prod, run, reported, todo, recorded, windows>>
    BY <1>8 DEF Learn, vars
  <2> QED BY <1>0, <1>1, <2>1 DEF InWindow
<1>9. CASE Exit
  <2>1. /\ UNCHANGED vars /\ win # "closed" /\ win' = "cleaning"
        /\ win = "applying" => run.stage \in Over
        /\ UNCHANGED <<up, prod, run, reported, todo, recorded, windows>>
    BY <1>9 DEF Exit, vars
  <2> QED BY <1>0, <1>1, <2>1 DEF InWindow
<1>10. CASE CleanUp
  <2>1. /\ win = "cleaning" /\ win' = "closed" /\ recorded' = {} /\ todo' = {}
        /\ reported' = {} /\ UNCHANGED <<source, prod, backups, run, windows>>
        /\ up' \subseteq up \cup recorded
    BY <1>10 DEF CleanUp, Back
  <2>2. run.stage \in Over /\ up' \subseteq {"dev", "prod"}
    BY <1>0, <2>1 DEF InWindow, RunInv, IdentityTypes
  <2>3. prod' \in Database /\ Undoable(prod') /\ ReportedIsTrue'
    BY <2>1 DEF RunInv, IdentityTypes, AllUndoable, Undoable, ReportedIsTrue
  <2>4. RunInv' BY <2>1, <2>2, <2>3, BetweenRunsSafe
  <2> QED BY <1>0, <2>1, <2>2, <2>4 DEF InWindow
<1> QED
  BY <1>0, <1>2, <1>3, <1>4, <1>5, <1>6, <1>7, <1>8, <1>9, <1>10 DEF WNext

----------------------------------------------------------------------------
(* The theorems *)

\* The invariant holds at first, for both who may run the tool.
LEMMA MariaStarts == MCInit => MariaInv
<1> SUFFICES ASSUME MCInit PROVE MariaInv OBVIOUS
<1>1. Init /\ win = "closed" /\ todo = {} /\ recorded = {} /\ windows = 0
      /\ (by # "hand" => \A s \in Students : prod.ids[s] = Absent)
  BY DEF MCInit, WInit
<1>2. Absent \in Identity /\ [v |-> 0, whole |-> TRUE] \in Identity
  BY BoundsAssumption DEF Absent, Identity
<1>3. /\ up = {"dev", "prod"} /\ backups = <<>> /\ reported = {}
      /\ source \in [Students -> {x \in Snapshot : x.v = 1}]
      /\ prod \in [ids: [Students -> {Absent, [v |-> 0, whole |-> TRUE]}],
                   taken: SUBSET Students]
      /\ run = [stage |-> "done", who |-> CHOOSE s \in Students : TRUE, still |-> FALSE,
                snap |-> Unread]
  BY <1>1 DEF Init
<1>4. /\ run.stage = "done" /\ run.still = FALSE /\ run.snap = Unread
      /\ run = [stage |-> run.stage, who |-> run.who, still |-> run.still,
                snap |-> run.snap]
  BY <1>3
<1>5. source \in [Students -> Snapshot] BY <1>3
<1>6. PICK i \in [Students -> {Absent, [v |-> 0, whole |-> TRUE]}], n \in SUBSET Students :
        prod = [ids |-> i, taken |-> n]
  BY <1>3
<1>7. i \in [Students -> Identity] BY <1>2
<1>8. prod \in Database BY <1>6, <1>7 DEF Database
<1>9. \A s \in Students : prod.ids[s].v = 0 BY <1>6 DEF Absent
<1>10. backups \in Seq(Backup) BY <1>3
<1>11. IdentityTypes BY <1>3, <1>4, <1>5, <1>8, <1>10 DEF IdentityTypes, Stages, Unaware, Over
<1>12. RunFits /\ StoppedIsStill /\ RestoresHalfCopies /\ NotYetCopied /\ OwnBackup
  BY <1>3, <1>4
  DEF RunFits, StoppedIsStill, RestoresHalfCopies, NotYetCopied, OwnBackup, Over, Unaware
<1>13. AllUndoable /\ ReportedIsTrue /\ RunsCanBeUndone
  BY <1>3, <1>4, <1>9 DEF AllUndoable, Undoable, ReportedIsTrue, RunsCanBeUndone
<1>14. InWindow BY <1>1, <1>4 DEF InWindow, Over, Unaware
<1> QED BY <1>11, <1>12, <1>13, <1>14 DEF MariaInv, RunInv

\* Every step keeps it.
LEMMA MariaSteps == MariaInv /\ [ByHand \/ ByLauncher]_mcvars => MariaInv'
<1> SUFFICES ASSUME MariaInv, [ByHand \/ ByLauncher]_mcvars PROVE MariaInv' OBVIOUS
<1>1. CASE ByHand
  <2>1. by = "hand" /\ by' = by /\ Next /\ UNCHANGED <<win, todo, recorded, windows>>
    BY <1>1 DEF ByHand
  <2>2. RunInv' BY <2>1, ToolSafe DEF MariaInv
  <2> QED BY <2>1, <2>2 DEF MariaInv, InWindow
<1>2. CASE ByLauncher BY <1>2, LauncherSafe
<1>3. CASE UNCHANGED mcvars
  BY <1>3
  DEF mcvars, wvars, vars, MariaInv, InWindow, RunInv, IdentityTypes, RunFits,
      StoppedIsStill, RestoresHalfCopies, NotYetCopied, OwnBackup, Last, AllUndoable,
      Undoable, ReportedIsTrue, RunsCanBeUndone, Matches
<1> QED BY <1>1, <1>2, <1>3

\* The types and everything that the properties rest on hold throughout, for any
\* students, roles and bounds.
THEOREM MariaInductive == MCSpec => []MariaInv
<1> QED BY MariaStarts, MariaSteps, PTL DEF MCSpec

\* In a first window the whole cohort is reported before the learning data move.
LEMMA CohortReported == MariaInv => CopiesAreAsSaid
<1> SUFFICES ASSUME MariaInv PROVE CopiesAreAsSaid OBVIOUS
<1>1. ReportedIsTrue BY DEF MariaInv, RunInv
<1>2. ASSUME win = "learned", windows = 1 PROVE Students \subseteq reported
  BY <1>2 DEF MariaInv, InWindow
<1> QED BY <1>1, <1>2 DEF CopiesAreAsSaid, CohortIsCopied, ReportedIsTrue

\* As long as both Keycloaks stay stopped, what apply and verify have reported of a
\* student is true, and in a first window the launcher moves learning data only for
\* identities that prod has in full.
THEOREM SaidCopiesAreTrue == MCSpec => []CopiesAreAsSaid
<1> QED BY MariaInductive, CohortReported, PTL

\* Every copy that the tool has made is in prod next to a sealed backup without it;
\* with both Keycloaks stopped, the restore undoes exactly the run.
THEOREM CopiesCanBeUndone == MCSpec => []RunsCanBeUndone
<1>1. MariaInv => RunsCanBeUndone BY DEF MariaInv, RunInv
<1> QED BY <1>1, MariaInductive, PTL

\* A step of the tool other than the restore leaves every identity that prod has.
LEMMA OnlyAbsentWritten ==
  ASSUME IdentityTypes, Tool, ~Restore, NEW s \in Students, prod.ids[s] # Absent
  PROVE  prod'.ids[s] = prod.ids[s]
<1>1. CASE Apply
  <2>1. prod.ids[run.who] = Absent
        /\ prod' = [prod EXCEPT !.ids[run.who] = Inserted(run.who)]
    BY <1>1 DEF Apply, SqlPasses
  <2>2. PICK i \in [Students -> Identity], n \in SUBSET Students :
          prod = [ids |-> i, taken |-> n]
    BY DEF IdentityTypes, Database
  <2>3. prod' = [ids |-> [i EXCEPT ![run.who] = Inserted(run.who)], taken |-> n]
    BY <2>1, <2>2
  <2>4. s # run.who BY <2>1
  <2> QED BY <2>2, <2>3, <2>4
<1>2. CASE ~Apply
  BY <1>2 DEF Tool, GuardTarget, ReadSource, ReadTarget, Preflight, Dump, Seal, Verify, Fail
<1> QED BY <1>1, <1>2

\* Even with a Keycloak started behind the guards, no step of a run replaces an
\* identity that prod has, but for the restore of a backup.
THEOREM NoneOverwritten == MCSpec => NothingOverwritten
<1>1. MariaInv => [Tool /\ ~Restore => \A s \in Students :
                     prod.ids[s] # Absent => prod'.ids[s] = prod.ids[s]]_vars
  BY OnlyAbsentWritten DEF MariaInv, RunInv
<1> QED BY <1>1, MariaInductive, PTL DEF NothingOverwritten
=============================================================================
