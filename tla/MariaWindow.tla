---------------------------- MODULE MariaWindow ----------------------------
(***************************************************************************)
(* run_dev_to_prod_operator.sh --apply: the launcher finds the cohort's    *)
(* identities that prod lacks, records what runs, freezes both contours,   *)
(* has each missing identity applied and verified, moves the learning data *)
(* and brings back what it recorded, in every way it can end but kill -9.  *)
(***************************************************************************)
EXTENDS IdentitySync, FiniteSets

CONSTANT MaxWindows,  \* bound: runs of the launcher
         Reachable    \* whether ssh still works when the launcher cleans up

ASSUME WindowAssumption == MaxWindows \in Nat /\ Reachable \in BOOLEAN

VARIABLES win,       \* where the launcher is
          todo,      \* missing-subjects.txt, less those applied and verified
          recorded,  \* the replica files in the work directory
          windows

wvars == <<vars, win, todo, recorded, windows>>

\* win: closed, recorded, identities, applying, learned (the learning data of the
\* whole cohort have been moved) or cleaning.
WInit ==
  /\ Init /\ prod.taken = {} /\ \A s \in Students : source[s].fit /\ prod.ids[s] = Absent
  /\ win = "closed" /\ todo = {} /\ recorded = {} /\ windows = 0

\* Inventory and plans with both contours running; then the replicas.
Open ==
  /\ win = "closed" /\ windows < MaxWindows /\ run.stage \in Over
  /\ todo' = {s \in Students : prod.ids[s] = Absent}
  /\ \A s \in todo' : source[s].fit /\ TargetFits(s)
  /\ win' = "recorded" /\ recorded' = up /\ windows' = windows + 1
  /\ UNCHANGED vars

Frozen == up = {}

Scale ==
  /\ win = "recorded"
  /\ \E k \in up : Stop(k)
  /\ UNCHANGED <<win, todo, recorded, windows>>

StartIdentities ==
  /\ win = "recorded" /\ Frozen
  /\ win' = "identities"
  /\ UNCHANGED <<vars, todo, recorded, windows>>

ApplyOne ==
  /\ win = "identities"
  /\ \E s \in todo : Begin(s)
  /\ win' = "applying"
  /\ UNCHANGED <<todo, recorded, windows>>

ToolStep ==
  /\ win = "applying" /\ Tool
  /\ UNCHANGED <<win, todo, recorded, windows>>

\* apply has succeeded, and verify finds the same.
Verified == run.stage = "done" /\ VerifyCommand(run.who)

NextIdentity ==
  /\ win = "applying" /\ Verified
  /\ win' = "identities" /\ todo' = todo \ {run.who}
  /\ UNCHANGED <<recorded, windows>>

Learn ==
  /\ win = "identities" /\ todo = {}
  /\ win' = "learned"
  /\ UNCHANGED <<vars, todo, recorded, windows>>

\* Any command fails, or the launcher is interrupted: the trap cleans up.  The
\* successful end goes through the same replicas.
Exit ==
  /\ win \notin {"closed", "cleaning"}
  /\ win = "applying" => run.stage \in Over
  /\ win' = "cleaning"
  /\ UNCHANGED <<vars, todo, recorded, windows>>

\* Mutant: only what froze last is brought back.
BackOfDev == {"dev"} \cap recorded

Back == recorded

\* restore_replicas || true: what ssh cannot scale stays as it is, and the work
\* directory with the replica files goes either way.
CleanUp ==
  /\ win = "cleaning"
  /\ \E k \in SUBSET Back :
       /\ Reachable => k = Back
       /\ up' = up \cup k
  /\ win' = "closed" /\ recorded' = {} /\ todo' = {}
  /\ reported' = {}
  /\ UNCHANGED <<source, prod, backups, run, windows>>

\* The contours are only run by the launcher here.
WNext ==
  \/ Open \/ Scale \/ StartIdentities \/ ApplyOne \/ ToolStep \/ NextIdentity
  \/ Learn \/ Exit \/ CleanUp

WSpec == WInit /\ [][WNext]_wvars

WFairSpec ==
  /\ WSpec
  /\ WF_wvars(Scale) /\ WF_wvars(ToolStep) /\ WF_wvars(Exit) /\ WF_wvars(CleanUp)

----------------------------------------------------------------------------
(* Properties *)

\* However a window ends, as long as ssh answers, both contours run again as they
\* did before it: the replicas are recorded before anything stops, and the trap
\* brings them back.
WindowsEndRunning == win # "closed" ~> win = "closed" /\ up = {"dev", "prod"}

\* In a first window, learning data moves only once every identity of the cohort
\* in prod is a full copy of dev's.  (A later one takes what it finds for copied.)
CohortIsCopied ==
  win = "learned" /\ windows = 1 =>
    \A s \in Students : prod.ids[s] = [v |-> source[s].v, whole |-> TRUE]
============================================================================
