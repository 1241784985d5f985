----------------------------- MODULE PackageLock -----------------------------
(***************************************************************************)
(* collect.py, package_read_lock: the status checks and restarts of one    *)
(* process share its POSIX read locks on dpkg's two lock files, while      *)
(* package tools take write locks on them.  The kernel drops all locks of  *)
(* a process on a file as soon as it closes any descriptor of it.          *)
(***************************************************************************)
EXTENDS Naturals, FiniteSets

CONSTANT Sections   \* the `with package_read_lock()' blocks, of any thread

VARIABLES inside,   \* sections that have been entered
          users,    \* _package_users
          guard,    \* the sections inside _package_guard: at most one
          held,     \* files that the kernel has read-locked for the process
          writer    \* files that a package tool has write-locked

lockVars == <<inside, users, guard, held, writer>>
Frontend == "lock-frontend"
Files == {Frontend, "lock"}

LockInit == inside = {} /\ users = 0 /\ guard = {} /\ held = {} /\ writer = {}

Count(s) == inside' = inside \cup {s} /\ users' = users + 1

\* Others read already: their handles are used.
EnterShared(s) ==
  /\ guard = {} /\ users # 0 /\ s \notin inside
  /\ Count(s) /\ UNCHANGED <<guard, held, writer>>

\* The first one opens and locks both files, with the guard held in between.
Enter(s) ==
  /\ guard = {} /\ users = 0 /\ s \notin inside
  /\ Frontend \notin writer
  /\ guard' = {s} /\ held' = {Frontend}
  /\ UNCHANGED <<inside, users, writer>>

\* Mutant: the handle of the first file is not closed when the second is busy.
EnterSecondKeeping(s) ==
  /\ s \in guard
  /\ \/ "lock" \in writer /\ UNCHANGED <<inside, users, held>>
     \/ "lock" \notin writer /\ held' = Files /\ Count(s)
  /\ guard' = {}
  /\ UNCHANGED writer

EnterSecond(s) ==
  /\ s \in guard
  /\ \/ "lock" \in writer /\ held' = {} /\ UNCHANGED <<inside, users>>
     \/ "lock" \notin writer /\ held' = Files /\ Count(s)
  /\ guard' = {}
  /\ UNCHANGED writer

\* Mutant: a section closes the handles it was given.
ClosedByAnyone(n) == {}

\* The last one out closes the handles.
ClosedByLast(n) == IF n = 0 THEN {} ELSE held

Leave(s) ==
  /\ guard = {} /\ s \in inside
  /\ inside' = inside \ {s} /\ users' = users - 1
  /\ held' = ClosedByLast(users - 1)
  /\ UNCHANGED <<guard, writer>>

\* A package tool takes and lets go the files in whatever order it likes: dpkg
\* under a frontend takes the second one only.
Write ==
  /\ \E f \in Files \ (held \cup writer) : writer' = writer \cup {f}
  /\ UNCHANGED <<inside, users, guard, held>>

Written ==
  /\ \E f \in writer : writer' = writer \ {f}
  /\ UNCHANGED <<inside, users, guard, held>>

LockNext == Write \/ Written \/ \E s \in Sections : EnterShared(s) \/ Enter(s) \/ EnterSecond(s) \/ Leave(s)
LockSpec == LockInit /\ [][LockNext]_lockVars

----------------------------------------------------------------------------
(* Properties *)

\* From the first reader in to the last one out, whatever sections of whatever
\* threads begin and end in between, both files stay locked and no package tool
\* has either.
ReadersAreSafe == inside # {} => held = Files /\ writer = {}

\* When nobody reads or is about to, nothing is left locked: a status check that
\* met a package tool on one of the files does not keep the next tool out.
NothingIsLeftLocked == guard = {} /\ inside = {} => held = {}
=============================================================================
