---------------------------- MODULE HostPrograms ----------------------------
(***************************************************************************)
(* Three programs of a host that keep their state apart: the package step, *)
(* the shared package lock of the status checks, and the replay journal of *)
(* the agent.  A behaviour is of one of them; the others stay at their     *)
(* beginning.                                                              *)
(***************************************************************************)
EXTENDS PackageStep, PackageLock, ReplayJournal

VARIABLE program

hostVars == <<vars, lockVars, journalVars, program>>

HostInit ==
  /\ program \in {"step", "lock", "journal"}
  /\ Init /\ LockInit /\ JournalInit
  /\ program # "step" => reviewed = {} /\ \A p \in Packages : needs[p] = {p}

HostNext ==
  \/ program = "step" /\ Next /\ UNCHANGED <<lockVars, journalVars, program>>
  \/ program = "lock" /\ LockNext /\ UNCHANGED <<vars, journalVars, program>>
  \/ program = "journal" /\ JournalNext /\ UNCHANGED <<vars, lockVars, program>>

HostSpec == HostInit /\ [][HostNext]_hostVars
=============================================================================
