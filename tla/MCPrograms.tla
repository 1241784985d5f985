----------------------------- MODULE MCPrograms -----------------------------
(***************************************************************************)
(* Programs that run one at a time and share nothing: those of the host,   *)
(* the review of a learning bundle, and the script that applies it.  A     *)
(* behaviour is of one of them; the others stay at their beginning.        *)
(***************************************************************************)
EXTENDS HostPrograms, MCLearning

programVars == <<hostVars, mcvars>>

ProgramsInit ==
  \/ HostInit /\ part = "host" /\ NoScript /\ NoReview
  \/ HostInit /\ program = "lock" /\ MCInit

ProgramsNext ==
  \/ part = "host" /\ HostNext /\ UNCHANGED mcvars
  \/ MCNext /\ UNCHANGED hostVars

ProgramsSpec == ProgramsInit /\ [][ProgramsNext]_programVars
=============================================================================
