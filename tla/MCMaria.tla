------------------------------- MODULE MCMaria -------------------------------
(***************************************************************************)
(* The identity tool in the hands of an operator who stops and starts both *)
(* Keycloaks at any time, or run by the launcher, which does so itself.    *)
(***************************************************************************)
EXTENDS MariaWindow

VARIABLE by  \* who runs the tool: "hand" or "launcher"

mcvars == <<wvars, by>>

MCInit ==
  \/ by = "hand" /\ Init /\ win = "closed" /\ todo = {} /\ recorded = {} /\ windows = 0
  \/ by = "launcher" /\ WInit

ByHand == by = "hand" /\ Next /\ UNCHANGED <<win, todo, recorded, windows, by>>

ByLauncher == by = "launcher" /\ WNext /\ UNCHANGED by

MCSpec ==
  /\ MCInit /\ [][ByHand \/ ByLauncher]_mcvars
  /\ WF_wvars(Scale) /\ WF_wvars(ToolStep) /\ WF_wvars(Exit) /\ WF_wvars(CleanUp)

\* What is said of the copies is true: what apply and verify report of a student
\* while both Keycloaks are stopped (ReportedIsTrue), and what the launcher takes as
\* said when it moves the learning data (CohortIsCopied).
CopiesAreAsSaid == ReportedIsTrue /\ CohortIsCopied
=============================================================================
