------------------------- MODULE MCObservationProof -------------------------
(***************************************************************************)
(* Two instances of ObservationProof: one source in half seconds, which    *)
(* shows what the truncated stamps hide, and a guest with TURN in whole    *)
(* seconds, whose samples are taken independently.                         *)
(***************************************************************************)
EXTENDS ObservationProof

VARIABLE instance   \* which of the two a behaviour is of

Two == INSTANCE ObservationProof WITH
  Sources <- {"prod", "turn"}, TicksPerSecond <- 1, Openings <- {6},
  MaxRestarts <- 0, Horizon <- 4

MCInit ==
  \/ instance = "halves" /\ Init
  \/ instance = "sources" /\ Two!Init

MCNext ==
  /\ \/ instance = "halves" /\ Next
     \/ instance = "sources" /\ Two!Next
  /\ UNCHANGED instance

MCSpec == MCInit /\ [][MCNext]_<<vars, instance>>

\* The proof of a guest together with TURN, each read when its own reader gets
\* to it: every one of the readings is behind the fence and apart from the first
\* of its source, and native work meets nobody, though TURN knows no lessons.
\* (ProofIsPostFence, ProofIsSeparated and NativeMeetsNobody themselves speak of
\* the instance in half seconds; of the other one they say no more than this.)
SourcesAreApart ==
  instance = "sources" =>
    /\ Two!ProofIsPostFence
    /\ Two!ProofIsSeparated
    /\ Two!NativeMeetsNobody
=============================================================================
