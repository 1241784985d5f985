--------------------------- MODULE MCLogCollector ---------------------------
(***************************************************************************)
(* The inputs of collector.py side by side: files with their rotations,    *)
(* the journal, and the sanitizer that both put their records through.  A  *)
(* behaviour is of one of them; the others stay at their beginning.        *)
(***************************************************************************)
EXTENDS LogCollector

CONSTANTS JournalRecords,  \* bound: records of the journal
          FewRecords       \* bound: records that may be too long, and all of them where the
                           \* writer is late, or files are truncated

ASSUME BoundsAssumption == {JournalRecords, FewRecords} \subseteq Nat

VARIABLES part, journal, follow, oversized, cursor, done, ends, record, event

Journal == INSTANCE JournalInput WITH MaxRecords <- JournalRecords
Sanitizer == INSTANCE LogSanitizer

inJournal == <<journal, follow, oversized, cursor, done, ends>>
inSanitizer == <<record, event>>
mcvars == <<vars, part, inJournal, inSanitizer>>

\* Of one part, in two, too long by its last fragment, and a line of its own that is.
MCShapes == {<<"F">>, <<"P", "F">>, <<"P", "P", "F">>, <<"long">>}

\* Of one part and in two, all of which fit.
FittingShapes == {<<"F">>, <<"P", "F">>}

MCInit ==
  /\ part \in {"files", "journal", "sanitizer"}
  /\ Init /\ (part # "files" => rotation = "create")
  /\ Journal!Init /\ (part # "journal" => cursor = 0)
  /\ IF part = "sanitizer" THEN Sanitizer!Init ELSE record = <<>> /\ event = {}

MCNext ==
  \/ /\ part = "files" /\ Next /\ UNCHANGED <<part, inJournal, inSanitizer>>
     /\ rotation # "create" => Len(records') <= FewRecords
     /\ \A r \in DOMAIN records' : r > FewRecords => records'[r] \in FittingShapes
  \/ part = "journal" /\ Journal!Next /\ UNCHANGED <<vars, part, inSanitizer>>
  \/ part = "sanitizer" /\ Sanitizer!Next /\ UNCHANGED <<vars, part, inJournal>>

\* The fairness of the file reader, as in FairSpec.
MCFairness ==
  /\ \A s \in Streams : WF_vars(EndRecord(s))
  /\ WF_vars(Reopen) /\ WF_vars(part = "files" /\ Open) /\ SF_vars(Answered)
  /\ \A i \in Inodes : WF_vars(Read(i)) /\ WF_vars(Shrunk(i))

MCSpec == MCInit /\ [][MCNext]_mcvars /\ MCFairness

\* No record that the journal holds is lost to a restart of journalctl or of the
\* collector, or to a neighbour that is too long.
JournalIsTaken == Journal!RecordsAreTaken

\* Nothing unforeseen gets out, whichever source a record came from, and an
\* allocation that ended by its timeout is not reported as closed normally.
OnlyForeseen ==
  part = "sanitizer" => Sanitizer!OnlyForeseenText /\ Sanitizer!TimeoutIsNotNormal
=============================================================================
