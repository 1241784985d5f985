---------------------------- MODULE JournalInput ----------------------------
(***************************************************************************)
(* collector.py, JournalReader: one journalctl --follow is read in chunks, *)
(* lines are cut out of a buffer, and the position in the journal is kept  *)
(* with each event.  journalctl and the collector end at any moment.       *)
(***************************************************************************)
EXTENDS Naturals, Sequences

CONSTANT MaxRecords  \* bound: records of the unit, and ends of a process

VARIABLES journal,    \* the unit's records; a "bad" one has no position
          follow,     \* the last record that journalctl gave, and if it runs
          oversized,  \* the flag of the reader
          cursor,     \* the last record whose position is kept, or NoCursor
          done,       \* records by their outcome; early: before a position was kept
          ends

vars == <<journal, follow, oversized, cursor, done, ends>>
NoCursor == MaxRecords + 1

Init ==
  /\ journal = <<>> /\ follow = [up |-> FALSE, at |-> 0]
  /\ oversized = FALSE /\ ends = 0
  /\ cursor \in {0, NoCursor}
  /\ done = [accepted |-> {}, rejected |-> {}, early |-> {}]

Log ==
  /\ Len(journal) < MaxRecords
  /\ \E kind \in {"good", "unknown", "bad", "long"} : journal' = Append(journal, kind)
  /\ UNCHANGED <<follow, oversized, cursor, done, ends>>

\* After the kept position, or from now on.
Position(n) == IF n = NoCursor THEN Len(journal) ELSE n

Start ==
  /\ ~follow.up
  /\ follow' = [up |-> TRUE, at |-> Position(cursor)]
  /\ UNCHANGED <<journal, oversized, cursor, done, ends>>

\* The buffer of a record that is too long is emptied before its end has come.
Overflow ==
  /\ follow.up /\ follow.at < Len(journal) /\ journal[follow.at + 1] = "long"
  /\ oversized' = TRUE
  /\ UNCHANGED <<journal, follow, cursor, done, ends>>

\* Mutant: what is rejected for its length leaves the flag.
FlagLeft == oversized

FlagAfterLine == FALSE

Line ==
  /\ follow.up /\ follow.at < Len(journal)
  /\ LET n == follow.at + 1 kind == journal[n]
     IN /\ done' = IF ~oversized /\ kind = "good" THEN [done EXCEPT !.accepted = @ \cup {n}]
                   ELSE IF cursor = NoCursor THEN [done EXCEPT !.early = @ \cup {n}]
                   ELSE [done EXCEPT !.rejected = @ \cup {n}]
        /\ cursor' = IF ~oversized /\ kind \in {"good", "unknown"} THEN n ELSE cursor
        /\ follow' = [follow EXCEPT !.at = n]
  /\ oversized' = FlagAfterLine
  /\ UNCHANGED <<journal, ends>>

\* journalctl ends, the buffer with it, and the flag stays.
End ==
  /\ follow.up /\ ends < MaxRecords
  /\ follow' = [follow EXCEPT !.up = FALSE] /\ ends' = ends + 1
  /\ UNCHANGED <<journal, oversized, cursor, done>>

\* The collector ends: the flag is gone too.
Crash ==
  /\ ends < MaxRecords
  /\ follow' = [follow EXCEPT !.up = FALSE] /\ ends' = ends + 1
  /\ oversized' = FALSE
  /\ UNCHANGED <<journal, cursor, done>>

Next == Log \/ Start \/ Overflow \/ Line \/ End \/ Crash
Spec == Init /\ [][Next]_vars

----------------------------------------------------------------------------
(* Properties *)

\* Once a position is kept, a record that can be taken is not rejected for one
\* that was cut off when journalctl ended, since reading again begins with that
\* one; and no record is passed over by a restart.
RecordsAreTaken ==
  /\ \A n \in done.rejected : journal[n] # "good"
  /\ \A m \in done.accepted \cup done.rejected, n \in 1..Len(journal) :
       follow.up /\ m < n /\ n <= follow.at
         => n \in done.accepted \cup done.rejected \cup done.early
=============================================================================
