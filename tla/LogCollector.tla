---------------------------- MODULE LogCollector ----------------------------
(***************************************************************************)
(* collector.py: one log path is read line by line through held handles,   *)
(* CRI fragments are joined, events and file positions are committed       *)
(* together to a bounded outbox, and batches are posted until answered.    *)
(* Writer, rotation, truncation and crashes come at any moment.            *)
(***************************************************************************)
EXTENDS Naturals, Sequences, FiniteSets, SequencesExt

CONSTANTS Inodes,      \* inodes the path can have
          Shapes,      \* what records look like: sequences of parts
          MaxJoined,   \* fragments that fit into MAX_LINE when joined
          MaxEvents,   \* events that fit into a quarter of the budget
          BatchSize,
          Streams,     \* streams a container writes to one file
          MaxRecords,  \* bound: records written
          MaxCrashes   \* bound: crashes of the collector

ASSUME LimitsAssumption ==
  /\ {MaxJoined, MaxEvents, BatchSize, MaxRecords, MaxCrashes} \subseteq Nat
  /\ BatchSize > 0 /\ MaxEvents > 0 /\ MaxJoined > 0
ASSUME InodesAssumption == Inodes # {}
\* CRI: all parts but the last are fragments; a line that is too long is either.
ASSUME ShapesAssumption ==
  /\ Shapes \subseteq Seq({"P", "F", "long"})
  /\ \A shape \in Shapes :
       /\ shape # <<>> /\ shape[Len(shape)] # "P"
       /\ \A n \in 1..Len(shape) - 1 : shape[n] # "F"

VARIABLES rotation, \* how the log is rotated, see Rotations
          disk,     \* lines of each inode: record, place in it, and part
          path,     \* the inode at the path
          pen,      \* the inode that the writer has open
          used,     \* inodes that have been at the path
          records,  \* shapes of the records begun
          rest,     \* per stream: its last record and how much of it is written
          proc,     \* the collector: handles and fragments by inode
          db,       \* the outbox: events, file positions, rejected records
          ids,      \* event ids given out
          server,   \* events that have arrived
          crashes

vars == <<rotation, disk, path, pen, used, records, rest, proc, db, ids, server, crashes>>
writer == <<rotation, disk, path, pen, used, records, rest>>

\* A new file is created and the writer reopens it at once; the writer goes on in
\* the old file for some time; or the file is copied and truncated.
Rotations == {"create", "late", "truncate"}

Oversized == <<[rec |-> 0, at |-> 0, part |-> "long"]>>
NoFiles == [up |-> TRUE, handles |-> <<>>, parts |-> <<>>]

Init ==
  /\ rotation \in Rotations
  /\ path = CHOOSE i \in Inodes : TRUE
  /\ pen = path /\ used = {path}
  /\ disk = [i \in Inodes |-> <<>>]
  /\ records = <<>> /\ rest = [s \in Streams |-> [rec |-> 0, at |-> 0]]
  /\ proc = NoFiles
  /\ db = [events |-> <<>>, cursors |-> <<>>, rejected |-> {}, dropped |-> {}]
  /\ ids = 0 /\ server = {} /\ crashes = 0

----------------------------------------------------------------------------
(* The writer and the rotation *)

\* A truncated file does not grow before the next poll, or the restart: the
\* documentation says what is lost where it outgrows the old position.
Behind(i) ==
  IF i \in DOMAIN proc.handles THEN proc.handles[i] > Len(disk[i])
  ELSE i \in DOMAIN db.cursors /\ db.cursors[i] > Len(disk[i])

Ended(s) == rest[s].rec # 0 => rest[s].at = Len(records[rest[s].rec])

\* The writer adds the line at this place of the record.
Write(s, r, n, shape) ==
  /\ disk' = [disk EXCEPT ![pen] = Append(@, [rec |-> r, at |-> n, part |-> shape[n]])]
  /\ rest' = [rest EXCEPT ![s] = [rec |-> r, at |-> n]]

BeginRecord(s) ==
  /\ Ended(s) /\ Len(records) < MaxRecords /\ (rotation = "truncate" => ~Behind(pen))
  /\ \E shape \in Shapes :
       records' = Append(records, shape) /\ Write(s, Len(records) + 1, 1, shape)
  /\ UNCHANGED <<rotation, path, pen, used, proc, db, ids, server, crashes>>

EndRecord(s) ==
  /\ ~Ended(s) /\ (rotation = "truncate" => ~Behind(pen))
  /\ Write(s, rest[s].rec, rest[s].at + 1, records[rest[s].rec])
  /\ UNCHANGED <<rotation, path, pen, used, records, proc, db, ids, server, crashes>>

BetweenRecords == \A s \in Streams : Ended(s)

\* Rename and create: days apart, so that a running collector has opened the file
\* before.  The inode is one that the path has not had.
Rotate ==
  /\ pen = path /\ rotation # "truncate" /\ (rotation = "late" \/ BetweenRecords)
  /\ proc.up => path \in DOMAIN proc.handles
  /\ \E i \in Inodes \ {path} :
       /\ i \notin used
       /\ path' = i /\ used' = used \cup {i}
       /\ disk' = [disk EXCEPT ![i] = <<>>]
       /\ pen' = IF rotation = "late" THEN pen ELSE i
  /\ UNCHANGED <<rotation, records, rest, proc, db, ids, server, crashes>>

Reopen ==
  /\ pen # path /\ BetweenRecords
  /\ pen' = path
  /\ UNCHANGED <<rotation, disk, path, used, records, rest, proc, db, ids, server, crashes>>

Truncate ==
  /\ rotation = "truncate" /\ pen = path /\ BetweenRecords /\ disk[path] # <<>>
  /\ disk' = [disk EXCEPT ![path] = <<>>]
  /\ UNCHANGED <<rotation, path, pen, used, records, rest, proc, db, ids, server, crashes>>

----------------------------------------------------------------------------
(* FileReader.poll *)

\* Mutant: the position of another file at this path is taken for its own.
OffsetOfPath(i) ==
  LET known == {db.cursors[j] : j \in DOMAIN db.cursors}
  IN CHOOSE n \in known \cup {0} : \A m \in known : m <= n

\* A saved position past the end is not one of this file.
Offset(i) ==
  IF i \in DOMAIN db.cursors /\ db.cursors[i] <= Len(disk[i]) THEN db.cursors[i] ELSE 0

With(f, i, x) == [j \in DOMAIN f \cup {i} |-> IF j = i THEN x ELSE f[j]]
Without(f, i) == [j \in DOMAIN f \ {i} |-> f[j]]

Open ==
  /\ proc.up /\ path \notin DOMAIN proc.handles
  /\ proc' = [proc EXCEPT !.handles = With(@, path, Offset(path))]
  /\ UNCHANGED <<writer, db, ids, server, crashes>>

\* Mutant: fragments from before the truncation are kept.
ShrunkKeeping(i) ==
  /\ proc.up /\ i \in DOMAIN proc.handles /\ proc.handles[i] > Len(disk[i])
  /\ proc' = [proc EXCEPT !.handles[i] = 0]
  /\ UNCHANGED <<writer, db, ids, server, crashes>>

Shrunk(i) ==
  /\ proc.up /\ i \in DOMAIN proc.handles /\ proc.handles[i] > Len(disk[i])
  /\ proc' = [proc EXCEPT !.handles[i] = 0, !.parts = Without(@, i)]
  /\ UNCHANGED <<writer, db, ids, server, crashes>>

Held(i) == IF i \in DOMAIN proc.parts THEN proc.parts[i] ELSE <<>>

\* checkpoint, in the transaction of the event or of the rejection.
Checkpoint(box, i, n) == [box EXCEPT !.cursors = With(@, i, n)]

\* Room for one more event.
Evicted(box) ==
  IF Len(box.events) < MaxEvents THEN box
  ELSE LET kept == Tail(box.events)
       IN [box EXCEPT !.events = kept,
                      !.dropped = @ \cup (Range(box.events) \ Range(kept))]

\* enqueue: the joined lines become an event with an id of its own.
Accept(i, lines) ==
  LET box == Evicted(db) event == [id |-> ids + 1, lines |-> lines]
  IN /\ db' = Checkpoint([box EXCEPT !.events = Append(@, event)], i, proc.handles[i] + 1)
     /\ ids' = ids + 1

Reject(i, lines) ==
  /\ db' = Checkpoint([db EXCEPT !.rejected = @ \cup {lines[Len(lines)].rec}],
                      i, proc.handles[i] + 1)
  /\ UNCHANGED ids

\* The lines of a record that the collector should be able to put together.
Fits(r) == Len(records[r]) <= MaxJoined /\ "long" \notin Range(records[r])
LinesOf(r) ==
  [n \in DOMAIN records[r] |-> [rec |-> r, at |-> n, part |-> records[r][n]]]

\* sanitize knows every record that is whole, and anything may be in another text.
Sanitized(i, lines) ==
  \/ Accept(i, lines)
  \/ /\ \A r \in DOMAIN records : lines # LinesOf(r)
     /\ Reject(i, lines)

Advance(i, parts) ==
  proc' = [proc EXCEPT !.handles[i] = @ + 1, !.parts = parts]

\* A line longer than MAX_LINE, or the one that ends an oversized text.
ReadOversized(i, line) ==
  /\ line.part = "long" \/ Held(i) = Oversized
  /\ Reject(i, <<line>>)
  /\ Advance(i, Without(proc.parts, i))

\* Joined fragments that become too long, whichever fragment it is.
ReadOverflow(i, line) ==
  /\ line.part # "long" /\ Held(i) # Oversized /\ Len(Held(i)) = MaxJoined
  /\ Advance(i, With(proc.parts, i, Oversized))
  /\ UNCHANGED <<db, ids>>

ReadFragment(i, line) ==
  /\ line.part = "P" /\ Held(i) # Oversized /\ Len(Held(i)) < MaxJoined
  /\ Advance(i, With(proc.parts, i, Append(Held(i), line)))
  /\ UNCHANGED <<db, ids>>

ReadFinal(i, line) ==
  /\ line.part = "F" /\ Held(i) # Oversized /\ Len(Held(i)) < MaxJoined
  /\ Sanitized(i, Append(Held(i), line))
  /\ Advance(i, Without(proc.parts, i))

Read(i) ==
  /\ proc.up /\ i \in DOMAIN proc.handles /\ proc.handles[i] < Len(disk[i])
  /\ LET line == disk[i][proc.handles[i] + 1]
     IN ReadOversized(i, line) \/ ReadOverflow(i, line)
          \/ ReadFragment(i, line) \/ ReadFinal(i, line)
  /\ UNCHANGED <<writer, server, crashes>>

\* Mutant: a handle is closed as soon as the path has another file.
AnyLeft(i) == TRUE

AllRead(i) == proc.handles[i] >= Len(disk[i])

Close(i) ==
  /\ proc.up /\ i \in DOMAIN proc.handles /\ i # path /\ AllRead(i)
  /\ proc' = [proc EXCEPT !.handles = Without(@, i), !.parts = Without(@, i)]
  /\ UNCHANGED <<writer, db, ids, server, crashes>>

----------------------------------------------------------------------------
(* Outbox.deliver, and the end of the process *)

Batch == SubSeq(db.events, 1, IF Len(db.events) < BatchSize THEN Len(db.events) ELSE BatchSize)

Kept(events) == SubSeq(events, Len(Batch) + 1, Len(events))

Answered ==
  /\ proc.up /\ db.events # <<>>
  /\ server' = server \cup Range(Batch)
  /\ db' = [db EXCEPT !.events = Kept(@)]
  /\ UNCHANGED <<writer, proc, ids, crashes>>

\* The answer is lost, or the collector dies before it deletes the batch.
Unanswered ==
  /\ proc.up /\ db.events # <<>>
  /\ server' = server \cup Range(Batch)
  /\ UNCHANGED <<writer, proc, db, ids, crashes>>

\* Not where files are truncated: a collector that was down then cannot tell the
\* new lines of the file from those it has read.  ("late" may do all of "create".)
Crash ==
  /\ proc.up /\ crashes < MaxCrashes /\ rotation = "late"
  /\ proc' = [NoFiles EXCEPT !.up = FALSE] /\ crashes' = crashes + 1
  /\ UNCHANGED <<writer, db, ids, server>>

Restart ==
  /\ ~proc.up
  /\ proc' = NoFiles
  /\ UNCHANGED <<writer, db, ids, server, crashes>>

Next ==
  \/ \E s \in Streams : BeginRecord(s) \/ EndRecord(s)
  \/ Rotate \/ Reopen \/ Truncate
  \/ Open \/ \E i \in Inodes : Shrunk(i) \/ Read(i) \/ Close(i)
  \/ Answered \/ Unanswered \/ Crash \/ Restart

Spec == Init /\ [][Next]_vars

\* The loop polls every handle and posts a batch each time round, a writer ends
\* its records, and the server answers in the end.
FairSpec ==
  /\ Spec
  /\ \A s \in Streams : WF_vars(EndRecord(s))
  /\ WF_vars(Reopen) /\ WF_vars(Open) /\ SF_vars(Answered)
  /\ \A i \in Inodes : WF_vars(Read(i)) /\ WF_vars(Shrunk(i))

----------------------------------------------------------------------------
(* Properties *)

Accepted == Range(db.events) \cup server \cup db.dropped

\* Before this place of the file no fragment is open: it is the first one, or what
\* stands before it is a line that is too long, or a final part that itself follows
\* no fragment.
Boundary(i, n) ==
  \/ n = 0
  \/ disk[i][n].part = "long"
  \/ disk[i][n].part = "F" /\ (n = 1 \/ disk[i][n - 1].part # "P")

\* The parts of the record stand together behind such a place.
Apart(r) ==
  \E i \in used : \E n \in 0..Len(disk[i]) - Len(records[r]) :
    Boundary(i, n) /\ SubSeq(disk[i], n + 1, n + Len(records[r])) = LinesOf(r)

\* The damage that an oversized record, or the other stream of the container, does
\* to its neighbours ends at the next boundary: a record behind one is neither
\* rejected nor joined to anything, however the file is rotated and the collector
\* restarted.
ApartRecordsAreWhole ==
  \A r \in DOMAIN records : Fits(r) /\ Apart(r) =>
    /\ r \notin db.rejected
    /\ \A e \in Accepted : \A line \in Range(e.lines) : line.rec = r => e.lines = LinesOf(r)

\* No line gets into two events that a query cannot tell to be one: neither a lost
\* answer nor a crash between upload and deletion, nor reading again after it.
LinesAreTakenOnce ==
  \A e, f \in Accepted : Range(e.lines) \cap Range(f.lines) # {} => e = f

\* What a crash takes out of memory is what is read again: the fragments held are
\* all the lines behind the saved position, or they are too long together.
CrashLosesNothing ==
  \A i \in DOMAIN proc.handles : rotation # "truncate" =>
    Held(i) = IF proc.handles[i] <= Offset(i) + MaxJoined
              THEN SubSeq(disk[i], Offset(i) + 1, proc.handles[i])
              ELSE Oversized

\* Over lost answers, crashes and rotations, a line is taken once.
ReadOnce == LinesAreTakenOnce /\ CrashLosesNothing

Settled(r) ==
  r \in DOMAIN records /\ \E e \in server \cup db.dropped : e.lines = LinesOf(r)

\* While the collector runs, each record that stands apart, written before or during
\* rotations, is delivered in the end, or counted as dropped; but for what a writer
\* adds to a file that has been read to its end, and what is truncated unread.
RecordsArrive ==
  \A r \in 1..MaxRecords :
    (rotation = "create" /\ r \in DOMAIN records /\ Fits(r) /\ Apart(r)) ~> Settled(r)

\* "CRI fragments stay in memory and are replayed from the last committed record
\* after restart": no part of a record lies before the position from which a
\* restart goes on unless all of it does.
FragmentsAreReplayed ==
  ~proc.up => \A i \in used : \A n \in 1..Offset(i) :
    LET r == disk[i][n].rec
    IN Fits(r) => \E m \in 1..Offset(i) : disk[i][m] = LinesOf(r)[Len(records[r])]

\* "oversize and partial never become events", and the record after an oversized
\* one does.
OversizeStaysAlone ==
  /\ \A e \in Accepted : \E r \in DOMAIN records : Fits(r) /\ e.lines = LinesOf(r)
  /\ \A r \in db.rejected : ~Fits(r)
============================================================================
