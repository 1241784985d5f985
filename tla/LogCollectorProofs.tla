------------------------- MODULE LogCollectorProofs -------------------------
(***************************************************************************)
(* The log collector, for any files, streams, shapes of records, limits    *)
(* and crashes: what becomes of records that stand apart, that it takes    *)
(* every line once, and what it takes from a journal.                      *)
(***************************************************************************)
EXTENDS MCLogCollector, SequenceTheorems, TLAPS

----------------------------------------------------------------------------
(* Types *)

Kinds == {"P", "F", "long"}
LineType == [rec : Nat, at : Nat, part : Kinds]
EventType == [id : Nat, lines : Seq(LineType)]

FilesTyped ==
  /\ rotation \in Rotations /\ path \in Inodes /\ pen \in Inodes
  /\ used \subseteq Inodes /\ path \in used /\ pen \in used
  /\ disk \in [Inodes -> Seq(LineType)]
  /\ \A i \in Inodes \ used : disk[i] = <<>>
  /\ records \in Seq(Shapes)
  /\ rest \in [Streams -> [rec : Nat, at : Nat]]

ReaderTyped ==
  /\ proc \in [up : BOOLEAN, handles : {proc.handles}, parts : {proc.parts}]
  /\ DOMAIN proc.handles \subseteq used
  /\ DOMAIN proc.parts \subseteq DOMAIN proc.handles
  /\ \A i \in DOMAIN proc.handles : proc.handles[i] \in Nat
  /\ \A i \in DOMAIN proc.parts : proc.parts[i] \in Seq(LineType)

OutboxTyped ==
  /\ db \in [events : Seq(EventType), cursors : {db.cursors},
             rejected : SUBSET Nat, dropped : SUBSET EventType]
  /\ DOMAIN db.cursors \subseteq used
  /\ \A i \in DOMAIN db.cursors : db.cursors[i] \in Nat
  /\ ids \in Nat /\ server \subseteq EventType

Typed == FilesTyped /\ ReaderTyped /\ OutboxTyped

----------------------------------------------------------------------------
(* The invariant *)

LineAt(r, n) == [rec |-> r, at |-> n, part |-> records[r][n]]

\* The writer has come to this part of the record.
Begun(r, n) == \A s \in Streams : rest[s].rec = r => n <= rest[s].at

\* A line is a part of its record that has been written.
Known(l) ==
  /\ l.rec \in 1..Len(records) /\ l.at \in 1..Len(records[l.rec])
  /\ l = LineAt(l.rec, l.at) /\ Begun(l.rec, l.at)

\* Every stream is in a record of its own.
StreamsAreApart ==
  /\ \A s \in Streams : rest[s].rec # 0 =>
       rest[s].rec \in 1..Len(records) /\ rest[s].at \in 1..Len(records[rest[s].rec])
  /\ \A s, t \in Streams : rest[s].rec = rest[t].rec => s = t \/ rest[s].rec = 0

\* No line stands at two places.
LinesAreDistinct ==
  \A i, j \in Inodes : \A n \in 1..Len(disk[i]), m \in 1..Len(disk[j]) :
    disk[i][n] = disk[j][m] => i = j /\ n = m

LinesAreKnown == \A i \in Inodes : \A n \in 1..Len(disk[i]) : Known(disk[i][n])

\* Where files are truncated there is one, and the collector runs.
OneFile == rotation = "truncate" => used = {path} /\ pen = path /\ proc.up

FilesInv == StreamsAreApart /\ LinesAreDistinct /\ LinesAreKnown /\ OneFile

\* The first m parts of r, which fits, stand behind boundary b of file i.
Begins(i, b, m, r) ==
  /\ Boundary(i, b) /\ Fits(r) /\ b + m <= Len(disk[i])
  /\ \A n \in 1..m : disk[i][b + n] = LineAt(r, n)

\* What is held at position h of file i: the mark, or the fragments right before it.
HeldLines(i, h, q) ==
  /\ Len(q) <= h /\ Len(q) <= MaxJoined
  /\ \A n \in 1..Len(q) : q[n] = disk[i][h - Len(q) + n] /\ q[n].part = "P"

\* Nothing is held at a boundary, and behind one the parts of a record that fits.
HeldWell(i, h, q) ==
  /\ q = Oversized \/ HeldLines(i, h, q)
  /\ Boundary(i, h) => q = <<>>
  /\ \A b \in 0..Len(disk[i]), r \in 1..Len(records) : \A m \in 1..Len(records[r]) - 1 :
       b + m = h /\ Begins(i, b, m, r) => q # Oversized /\ Len(q) = m

ReaderInv == \A i \in DOMAIN proc.handles :
  IF proc.handles[i] <= Len(disk[i]) THEN HeldWell(i, proc.handles[i], Held(i))
  ELSE rotation = "truncate" /\ disk[i] = <<>>

\* What is held is what a crash makes the reader read again.
HeldIsUnsaved(i) ==
  IF proc.handles[i] <= Offset(i) + MaxJoined
  THEN Held(i) # Oversized /\ Len(Held(i)) = proc.handles[i] - Offset(i)
  ELSE Held(i) = Oversized

\* A saved position is none inside of a record that fits and begins at a boundary.
SavedBetween(i) ==
  \A b \in 0..Len(disk[i]), r \in 1..Len(records) : \A m \in 1..Len(records[r]) - 1 :
    b + m = Offset(i) => ~Begins(i, b, m, r)

SavedInv ==
  IF rotation = "truncate" THEN path \notin DOMAIN proc.handles => DOMAIN db.cursors = {}
  ELSE /\ \A i \in DOMAIN db.cursors : db.cursors[i] <= Len(disk[i])
       /\ \A i \in DOMAIN proc.handles : Offset(i) <= proc.handles[i] /\ HeldIsUnsaved(i)
       /\ \A i \in used : SavedBetween(i)

Taken == UNION {Range(e.lines) : e \in Accepted}

\* Behind this place of a file no line has been taken.
TakenTo(i) ==
  IF rotation # "truncate" \/ i \notin DOMAIN proc.handles THEN Offset(i)
  ELSE IF Held(i) = Oversized THEN proc.handles[i] ELSE proc.handles[i] - Len(Held(i))

NotTakenYet == \A i \in used : \A n \in 1..Len(disk[i]) :
  n > TakenTo(i) => disk[i][n] \notin Taken

\* A part of r stands behind a boundary, with all those written, or will stand there.
Alone(r) == \E i \in used : \E b \in 0..Len(disk[i]) :
  /\ Boundary(i, b)
  /\ \A m \in 1..Len(records[r]) :
       /\ Begun(r, m) => b + m <= Len(disk[i])
       /\ b + m <= Len(disk[i]) => disk[i][b + m] = LineAt(r, m)

\* What has come of a record that stands alone is the whole of it.
CameWhole(r) ==
  /\ r \notin db.rejected
  /\ \A e \in Accepted : \A l \in Range(e.lines) : l.rec = r => e.lines = LinesOf(r)

EventsInv ==
  /\ \A l \in Taken : Known(l)
  /\ \A r \in db.rejected : r \in 1..Len(records)
  /\ NotTakenYet /\ LinesAreTakenOnce
  /\ \A r \in 1..Len(records) : Fits(r) /\ Alone(r) => CameWhole(r)

LogInv == Typed /\ FilesInv /\ ReaderInv /\ SavedInv /\ EventsInv

----------------------------------------------------------------------------
(* Records and lines *)

\* A record as it was begun.
LEMMA ShapeFacts ==
  ASSUME FilesTyped, NEW r \in 1..Len(records)
  PROVE  /\ records[r] \in Seq(Kinds) /\ Len(records[r]) \in Nat \ {0}
         /\ records[r][Len(records[r])] # "P"
         /\ \A n \in 1..Len(records[r]) : records[r][n] \in Kinds
         /\ \A n \in 1..Len(records[r]) - 1 : records[r][n] # "F"
<1>1. records[r] \in Shapes
  BY DEF FilesTyped
<1>2. records[r] \in Seq(Kinds)
  BY <1>1, ShapesAssumption DEF Kinds
<1> QED BY <1>1, <1>2, ShapesAssumption

\* Records are numbered as they are begun.
LEMMA RecordPlaces ==
  ASSUME FilesTyped
  PROVE  DOMAIN records = 1..Len(records) /\ Len(records) \in Nat
BY DEF FilesTyped

\* A line is what its three fields say.
LEMMA LineFacts ==
  ASSUME FilesTyped, NEW i \in Inodes
  PROVE  /\ disk[i] \in Seq(LineType) /\ Len(disk[i]) \in Nat
         /\ \A n \in 1..Len(disk[i]) :
              /\ disk[i][n] \in LineType /\ disk[i][n].rec \in Nat
              /\ disk[i][n].at \in Nat /\ disk[i][n].part \in Kinds
<1>1. disk[i] \in Seq(LineType)
  BY DEF FilesTyped
<1>2. \A n \in 1..Len(disk[i]) : disk[i][n] \in LineType
  BY <1>1
<1>3. \A l \in LineType : l.rec \in Nat /\ l.at \in Nat /\ l.part \in Kinds
  BY DEF LineType
<1> QED BY <1>1, <1>2, <1>3

\* The lines of a record are its parts.
LEMMA LinesOfFacts ==
  ASSUME FilesTyped, NEW r \in 1..Len(records)
  PROVE  /\ LinesOf(r) \in [1..Len(records[r]) -> LineType]
         /\ \A n \in 1..Len(records[r]) : LinesOf(r)[n] = LineAt(r, n)
<1>1. /\ DOMAIN records[r] = 1..Len(records[r]) /\ Len(records[r]) \in Nat /\ r \in Nat
      /\ \A n \in 1..Len(records[r]) : records[r][n] \in Kinds /\ n \in Nat
  BY ShapeFacts, RecordPlaces
<1> QED BY <1>1 DEF LinesOf, LineType, LineAt

\* In a record that fits every part but the last is a fragment.
LEMMA FittingParts ==
  ASSUME FilesTyped, NEW r \in 1..Len(records), Fits(r)
  PROVE  /\ Len(records[r]) \in Nat \ {0} /\ Len(records[r]) <= MaxJoined
         /\ records[r][Len(records[r])] = "F"
         /\ \A n \in 1..Len(records[r]) - 1 : records[r][n] = "P"
<1>1. /\ records[r] \in Seq(Kinds) /\ Len(records[r]) \in Nat \ {0}
      /\ records[r][Len(records[r])] # "P"
      /\ \A n \in 1..Len(records[r]) : records[r][n] \in Kinds
      /\ \A n \in 1..Len(records[r]) - 1 : records[r][n] # "F"
  BY ShapeFacts
<1>2. \A n \in 1..Len(records[r]) : records[r][n] # "long"
  <2>1. DOMAIN records[r] = 1..Len(records[r])
    BY <1>1
  <2> QED BY <2>1 DEF Fits, Range
<1>3. Len(records[r]) \in 1..Len(records[r])
  BY <1>1
<1>4. \A n \in 1..Len(records[r]) - 1 : n \in 1..Len(records[r])
  BY <1>1
<1> QED BY <1>1, <1>2, <1>3, <1>4 DEF Fits, Kinds

\* Every event that was given out has its type.
LEMMA AcceptedTyped ==
  ASSUME Typed
  PROVE  /\ Accepted \subseteq EventType
         /\ \A e \in Accepted : \A l \in Range(e.lines) : l \in Taken /\ l \in LineType
<1>1. Range(db.events) \subseteq EventType
  <2>1. db.events \in Seq(EventType)
    BY DEF Typed, OutboxTyped
  <2> QED BY <2>1 DEF Range
<1>2. Accepted \subseteq EventType
  BY <1>1 DEF Accepted, Typed, OutboxTyped
<1>3. ASSUME NEW e \in Accepted, NEW l \in Range(e.lines)
      PROVE  l \in Taken /\ l \in LineType
  <2>1. e.lines \in Seq(LineType)
    BY <1>2 DEF EventType
  <2>2. l \in LineType
    BY <2>1 DEF Range
  <2> QED BY <1>3, <2>2 DEF Taken
<1> QED BY <1>2, <1>3

\* Parts of a record before which the writer has nothing more to do are its own.
LEMMA BegunFacts ==
  ASSUME FilesTyped, StreamsAreApart
  PROVE  /\ \A r \in 1..Len(records) : Begun(r, 1)
         /\ \A s \in Streams : rest[s].rec \in Nat /\ rest[s].at \in Nat
<1>1. \A s \in Streams : rest[s].rec \in Nat /\ rest[s].at \in Nat
  BY DEF FilesTyped
<1> QED BY <1>1 DEF StreamsAreApart, Begun

----------------------------------------------------------------------------
(* The writer and the rotation *)

\* The files go on: records and lines are added to what there is, or the one file is
\* emptied, and nothing of the collector changes.
FilesGo ==
  /\ Typed' /\ FilesInv' /\ UNCHANGED <<rotation, proc, db, ids, server>> /\ used \subseteq used'
  /\ Len(records') \in Nat /\ Len(records') >= Len(records)
  /\ \A r \in 1..Len(records) : records'[r] = records[r]
  /\ \A r \in 1..Len(records), m \in Nat : Begun(r, m) => Begun(r, m)'
  /\ \A i \in Inodes \ used : disk'[i] = <<>>
  /\ rotation = "truncate" => used' = used /\ path' = path
  /\ \A i \in Inodes :
       \/ rotation = "truncate" /\ disk'[i] = <<>>
       \/ /\ Len(disk'[i]) >= Len(disk[i])
          /\ \A n \in 1..Len(disk[i]) : disk'[i][n] = disk[i][n]
          /\ \A n \in 1..Len(disk'[i]) : n > Len(disk[i]) => ~Known(disk'[i][n])
          /\ i \in DOMAIN proc.handles =>
               proc.handles[i] <= Len(disk[i]) \/ disk'[i] = disk[i]

\* The writer adds part n of record r, a new one or the one it is in.
Added(s, r, n) ==
  /\ Len(records) \in Nat /\ Len(records') >= Len(records) /\ records' \in Seq(Shapes)
  /\ \A q \in 1..Len(records) : records'[q] = records[q]
  /\ r \in 1..Len(records') /\ n \in 1..Len(records'[r])
  /\ disk' \in [Inodes -> Seq(LineType)]
  /\ Len(disk'[pen]) = Len(disk[pen]) + 1 /\ Len(disk[pen]) \in Nat
  /\ disk'[pen][Len(disk[pen]) + 1] = [rec |-> r, at |-> n, part |-> records'[r][n]]
  /\ \A m \in 1..Len(disk[pen]) : disk'[pen][m] = disk[pen][m]
  /\ \A i \in Inodes : i # pen => disk'[i] = disk[i]
  /\ rest' \in [Streams -> [rec : Nat, at : Nat]]
  /\ rest'[s] = [rec |-> r, at |-> n]
  /\ \A t \in Streams : t # s => rest'[t] = rest[t]
  /\ \/ r = Len(records) + 1 /\ n = 1 /\ Len(records') = Len(records) + 1
     \/ r \in 1..Len(records) /\ records' = records /\ rest[s].rec = r /\ n = rest[s].at + 1
  /\ rotation = "truncate" => ~Behind(pen)
  /\ UNCHANGED <<rotation, path, pen, used, proc, db, ids, server, crashes>>

\* The line that the writer adds.
LEMMA WriteFacts ==
  ASSUME FilesTyped, NEW s \in Streams, NEW r \in Nat, NEW n \in Nat, NEW shape \in Shapes,
         n \in 1..Len(shape), Write(s, r, n, shape)
  PROVE  /\ disk' \in [Inodes -> Seq(LineType)]
         /\ Len(disk'[pen]) = Len(disk[pen]) + 1 /\ Len(disk[pen]) \in Nat
         /\ disk'[pen][Len(disk[pen]) + 1] = [rec |-> r, at |-> n, part |-> shape[n]]
         /\ \A m \in 1..Len(disk[pen]) : disk'[pen][m] = disk[pen][m]
         /\ \A i \in Inodes : i # pen => disk'[i] = disk[i]
         /\ rest' \in [Streams -> [rec : Nat, at : Nat]]
         /\ rest'[s] = [rec |-> r, at |-> n]
         /\ \A t \in Streams : t # s => rest'[t] = rest[t]
<1> DEFINE l == [rec |-> r, at |-> n, part |-> shape[n]]
<1>1. l \in LineType
  BY ShapesAssumption DEF LineType, Kinds
<1>2. disk[pen] \in Seq(LineType) /\ disk \in [Inodes -> Seq(LineType)] /\ pen \in Inodes
  BY DEF FilesTyped
<1>3. disk' = [disk EXCEPT ![pen] = Append(disk[pen], l)]
  BY DEF Write
<1> HIDE DEF l
<1>4. /\ Append(disk[pen], l) \in Seq(LineType)
      /\ Len(Append(disk[pen], l)) = Len(disk[pen]) + 1
      /\ \A m \in 1..Len(disk[pen]) : Append(disk[pen], l)[m] = disk[pen][m]
      /\ Append(disk[pen], l)[Len(disk[pen]) + 1] = l
  BY <1>1, <1>2, AppendProperties
<1>5. disk'[pen] = Append(disk[pen], l) /\ \A i \in Inodes : i # pen => disk'[i] = disk[i]
  BY <1>2, <1>3
<1>6. disk' \in [Inodes -> Seq(LineType)]
  BY <1>2, <1>3, <1>4
<1>7. /\ rest' \in [Streams -> [rec : Nat, at : Nat]]
      /\ rest'[s] = [rec |-> r, at |-> n]
      /\ \A t \in Streams : t # s => rest'[t] = rest[t]
  BY DEF FilesTyped, Write
<1> QED BY <1>2, <1>4, <1>5, <1>6, <1>7 DEF l

\* A new record begins with its first part.
LEMMA BeginAdds ==
  ASSUME FilesTyped, NEW s \in Streams, BeginRecord(s)
  PROVE  \E r, n \in Nat : Added(s, r, n)
<1>1. PICK shape \in Shapes :
        records' = Append(records, shape) /\ Write(s, Len(records) + 1, 1, shape)
  BY DEF BeginRecord
<1>2. shape \in Seq(Kinds) /\ Len(shape) \in Nat \ {0}
  BY ShapesAssumption DEF Kinds
<1>3. records \in Seq(Shapes) /\ Len(records) \in Nat
  BY DEF FilesTyped
<1>4. /\ records' \in Seq(Shapes) /\ Len(records') = Len(records) + 1
      /\ \A r \in 1..Len(records) : records'[r] = records[r]
      /\ records'[Len(records) + 1] = shape
  BY <1>1, <1>3, AppendProperties
<1> DEFINE r == Len(records) + 1
<1>5. r \in Nat /\ 1 \in 1..Len(shape) /\ Write(s, r, 1, shape)
  BY <1>1, <1>2, <1>3
<1>6. /\ rotation = "truncate" => ~Behind(pen)
      /\ UNCHANGED <<rotation, path, pen, used, proc, db, ids, server, crashes>>
  BY DEF BeginRecord
<1>7. /\ r = Len(records) + 1 /\ r \in 1..Len(records') /\ records'[r] = shape
      /\ Len(records') >= Len(records)
  BY <1>3, <1>4
<1> HIDE DEF r
<1>8. Added(s, r, 1)
  BY <1>3, <1>4, <1>5, <1>6, <1>7, WriteFacts DEF Added
<1> QED BY <1>5, <1>8

\* The record that a stream is in goes on with the next part.
LEMMA EndAdds ==
  ASSUME FilesTyped, StreamsAreApart, NEW s \in Streams, EndRecord(s)
  PROVE  \E r, n \in Nat : Added(s, r, n)
<1> DEFINE r == rest[s].rec
           n == rest[s].at + 1
<1>1. /\ r \in 1..Len(records) /\ rest[s].at \in 1..Len(records[r])
      /\ rest[s].at # Len(records[r])
  BY DEF EndRecord, Ended, StreamsAreApart
<1>2. /\ Len(records[r]) \in Nat /\ records[r] \in Shapes
      /\ records \in Seq(Shapes) /\ Len(records) \in Nat
  BY <1>1, ShapeFacts DEF FilesTyped
<1>3. n \in 1..Len(records[r]) /\ n \in Nat /\ r \in Nat
  BY SMTT(30), <1>1, <1>2
<1>4. Write(s, r, n, records[r])
  BY DEF EndRecord
<1>5. /\ rotation = "truncate" => ~Behind(pen)
      /\ UNCHANGED <<rotation, path, pen, used, proc, db, ids, server, crashes>>
      /\ records' = records
  BY DEF EndRecord
<1>6. rest[s].rec = r /\ n = rest[s].at + 1
  OBVIOUS
<1> HIDE DEF r, n
<1>7. Len(records) >= Len(records)
  BY <1>2
<1>8. Added(s, r, n)
  BY <1>1, <1>2, <1>3, <1>4, <1>5, <1>6, <1>7, WriteFacts DEF Added
<1> QED BY <1>3, <1>8

\* What has been begun stays begun, and the new part has not been before.
LEMMA AddedBegins ==
  ASSUME FilesTyped, StreamsAreApart, NEW s \in Streams, NEW r \in Nat, NEW n \in Nat,
         Added(s, r, n)
  PROVE  /\ StreamsAreApart'
         /\ \A q \in 1..Len(records), m \in Nat : Begun(q, m) => Begun(q, m)'
         /\ Begun(r, n)' /\ (r \in 1..Len(records) => ~Begun(r, n))
<1>1. /\ \A t \in Streams : rest[t].rec \in Nat /\ rest[t].at \in Nat
      /\ \A t \in Streams : t # s => rest'[t] = rest[t]
      /\ rest'[s].rec = r /\ rest'[s].at = n /\ r \in 1..Len(records') /\ n \in 1..Len(records'[r])
      /\ Len(records) \in Nat /\ Len(records') \in Nat /\ Len(records') >= Len(records)
      /\ \A q \in 1..Len(records) : records'[q] = records[q]
  BY DEF Added, FilesTyped
<1>2. \A t \in Streams : rest[t].rec = r => t = s
  BY <1>1 DEF Added, StreamsAreApart
<1>3. r \in 1..Len(records) => rest[s].rec = r /\ n = rest[s].at + 1
  BY DEF Added
<1>4. ASSUME NEW t \in Streams, rest'[t].rec # 0
      PROVE  rest'[t].rec \in 1..Len(records') /\ rest'[t].at \in 1..Len(records'[rest'[t].rec])
  <2>1. CASE t = s
    BY <1>1, <2>1
  <2>2. CASE t # s
    <3>1. /\ rest[t].rec \in 1..Len(records) /\ rest[t].at \in 1..Len(records[rest[t].rec])
          /\ rest'[t] = rest[t]
      BY <1>1, <1>4, <2>2 DEF StreamsAreApart
    <3> QED BY <1>1, <3>1
  <2> QED BY <2>1, <2>2
<1>5. ASSUME NEW t \in Streams, NEW u \in Streams, rest'[t].rec = rest'[u].rec
      PROVE  t = u \/ rest'[t].rec = 0
  BY <1>1, <1>2, <1>5 DEF StreamsAreApart
<1>6. StreamsAreApart'
  BY <1>4, <1>5 DEF StreamsAreApart
<1>7. ASSUME NEW q \in 1..Len(records), NEW m \in Nat, Begun(q, m), NEW t \in Streams, rest'[t].rec = q
      PROVE  m <= rest'[t].at
  BY <1>1, <1>3, <1>7 DEF Begun
<1>8. Begun(r, n)'
  BY <1>1, <1>2 DEF Begun
<1>9. r \in 1..Len(records) => ~Begun(r, n)
  BY <1>1, <1>3 DEF Begun
<1> QED BY <1>6, <1>7, <1>8, <1>9 DEF Begun

\* A line that was known stays so, with the records that are added.
LEMMA KnownStays ==
  ASSUME NEW l, Known(l), Len(records) \in Nat, Len(records') \in Nat,
         Len(records') >= Len(records),
         \A r \in 1..Len(records) : records'[r] = records[r],
         \A r \in 1..Len(records), m \in Nat : Begun(r, m) => Begun(r, m)',
         \A r \in 1..Len(records) : Len(records[r]) \in Nat
  PROVE  Known(l)'
<1>1. /\ l.rec \in 1..Len(records) /\ l.at \in 1..Len(records[l.rec]) /\ l.at \in Nat
      /\ l = LineAt(l.rec, l.at) /\ Begun(l.rec, l.at)
  BY DEF Known
<1>2. l.rec \in 1..Len(records') /\ records'[l.rec] = records[l.rec]
  BY <1>1
<1>3. Begun(l.rec, l.at)'
  BY <1>1
<1> QED BY <1>1, <1>2, <1>3 DEF Known, LineAt

\* The writer adds a line.
LEMMA AddedGoes ==
  ASSUME Typed, FilesInv, ReaderInv, NEW s \in Streams, NEW r \in Nat, NEW n \in Nat,
         Added(s, r, n)
  PROVE  FilesGo
<1> DEFINE L == Len(disk[pen])
<1> SUFFICES ASSUME NEW l, l = [rec |-> r, at |-> n, part |-> records'[r][n]]
    PROVE  FilesGo
  OBVIOUS
<1>1. /\ FilesTyped /\ pen \in Inodes /\ pen \in used /\ L \in Nat /\ Len(disk'[pen]) = L + 1
      /\ disk'[pen][L + 1] = l /\ l.rec = r /\ l.at = n
      /\ \A m \in 1..L : disk'[pen][m] = disk[pen][m]
      /\ \A i \in Inodes : i # pen => disk'[i] = disk[i]
  BY DEF Added, Typed, FilesTyped
<1>2. /\ Len(records) \in Nat /\ Len(records') \in Nat /\ Len(records') >= Len(records)
      /\ \A q \in 1..Len(records) : records'[q] = records[q] /\ Len(records[q]) \in Nat
      /\ r \in 1..Len(records') /\ n \in 1..Len(records'[r])
      /\ UNCHANGED <<rotation, path, pen, used, proc, db, ids, server>>
  BY <1>1, ShapeFacts DEF Added
<1>3. /\ StreamsAreApart'
      /\ \A q \in 1..Len(records), m \in Nat : Begun(q, m) => Begun(q, m)'
      /\ Begun(r, n)' /\ (r \in 1..Len(records) => ~Begun(r, n))
  BY <1>1, AddedBegins DEF FilesInv
<1>4. ~Known(l) /\ Known(l)'
  <2>1. ~Known(l)
    BY <1>1, <1>3 DEF Known
  <2>2. Known(l)'
    BY <1>1, <1>2, <1>3 DEF Known, LineAt
  <2> QED BY <2>1, <2>2
<1>5. \A i \in Inodes : \A m \in 1..Len(disk'[i]) :
        (m \in 1..Len(disk[i]) /\ disk'[i][m] = disk[i][m]) \/ (i = pen /\ m = L + 1)
  <2> SUFFICES ASSUME NEW i \in Inodes, NEW m \in 1..Len(disk'[i])
      PROVE (m \in 1..Len(disk[i]) /\ disk'[i][m] = disk[i][m]) \/ (i = pen /\ m = L + 1)
    OBVIOUS
  <2>1. CASE i = pen
    BY <1>1, <2>1
  <2>2. CASE i # pen
    BY <1>1, <2>2
  <2> QED BY <2>1, <2>2
<1>6. \A i \in Inodes : \A m \in 1..Len(disk[i]) : Known(disk[i][m])
  BY DEF FilesInv, LinesAreKnown
<1>7. LinesAreKnown'
  <2>1. \A x : Known(x) => Known(x)'
    BY <1>2, <1>3, KnownStays
  <2> QED BY <1>1, <1>4, <1>5, <1>6, <2>1 DEF LinesAreKnown
<1>8. LinesAreDistinct'
  <2> SUFFICES ASSUME NEW i \in Inodes, NEW j \in Inodes, NEW x \in 1..Len(disk'[i]),
                      NEW y \in 1..Len(disk'[j]), disk'[i][x] = disk'[j][y]
      PROVE i = j /\ x = y
    BY DEF LinesAreDistinct
  <2>1. CASE x \in 1..Len(disk[i]) /\ y \in 1..Len(disk[j]) /\ disk'[i][x] = disk[i][x]
             /\ disk'[j][y] = disk[j][y]
    <3>1. disk[i][x] = disk[j][y]
      BY <2>1
    <3> QED BY <2>1, <3>1 DEF FilesInv, LinesAreDistinct
  <2>2. CASE i = pen /\ x = L + 1 /\ y \in 1..Len(disk[j]) /\ disk'[j][y] = disk[j][y]
    BY <1>1, <1>4, <1>6, <2>2
  <2>3. CASE j = pen /\ y = L + 1 /\ x \in 1..Len(disk[i]) /\ disk'[i][x] = disk[i][x]
    BY <1>1, <1>4, <1>6, <2>3
  <2> QED BY <1>5, <2>1, <2>2, <2>3
<1>9. FilesInv'
  BY <1>2, <1>3, <1>7, <1>8 DEF FilesInv, OneFile
<1>10. \A i \in Inodes \ used : disk'[i] = disk[i] /\ disk'[i] = <<>>
  BY <1>1 DEF FilesTyped
<1>11. Typed'
  <2>1. FilesTyped'
    BY <1>1, <1>2, <1>10 DEF Added, FilesTyped
  <2> QED BY <1>2, <2>1 DEF Typed, ReaderTyped, OutboxTyped
<1>12. ASSUME NEW i \in Inodes
       PROVE  /\ Len(disk'[i]) >= Len(disk[i])
              /\ \A m \in 1..Len(disk[i]) : disk'[i][m] = disk[i][m]
              /\ \A m \in 1..Len(disk'[i]) : m > Len(disk[i]) => ~Known(disk'[i][m])
  <2>1. Len(disk[i]) \in Nat
    BY <1>1, LineFacts
  <2> QED BY <1>1, <1>4, <1>5, <2>1
<1>13. ASSUME NEW i \in DOMAIN proc.handles
       PROVE  proc.handles[i] <= Len(disk[i]) \/ disk'[i] = disk[i]
  <2>1. CASE i = pen
    <3>1. ~Behind(pen) \/ rotation # "truncate"
      BY DEF Added
    <3>2. proc.handles[i] \in Nat /\ L \in Nat
      BY <1>1 DEF Typed, ReaderTyped
    <3> QED BY <2>1, <3>1, <3>2 DEF Behind, ReaderInv
  <2>2. CASE i # pen
    <3>1. i \in Inodes
      BY <1>1 DEF Typed, ReaderTyped, FilesTyped
    <3> QED BY <1>1, <2>2, <3>1
  <2> QED BY <2>1, <2>2
<1> QED BY <1>2, <1>3, <1>9, <1>10, <1>11, <1>12, <1>13 DEF FilesGo

\* Another file comes to the path, or the writer turns to it.
LEMMA RotationGoes ==
  ASSUME Typed, FilesInv, ReaderInv, Rotate \/ Reopen
  PROVE  FilesGo
<1>1. /\ disk' = disk /\ UNCHANGED <<rotation, records, rest, proc, db, ids, server>>
      /\ rotation # "truncate" /\ used \subseteq used' /\ used' \subseteq Inodes
      /\ path' \in used' /\ pen' \in used'
  <2>1. CASE Rotate
    <3>1. PICK i \in Inodes \ {path} :
            /\ i \notin used /\ path' = i /\ used' = used \cup {i}
            /\ disk' = [disk EXCEPT ![i] = <<>>]
            /\ pen' = IF rotation = "late" THEN pen ELSE i
      BY <2>1 DEF Rotate
    <3>2. disk[i] = <<>> /\ disk \in [Inodes -> Seq(LineType)]
      BY <3>1 DEF Typed, FilesTyped
    <3>3. disk' = disk
      BY <3>1, <3>2
    <3> QED BY <2>1, <3>1, <3>3 DEF Rotate, Typed, FilesTyped
  <2>2. CASE Reopen
    BY <2>2 DEF Reopen, Typed, FilesTyped, FilesInv, OneFile
  <2> QED BY <2>1, <2>2
<1>2. FilesTyped' /\ Typed'
  BY <1>1 DEF Typed, FilesTyped, ReaderTyped, OutboxTyped
<1>3. \A r, m : Begun(r, m)' <=> Begun(r, m)
  BY <1>1 DEF Begun
<1>4. FilesInv'
  <2>1. \A l : Known(l)' <=> Known(l)
    BY <1>1, <1>3 DEF Known, LineAt
  <2>2. LinesAreDistinct' /\ LinesAreKnown'
    BY <1>1, <2>1 DEF FilesInv, LinesAreDistinct, LinesAreKnown
  <2>3. StreamsAreApart' /\ OneFile'
    BY <1>1 DEF FilesInv, StreamsAreApart, OneFile
  <2> QED BY <2>2, <2>3 DEF FilesInv
<1>5. Len(records) \in Nat /\ \A i \in Inodes : Len(disk[i]) \in Nat
  BY LineFacts, RecordPlaces DEF Typed
<1>6. \A i \in Inodes \ used : disk'[i] = <<>>
  BY <1>1 DEF Typed, FilesTyped
<1> QED BY <1>1, <1>2, <1>3, <1>4, <1>5, <1>6 DEF FilesGo

\* The file at the path is emptied.
LEMMA TruncationGoes ==
  ASSUME Typed, FilesInv, ReaderInv, Truncate
  PROVE  FilesGo
<1>1. /\ rotation = "truncate" /\ disk' = [disk EXCEPT ![path] = <<>>]
      /\ UNCHANGED <<rotation, path, pen, used, records, rest, proc, db, ids, server>>
  BY DEF Truncate
<1>2. disk \in [Inodes -> Seq(LineType)] /\ path \in Inodes /\ used = {path} /\ pen = path
  BY <1>1 DEF Typed, FilesTyped, FilesInv, OneFile
<1>3. /\ disk' \in [Inodes -> Seq(LineType)] /\ disk'[path] = <<>>
      /\ \A i \in Inodes : i # path => disk'[i] = disk[i] /\ disk'[i] = <<>>
  <2>1. <<>> \in Seq(LineType)
    OBVIOUS
  <2> QED BY <1>1, <1>2, <2>1 DEF Typed, FilesTyped
<1>4. \A i \in Inodes : disk'[i] = <<>> /\ Len(disk'[i]) = 0
  BY <1>3
<1>5. FilesTyped' /\ Typed'
  BY <1>1, <1>3 DEF Typed, FilesTyped, ReaderTyped, OutboxTyped
<1>6. \A r, m : Begun(r, m)' <=> Begun(r, m)
  BY <1>1 DEF Begun
<1>7. FilesInv'
  <2>1. LinesAreDistinct' /\ LinesAreKnown'
    BY <1>4 DEF LinesAreDistinct, LinesAreKnown
  <2>2. StreamsAreApart' /\ OneFile'
    BY <1>1 DEF FilesInv, StreamsAreApart, OneFile
  <2> QED BY <2>1, <2>2 DEF FilesInv
<1>8. Len(records) \in Nat
  BY RecordPlaces DEF Typed
<1> QED BY <1>1, <1>4, <1>5, <1>6, <1>7, <1>8 DEF FilesGo

\* What stands at a boundary in a file that goes on stood there before.
LEMMA BoundaryStays ==
  ASSUME FilesTyped, NEW i \in Inodes, NEW n \in 0..Len(disk[i]),
         \A m \in 1..Len(disk[i]) : disk'[i][m] = disk[i][m]
  PROVE  Boundary(i, n)' <=> Boundary(i, n)
<1>1. Len(disk[i]) \in Nat /\ n \in Nat
  BY LineFacts
<1>2. n # 0 => disk'[i][n] = disk[i][n]
  BY <1>1
<1>3. n # 0 /\ n # 1 => disk'[i][n - 1] = disk[i][n - 1]
  BY <1>1
<1> QED BY <1>2, <1>3 DEF Boundary

\* A known record fits or not, and has its lines, as before.
LEMMA RecordsStay ==
  ASSUME FilesTyped, FilesGo, NEW r \in 1..Len(records)
  PROVE  /\ r \in 1..Len(records') /\ records'[r] = records[r]
         /\ (Fits(r)' <=> Fits(r)) /\ LinesOf(r)' = LinesOf(r)
         /\ \A n : LineAt(r, n)' = LineAt(r, n)
<1>1. Len(records) \in Nat /\ Len(records') \in Nat /\ records'[r] = records[r]
  BY RecordPlaces DEF FilesGo
<1> QED BY <1>1 DEF FilesGo, Fits, LinesOf, LineAt

\* The parts behind a boundary and before the end of the file before were there.
LEMMA BeginsStays ==
  ASSUME Typed, FilesInv, FilesGo, NEW i \in Inodes, NEW b \in Nat, NEW r \in 1..Len(records'),
         NEW m \in Nat \ {0}, b + m <= Len(disk[i]), Begins(i, b, m, r)', disk'[i] # <<>>
  PROVE  r \in 1..Len(records) /\ Begins(i, b, m, r)
<1>1. Len(disk[i]) \in Nat /\ FilesTyped
  BY LineFacts DEF Typed
<1>2. \A n \in 1..Len(disk[i]) : disk'[i][n] = disk[i][n]
  BY DEF FilesGo
<1>3. \A n \in 1..m : b + n \in 1..Len(disk[i])
  BY <1>1
<1>4. Boundary(i, b)' /\ Fits(r)' /\ \A n \in 1..m : disk'[i][b + n] = LineAt(r, n)'
  BY DEF Begins
<1>5. r \in 1..Len(records)
  <2>1. 1 \in 1..m
    OBVIOUS
  <2>2. disk[i][b + 1].rec = r
    <3>1. disk'[i][b + 1] = LineAt(r, 1)' /\ disk'[i][b + 1] = disk[i][b + 1]
      BY <1>2, <1>3, <1>4, <2>1
    <3> QED BY <3>1 DEF LineAt
  <2>3. Known(disk[i][b + 1])
    BY <1>3, <2>1 DEF FilesInv, LinesAreKnown
  <2> QED BY <2>2, <2>3 DEF Known
<1>6. (Fits(r)' <=> Fits(r)) /\ \A n : LineAt(r, n)' = LineAt(r, n)
  BY <1>1, <1>5, RecordsStay
<1>7. Boundary(i, b)
  <2>1. b \in 0..Len(disk[i])
    BY <1>1
  <2> QED BY <1>1, <1>2, <1>4, <2>1, BoundaryStays
<1>8. \A n \in 1..m : disk[i][b + n] = LineAt(r, n)
  BY <1>2, <1>3, <1>4, <1>6
<1> QED BY <1>4, <1>5, <1>6, <1>7, <1>8 DEF Begins

\* A record that stands alone did so before it went on.
LEMMA AloneBefore ==
  ASSUME Typed, FilesInv, FilesGo, NEW r \in 1..Len(records), Alone(r)'
  PROVE  Alone(r)
<1>0. PICK i \in used' : \E b \in 0..Len(disk'[i]) :
        /\ Boundary(i, b)'
        /\ \A m \in 1..Len(records'[r]) :
             /\ Begun(r, m)' => b + m <= Len(disk'[i])
             /\ b + m <= Len(disk'[i]) => disk'[i][b + m] = LineAt(r, m)'
  BY DEF Alone
<1>1. PICK b \in 0..Len(disk'[i]) :
        /\ Boundary(i, b)'
        /\ \A m \in 1..Len(records'[r]) :
             /\ Begun(r, m)' => b + m <= Len(disk'[i])
             /\ b + m <= Len(disk'[i]) => disk'[i][b + m] = LineAt(r, m)'
  BY <1>0
<1>2. /\ FilesTyped /\ FilesTyped' /\ i \in Inodes /\ Len(records[r]) \in Nat \ {0}
      /\ records'[r] = records[r]
      /\ Len(disk[i]) \in Nat /\ Len(disk'[i]) \in Nat
  <2>1. FilesTyped /\ FilesTyped' /\ i \in Inodes
    BY DEF Typed, FilesTyped, FilesGo
  <2>2. Len(records[r]) \in Nat \ {0} /\ records'[r] = records[r]
    BY <2>1, ShapeFacts, RecordsStay
  <2>3. Len(disk[i]) \in Nat
    BY <2>1, LineFacts
  <2>4. Len(disk'[i]) \in Nat
    <3>1. disk'[i] \in Seq(LineType)
      BY <2>1 DEF FilesTyped
    <3> QED BY <3>1
  <2> QED BY <2>1, <2>2, <2>3, <2>4
<1>3. 1 \in 1..Len(records[r]) /\ Begun(r, 1) /\ Begun(r, 1)'
  BY <1>2, BegunFacts DEF FilesInv, FilesGo
<1>4. b + 1 <= Len(disk'[i]) /\ disk'[i] # <<>> /\ b \in Nat
  BY <1>1, <1>2, <1>3
<1>5. i \in used
  BY <1>2, <1>4 DEF FilesGo
<1>6. /\ Len(disk'[i]) >= Len(disk[i])
      /\ \A n \in 1..Len(disk[i]) : disk'[i][n] = disk[i][n]
      /\ \A n \in 1..Len(disk'[i]) : n > Len(disk[i]) => ~Known(disk'[i][n])
  BY <1>2, <1>4 DEF FilesGo
<1>7. \A m \in 1..Len(records[r]) : LineAt(r, m)' = LineAt(r, m)
  BY <1>2, RecordsStay
<1>8. ASSUME NEW m \in 1..Len(records[r]), Begun(r, m)
      PROVE  b + m <= Len(disk[i])
  <2>1. Begun(r, m)'
    BY <1>2, <1>8 DEF FilesGo
  <2>2. b + m <= Len(disk'[i]) /\ disk'[i][b + m] = LineAt(r, m) /\ b + m \in 1..Len(disk'[i])
    BY <1>1, <1>2, <1>4, <1>7, <2>1
  <2>3. Known(LineAt(r, m))
    BY <1>8 DEF Known, LineAt
  <2> QED BY <1>2, <1>6, <2>2, <2>3
<1>9. b \in 0..Len(disk[i])
  BY <1>2, <1>3, <1>4, <1>8
<1>10. Boundary(i, b)
  BY <1>1, <1>2, <1>6, <1>9, BoundaryStays
<1>11. ASSUME NEW m \in 1..Len(records[r]), b + m <= Len(disk[i])
       PROVE  disk[i][b + m] = LineAt(r, m)
  <2>1. b + m \in 1..Len(disk[i]) /\ b + m <= Len(disk'[i])
    BY <1>2, <1>4, <1>6, <1>11
  <2> QED BY <1>1, <1>2, <1>6, <1>7, <2>1
<1> QED BY <1>5, <1>8, <1>9, <1>10, <1>11 DEF Alone

\* The reader finds what it has read where it was.
LEMMA GoesReader ==
  ASSUME Typed, FilesInv, ReaderInv, FilesGo
  PROVE  ReaderInv'
<1> SUFFICES ASSUME NEW i \in DOMAIN proc.handles, NEW h, h = proc.handles[i], NEW q, q = Held(i)
    PROVE IF h <= Len(disk'[i]) THEN HeldWell(i, h, q)' ELSE rotation = "truncate" /\ disk'[i] = <<>>
  <2>1. proc' = proc /\ rotation' = rotation
    BY DEF FilesGo
  <2> QED BY <2>1 DEF ReaderInv, Held
<1>1. /\ FilesTyped /\ i \in used /\ i \in Inodes /\ h \in Nat /\ q \in Seq(LineType)
      /\ Len(disk[i]) \in Nat
  <2>1. FilesTyped /\ i \in used /\ i \in Inodes /\ h \in Nat /\ q \in Seq(LineType)
    BY DEF Typed, FilesTyped, ReaderTyped, Held
  <2> QED BY <2>1, LineFacts
<1>2. CASE h > Len(disk[i])
  <2>1. rotation = "truncate" /\ disk[i] = <<>>
    BY <1>1, <1>2 DEF ReaderInv
  <2>2. disk'[i] = <<>>
    BY <1>1, <1>2, <2>1 DEF FilesGo
  <2> QED BY <1>1, <1>2, <2>1, <2>2
<1>3. CASE h <= Len(disk[i]) /\ disk'[i] = <<>>
  <2>1. HeldWell(i, h, q)
    BY <1>3 DEF ReaderInv
  <2>2. CASE h = 0
    <3>1. Boundary(i, h) /\ q = <<>>
      BY <2>1, <2>2 DEF Boundary, HeldWell
    <3>2. Len(disk'[i]) = 0 /\ h <= Len(disk'[i])
      BY <1>3, <2>2
    <3>3. HeldLines(i, h, q)'
      BY <2>2, <3>1, LimitsAssumption DEF HeldLines
    <3>4. \A b \in 0..Len(disk'[i]), r \in 1..Len(records') : \A m \in 1..Len(records'[r]) - 1 :
            ~(b + m = h)
      BY <2>2, <3>2
    <3>5. HeldWell(i, h, q)'
      BY <3>1, <3>3, <3>4 DEF HeldWell
    <3> QED BY <3>2, <3>5
  <2>3. CASE h # 0
    <3>1. rotation = "truncate"
      BY <1>1, <1>3, <2>3 DEF FilesGo
    <3> QED BY <1>1, <1>3, <2>3, <3>1
  <2> QED BY <2>2, <2>3
<1>4. CASE h <= Len(disk[i]) /\ disk'[i] # <<>>
  <2>1. HeldWell(i, h, q)
    BY <1>4 DEF ReaderInv
  <2>2. /\ Len(disk'[i]) >= Len(disk[i])
        /\ \A n \in 1..Len(disk[i]) : disk'[i][n] = disk[i][n]
    BY <1>1, <1>4 DEF FilesGo
  <2>3. Boundary(i, h)' <=> Boundary(i, h)
    BY <1>1, <1>4, <2>2, BoundaryStays
  <2>4. HeldLines(i, h, q) => HeldLines(i, h, q)'
    <3> SUFFICES ASSUME HeldLines(i, h, q), NEW n \in 1..Len(q)
        PROVE disk'[i][h - Len(q) + n] = disk[i][h - Len(q) + n]
      BY DEF HeldLines
    <3>1. h - Len(q) + n \in 1..Len(disk[i])
      BY <1>1, <1>4 DEF HeldLines
    <3> QED BY <2>2, <3>1
  <2>5. ASSUME NEW b \in 0..Len(disk'[i]), NEW r \in 1..Len(records'),
               NEW m \in 1..Len(records'[r]) - 1, b + m = h, Begins(i, b, m, r)'
        PROVE  q # Oversized /\ Len(q) = m
    <3>1. b \in Nat /\ m \in Nat \ {0} /\ b + m <= Len(disk[i])
      BY <1>1, <1>4, <2>5
    <3>2. r \in 1..Len(records) /\ Begins(i, b, m, r)
      BY <1>1, <1>4, <2>5, <3>1, BeginsStays
    <3>3. records'[r] = records[r] /\ b \in 0..Len(disk[i])
      BY <1>1, <3>1, <3>2 DEF FilesGo
    <3> QED BY <2>1, <2>5, <3>2, <3>3 DEF HeldWell
  <2>6. HeldWell(i, h, q)'
    BY <2>1, <2>3, <2>4, <2>5 DEF HeldWell
  <2>7. h <= Len(disk'[i])
    <3>1. Len(disk'[i]) \in Nat
      <4>1. disk'[i] \in Seq(LineType)
        BY <1>1 DEF FilesGo, Typed, FilesTyped
      <4> QED BY <4>1
    <3> QED BY <1>1, <1>4, <2>2, <3>1
  <2> QED BY <2>6, <2>7
<1> QED BY <1>1, <1>2, <1>3, <1>4

\* A position that is saved stays one of the file.
LEMMA GoesOffset ==
  ASSUME Typed, FilesInv, SavedInv, FilesGo, NEW i \in Inodes,
         rotation # "truncate" \/ i \notin DOMAIN proc.handles
  PROVE  /\ Offset(i)' = Offset(i) /\ Offset(i) \in Nat /\ Offset(i) <= Len(disk[i])
         /\ i \in DOMAIN db.cursors => rotation # "truncate"
<1>1. /\ Len(disk[i]) \in Nat /\ Len(disk'[i]) \in Nat /\ db' = db
      /\ DOMAIN db.cursors \subseteq used /\ \A j \in DOMAIN db.cursors : db.cursors[j] \in Nat
  <2>1. disk'[i] \in Seq(LineType)
    BY DEF FilesGo, Typed, FilesTyped
  <2>2. Len(disk[i]) \in Nat
    BY LineFacts DEF Typed
  <2> QED BY <2>1, <2>2 DEF FilesGo, Typed, OutboxTyped
<1>2. CASE rotation # "truncate"
  <2>1. Len(disk'[i]) >= Len(disk[i])
    BY <1>2 DEF FilesGo
  <2>2. i \in DOMAIN db.cursors => db.cursors[i] <= Len(disk[i])
    BY <1>2 DEF SavedInv
  <2> QED BY <1>1, <1>2, <2>1, <2>2 DEF Offset
<1>3. CASE rotation = "truncate"
  <2>1. i \notin DOMAIN db.cursors
    BY <1>1, <1>3 DEF SavedInv, FilesInv, OneFile
  <2> QED BY <1>1, <2>1 DEF Offset
<1> QED BY <1>2, <1>3

\* So is what is saved.
LEMMA GoesSaved ==
  ASSUME Typed, FilesInv, SavedInv, FilesGo
  PROVE  SavedInv'
<1>1. UNCHANGED <<rotation, proc, db>> /\ used \subseteq used' /\ used \subseteq Inodes
  BY DEF FilesGo, Typed, FilesTyped
<1>2. CASE rotation = "truncate"
  BY <1>1, <1>2 DEF FilesGo, SavedInv
<1>3. CASE rotation # "truncate"
  <2>1. \A i \in Inodes : Len(disk[i]) \in Nat /\ Len(disk'[i]) \in Nat
    <3>1. \A i \in Inodes : disk'[i] \in Seq(LineType)
      BY DEF FilesGo, Typed, FilesTyped
    <3> QED BY <3>1, LineFacts DEF Typed
  <2>2. \A i \in Inodes : Len(disk'[i]) >= Len(disk[i])
    BY <1>3 DEF FilesGo
  <2>3. \A i \in Inodes : /\ Offset(i)' = Offset(i) /\ Offset(i) \in Nat
                          /\ Offset(i) <= Len(disk[i])
    BY <1>3, GoesOffset
  <2>4. \A i \in DOMAIN db.cursors : db.cursors[i] <= Len(disk'[i])
    <3>1. \A i \in DOMAIN db.cursors : db.cursors[i] <= Len(disk[i]) /\ db.cursors[i] \in Nat
                                       /\ i \in Inodes
      BY <1>1, <1>3 DEF SavedInv, Typed, OutboxTyped
    <3> QED BY <2>1, <2>2, <3>1
  <2>5. \A i \in DOMAIN proc.handles : Offset(i)' <= proc.handles[i] /\ HeldIsUnsaved(i)'
    <3>1. \A i \in DOMAIN proc.handles : i \in Inodes /\ Held(i)' = Held(i)
      BY <1>1 DEF Typed, ReaderTyped, Held
    <3> QED BY <1>1, <1>3, <2>3, <3>1 DEF SavedInv, HeldIsUnsaved
  <2>6. ASSUME NEW i \in used'
        PROVE  SavedBetween(i)'
    <3> SUFFICES ASSUME NEW b \in 0..Len(disk'[i]), NEW r \in 1..Len(records'),
                        NEW m \in 1..Len(records'[r]) - 1, b + m = Offset(i)', Begins(i, b, m, r)'
        PROVE FALSE
      BY DEF SavedBetween
    <3>1. i \in Inodes
      BY DEF FilesGo, Typed, FilesTyped
    <3>2. b \in Nat /\ m \in Nat \ {0} /\ b + m = Offset(i) /\ b + m <= Len(disk[i])
      BY <2>1, <2>3, <3>1
    <3>3. disk'[i] # <<>>
      BY <2>1, <2>2, <3>1, <3>2
    <3>4. r \in 1..Len(records) /\ Begins(i, b, m, r)
      BY <3>1, <3>2, <3>3, BeginsStays
    <3>5. i \in used
      BY <3>1, <3>3 DEF FilesGo
    <3>6. records'[r] = records[r] /\ b \in 0..Len(disk[i])
      BY <2>1, <3>1, <3>2, <3>4 DEF FilesGo
    <3>7. SavedBetween(i)
      BY <1>3, <3>5 DEF SavedInv
    <3> QED BY <3>2, <3>4, <3>6, <3>7 DEF SavedBetween
  <2> QED BY <1>1, <1>3, <2>4, <2>5, <2>6 DEF SavedInv
<1> QED BY <1>2, <1>3

\* And what has been taken.
LEMMA GoesEvents ==
  ASSUME Typed, FilesInv, SavedInv, EventsInv, FilesGo
  PROVE  EventsInv'
<1>1. /\ UNCHANGED <<rotation, proc, db, server>> /\ used \subseteq Inodes /\ used' \subseteq Inodes
      /\ FilesTyped /\ Len(records) \in Nat /\ Len(records') \in Nat
      /\ Len(records') >= Len(records)
  BY RecordPlaces DEF FilesGo, Typed, FilesTyped
<1>2. Accepted' = Accepted /\ Taken' = Taken
  BY <1>1 DEF Accepted, Taken
<1>3. \A r \in 1..Len(records) : Len(records[r]) \in Nat
  BY <1>1, ShapeFacts
<1>4. \A l \in Taken' : Known(l)'
  BY <1>1, <1>2, <1>3, KnownStays DEF FilesGo, EventsInv
<1>5. \A r \in db'.rejected : r \in 1..Len(records')
  BY <1>1 DEF EventsInv
<1>6. ASSUME NEW i \in used', NEW n \in 1..Len(disk'[i]), n > TakenTo(i)', disk'[i][n] \in Taken
      PROVE  FALSE
  <2>1. i \in Inodes /\ Len(disk[i]) \in Nat /\ disk'[i] # <<>> /\ i \in used
    <3>1. i \in Inodes /\ Len(disk[i]) \in Nat
      BY <1>1, LineFacts
    <3>2. disk'[i] # <<>>
      BY <1>6
    <3> QED BY <3>1, <3>2 DEF FilesGo
  <2>2. Known(disk'[i][n])
    BY <1>6 DEF EventsInv
  <2>3. n \in 1..Len(disk[i]) /\ disk'[i][n] = disk[i][n]
    BY <2>1, <2>2 DEF FilesGo
  <2>4. TakenTo(i)' = TakenTo(i)
    <3>1. Held(i)' = Held(i)
      BY <1>1 DEF Held
    <3>2. rotation # "truncate" \/ i \notin DOMAIN proc.handles => Offset(i)' = Offset(i)
      BY <2>1, GoesOffset
    <3> QED BY <1>1, <3>1, <3>2 DEF TakenTo
  <2> QED BY <1>6, <2>1, <2>3, <2>4 DEF EventsInv, NotTakenYet
<1>7. LinesAreTakenOnce'
  BY <1>2 DEF EventsInv, LinesAreTakenOnce
<1>8. ASSUME NEW r \in 1..Len(records'), Fits(r)', Alone(r)'
      PROVE  CameWhole(r)'
  <2>1. CASE r \in 1..Len(records)
    <3>1. Fits(r) /\ Alone(r) /\ LinesOf(r)' = LinesOf(r)
      BY <1>1, <1>8, <2>1, AloneBefore, RecordsStay
    <3> QED BY <1>1, <1>2, <2>1, <3>1 DEF EventsInv, CameWhole
  <2>2. CASE r \notin 1..Len(records)
    <3>1. r \notin db.rejected
      BY <2>2 DEF EventsInv
    <3>2. \A e \in Accepted : \A l \in Range(e.lines) : l.rec # r
      BY <2>2 DEF EventsInv, Taken, Known
    <3> QED BY <1>1, <1>2, <3>1, <3>2 DEF CameWhole
  <2> QED BY <2>1, <2>2
<1> QED BY <1>2, <1>4, <1>5, <1>6, <1>7, <1>8 DEF EventsInv, NotTakenYet

\* The writer, and the rotation, keep all of it.
LEMMA WriterKeeps ==
  ASSUME LogInv,
         Rotate \/ Reopen \/ Truncate \/ \E s \in Streams : BeginRecord(s) \/ EndRecord(s)
  PROVE  LogInv'
<1>1. Typed /\ FilesTyped /\ FilesInv /\ StreamsAreApart /\ ReaderInv /\ SavedInv /\ EventsInv
  BY DEF LogInv, Typed, FilesInv
<1>2. ASSUME NEW s \in Streams, BeginRecord(s) \/ EndRecord(s)
      PROVE  FilesGo
  <2>1. PICK r, n \in Nat : Added(s, r, n)
    BY <1>1, <1>2, BeginAdds, EndAdds
  <2> QED BY <1>1, <2>1, AddedGoes
<1>3. FilesGo
  BY <1>1, <1>2, RotationGoes, TruncationGoes
<1>4. Typed' /\ FilesInv'
  BY <1>3 DEF FilesGo
<1> QED BY <1>1, <1>3, <1>4, GoesReader, GoesSaved, GoesEvents DEF LogInv

----------------------------------------------------------------------------
(* Files are opened and closed, and batches are sent *)

\* What is said of files and records holds of them as long as nothing is written.
LEMMA FilesStay ==
  ASSUME UNCHANGED writer
  PROVE  /\ UNCHANGED <<rotation, disk, path, pen, used, records, rest>>
         /\ \A r : (Fits(r)' <=> Fits(r)) /\ LinesOf(r)' = LinesOf(r) /\ (Alone(r)' <=> Alone(r))
         /\ \A l : Known(l)' <=> Known(l)
         /\ \A i, n : Boundary(i, n)' <=> Boundary(i, n)
         /\ \A i, b, m, r : Begins(i, b, m, r)' <=> Begins(i, b, m, r)
         /\ \A i, h, q : (HeldLines(i, h, q)' <=> HeldLines(i, h, q))
                         /\ (HeldWell(i, h, q)' <=> HeldWell(i, h, q))
         /\ (StreamsAreApart /\ LinesAreDistinct /\ LinesAreKnown)' <=>
              StreamsAreApart /\ LinesAreDistinct /\ LinesAreKnown
<1>1. UNCHANGED <<rotation, disk, path, pen, used, records, rest>>
  BY DEF writer
<1>2. \A r, n : LineAt(r, n)' = LineAt(r, n) /\ (Begun(r, n)' <=> Begun(r, n))
  BY <1>1 DEF LineAt, Begun
<1>3. \A r : (Fits(r)' <=> Fits(r)) /\ LinesOf(r)' = LinesOf(r)
  BY <1>1 DEF Fits, LinesOf
<1>4. \A l : Known(l)' <=> Known(l)
  BY <1>1, <1>2 DEF Known
<1>5. \A i, n : Boundary(i, n)' <=> Boundary(i, n)
  BY <1>1 DEF Boundary
<1>6. \A i, b, m, r : Begins(i, b, m, r)' <=> Begins(i, b, m, r)
  BY <1>1, <1>2, <1>3, <1>5 DEF Begins
<1>7. \A i, h, q : HeldLines(i, h, q)' <=> HeldLines(i, h, q)
  BY <1>1 DEF HeldLines
<1>8. \A i, h, q : HeldWell(i, h, q)' <=> HeldWell(i, h, q)
  BY <1>1, <1>5, <1>6, <1>7 DEF HeldWell
<1>9. \A r : Alone(r)' <=> Alone(r)
  BY <1>1 DEF Alone, LineAt, Begun, Boundary
<1>10. (StreamsAreApart /\ LinesAreDistinct /\ LinesAreKnown)' <=>
         StreamsAreApart /\ LinesAreDistinct /\ LinesAreKnown
  BY <1>1, <1>4 DEF StreamsAreApart, LinesAreDistinct, LinesAreKnown
<1> QED BY <1>1, <1>3, <1>4, <1>5, <1>6, <1>7, <1>8, <1>9, <1>10

\* A file is left alone, or read again from its saved position with nothing held.
ProcMoves ==
  /\ ReaderTyped' /\ UNCHANGED <<writer, db, ids, server>>
  /\ \A i \in DOMAIN proc'.handles :
       \/ i \in DOMAIN proc.handles /\ proc'.handles[i] = proc.handles[i] /\ Held(i)' = Held(i)
       \/ /\ Held(i)' = <<>>
          /\ proc'.handles[i] = IF rotation = "truncate" THEN 0 ELSE Offset(i)
          /\ i \in DOMAIN proc.handles => rotation = "truncate" /\ disk[i] = <<>>
  /\ rotation = "truncate" => proc'.up /\ DOMAIN proc.handles \subseteq DOMAIN proc'.handles

\* The saved position of a file that is not being read where files are truncated.
LEMMA OffsetFacts ==
  ASSUME Typed, FilesInv, SavedInv, NEW i \in used,
         rotation # "truncate" \/ i \notin DOMAIN proc.handles
  PROVE  /\ Offset(i) \in Nat /\ Offset(i) <= Len(disk[i]) /\ Len(disk[i]) \in Nat
         /\ rotation = "truncate" => Offset(i) = 0
<1>1. /\ Len(disk[i]) \in Nat
      /\ \A j \in DOMAIN db.cursors : db.cursors[j] \in Nat
  BY LineFacts DEF Typed, FilesTyped, OutboxTyped
<1>2. rotation = "truncate" => i \notin DOMAIN db.cursors
  BY DEF SavedInv, FilesInv, OneFile
<1> QED BY <1>1, <1>2 DEF Offset

\* A file that is opened holds no fragments.
LEMMA OpenMoves ==
  ASSUME Typed, FilesInv, SavedInv, Open
  PROVE  ProcMoves
<1>1. /\ path \in used /\ path \notin DOMAIN proc.handles
      /\ UNCHANGED <<writer, db, ids, server, crashes>> /\ proc.up
  BY DEF Open, Typed, FilesTyped
<1>2. proc \in [up : BOOLEAN, handles : {proc.handles}, parts : {proc.parts}]
  BY DEF Typed, ReaderTyped
<1>3. /\ proc' \in [up : BOOLEAN, handles : {proc'.handles}, parts : {proc'.parts}]
      /\ proc'.up = proc.up /\ proc'.parts = proc.parts
      /\ proc'.handles = With(proc.handles, path, Offset(path))
  BY <1>2 DEF Open
<1>4. Offset(path) \in Nat /\ (rotation = "truncate" => Offset(path) = 0)
  BY <1>1, OffsetFacts
<1>5. /\ DOMAIN proc'.handles = DOMAIN proc.handles \cup {path}
      /\ proc'.handles[path] = Offset(path)
      /\ \A i \in DOMAIN proc.handles : proc'.handles[i] = proc.handles[i]
  BY <1>1, <1>3 DEF With
<1>6. path \notin DOMAIN proc'.parts
  BY <1>1, <1>3 DEF Typed, ReaderTyped
<1>7. used' = used /\ path' = path
  BY <1>1 DEF writer
<1>8. ReaderTyped'
  <2>1. \A i \in DOMAIN proc'.handles : proc'.handles[i] \in Nat
    BY <1>4, <1>5 DEF Typed, ReaderTyped
  <2> QED BY <1>1, <1>3, <1>5, <1>7, <2>1 DEF Typed, ReaderTyped
<1>9. \A i \in DOMAIN proc.handles : Held(i)' = Held(i)
  BY <1>3 DEF Held
<1>10. Held(path)' = <<>>
  BY <1>6, <1>7 DEF Held
<1>11. \A i \in DOMAIN proc'.handles :
         \/ i \in DOMAIN proc.handles /\ proc'.handles[i] = proc.handles[i] /\ Held(i)' = Held(i)
         \/ /\ Held(i)' = <<>> /\ i \notin DOMAIN proc.handles
            /\ proc'.handles[i] = IF rotation = "truncate" THEN 0 ELSE Offset(i)
  BY <1>1, <1>4, <1>5, <1>7, <1>9, <1>10
<1> QED BY <1>1, <1>3, <1>5, <1>8, <1>11 DEF ProcMoves

\* Only a file that is truncated gets shorter than what was read of it.
LEMMA ShrunkMoves ==
  ASSUME Typed, FilesInv, ReaderInv, NEW i \in Inodes, Shrunk(i)
  PROVE  ProcMoves
<1>1. /\ i \in DOMAIN proc.handles /\ proc.handles[i] > Len(disk[i])
      /\ UNCHANGED <<writer, db, ids, server, crashes>> /\ proc.up
  BY DEF Shrunk
<1>2. proc \in [up : BOOLEAN, handles : {proc.handles}, parts : {proc.parts}]
  BY DEF Typed, ReaderTyped
<1>3. /\ proc' \in [up : BOOLEAN, handles : {proc'.handles}, parts : {proc'.parts}]
      /\ proc'.up = proc.up /\ proc'.parts = Without(proc.parts, i)
      /\ proc'.handles = [proc.handles EXCEPT ![i] = 0]
  BY <1>2 DEF Shrunk
<1>4. /\ DOMAIN proc'.handles = DOMAIN proc.handles /\ proc'.handles[i] = 0
      /\ \A j \in DOMAIN proc.handles : j # i => proc'.handles[j] = proc.handles[j]
  BY <1>1, <1>3
<1>5. /\ DOMAIN proc'.parts = DOMAIN proc.parts \ {i}
      /\ \A j \in DOMAIN proc'.parts : proc'.parts[j] = proc.parts[j]
  BY <1>3 DEF Without
<1>6. rotation = "truncate" /\ disk[i] = <<>>
  <2>1. Len(disk[i]) \in Nat /\ proc.handles[i] \in Nat
    BY <1>1, LineFacts DEF Typed, ReaderTyped
  <2> QED BY <1>1, <2>1 DEF ReaderInv
<1>7. ReaderTyped'
  <2>1. used' = used
    BY <1>1 DEF writer
  <2>2. \A j \in DOMAIN proc'.handles : proc'.handles[j] \in Nat
    BY <1>4 DEF Typed, ReaderTyped
  <2> QED BY <1>1, <1>3, <1>4, <1>5, <2>1, <2>2 DEF Typed, ReaderTyped
<1>8. Held(i)' = <<>> /\ \A j \in DOMAIN proc.handles : j # i => Held(j)' = Held(j)
  BY <1>5 DEF Held
<1> QED BY <1>1, <1>3, <1>4, <1>6, <1>7, <1>8 DEF ProcMoves

\* A file that is closed leaves the others as they are.
LEMMA CloseMoves ==
  ASSUME Typed, FilesInv, NEW i \in Inodes, Close(i)
  PROVE  ProcMoves
<1>1. /\ i \in DOMAIN proc.handles /\ i # path
      /\ UNCHANGED <<writer, db, ids, server, crashes>> /\ proc.up
  BY DEF Close
<1>2. proc \in [up : BOOLEAN, handles : {proc.handles}, parts : {proc.parts}]
  BY DEF Typed, ReaderTyped
<1>3. /\ proc' \in [up : BOOLEAN, handles : {proc'.handles}, parts : {proc'.parts}]
      /\ proc'.up = proc.up /\ proc'.parts = Without(proc.parts, i)
      /\ proc'.handles = Without(proc.handles, i)
  BY <1>2 DEF Close
<1>4. /\ DOMAIN proc'.handles = DOMAIN proc.handles \ {i}
      /\ \A j \in DOMAIN proc'.handles : proc'.handles[j] = proc.handles[j]
  BY <1>3 DEF Without
<1>5. /\ DOMAIN proc'.parts = DOMAIN proc.parts \ {i}
      /\ \A j \in DOMAIN proc'.parts : proc'.parts[j] = proc.parts[j]
  BY <1>3 DEF Without
<1>6. rotation # "truncate"
  BY <1>1 DEF FilesInv, OneFile, Typed, ReaderTyped
<1>7. ReaderTyped'
  <2>1. used' = used
    BY <1>1 DEF writer
  <2> QED BY <1>1, <1>3, <1>4, <1>5, <2>1 DEF Typed, ReaderTyped
<1>8. \A j \in DOMAIN proc'.handles : Held(j)' = Held(j)
  BY <1>4, <1>5 DEF Held
<1> QED BY <1>1, <1>4, <1>6, <1>7, <1>8 DEF ProcMoves

\* No file is held after the process has ended.
LEMMA EndMoves ==
  ASSUME Typed, FilesInv, Crash \/ Restart
  PROVE  ProcMoves
<1>1. rotation # "truncate" /\ UNCHANGED <<writer, db, ids, server>>
  BY DEF Crash, Restart, FilesInv, OneFile
<1>2. proc'.handles = <<>> /\ proc'.parts = <<>> /\ proc'.up \in BOOLEAN
      /\ proc' \in [up : BOOLEAN, handles : {proc'.handles}, parts : {proc'.parts}]
  <2>1. proc' = [up |-> FALSE, handles |-> <<>>, parts |-> <<>>] \/ proc' = NoFiles
    BY DEF Crash, Restart, NoFiles
  <2>2. PICK b \in BOOLEAN : proc' = [up |-> b, handles |-> <<>>, parts |-> <<>>]
    BY <2>1 DEF NoFiles
  <2>3. proc'.handles = <<>> /\ proc'.parts = <<>> /\ proc'.up = b
    BY <2>2
  <2> QED BY <2>2, <2>3
<1>3. DOMAIN proc'.handles = {} /\ DOMAIN proc'.parts = {}
  BY <1>2
<1> QED BY <1>1, <1>2, <1>3 DEF ProcMoves, ReaderTyped

\* Where a file is read from its saved position, nothing is skipped and none taken twice.
LEMMA MovesKeep ==
  ASSUME LogInv, ProcMoves
  PROVE  LogInv'
<1>1. Typed /\ FilesTyped /\ FilesInv /\ ReaderInv /\ SavedInv /\ EventsInv
  BY DEF LogInv, Typed
<1>2. UNCHANGED <<rotation, disk, path, pen, used, records, rest, db, ids, server>>
      /\ ReaderTyped' /\ UNCHANGED writer
  BY DEF ProcMoves, writer
<1>3. Accepted' = Accepted /\ Taken' = Taken /\ \A i : Offset(i)' = Offset(i)
  BY <1>2 DEF Accepted, Taken, Offset
<1>4. Typed'
  BY <1>1, <1>2 DEF Typed, FilesTyped, OutboxTyped
<1>5. FilesInv'
  <2>1. OneFile'
    BY <1>1, <1>2 DEF ProcMoves, FilesInv, OneFile
  <2> QED BY <1>1, <1>2, <2>1, FilesStay DEF FilesInv
<1>6. \A i \in DOMAIN proc'.handles :
        /\ i \in used /\ i \in Inodes /\ Len(disk[i]) \in Nat /\ proc'.handles[i] \in Nat
  <2>1. \A i \in DOMAIN proc'.handles : i \in used /\ i \in Inodes /\ proc'.handles[i] \in Nat
    BY <1>1, <1>2 DEF ReaderTyped, FilesTyped
  <2> QED BY <1>1, <2>1, LineFacts
<1>7. \A i \in used : rotation # "truncate" \/ i \notin DOMAIN proc.handles =>
        Offset(i) \in Nat /\ Offset(i) <= Len(disk[i])
        /\ (rotation = "truncate" => Offset(i) = 0)
  BY <1>1, OffsetFacts
<1>8. <<>> # Oversized /\ Len(<<>>) = 0
  BY DEF Oversized
<1>9. ReaderInv'
  <2> SUFFICES ASSUME NEW i \in DOMAIN proc'.handles, NEW h, h = proc'.handles[i]
      PROVE IF h <= Len(disk[i]) THEN HeldWell(i, h, Held(i)')
            ELSE rotation = "truncate" /\ disk[i] = <<>>
    BY <1>2, FilesStay DEF ReaderInv
  <2>1. CASE i \in DOMAIN proc.handles /\ h = proc.handles[i] /\ Held(i)' = Held(i)
    BY <1>1, <2>1 DEF ReaderInv
  <2>2. CASE /\ Held(i)' = <<>> /\ h = IF rotation = "truncate" THEN 0 ELSE Offset(i)
             /\ i \in DOMAIN proc.handles => rotation = "truncate" /\ disk[i] = <<>>
    <3>1. h \in Nat /\ h <= Len(disk[i])
      BY <1>6, <1>7, <2>2
    <3>2. HeldLines(i, h, <<>>)
      BY <1>8, <3>1, LimitsAssumption DEF HeldLines
    <3>3. ASSUME NEW b \in 0..Len(disk[i]), NEW r \in 1..Len(records),
                 NEW m \in 1..Len(records[r]) - 1, b + m = h, Begins(i, b, m, r)
          PROVE  FALSE
      <4>1. CASE rotation = "truncate"
        BY <2>2, <3>3, <4>1
      <4>2. CASE rotation # "truncate"
        <5>1. SavedBetween(i)
          BY <1>1, <1>6, <4>2 DEF SavedInv
        <5> QED BY <2>2, <3>3, <4>2, <5>1 DEF SavedBetween
      <4> QED BY <4>1, <4>2
    <3> QED BY <2>2, <3>1, <3>2, <3>3 DEF HeldWell
  <2> QED BY <2>1, <2>2 DEF ProcMoves
<1>10. SavedInv'
  <2>1. CASE rotation = "truncate"
    BY <1>1, <1>2, <2>1 DEF ProcMoves, SavedInv
  <2>2. CASE rotation # "truncate"
    <3>1. \A i \in used : SavedBetween(i)'
      BY <1>1, <1>2, <1>3, <2>2, FilesStay DEF SavedInv, SavedBetween
    <3>2. ASSUME NEW i \in DOMAIN proc'.handles
          PROVE  Offset(i)' <= proc'.handles[i] /\ HeldIsUnsaved(i)'
      <4>1. CASE i \in DOMAIN proc.handles /\ proc'.handles[i] = proc.handles[i]
                 /\ Held(i)' = Held(i)
        BY <1>1, <1>3, <2>2, <4>1 DEF SavedInv, HeldIsUnsaved
      <4>2. CASE Held(i)' = <<>> /\ proc'.handles[i] = Offset(i)
        <5>1. Offset(i) \in Nat /\ MaxJoined \in Nat
          BY <1>6, <1>7, <2>2, LimitsAssumption
        <5> QED BY <1>3, <1>8, <4>2, <5>1 DEF HeldIsUnsaved
      <4> QED BY <2>2, <4>1, <4>2 DEF ProcMoves
    <3> QED BY <1>1, <1>2, <2>2, <3>1, <3>2 DEF SavedInv
  <2> QED BY <2>1, <2>2
<1>11. NotTakenYet'
  <2> SUFFICES ASSUME NEW i \in used, NEW n \in 1..Len(disk[i]), n > TakenTo(i)'
      PROVE disk[i][n] \notin Taken
    BY <1>2, <1>3 DEF NotTakenYet
  <2>1. TakenTo(i)' = TakenTo(i)
    <3>1. CASE rotation # "truncate"
      BY <1>2, <1>3, <3>1 DEF TakenTo
    <3>2. CASE rotation = "truncate" /\ i \notin DOMAIN proc'.handles
      BY <1>2, <1>3, <3>2 DEF ProcMoves, TakenTo
    <3>3. CASE /\ rotation = "truncate" /\ i \in DOMAIN proc'.handles
               /\ proc'.handles[i] = proc.handles[i] /\ Held(i)' = Held(i)
               /\ i \in DOMAIN proc.handles
      BY <1>2, <1>3, <3>3 DEF TakenTo
    <3>4. CASE /\ rotation = "truncate" /\ i \in DOMAIN proc'.handles
               /\ Held(i)' = <<>> /\ proc'.handles[i] = 0
               /\ i \in DOMAIN proc.handles => disk[i] = <<>>
      <4>1. disk[i] # <<>>
        OBVIOUS
      <4>2. Offset(i) = 0
        BY <1>7, <3>4, <4>1
      <4> QED BY <1>2, <1>8, <3>4, <4>1, <4>2 DEF TakenTo
    <3> QED BY <3>1, <3>2, <3>3, <3>4 DEF ProcMoves
  <2> QED BY <1>1, <2>1 DEF EventsInv, NotTakenYet
<1>12. EventsInv'
  BY <1>1, <1>2, <1>3, <1>11, FilesStay DEF EventsInv, LinesAreTakenOnce, CameWhole
<1> QED BY <1>4, <1>5, <1>9, <1>10, <1>12 DEF LogInv

\* The length of what SubSeq leaves.
LEMMA RestIsLong ==
  \A x, m \in Nat : m <= x => (IF m + 1 <= x THEN x - (m + 1) + 1 ELSE 0) = x - m
OBVIOUS

\* The places of both parts are places of the whole.
LEMMA PartsAreInside ==
  \A x, m \in Nat : m <= x =>
    (\A n \in 1..m : n \in 1..x) /\ (\A n \in 1..x - m : m + n \in 1..x)
OBVIOUS

\* A sequence cut in two has the elements of both parts.
LEMMA RangeOfParts ==
  ASSUME NEW S, NEW s \in Seq(S), NEW m \in 0..Len(s)
  PROVE  /\ Range(SubSeq(s, 1, m)) \cup Range(SubSeq(s, m + 1, Len(s))) = Range(s)
         /\ SubSeq(s, 1, m) \in Seq(S) /\ Len(SubSeq(s, 1, m)) = m
         /\ SubSeq(s, m + 1, Len(s)) \in Seq(S)
<1> DEFINE a == SubSeq(s, 1, m)
           b == SubSeq(s, m + 1, Len(s))
<1>1. Len(s) \in Nat /\ m \in Nat /\ m <= Len(s) /\ DOMAIN s = 1..Len(s)
  OBVIOUS
<1>2. a \in Seq(S) /\ Len(a) = m /\ \A n \in 1..m : a[n] = s[n]
  <2>1. \A n \in 1..m : n \in 1..Len(s)
    BY SMTT(30), <1>1
  <2> QED BY <1>1, <2>1, SubSeqProperties
<1>3. b \in Seq(S) /\ Len(b) = Len(s) - m /\ \A n \in 1..Len(s) - m : b[n] = s[m + n]
  <2>1. \A n \in m + 1..Len(s) : s[n] \in S
    BY <1>1
  <2>2. /\ b \in Seq(S)
        /\ Len(b) = IF m + 1 <= Len(s) THEN Len(s) - (m + 1) + 1 ELSE 0
        /\ \A n \in 1..Len(s) - (m + 1) + 1 : b[n] = s[m + 1 + n - 1]
    <3>1. m + 1 \in Int /\ Len(s) \in Int
      BY <1>1
    <3> QED BY <2>1, <3>1, SubSeqProperties
  <2> HIDE DEF b
  <2>3. Len(s) - (m + 1) + 1 = Len(s) - m
    BY <1>1
  <2>4. \A n \in 1..Len(s) - m : m + 1 + n - 1 = m + n
    BY <1>1
  <2>5. Len(b) = Len(s) - m
    <3>1. (IF m + 1 <= Len(s) THEN Len(s) - (m + 1) + 1 ELSE 0) = Len(s) - m
      BY ZenonT(60), <1>1, RestIsLong
    <3> QED BY SMTT(30), <2>2, <3>1
  <2> QED BY ZenonT(60), <2>2, <2>3, <2>4, <2>5
<1> HIDE DEF a, b
<1>4. DOMAIN a = 1..m /\ DOMAIN b = 1..Len(s) - m
  BY <1>2, <1>3
<1>5. Range(a) \cup Range(b) \subseteq Range(s)
  <2>1. \A n \in 1..m : n \in 1..Len(s)
    BY ZenonT(30), <1>1, PartsAreInside
  <2>2. \A n \in 1..Len(s) - m : m + n \in 1..Len(s)
    BY ZenonT(30), <1>1, PartsAreInside
  <2>3. Range(a) \subseteq Range(s)
    BY <1>1, <1>2, <1>4, <2>1 DEF Range
  <2>4. Range(b) \subseteq Range(s)
    BY <1>1, <1>3, <1>4, <2>2 DEF Range
  <2> QED BY <2>3, <2>4
<1>6. ASSUME NEW n \in 1..Len(s) PROVE s[n] \in Range(a) \cup Range(b)
  <2>1. CASE n \in 1..m
    BY <1>2, <1>4, <2>1 DEF Range
  <2>2. CASE n \in m + 1..Len(s)
    <3>1. n - m \in 1..Len(s) - m /\ s[n] = b[n - m]
      BY <1>1, <1>3, <2>2
    <3> QED BY <1>4, <3>1 DEF Range
  <2> QED BY <1>1, <2>1, <2>2
<1>7. Range(s) \subseteq Range(a) \cup Range(b)
  BY <1>1, <1>6 DEF Range
<1> QED BY <1>2, <1>3, <1>5, <1>7 DEF a, b

\* Events change their places, and else nothing.
Still ==
  /\ Typed' /\ UNCHANGED <<writer, proc>> /\ Accepted' = Accepted
  /\ db'.cursors = db.cursors /\ db'.rejected = db.rejected

\* An event that is sent is not lost with its place in the outbox.
LEMMA DeliveryStill ==
  ASSUME Typed, Answered \/ Unanswered
  PROVE  Still
<1> DEFINE m == IF Len(db.events) < BatchSize THEN Len(db.events) ELSE BatchSize
<1>1. /\ db \in [events : Seq(EventType), cursors : {db.cursors},
                 rejected : SUBSET Nat, dropped : SUBSET EventType]
      /\ db.events \in Seq(EventType)
  BY DEF Typed, OutboxTyped
<1>2. m \in 0..Len(db.events)
  BY <1>1, LimitsAssumption
<1>3. Batch = SubSeq(db.events, 1, m)
  BY DEF Batch
<1> HIDE DEF m
<1>4. /\ Range(Batch) \cup Range(Kept(db.events)) = Range(db.events)
      /\ Batch \in Seq(EventType) /\ Kept(db.events) \in Seq(EventType)
  BY <1>1, <1>2, <1>3, RangeOfParts DEF Kept
<1>5. Range(Batch) \subseteq EventType
  BY <1>4 DEF Range
<1>6. UNCHANGED <<writer, proc, ids>> /\ server' = server \cup Range(Batch)
  BY DEF Answered, Unanswered
<1>7. /\ Accepted' = Accepted
      /\ db' \in [events : Seq(EventType), cursors : {db'.cursors},
                  rejected : SUBSET Nat, dropped : SUBSET EventType]
      /\ db'.cursors = db.cursors /\ db'.rejected = db.rejected
  <2>1. CASE Answered
    <3>1. /\ db' = [db EXCEPT !.events = Kept(db.events)]
      BY <2>1 DEF Answered
    <3>2. /\ db'.events = Kept(db.events) /\ db'.dropped = db.dropped
          /\ db'.cursors = db.cursors /\ db'.rejected = db.rejected
          /\ db' \in [events : Seq(EventType), cursors : {db'.cursors},
                      rejected : SUBSET Nat, dropped : SUBSET EventType]
      BY <1>1, <1>4, <3>1
    <3> QED BY <1>4, <1>6, <3>2 DEF Accepted
  <2>2. CASE Unanswered
    <3>1. db' = db
      BY <2>2 DEF Unanswered
    <3> QED BY <1>1, <1>4, <1>6, <3>1 DEF Accepted
  <2> QED BY <2>1, <2>2
<1>8. UNCHANGED <<rotation, disk, path, pen, used, records, rest, proc, ids>>
  BY <1>6 DEF writer
<1>9. Typed'
  BY <1>5, <1>6, <1>7, <1>8 DEF Typed, FilesTyped, ReaderTyped, OutboxTyped
<1> QED BY <1>6, <1>7, <1>9 DEF Still

\* Nothing of the invariant depends on where an event is.
LEMMA StillKeeps ==
  ASSUME LogInv, Still
  PROVE  LogInv'
<1>1. Typed /\ FilesInv /\ ReaderInv /\ SavedInv /\ EventsInv
  BY DEF LogInv
<1>2. /\ UNCHANGED <<rotation, disk, path, pen, used, records, rest, proc>>
      /\ UNCHANGED writer /\ Typed'
      /\ db'.cursors = db.cursors /\ db'.rejected = db.rejected
  BY DEF Still, writer
<1>3. /\ Accepted' = Accepted /\ Taken' = Taken
      /\ \A i : Offset(i)' = Offset(i) /\ Held(i)' = Held(i)
  BY <1>2 DEF Still, Taken, Offset, Held
<1>4. FilesInv'
  <2>1. OneFile'
    BY <1>1, <1>2 DEF FilesInv, OneFile
  <2> QED BY <1>1, <1>2, <2>1, FilesStay DEF FilesInv
<1>5. ReaderInv'
  BY <1>1, <1>2, <1>3, FilesStay DEF ReaderInv
<1>6. SavedInv'
  <2>1. \A i : (SavedBetween(i)' <=> SavedBetween(i)) /\ (HeldIsUnsaved(i)' <=> HeldIsUnsaved(i))
    BY <1>2, <1>3, FilesStay DEF SavedBetween, HeldIsUnsaved
  <2> QED BY <1>1, <1>2, <1>3, <2>1 DEF SavedInv
<1>7. EventsInv'
  <2>1. NotTakenYet'
    BY <1>1, <1>2, <1>3 DEF EventsInv, NotTakenYet, TakenTo
  <2> QED BY <1>1, <1>2, <1>3, <2>1, FilesStay DEF EventsInv, LinesAreTakenOnce, CameWhole
<1> QED BY <1>2, <1>4, <1>5, <1>6, <1>7 DEF LogInv

\* A step that changes nothing.
LEMMA StutterStill ==
  ASSUME Typed, UNCHANGED vars
  PROVE  Still
<1>1. UNCHANGED <<rotation, disk, path, pen, used, records, rest, proc, db, ids, server>>
  BY DEF vars
<1>2. Typed'
  BY <1>1 DEF Typed, FilesTyped, ReaderTyped, OutboxTyped
<1> QED BY <1>1, <1>2 DEF Still, writer, Accepted

----------------------------------------------------------------------------
(* What a read does *)

\* The handle is one line further, and the others stay.
LEMMA AdvanceFacts ==
  ASSUME Typed, NEW i \in DOMAIN proc.handles, NEW parts, Advance(i, parts), UNCHANGED writer,
         DOMAIN parts \subseteq DOMAIN proc.handles,
         \A j \in DOMAIN parts : parts[j] \in Seq(LineType)
  PROVE  /\ ReaderTyped' /\ proc'.up = proc.up /\ proc'.parts = parts
         /\ DOMAIN proc'.handles = DOMAIN proc.handles
         /\ proc'.handles[i] = proc.handles[i] + 1
         /\ \A j \in DOMAIN proc.handles \ {i} : proc'.handles[j] = proc.handles[j]
<1>1. proc \in [up : BOOLEAN, handles : {proc.handles}, parts : {proc.parts}]
  BY DEF Typed, ReaderTyped
<1>2. /\ proc' \in [up : BOOLEAN, handles : {proc'.handles}, parts : {proc'.parts}]
      /\ proc'.up = proc.up /\ proc'.parts = parts
      /\ proc'.handles = [proc.handles EXCEPT ![i] = proc.handles[i] + 1]
  BY <1>1 DEF Advance
<1>3. /\ DOMAIN proc'.handles = DOMAIN proc.handles
      /\ proc'.handles[i] = proc.handles[i] + 1
      /\ \A j \in DOMAIN proc.handles \ {i} : proc'.handles[j] = proc.handles[j]
  BY <1>2
<1>4. \A j \in DOMAIN proc'.handles : proc'.handles[j] \in Nat
  BY <1>3 DEF Typed, ReaderTyped
<1>5. used' = used
  BY DEF writer
<1>6. ReaderTyped'
  BY <1>2, <1>3, <1>4, <1>5 DEF Typed, ReaderTyped
<1> QED BY <1>2, <1>3, <1>6

\* The fragments of the file are dropped, or are now these.
LEMMA PartsFacts ==
  ASSUME Typed, NEW i \in DOMAIN proc.handles, NEW h \in Seq(LineType), UNCHANGED writer,
         \/ Advance(i, Without(proc.parts, i)) /\ h = <<>>
         \/ Advance(i, With(proc.parts, i, h))
  PROVE  /\ ReaderTyped' /\ proc'.up = proc.up /\ Held(i)' = h
         /\ DOMAIN proc'.handles = DOMAIN proc.handles
         /\ proc'.handles[i] = proc.handles[i] + 1
         /\ \A j \in DOMAIN proc.handles \ {i} :
              proc'.handles[j] = proc.handles[j] /\ Held(j)' = Held(j)
<1>1. CASE Advance(i, Without(proc.parts, i)) /\ h = <<>>
  <2> DEFINE parts == Without(proc.parts, i)
  <2>1. /\ DOMAIN parts = DOMAIN proc.parts \ {i}
        /\ \A j \in DOMAIN parts : parts[j] = proc.parts[j]
    BY DEF Without
  <2>2. /\ DOMAIN parts \subseteq DOMAIN proc.handles
        /\ \A j \in DOMAIN parts : parts[j] \in Seq(LineType)
    BY <2>1 DEF Typed, ReaderTyped
  <2>3. Advance(i, parts)
    BY <1>1
  <2> HIDE DEF parts
  <2>4. /\ ReaderTyped' /\ proc'.up = proc.up /\ proc'.parts = parts
        /\ DOMAIN proc'.handles = DOMAIN proc.handles
        /\ proc'.handles[i] = proc.handles[i] + 1
        /\ \A j \in DOMAIN proc.handles \ {i} : proc'.handles[j] = proc.handles[j]
    BY <2>2, <2>3, AdvanceFacts
  <2>5. Held(i)' = <<>> /\ \A j \in DOMAIN proc.handles \ {i} : Held(j)' = Held(j)
    BY <2>1, <2>4 DEF Held
  <2> QED BY <1>1, <2>4, <2>5
<1>2. CASE Advance(i, With(proc.parts, i, h))
  <2> DEFINE parts == With(proc.parts, i, h)
  <2>1. /\ DOMAIN parts = DOMAIN proc.parts \cup {i} /\ parts[i] = h
        /\ \A j \in DOMAIN proc.parts : j # i => parts[j] = proc.parts[j]
    BY DEF With
  <2>2. /\ DOMAIN parts \subseteq DOMAIN proc.handles
        /\ \A j \in DOMAIN parts : parts[j] \in Seq(LineType)
    BY <2>1 DEF Typed, ReaderTyped
  <2>3. Advance(i, parts)
    BY <1>2
  <2> HIDE DEF parts
  <2>4. /\ ReaderTyped' /\ proc'.up = proc.up /\ proc'.parts = parts
        /\ DOMAIN proc'.handles = DOMAIN proc.handles
        /\ proc'.handles[i] = proc.handles[i] + 1
        /\ \A j \in DOMAIN proc.handles \ {i} : proc'.handles[j] = proc.handles[j]
    BY <2>2, <2>3, AdvanceFacts
  <2>5. Held(i)' = h /\ \A j \in DOMAIN proc.handles \ {i} : Held(j)' = Held(j)
    BY <2>1, <2>4 DEF Held
  <2> QED BY <2>4, <2>5
<1> QED BY <1>1, <1>2

\* The elements of a sequence that is added to, or whose first one goes.
LEMMA RangeFacts ==
  ASSUME NEW S, NEW s \in Seq(S), NEW e \in S
  PROVE  /\ Append(s, e) \in Seq(S) /\ Range(Append(s, e)) = Range(s) \cup {e}
         /\ Len(s) # 0 => Tail(s) \in Seq(S) /\ Range(Tail(s)) \subseteq Range(s)
<1>1. /\ Append(s, e) \in Seq(S) /\ Len(Append(s, e)) = Len(s) + 1 /\ Len(s) \in Nat
      /\ \A n \in 1..Len(s) : Append(s, e)[n] = s[n]
      /\ Append(s, e)[Len(s) + 1] = e
  BY AppendProperties
<1>2. DOMAIN Append(s, e) = 1..Len(s) + 1 /\ DOMAIN s = 1..Len(s)
  BY <1>1
<1>3. \A n \in 1..Len(s) + 1 : n \in 1..Len(s) \/ n = Len(s) + 1
  BY <1>1
<1>4. \A n \in 1..Len(s) : n \in 1..Len(s) + 1
  BY <1>1
<1>5. Len(s) + 1 \in 1..Len(s) + 1
  BY <1>1
<1>6. Range(Append(s, e)) = Range(s) \cup {e}
  <2>1. Range(Append(s, e)) \subseteq Range(s) \cup {e}
    BY <1>1, <1>2, <1>3 DEF Range
  <2>2. Range(s) \cup {e} \subseteq Range(Append(s, e))
    BY <1>1, <1>2, <1>4, <1>5 DEF Range
  <2> QED BY <2>1, <2>2
<1>7. ASSUME Len(s) # 0 PROVE Tail(s) \in Seq(S) /\ Range(Tail(s)) \subseteq Range(s)
  <2>1. s # <<>>
    BY <1>7
  <2>2. /\ Tail(s) \in Seq(S) /\ Len(Tail(s)) = Len(s) - 1
        /\ \A n \in 1..Len(Tail(s)) : Tail(s)[n] = s[n + 1]
    BY <2>1, HeadTailProperties
  <2>3. \A n \in 1..Len(Tail(s)) : n + 1 \in 1..Len(s)
    BY <1>1, <2>2
  <2>4. DOMAIN Tail(s) = 1..Len(Tail(s))
    BY <2>2
  <2> QED BY <1>2, <2>2, <2>3, <2>4 DEF Range
<1> QED BY <1>1, <1>6, <1>7

\* The event is added, with the position; none is lost to the eviction.
LEMMA AcceptFacts ==
  ASSUME Typed, NEW i \in DOMAIN proc.handles, NEW lines \in Seq(LineType), Accept(i, lines),
         UNCHANGED <<writer, server>>
  PROVE  \E e \in EventType :
           /\ e.lines = lines /\ Accepted' = Accepted \cup {e} /\ OutboxTyped'
           /\ db'.rejected = db.rejected
           /\ db'.cursors = With(db.cursors, i, proc.handles[i] + 1)
<1> DEFINE e == [id |-> ids + 1, lines |-> lines]
           box == Evicted(db)
<1>1. /\ db \in [events : Seq(EventType), cursors : {db.cursors},
                 rejected : SUBSET Nat, dropped : SUBSET EventType]
      /\ db.events \in Seq(EventType) /\ db.dropped \subseteq EventType
  BY DEF Typed, OutboxTyped
<1>2. e \in EventType /\ ids' \in Nat
  BY DEF Typed, OutboxTyped, EventType, Accept
<1>3. Range(db.events) \subseteq EventType
  BY <1>1 DEF Range
<1>4. /\ box \in [events : Seq(EventType), cursors : {db.cursors},
                  rejected : {db.rejected}, dropped : SUBSET EventType]
      /\ Range(box.events) \cup box.dropped = Range(db.events) \cup db.dropped
  <2>1. CASE Len(db.events) < MaxEvents
    BY <1>1, <2>1 DEF Evicted
  <2>2. CASE ~(Len(db.events) < MaxEvents)
    <3>1. Len(db.events) # 0
      BY <1>1, <2>2, LimitsAssumption
    <3>2. Tail(db.events) \in Seq(EventType) /\ Range(Tail(db.events)) \subseteq Range(db.events)
      BY <1>1, <1>2, <3>1, RangeFacts
    <3>3. box = [db EXCEPT !.events = Tail(db.events),
                           !.dropped = db.dropped \cup (Range(db.events) \ Range(Tail(db.events)))]
      BY <2>2 DEF Evicted
    <3>4. /\ box.events = Tail(db.events)
          /\ box.dropped = db.dropped \cup (Range(db.events) \ Range(Tail(db.events)))
          /\ box \in [events : {Tail(db.events)}, cursors : {db.cursors},
                      rejected : {db.rejected}, dropped : {box.dropped}]
      BY <1>1, <3>3
    <3>5. box.dropped \subseteq EventType
      BY <1>1, <1>3, <3>4
    <3>6. Range(box.events) \cup box.dropped = Range(db.events) \cup db.dropped
      BY <3>2, <3>4
    <3> QED BY <3>2, <3>4, <3>5, <3>6
  <2> QED BY <2>1, <2>2
<1>5. db' = [[box EXCEPT !.events = Append(box.events, e)]
               EXCEPT !.cursors = With(db.cursors, i, proc.handles[i] + 1)]
  <2>1. box.cursors = db.cursors
    BY <1>4
  <2> QED BY <1>4, <2>1 DEF Accept, Checkpoint
<1> HIDE DEF box, e
<1>6. box.events \in Seq(EventType) /\ box.dropped \subseteq EventType
  BY <1>4
<1>7. /\ Append(box.events, e) \in Seq(EventType)
      /\ Range(Append(box.events, e)) = Range(box.events) \cup {e}
  BY <1>2, <1>6, RangeFacts
<1>8. /\ db'.events = Append(box.events, e) /\ db'.dropped = box.dropped
      /\ db'.rejected = db.rejected
      /\ db'.cursors = With(db.cursors, i, proc.handles[i] + 1)
      /\ db' \in [events : Seq(EventType), cursors : {db'.cursors},
                  rejected : {db.rejected}, dropped : SUBSET EventType]
  BY <1>4, <1>5, <1>7
<1>9. Accepted' = Accepted \cup {e}
  BY <1>4, <1>7, <1>8 DEF Accepted
<1>10. OutboxTyped'
  <2>1. proc.handles[i] + 1 \in Nat /\ i \in used
    BY DEF Typed, ReaderTyped
  <2>2. /\ DOMAIN db'.cursors \subseteq used
        /\ \A j \in DOMAIN db'.cursors : db'.cursors[j] \in Nat
    BY <1>8, <2>1 DEF With, Typed, OutboxTyped
  <2>3. used' = used /\ server' = server
    BY DEF writer
  <2> QED BY <1>2, <1>8, <2>2, <2>3 DEF Typed, OutboxTyped
<1> QED BY <1>2, <1>8, <1>9, <1>10 DEF e

\* A sequence of one line.
LEMMA OneLine ==
  ASSUME NEW S, NEW x \in S
  PROVE  <<x>> \in Seq(S) /\ <<x>> # <<>> /\ <<x>>[Len(<<x>>)] = x
OBVIOUS

\* The record of the last line is counted as rejected, with the position.
LEMMA RejectFacts ==
  ASSUME Typed, NEW i \in DOMAIN proc.handles, NEW lines \in Seq(LineType), lines # <<>>,
         Reject(i, lines), UNCHANGED <<writer, server>>
  PROVE  /\ Accepted' = Accepted /\ OutboxTyped'
         /\ db'.rejected = db.rejected \cup {lines[Len(lines)].rec}
         /\ db'.cursors = With(db.cursors, i, proc.handles[i] + 1)
<1>1. db \in [events : Seq(EventType), cursors : {db.cursors},
              rejected : SUBSET Nat, dropped : SUBSET EventType]
  BY DEF Typed, OutboxTyped
<1>2. lines[Len(lines)].rec \in Nat
  <2>1. Len(lines) \in 1..Len(lines)
    OBVIOUS
  <2>2. lines[Len(lines)] \in LineType
    BY <2>1
  <2> QED BY <2>2 DEF LineType
<1>3. db' = [[db EXCEPT !.rejected = db.rejected \cup {lines[Len(lines)].rec}]
               EXCEPT !.cursors = With(db.cursors, i, proc.handles[i] + 1)]
  BY <1>1 DEF Reject, Checkpoint
<1>4. /\ db'.events = db.events /\ db'.dropped = db.dropped
      /\ db'.rejected = db.rejected \cup {lines[Len(lines)].rec}
      /\ db'.cursors = With(db.cursors, i, proc.handles[i] + 1)
      /\ db' \in [events : Seq(EventType), cursors : {db'.cursors},
                  rejected : SUBSET Nat, dropped : SUBSET EventType]
  BY <1>1, <1>2, <1>3
<1>5. OutboxTyped'
  <2>1. proc.handles[i] + 1 \in Nat /\ i \in used
    BY DEF Typed, ReaderTyped
  <2>2. /\ DOMAIN db'.cursors \subseteq used
        /\ \A j \in DOMAIN db'.cursors : db'.cursors[j] \in Nat
    BY <1>4, <2>1 DEF With, Typed, OutboxTyped
  <2>3. used' = used /\ server' = server /\ ids' = ids
    BY DEF writer, Reject
  <2> QED BY <1>4, <2>2, <2>3 DEF Typed, OutboxTyped
<1> QED BY <1>4, <1>5 DEF Accepted

\* What is held of a file is a sequence of its lines, and never the mark itself.
LEMMA HeldFacts ==
  ASSUME Typed, NEW i
  PROVE  Held(i) \in Seq(LineType) /\ Oversized \in Seq(LineType) /\ <<>> # Oversized
<1>1. Held(i) \in Seq(LineType)
  BY DEF Typed, ReaderTyped, Held
<1>2. [rec |-> 0, at |-> 0, part |-> "long"] \in LineType
  BY SMTT(30) DEF LineType, Kinds
<1> QED BY <1>1, <1>2 DEF Oversized

\* The line at the end of what has been read is l, and q is held before it.
At(i, h, q, l) ==
  /\ i \in DOMAIN proc.handles /\ h = proc.handles[i] /\ q = Held(i)
  /\ h + 1 <= Len(disk[i]) /\ l = disk[i][h + 1]

\* The reader goes one line on in file i, and holds q of it.
GoesTo(i, h, q) ==
  /\ ReaderTyped' /\ OutboxTyped' /\ UNCHANGED <<writer, server>> /\ proc'.up = proc.up
  /\ DOMAIN proc'.handles = DOMAIN proc.handles
  /\ proc'.handles[i] = h + 1 /\ Held(i)' = q
  /\ \A j \in DOMAIN proc.handles \ {i} :
       proc'.handles[j] = proc.handles[j] /\ Held(j)' = Held(j)

\* A fragment is added to what is held, or makes it too much; nothing is saved.
Holds(i, h, q, l) ==
  /\ Accepted' = Accepted /\ db' = db /\ q # Oversized /\ l.part # "long"
  /\ \/ GoesTo(i, h, Append(q, l)) /\ l.part = "P" /\ Len(q) < MaxJoined
     \/ GoesTo(i, h, Oversized) /\ Len(q) = MaxJoined

\* An event is made of what is held and this line.
Takes(i, h, q, l) ==
  /\ GoesTo(i, h, <<>>) /\ db'.cursors = With(db.cursors, i, h + 1)
  /\ db'.rejected = db.rejected
  /\ q # Oversized /\ l.part = "F"
  /\ \E e \in EventType : e.lines = Append(q, l) /\ Accepted' = Accepted \cup {e}

\* The record of this line is rejected.
Drops(i, h, q, l) ==
  /\ GoesTo(i, h, <<>>) /\ db'.cursors = With(db.cursors, i, h + 1)
  /\ db'.rejected = db.rejected \cup {l.rec} /\ Accepted' = Accepted
  /\ \/ l.part = "long" \/ q = Oversized
     \/ l.part = "F" /\ \A r \in DOMAIN records : Append(q, l) # LinesOf(r)

\* One of these three becomes of a line.
LEMMA ReadFacts ==
  ASSUME LogInv, NEW i \in Inodes, Read(i)
  PROVE  \E h \in Nat, q \in Seq(LineType), l \in LineType :
           At(i, h, q, l) /\ (Holds(i, h, q, l) \/ Takes(i, h, q, l) \/ Drops(i, h, q, l))
<1> DEFINE h == proc.handles[i]
           q == Held(i)
           l == disk[i][h + 1]
<1>1. /\ Typed /\ FilesTyped /\ i \in DOMAIN proc.handles /\ h \in Nat
      /\ UNCHANGED <<writer, server, crashes>>
      /\ ReadOversized(i, l) \/ ReadOverflow(i, l) \/ ReadFragment(i, l) \/ ReadFinal(i, l)
  BY DEF Read, LogInv, Typed, ReaderTyped
<1>2. Len(disk[i]) \in Nat /\ h + 1 <= Len(disk[i]) /\ l \in LineType
  <2>1. Len(disk[i]) \in Nat /\ h + 1 \in 1..Len(disk[i])
    BY <1>1, LineFacts DEF Read
  <2> QED BY <1>1, <2>1, LineFacts
<1>3. q \in Seq(LineType) /\ Oversized \in Seq(LineType) /\ Append(q, l) \in Seq(LineType)
      /\ <<l>> \in Seq(LineType) /\ <<l>> # <<>> /\ <<l>>[Len(<<l>>)] = l
      /\ Append(q, l) # <<>> /\ Append(q, l)[Len(Append(q, l))] = l
  <2>1. q \in Seq(LineType) /\ Oversized \in Seq(LineType)
    BY <1>1, HeldFacts
  <2> HIDE DEF q, l
  <2>2. Append(q, l) \in Seq(LineType) /\ Append(q, l) # <<>>
        /\ Append(q, l)[Len(Append(q, l))] = l
    BY <1>2, <2>1, AppendProperties
  <2> QED BY <1>2, <2>1, <2>2, OneLine
<1>4. At(i, h, q, l)
  BY <1>1, <1>2 DEF At
<1>5. /\ <<>> \in Seq(LineType) /\ db.cursors = db.cursors
      /\ UNCHANGED <<db, ids, server>> => OutboxTyped' /\ Accepted' = Accepted
  <2>1. used' = used
    BY <1>1 DEF writer
  <2> QED BY <1>1, <2>1 DEF Typed, OutboxTyped, Accepted
<1>6. CASE ReadOversized(i, l)
  <2>1. /\ l.part = "long" \/ q = Oversized
        /\ Reject(i, <<l>>) /\ Advance(i, Without(proc.parts, i))
    BY <1>6 DEF ReadOversized
  <2> HIDE DEF l
  <2>2. GoesTo(i, h, <<>>)
    BY <1>1, <1>3, <1>5, <2>1, PartsFacts, RejectFacts DEF GoesTo
  <2>3. Drops(i, h, q, l)
    BY <1>1, <1>3, <2>1, <2>2, RejectFacts DEF Drops
  <2> QED BY <1>1, <1>2, <1>3, <1>4, <2>3
<1>7. CASE ReadOverflow(i, l)
  <2>1. /\ l.part # "long" /\ q # Oversized /\ Len(q) = MaxJoined /\ UNCHANGED <<db, ids>>
        /\ Advance(i, With(proc.parts, i, Oversized))
    BY <1>7 DEF ReadOverflow
  <2> HIDE DEF l
  <2>2. GoesTo(i, h, Oversized)
    BY <1>1, <1>3, <1>5, <2>1, PartsFacts DEF GoesTo
  <2>3. Holds(i, h, q, l)
    BY <1>1, <1>5, <2>1, <2>2 DEF Holds
  <2> QED BY <1>1, <1>2, <1>3, <1>4, <2>3
<1>8. CASE ReadFragment(i, l)
  <2>1. /\ l.part = "P" /\ q # Oversized /\ Len(q) < MaxJoined /\ UNCHANGED <<db, ids>>
        /\ Advance(i, With(proc.parts, i, Append(q, l)))
    BY <1>8 DEF ReadFragment
  <2> HIDE DEF l, q
  <2>2. GoesTo(i, h, Append(q, l))
    BY <1>1, <1>3, <1>5, <2>1, PartsFacts DEF GoesTo
  <2>3. Holds(i, h, q, l)
    BY <1>1, <1>5, <2>1, <2>2 DEF Holds
  <2> QED BY <1>1, <1>2, <1>3, <1>4, <2>3
<1>9. CASE ReadFinal(i, l)
  <2>1. /\ l.part = "F" /\ q # Oversized /\ Sanitized(i, Append(q, l))
        /\ Advance(i, Without(proc.parts, i))
    BY <1>9 DEF ReadFinal
  <2> HIDE DEF l, q
  <2>2. CASE Accept(i, Append(q, l))
    <3>1. GoesTo(i, h, <<>>)
      BY <1>1, <1>3, <1>5, <2>1, <2>2, PartsFacts, AcceptFacts DEF GoesTo
    <3>2. Takes(i, h, q, l)
      BY <1>1, <1>3, <2>1, <2>2, <3>1, AcceptFacts DEF Takes
    <3> QED BY <1>1, <1>2, <1>3, <1>4, <3>2
  <2>3. CASE Reject(i, Append(q, l)) /\ \A r \in DOMAIN records : Append(q, l) # LinesOf(r)
    <3>1. GoesTo(i, h, <<>>)
      BY <1>1, <1>3, <1>5, <2>1, <2>3, PartsFacts, RejectFacts DEF GoesTo
    <3>2. Drops(i, h, q, l)
      BY <1>1, <1>3, <2>1, <2>3, <3>1, RejectFacts DEF Drops
    <3> QED BY <1>1, <1>2, <1>3, <1>4, <3>2
  <2> QED BY <2>1, <2>2, <2>3 DEF Sanitized
<1> QED BY <1>1, <1>6, <1>7, <1>8, <1>9

----------------------------------------------------------------------------
(* A line is read *)

\* The fragments that are held are lines of the file.
LEMMA HeldPlaces ==
  ASSUME LogInv, NEW i \in Inodes, NEW h \in Nat, NEW q \in Seq(LineType), NEW l \in LineType,
         At(i, h, q, l), q # Oversized
  PROVE  /\ HeldWell(i, h, q) /\ Len(q) \in Nat /\ Len(q) <= h
         /\ \A n \in 1..Len(q) : h - Len(q) + n \in 1..Len(disk[i])
                                 /\ q[n] = disk[i][h - Len(q) + n] /\ q[n].part = "P"
<1>1. /\ FilesTyped /\ Len(disk[i]) \in Nat
  BY LineFacts DEF LogInv, Typed
<1>2. HeldWell(i, h, q)
  BY <1>1 DEF At, LogInv, ReaderInv
<1>3. HeldLines(i, h, q)
  BY <1>2 DEF HeldWell
<1>4. h <= Len(disk[i])
  BY <1>1 DEF At
<1> QED BY <1>1, <1>2, <1>3, <1>4 DEF HeldLines

\* Where part k of a record that fits is read, the parts before it are held.
LEMMA InRecord ==
  ASSUME LogInv, NEW i \in Inodes, NEW h \in Nat, NEW q \in Seq(LineType), NEW l \in LineType,
         At(i, h, q, l), NEW b \in 0..Len(disk[i]), NEW r \in 1..Len(records),
         NEW k \in 1..Len(records[r]), b + k = h + 1, Begins(i, b, k, r)
  PROVE  /\ q # Oversized /\ Len(q) = k - 1 /\ l = LineAt(r, k)
         /\ k < Len(records[r]) => l.part = "P"
         /\ k = Len(records[r]) => l.part = "F"
         /\ Len(records[r]) <= MaxJoined
         /\ \A n \in 1..k - 1 : q[n] = LineAt(r, n)
<1>1. /\ FilesTyped /\ Len(disk[i]) \in Nat /\ b \in Nat /\ k \in Nat \ {0}
      /\ h + 1 <= Len(disk[i]) /\ l = disk[i][h + 1] /\ HeldWell(i, h, q)
  <2>1. FilesTyped /\ Len(disk[i]) \in Nat
    BY LineFacts DEF LogInv, Typed
  <2>2. HeldWell(i, h, q)
    BY <2>1 DEF At, LogInv, ReaderInv
  <2> QED BY <2>1, <2>2 DEF At
<1>2. /\ Fits(r) /\ Boundary(i, b)
      /\ \A n \in 1..k : disk[i][b + n] = LineAt(r, n)
  BY DEF Begins
<1>3. l = LineAt(r, k)
  BY <1>1, <1>2
<1>4. /\ Len(records[r]) \in Nat \ {0} /\ Len(records[r]) <= MaxJoined
      /\ k < Len(records[r]) => l.part = "P"
      /\ k = Len(records[r]) => l.part = "F"
  <2>1. l.part = records[r][k]
    BY <1>3 DEF LineAt
  <2>2. /\ Len(records[r]) \in Nat \ {0} /\ Len(records[r]) <= MaxJoined
        /\ records[r][Len(records[r])] = "F"
        /\ \A n \in 1..Len(records[r]) - 1 : records[r][n] = "P"
    BY <1>1, <1>2, FittingParts
  <2>3. k < Len(records[r]) => k \in 1..Len(records[r]) - 1
    BY <1>1, <2>2
  <2> QED BY <2>1, <2>2, <2>3
<1>5. q # Oversized /\ Len(q) = k - 1
  <2>1. CASE k = 1
    <3>1. q = <<>>
      BY <1>1, <1>2, <2>1 DEF HeldWell
    <3> QED BY <2>1, <3>1 DEF Oversized
  <2>2. CASE k # 1
    <3>1. k - 1 \in 1..Len(records[r]) - 1 /\ b + (k - 1) = h
      BY <1>1, <1>4, <2>2
    <3>2. Begins(i, b, k - 1, r)
      <4>1. b + (k - 1) <= Len(disk[i])
        BY <1>1, <3>1
      <4>2. \A n \in 1..k - 1 : n \in 1..k
        BY <1>1
      <4> QED BY <1>2, <4>1, <4>2 DEF Begins
    <3> QED BY <1>1, <3>1, <3>2 DEF HeldWell
  <2> QED BY <2>1, <2>2
<1>6. ASSUME NEW n \in 1..k - 1
      PROVE  q[n] = LineAt(r, n)
  <2>1. n \in 1..Len(q) /\ n \in 1..k /\ h - Len(q) + n = b + n
    BY <1>1, <1>5
  <2>2. q[n] = disk[i][h - Len(q) + n]
    BY <1>5, <2>1, HeldPlaces
  <2> QED BY <1>2, <2>1, <2>2
<1> QED BY <1>3, <1>4, <1>5, <1>6

\* Where that part is not the last one, it is a fragment.
LEMMA InFragments ==
  ASSUME LogInv, NEW i \in Inodes, NEW h \in Nat, NEW q \in Seq(LineType), NEW l \in LineType,
         At(i, h, q, l)
  PROVE  \A b \in 0..Len(disk[i]), r \in 1..Len(records) : \A m \in 1..Len(records[r]) - 1 :
           b + m = h + 1 /\ Begins(i, b, m, r) =>
             /\ q # Oversized /\ Len(q) = m - 1 /\ l.part = "P" /\ Len(records[r]) <= MaxJoined
             /\ l = LineAt(r, m)
<1> SUFFICES ASSUME NEW b \in 0..Len(disk[i]), NEW r \in 1..Len(records),
                    NEW m \in 1..Len(records[r]) - 1, b + m = h + 1, Begins(i, b, m, r)
    PROVE /\ q # Oversized /\ Len(q) = m - 1 /\ l.part = "P" /\ Len(records[r]) <= MaxJoined
          /\ l = LineAt(r, m)
  OBVIOUS
<1>1. Len(records[r]) \in Nat
  BY ShapeFacts DEF LogInv, Typed
<1>2. m \in 1..Len(records[r]) /\ m < Len(records[r])
  BY <1>1
<1>3. ASSUME NEW k \in 1..Len(records[r]), k < Len(records[r]), b + k = h + 1, Begins(i, b, k, r)
      PROVE  /\ q # Oversized /\ Len(q) = k - 1 /\ l.part = "P" /\ Len(records[r]) <= MaxJoined
             /\ l = LineAt(r, k)
  BY <1>3, InRecord
<1> QED BY <1>2, <1>3

\* What is held at the next line is what the invariant says.
LEMMA NextHeld ==
  ASSUME LogInv, NEW i \in Inodes, NEW h \in Nat, NEW q \in Seq(LineType), NEW l \in LineType,
         At(i, h, q, l), Holds(i, h, q, l) \/ Takes(i, h, q, l) \/ Drops(i, h, q, l),
         NEW p, p = Held(i)'
  PROVE  HeldWell(i, h + 1, p)
<1>1. /\ FilesTyped /\ Len(disk[i]) \in Nat
      /\ h + 1 <= Len(disk[i]) /\ l = disk[i][h + 1] /\ HeldWell(i, h, q)
  <2>1. FilesTyped /\ Len(disk[i]) \in Nat
    BY LineFacts DEF LogInv, Typed
  <2>2. HeldWell(i, h, q)
    BY <2>1 DEF At, LogInv, ReaderInv
  <2> QED BY <2>1, <2>2 DEF At
<1>2. /\ Len(q) \in Nat /\ Append(q, l) \in Seq(LineType) /\ Len(Append(q, l)) = Len(q) + 1
      /\ \A n \in 1..Len(q) : Append(q, l)[n] = q[n]
      /\ Append(q, l)[Len(q) + 1] = l
  BY AppendProperties
<1>3. p = Oversized \/ HeldLines(i, h + 1, p)
  <2>1. CASE p = <<>>
    BY <2>1, LimitsAssumption DEF HeldLines
  <2>2. CASE p = Append(q, l) /\ l.part = "P" /\ Len(q) < MaxJoined /\ q # Oversized
    <3>1. /\ Len(q) <= h
          /\ \A n \in 1..Len(q) : q[n] = disk[i][h - Len(q) + n] /\ q[n].part = "P"
      BY <2>2, HeldPlaces
    <3>2. ASSUME NEW n \in 1..Len(p)
          PROVE  p[n] = disk[i][h + 1 - Len(p) + n] /\ p[n].part = "P"
      <4>1. h + 1 - Len(p) + n = h - Len(q) + n
        BY <1>2, <2>2
      <4>2. CASE n \in 1..Len(q)
        BY <1>2, <2>2, <3>1, <4>1, <4>2
      <4>3. CASE n = Len(q) + 1
        <5>1. h - Len(q) + n = h + 1
          BY <1>2, <4>3
        <5> QED BY <1>1, <1>2, <2>2, <4>1, <4>3, <5>1
      <4>4. n \in 1..Len(q) \/ n = Len(q) + 1
        BY <1>2, <2>2
      <4> QED BY <4>2, <4>3, <4>4
    <3>3. Len(p) <= h + 1 /\ Len(p) <= MaxJoined
      BY <1>2, <2>2, <3>1, LimitsAssumption
    <3> QED BY <3>2, <3>3 DEF HeldLines
  <2> QED BY <2>1, <2>2 DEF Holds, Takes, Drops, GoesTo
<1>4. ASSUME Boundary(i, h + 1), p # <<>>
      PROVE  FALSE
  <2>1. Holds(i, h, q, l)
    BY <1>4 DEF Takes, Drops, GoesTo
  <2>2. l.part # "long" /\ q # Oversized
    BY <2>1 DEF Holds
  <2>3. l.part = "F" /\ (h = 0 \/ disk[i][h].part # "P")
    BY <1>1, <1>4, <2>2 DEF Boundary
  <2>4. Len(q) = MaxJoined /\ MaxJoined > 0
    BY <2>1, <2>3, LimitsAssumption DEF Holds
  <2>5. CASE h = 0
    BY <2>2, <2>4, <2>5, HeldPlaces
  <2>6. CASE h # 0
    <3>1. Len(q) \in 1..Len(q) /\ h - Len(q) + Len(q) = h
      BY <1>2, <2>4
    <3>2. q[Len(q)] = disk[i][h] /\ q[Len(q)].part = "P"
      BY <2>2, <3>1, HeldPlaces
    <3> QED BY <2>3, <2>6, <3>2
  <2> QED BY <2>5, <2>6
<1>5. ASSUME NEW b \in 0..Len(disk[i]), NEW r \in 1..Len(records),
             NEW m \in 1..Len(records[r]) - 1, b + m = h + 1, Begins(i, b, m, r)
      PROVE  p # Oversized /\ Len(p) = m
  <2>1. m \in 1..Len(records[r]) /\ m < Len(records[r]) /\ m \in Nat
    BY <1>1, ShapeFacts
  <2>2. /\ q # Oversized /\ Len(q) = m - 1 /\ l.part = "P" /\ Len(records[r]) <= MaxJoined
        /\ l = LineAt(r, m)
    BY <1>5, <2>1, InFragments
  <2>3. Len(records[r]) \in Nat /\ MaxJoined \in Nat
    BY <1>1, ShapeFacts, LimitsAssumption
  <2>4. p = Append(q, l)
    BY <1>2, <2>1, <2>2, <2>3 DEF Holds, Takes, Drops, GoesTo
  <2>5. Len(p) = m
    BY <1>2, <2>1, <2>2, <2>4
  <2>6. p # Oversized
    <3>1. CASE m = 1
      <4>1. p[1] = l
        BY <1>2, <2>2, <2>4, <3>1
      <4>2. l.part # Oversized[1].part
        BY <2>2 DEF Oversized
      <4> QED BY <4>1, <4>2
    <3>2. CASE m # 1
      BY <2>5, <3>2 DEF Oversized
    <3> QED BY <3>1, <3>2
  <2> QED BY <2>5, <2>6
<1> QED BY <1>3, <1>4, <1>5 DEF HeldWell

\* The parts of a record that stands alone stand behind one boundary.
LEMMA AlonePlaces ==
  ASSUME LogInv, NEW i \in Inodes, NEW n \in 1..Len(disk[i]), NEW r \in 1..Len(records),
         Fits(r), Alone(r), disk[i][n].rec = r
  PROVE  \E b \in 0..Len(disk[i]) :
           /\ Boundary(i, b) /\ n = b + disk[i][n].at /\ disk[i][n].at \in 1..Len(records[r])
           /\ \A m \in 1..Len(records[r]) :
                b + m <= Len(disk[i]) => disk[i][b + m] = LineAt(r, m) /\ Begins(i, b, m, r)
<1>1. /\ FilesTyped /\ \A j \in Inodes : Len(disk[j]) \in Nat
      /\ LinesAreKnown /\ LinesAreDistinct /\ used \subseteq Inodes
  BY LineFacts DEF LogInv, Typed, FilesTyped, FilesInv
<1>2. PICK j \in used : \E b \in 0..Len(disk[j]) :
        /\ Boundary(j, b)
        /\ \A m \in 1..Len(records[r]) :
             /\ Begun(r, m) => b + m <= Len(disk[j])
             /\ b + m <= Len(disk[j]) => disk[j][b + m] = LineAt(r, m)
  BY DEF Alone
<1>3. PICK b \in 0..Len(disk[j]) :
        /\ Boundary(j, b)
        /\ \A m \in 1..Len(records[r]) :
             /\ Begun(r, m) => b + m <= Len(disk[j])
             /\ b + m <= Len(disk[j]) => disk[j][b + m] = LineAt(r, m)
  BY <1>2
<1> DEFINE k == disk[i][n].at
<1>4. k \in 1..Len(records[r]) /\ Begun(r, k) /\ disk[i][n] = LineAt(r, k)
  BY <1>1 DEF LinesAreKnown, Known
<1> HIDE DEF k
<1>5. /\ j \in Inodes /\ b \in Nat /\ k \in Nat \ {0} /\ Len(records[r]) \in Nat
      /\ b + k \in 1..Len(disk[j]) /\ disk[j][b + k] = LineAt(r, k)
  <2>1. j \in Inodes /\ b \in Nat /\ k \in Nat \ {0} /\ Len(records[r]) \in Nat
    BY <1>1, <1>4, ShapeFacts
  <2>2. b + k <= Len(disk[j]) /\ disk[j][b + k] = LineAt(r, k)
    BY <1>3, <1>4
  <2> QED BY <1>1, <2>1, <2>2
<1>6. j = i /\ b + k = n
  BY <1>1, <1>4, <1>5 DEF LinesAreDistinct
<1>7. ASSUME NEW m \in 1..Len(records[r]), b + m <= Len(disk[i])
      PROVE  disk[i][b + m] = LineAt(r, m) /\ Begins(i, b, m, r)
  <2>1. \A x \in 1..m : x \in 1..Len(records[r]) /\ b + x <= Len(disk[i])
    BY <1>1, <1>5, <1>7
  <2>2. \A x \in 1..m : disk[i][b + x] = LineAt(r, x)
    BY <1>3, <1>6, <2>1
  <2>3. disk[i][b + m] = LineAt(r, m)
    BY <1>3, <1>6, <1>7
  <2> QED BY <1>3, <1>6, <1>7, <2>2, <2>3 DEF Begins
<1> QED BY <1>3, <1>4, <1>6, <1>7 DEF k

\* The lines of a record, in their order, are the record.
LEMMA WholeRecord ==
  ASSUME FilesTyped, NEW r \in 1..Len(records), NEW a \in Seq(LineType),
         Len(a) = Len(records[r]), \A n \in 1..Len(a) : a[n] = LineAt(r, n)
  PROVE  a = LinesOf(r)
<1> SUFFICES ASSUME NEW k, k = Len(a)
    PROVE  a = LinesOf(r)
  OBVIOUS
<1>1. a \in [1..k -> LineType]
  OBVIOUS
<1>2. LinesOf(r) \in [1..k -> LineType] /\ \A n \in 1..k : LinesOf(r)[n] = LineAt(r, n)
  BY LinesOfFacts
<1>3. \A n \in 1..k : a[n] = LinesOf(r)[n]
  BY <1>2
<1> QED BY <1>1, <1>2, <1>3

\* A line of a record that stands alone is read in its place.
LEMMA AloneInRecord ==
  ASSUME LogInv, NEW i \in Inodes, NEW h \in Nat, NEW q \in Seq(LineType), NEW l \in LineType,
         At(i, h, q, l), NEW r \in 1..Len(records), Fits(r), Alone(r), l.rec = r
  PROVE  /\ q # Oversized /\ l.part # "long" /\ q \in Seq(LineType)
         /\ l.part = "F" => Append(q, l) = LinesOf(r)
<1>1. /\ FilesTyped /\ Len(disk[i]) \in Nat /\ h + 1 \in 1..Len(disk[i]) /\ l = disk[i][h + 1]
  <2>1. FilesTyped /\ Len(disk[i]) \in Nat
    BY LineFacts DEF LogInv, Typed
  <2> QED BY <2>1 DEF At
<1> DEFINE k == l.at
<1>2. PICK b \in 0..Len(disk[i]) :
        /\ h + 1 = b + k /\ k \in 1..Len(records[r])
        /\ \A m \in 1..Len(records[r]) : b + m <= Len(disk[i]) => Begins(i, b, m, r)
  BY <1>1, AlonePlaces
<1> HIDE DEF k
<1>3. b + k = h + 1 /\ Begins(i, b, k, r)
  BY <1>1, <1>2
<1>4. /\ q # Oversized /\ Len(q) = k - 1 /\ l = LineAt(r, k)
      /\ k < Len(records[r]) => l.part = "P"
      /\ k = Len(records[r]) => l.part = "F"
      /\ \A n \in 1..k - 1 : q[n] = LineAt(r, n)
  BY <1>2, <1>3, InRecord
<1>5. Len(records[r]) \in Nat \ {0} /\ k \in Nat \ {0} /\ k <= Len(records[r])
  BY <1>1, <1>2, ShapeFacts
<1>6. l.part # "long"
  BY <1>4, <1>5
<1>7. ASSUME l.part = "F"
      PROVE  Append(q, l) = LinesOf(r)
  <2> DEFINE a == Append(q, l)
  <2>1. k = Len(records[r])
    BY <1>4, <1>5, <1>7
  <2>2. /\ a \in Seq(LineType) /\ Len(a) = k
        /\ \A n \in 1..k - 1 : a[n] = q[n] /\ a[k] = l
    <3>1. /\ Append(q, l) \in Seq(LineType) /\ Len(Append(q, l)) = Len(q) + 1
          /\ \A n \in 1..Len(q) : Append(q, l)[n] = q[n]
          /\ Append(q, l)[Len(q) + 1] = l
      BY AppendProperties
    <3>2. Len(q) = k - 1 /\ Len(q) + 1 = k
      BY <1>4, <1>5
    <3> QED BY <3>1, <3>2
  <2>3. a[k] = l
    <3>1. Append(q, l)[Len(q) + 1] = l /\ Len(q) + 1 = k
      BY <1>4, <1>5, AppendProperties
    <3> QED BY <3>1
  <2> HIDE DEF a
  <2>4. \A n \in 1..k : n \in 1..k - 1 \/ n = k
    BY <1>5
  <2>5. \A n \in 1..k : a[n] = LineAt(r, n)
    BY <1>4, <2>2, <2>3, <2>4
  <2>6. a = LinesOf(r)
    BY <1>1, <2>1, <2>2, <2>5, WholeRecord
  <2> QED BY <2>6 DEF a
<1> QED BY <1>4, <1>6, <1>7

\* So an event that has a line of it is the record.
LEMMA EventIsRecord ==
  ASSUME LogInv, NEW i \in Inodes, NEW h \in Nat, NEW q \in Seq(LineType), NEW l \in LineType,
         At(i, h, q, l), q # Oversized, l.part = "F", NEW r \in 1..Len(records), Fits(r), Alone(r),
         NEW x \in Range(Append(q, l)), x.rec = r
  PROVE  Append(q, l) = LinesOf(r)
<1>1. /\ FilesTyped /\ Len(disk[i]) \in Nat /\ h + 1 \in 1..Len(disk[i]) /\ l = disk[i][h + 1]
      /\ Len(records[r]) \in Nat \ {0}
  <2>1. FilesTyped /\ Len(disk[i]) \in Nat
    BY LineFacts DEF LogInv, Typed
  <2>2. Len(records[r]) \in Nat \ {0}
    BY <2>1, ShapeFacts
  <2> QED BY <2>1, <2>2 DEF At
<1>2. CASE x = l
  BY <1>2, AloneInRecord
<1>3. CASE x \in Range(q)
  <2>1. PICK n \in 1..Len(q) : x = q[n]
    BY <1>3 DEF Range
  <2> DEFINE y == h - Len(q) + n
  <2>2. /\ y \in 1..Len(disk[i]) /\ x = disk[i][y] /\ x.part = "P" /\ Len(q) <= h
        /\ \A m \in 1..Len(q) : q[m] = disk[i][h - Len(q) + m] /\ q[m].part = "P"
    BY <2>1, HeldPlaces
  <2>3. y \in Nat /\ y <= h /\ n \in Nat /\ Len(q) \in Nat /\ n <= Len(q)
    BY <2>1, <2>2
  <2>4. PICK b \in 0..Len(disk[i]) :
          /\ y = b + x.at /\ x.at \in 1..Len(records[r])
          /\ \A m \in 1..Len(records[r]) : b + m <= Len(disk[i]) => disk[i][b + m] = LineAt(r, m)
    BY <2>2, AlonePlaces
  <2> DEFINE M == Len(records[r])
  <2>5. b \in Nat /\ x.at \in Nat /\ x.at <= M /\ M \in Nat
    BY <1>1, <2>4
  <2>6. CASE b + M <= h
    <3>1. b + M <= Len(disk[i]) /\ M \in 1..M
      BY <1>1, <2>5, <2>6
    <3>2. disk[i][b + M].part = "F"
      <4>1. disk[i][b + M] = LineAt(r, M)
        BY <2>4, <3>1
      <4>2. records[r][M] = "F"
        BY <1>1, FittingParts
      <4> QED BY <4>1, <4>2 DEF LineAt
    <3> DEFINE m == b + M - h + Len(q)
    <3>3. m \in 1..Len(q) /\ h - Len(q) + m = b + M
      <4>1. b + M >= y
        BY <2>3, <2>4, <2>5
      <4>2. b + M >= h - Len(q) + n
        BY <4>1
      <4> QED BY <2>2, <2>3, <2>5, <2>6, <4>2
    <3>4. q[m] = disk[i][h - Len(q) + m] /\ q[m].part = "P"
      BY <2>2, <3>3
    <3> QED BY <3>2, <3>3, <3>4
  <2>7. CASE b + M > h
    <3> DEFINE m == h + 1 - b
    <3>1. m \in 1..M /\ b + m = h + 1
      BY <2>3, <2>4, <2>5, <2>7
    <3> HIDE DEF m
    <3>2. l = LineAt(r, m)
      <4>1. b + m <= Len(disk[i])
        BY <1>1, <3>1
      <4>2. disk[i][b + m] = LineAt(r, m)
        BY <2>4, <3>1, <4>1
      <4> QED BY <1>1, <3>1, <4>2
    <3>3. l.rec = r
      BY <3>2 DEF LineAt
    <3> QED BY <3>3, AloneInRecord
  <2> QED BY <1>1, <2>3, <2>5, <2>6, <2>7
<1>4. Range(Append(q, l)) = Range(q) \cup {l}
  BY RangeFacts
<1> QED BY <1>2, <1>3, <1>4

\* A line that becomes of anything: what the three cases have in common.
LEMMA ReadCommon ==
  ASSUME LogInv, NEW i \in Inodes, NEW h \in Nat, NEW q \in Seq(LineType), NEW l \in LineType,
         At(i, h, q, l), Holds(i, h, q, l) \/ Takes(i, h, q, l) \/ Drops(i, h, q, l)
  PROVE  /\ UNCHANGED <<rotation, disk, path, pen, used, records, rest, server>>
         /\ UNCHANGED writer /\ ReaderTyped' /\ OutboxTyped' /\ proc'.up = proc.up
         /\ DOMAIN proc'.handles = DOMAIN proc.handles /\ proc'.handles[i] = h + 1
         /\ \A j \in DOMAIN proc.handles \ {i} :
              proc'.handles[j] = proc.handles[j] /\ Held(j)' = Held(j)
         /\ Typed' /\ FilesInv'
         /\ i \in used /\ i \in DOMAIN proc.handles /\ Len(disk[i]) \in Nat
         /\ h + 1 \in 1..Len(disk[i]) /\ l = disk[i][h + 1] /\ Known(l)
<1>1. /\ Typed /\ FilesTyped /\ FilesInv /\ used \subseteq Inodes
      /\ DOMAIN proc.handles \subseteq used
  BY DEF LogInv, Typed, FilesTyped, ReaderTyped
<1>2. /\ UNCHANGED writer /\ server' = server /\ ReaderTyped' /\ OutboxTyped'
      /\ proc'.up = proc.up
      /\ DOMAIN proc'.handles = DOMAIN proc.handles /\ proc'.handles[i] = h + 1
      /\ \A j \in DOMAIN proc.handles \ {i} :
           proc'.handles[j] = proc.handles[j] /\ Held(j)' = Held(j)
  BY DEF Holds, Takes, Drops, GoesTo
<1>3. UNCHANGED <<rotation, disk, path, pen, used, records, rest, server>>
  BY <1>2 DEF writer
<1>4. Typed'
  BY <1>1, <1>2, <1>3 DEF Typed, FilesTyped
<1>5. FilesInv'
  <2>1. OneFile'
    BY <1>1, <1>2, <1>3 DEF FilesInv, OneFile
  <2> QED BY <1>1, <1>2, <2>1, FilesStay DEF FilesInv
<1>6. /\ i \in DOMAIN proc.handles /\ i \in used /\ Len(disk[i]) \in Nat
      /\ h + 1 \in 1..Len(disk[i]) /\ l = disk[i][h + 1]
  <2>1. i \in DOMAIN proc.handles /\ i \in used /\ Len(disk[i]) \in Nat
    BY <1>1, LineFacts DEF At
  <2> QED BY <2>1 DEF At
<1>7. Known(l)
  BY <1>1, <1>6 DEF FilesInv, LinesAreKnown
<1> QED BY <1>2, <1>3, <1>4, <1>5, <1>6, <1>7

\* The reader is where the invariant says.
LEMMA ReadReader ==
  ASSUME LogInv, NEW i \in Inodes, NEW h \in Nat, NEW q \in Seq(LineType), NEW l \in LineType,
         At(i, h, q, l), Holds(i, h, q, l) \/ Takes(i, h, q, l) \/ Drops(i, h, q, l)
  PROVE  ReaderInv'
<1>1. /\ UNCHANGED <<rotation, disk>> /\ UNCHANGED writer
      /\ DOMAIN proc'.handles = DOMAIN proc.handles /\ proc'.handles[i] = h + 1
      /\ \A j \in DOMAIN proc.handles \ {i} :
           proc'.handles[j] = proc.handles[j] /\ Held(j)' = Held(j)
      /\ h + 1 <= Len(disk[i])
  BY ReadCommon DEF At
<1>2. HeldWell(i, h + 1, Held(i)')
  <2>1. ASSUME NEW p, p = Held(i)'
        PROVE  HeldWell(i, h + 1, p)
    BY <2>1, NextHeld
  <2> QED BY <2>1
<1>3. ASSUME NEW j \in DOMAIN proc.handles
      PROVE  IF proc'.handles[j] <= Len(disk[j]) THEN HeldWell(j, proc'.handles[j], Held(j)')
             ELSE rotation = "truncate" /\ disk[j] = <<>>
  <2>1. CASE j = i
    BY <1>1, <1>2, <2>1
  <2>2. CASE j # i
    BY <1>1, <2>2 DEF LogInv, ReaderInv
  <2> QED BY <2>1, <2>2
<1> QED BY <1>1, <1>3, FilesStay DEF ReaderInv

\* The position that is saved.
LEMMA ReadOffset ==
  ASSUME LogInv, NEW i \in Inodes, NEW h \in Nat, NEW q \in Seq(LineType), NEW l \in LineType,
         At(i, h, q, l), Holds(i, h, q, l) \/ Takes(i, h, q, l) \/ Drops(i, h, q, l)
  PROVE  /\ \A j : j # i => Offset(j)' = Offset(j)
         /\ Holds(i, h, q, l) => Offset(i)' = Offset(i) /\ db'.cursors = db.cursors
         /\ ~Holds(i, h, q, l) =>
              /\ Offset(i)' = h + 1 /\ DOMAIN db'.cursors = DOMAIN db.cursors \cup {i}
              /\ db'.cursors[i] = h + 1
              /\ \A j \in DOMAIN db.cursors : j # i => db'.cursors[j] = db.cursors[j]
<1>1. UNCHANGED <<rotation, disk>> /\ h + 1 <= Len(disk[i])
  BY ReadCommon DEF At
<1>2. CASE Holds(i, h, q, l)
  BY <1>1, <1>2 DEF Holds, Offset
<1>3. CASE ~Holds(i, h, q, l)
  <2>1. db'.cursors = With(db.cursors, i, h + 1)
    BY <1>3 DEF Takes, Drops
  <2>2. /\ DOMAIN db'.cursors = DOMAIN db.cursors \cup {i} /\ db'.cursors[i] = h + 1
        /\ \A j \in DOMAIN db.cursors : j # i => db'.cursors[j] = db.cursors[j]
    BY <2>1 DEF With
  <2> QED BY <1>1, <1>3, <2>2 DEF Offset
<1> QED BY <1>2, <1>3

\* Only between records is a position saved, and what is held is behind it.
LEMMA ReadSaved ==
  ASSUME LogInv, NEW i \in Inodes, NEW h \in Nat, NEW q \in Seq(LineType), NEW l \in LineType,
         At(i, h, q, l), Holds(i, h, q, l) \/ Takes(i, h, q, l) \/ Drops(i, h, q, l)
  PROVE  SavedInv'
<1>1. /\ UNCHANGED <<rotation, disk, path, used, records>> /\ UNCHANGED writer
      /\ DOMAIN proc'.handles = DOMAIN proc.handles /\ proc'.handles[i] = h + 1
      /\ \A j \in DOMAIN proc.handles \ {i} :
           proc'.handles[j] = proc.handles[j] /\ Held(j)' = Held(j)
      /\ i \in used /\ i \in DOMAIN proc.handles /\ Len(disk[i]) \in Nat
      /\ h + 1 <= Len(disk[i]) /\ h = proc.handles[i] /\ q = Held(i)
  BY ReadCommon DEF At
<1>2. CASE rotation = "truncate"
  <2>1. path \in DOMAIN proc.handles
    BY <1>1, <1>2 DEF LogInv, FilesInv, OneFile
  <2> QED BY <1>1, <1>2, <2>1 DEF SavedInv
<1>3. CASE rotation # "truncate"
  <2>1. /\ \A j \in DOMAIN db.cursors : db.cursors[j] <= Len(disk[j])
        /\ \A j \in DOMAIN proc.handles : Offset(j) <= proc.handles[j] /\ HeldIsUnsaved(j)
        /\ \A j \in used : SavedBetween(j)
    BY <1>3 DEF LogInv, SavedInv
  <2>2. \A j \in DOMAIN db'.cursors : db'.cursors[j] <= Len(disk[j])
    BY <1>1, <2>1, ReadOffset
  <2>3. Offset(i) \in Nat /\ MaxJoined \in Nat /\ Len(q) \in Nat
    BY <1>1, <1>3, OffsetFacts, LimitsAssumption DEF LogInv
  <2>4. ASSUME NEW j \in DOMAIN proc.handles
        PROVE  Offset(j)' <= proc'.handles[j] /\ HeldIsUnsaved(j)'
    <3>1. CASE j # i
      BY <1>1, <2>1, <3>1, ReadOffset DEF HeldIsUnsaved
    <3>2. CASE j = i /\ ~Holds(i, h, q, l)
      <4>1. Offset(i)' = h + 1 /\ Held(i)' = <<>>
        BY <3>2, ReadOffset DEF Takes, Drops, GoesTo
      <4>2. <<>> # Oversized /\ Len(<<>>) = 0
        BY DEF Oversized
      <4> QED BY <1>1, <2>3, <3>2, <4>1, <4>2 DEF HeldIsUnsaved
    <3>3. CASE j = i /\ Holds(i, h, q, l)
      <4>1. /\ Offset(i)' = Offset(i) /\ q # Oversized
            /\ Len(q) = h - Offset(i) /\ Offset(i) <= h /\ h <= Offset(i) + MaxJoined
        BY <1>1, <2>1, <3>3, ReadOffset DEF Holds, HeldIsUnsaved
      <4>2. CASE Held(i)' = Append(q, l) /\ Len(q) < MaxJoined /\ l.part # "long"
        <5>1. Len(Append(q, l)) = Len(q) + 1 /\ Append(q, l)[Len(q) + 1] = l
          BY AppendProperties
        <5>2. Append(q, l) # Oversized
          <6>1. CASE Len(q) = 0
            <7>1. Append(q, l)[1].part # Oversized[1].part
              BY <4>2, <5>1, <6>1 DEF Oversized
            <7> QED BY <7>1
          <6>2. CASE Len(q) # 0
            <7>1. Len(Oversized) = 1
              BY DEF Oversized
            <7>2. Len(Append(q, l)) # 1
              BY <2>3, <5>1, <6>2
            <7> QED BY <7>1, <7>2
          <6> QED BY <6>1, <6>2
        <5>3. h + 1 <= Offset(i) + MaxJoined /\ Len(q) + 1 = h + 1 - Offset(i)
          BY <2>3, <4>1, <4>2
        <5> QED BY <1>1, <2>3, <3>3, <4>1, <4>2, <5>1, <5>2, <5>3 DEF HeldIsUnsaved
      <4>3. CASE Held(i)' = Oversized /\ Len(q) = MaxJoined
        <5>1. ~(h + 1 <= Offset(i) + MaxJoined)
          BY <2>3, <4>1, <4>3
        <5> QED BY <1>1, <2>3, <3>3, <4>1, <4>3, <5>1 DEF HeldIsUnsaved
      <4> QED BY <3>3, <4>2, <4>3 DEF Holds, GoesTo
    <3> QED BY <3>1, <3>2, <3>3
  <2>5. ASSUME NEW j \in used
        PROVE  SavedBetween(j)'
    <3>1. CASE j # i \/ Holds(i, h, q, l)
      <4>1. Offset(j)' = Offset(j)
        BY <3>1, ReadOffset
      <4> QED BY <1>1, <2>1, <4>1, FilesStay DEF SavedBetween
    <3>2. CASE j = i /\ ~Holds(i, h, q, l)
      <4> SUFFICES ASSUME NEW b \in 0..Len(disk[i]), NEW r \in 1..Len(records),
                          NEW m \in 1..Len(records[r]) - 1, b + m = h + 1, Begins(i, b, m, r)
          PROVE FALSE
        BY <1>1, <3>2, ReadOffset, FilesStay DEF SavedBetween
      <4>1. /\ q # Oversized /\ l.part = "P"
            /\ l = LineAt(r, m)
        BY InFragments
      <4> QED BY <3>2, <4>1 DEF Takes, Drops
    <3> QED BY <3>1, <3>2
  <2> QED BY <1>1, <1>3, <2>2, <2>4, <2>5 DEF SavedInv
<1> QED BY <1>2, <1>3

\* The lines of an event are right before the place from which nothing has been taken.
LEMMA EventPlaces ==
  ASSUME LogInv, NEW i \in Inodes, NEW h \in Nat, NEW q \in Seq(LineType), NEW l \in LineType,
         At(i, h, q, l), q # Oversized, NEW x \in Range(Append(q, l))
  PROVE  \E n \in 1..Len(disk[i]) : x = disk[i][n] /\ n <= h + 1 /\ n > TakenTo(i)
<1>1. /\ Typed /\ FilesTyped /\ Len(disk[i]) \in Nat /\ h + 1 \in 1..Len(disk[i])
      /\ l = disk[i][h + 1] /\ i \in DOMAIN proc.handles /\ h = proc.handles[i] /\ q = Held(i)
  <2>1. Typed /\ FilesTyped /\ Len(disk[i]) \in Nat
    BY LineFacts DEF LogInv, Typed
  <2> QED BY <2>1 DEF At
<1>2. /\ Len(q) \in Nat /\ Len(q) <= h
      /\ \A n \in 1..Len(q) : h - Len(q) + n \in 1..Len(disk[i]) /\ q[n] = disk[i][h - Len(q) + n]
  BY HeldPlaces
<1>3. TakenTo(i) = h - Len(q)
  <2>1. CASE rotation = "truncate"
    BY <1>1, <2>1 DEF TakenTo
  <2>2. CASE rotation # "truncate"
    <3>1. i \in used /\ Offset(i) \in Nat
      BY <1>1, <2>2, OffsetFacts DEF LogInv, Typed, ReaderTyped
    <3>2. Len(q) = h - Offset(i)
      BY <1>1, <2>2 DEF LogInv, SavedInv, HeldIsUnsaved
    <3>3. TakenTo(i) = Offset(i)
      BY <2>2 DEF TakenTo
    <3> QED BY <1>2, <3>1, <3>2, <3>3
  <2> QED BY <2>1, <2>2
<1>4. CASE x = l
  <2>1. h + 1 > TakenTo(i)
    BY <1>2, <1>3
  <2>2. x = disk[i][h + 1] /\ h + 1 <= h + 1
    BY <1>1, <1>4
  <2> QED BY <1>1, <2>1, <2>2
<1>5. CASE x \in Range(q)
  <2>1. PICK n \in 1..Len(q) : x = q[n]
    BY <1>5 DEF Range
  <2>2. h - Len(q) + n \in 1..Len(disk[i]) /\ x = disk[i][h - Len(q) + n]
    BY <1>2, <2>1
  <2>3. h - Len(q) + n <= h + 1 /\ h - Len(q) + n > TakenTo(i)
    BY <1>2, <1>3, <2>1
  <2> QED BY <2>2, <2>3
<1>6. Range(Append(q, l)) = Range(q) \cup {l}
  BY RangeFacts
<1> QED BY <1>4, <1>5, <1>6

\* Nothing is taken before it has been read, and what has been taken stays behind.
LEMMA ReadTakenTo ==
  ASSUME LogInv, NEW i \in Inodes, NEW h \in Nat, NEW q \in Seq(LineType), NEW l \in LineType,
         At(i, h, q, l), Holds(i, h, q, l) \/ Takes(i, h, q, l) \/ Drops(i, h, q, l)
  PROVE  /\ \A j \in used : j # i => TakenTo(j)' = TakenTo(j)
         /\ TakenTo(i) \in Nat /\ TakenTo(i)' \in Nat /\ TakenTo(i)' >= TakenTo(i)
         /\ Takes(i, h, q, l) => TakenTo(i)' = h + 1
<1>1. /\ UNCHANGED <<rotation, disk>>
      /\ DOMAIN proc'.handles = DOMAIN proc.handles /\ proc'.handles[i] = h + 1
      /\ \A j \in DOMAIN proc.handles \ {i} :
           proc'.handles[j] = proc.handles[j] /\ Held(j)' = Held(j)
      /\ i \in used /\ i \in DOMAIN proc.handles /\ h = proc.handles[i] /\ q = Held(i)
  BY ReadCommon DEF At
<1>2. \A j \in used : j # i => TakenTo(j)' = TakenTo(j)
  BY <1>1, ReadOffset DEF TakenTo
<1>5. Takes(i, h, q, l) => ~Holds(i, h, q, l)
  <2>1. SUFFICES ASSUME Takes(i, h, q, l), Holds(i, h, q, l) PROVE FALSE
    OBVIOUS
  <2>2. Held(i)' = <<>>
    BY <2>1 DEF Takes, GoesTo
  <2>3. Held(i)' = Append(q, l) \/ Held(i)' = Oversized
    BY <2>1 DEF Holds, GoesTo
  <2>4. Append(q, l) # <<>> /\ Oversized # <<>>
    BY AppendProperties DEF Oversized
  <2> QED BY <2>2, <2>3, <2>4
<1>3. CASE rotation # "truncate"
  <2>1. TakenTo(i) = Offset(i) /\ TakenTo(i)' = Offset(i)'
    BY <1>1, <1>3 DEF TakenTo
  <2>2. Offset(i) \in Nat /\ Offset(i) <= h
    BY <1>1, <1>3, OffsetFacts DEF LogInv, SavedInv
  <2>3. Offset(i)' = Offset(i) \/ Offset(i)' = h + 1
    BY ReadOffset
  <2>4. Takes(i, h, q, l) => Offset(i)' = h + 1
    BY <1>5, ReadOffset
  <2> QED BY <1>2, <2>1, <2>2, <2>3, <2>4
<1>4. CASE rotation = "truncate"
  <2>1. TakenTo(i) = IF q = Oversized THEN h ELSE h - Len(q)
    BY <1>1, <1>4 DEF TakenTo
  <2>2. TakenTo(i)' = IF Held(i)' = Oversized THEN h + 1 ELSE h + 1 - Len(Held(i)')
    BY <1>1, <1>4 DEF TakenTo
  <2>3. Len(q) \in Nat /\ (q # Oversized => Len(q) <= h)
    BY HeldPlaces
  <2>4. CASE ~Holds(i, h, q, l)
    <3>1. Held(i)' = <<>> /\ <<>> # Oversized /\ Len(<<>>) = 0
      BY <2>4 DEF Takes, Drops, GoesTo, Oversized
    <3> QED BY <1>2, <2>1, <2>2, <2>3, <2>4, <3>1
  <2>5. CASE Holds(i, h, q, l)
    <3>1. q # Oversized
      BY <2>5 DEF Holds
    <3>2. CASE GoesTo(i, h, Append(q, l)) /\ l.part = "P"
      <4>1. Held(i)' = Append(q, l)
        BY <3>2 DEF GoesTo
      <4>2. Len(Append(q, l)) = Len(q) + 1 /\ Append(q, l)[Len(q) + 1] = l
        BY AppendProperties
      <4>3. Len(Oversized) = 1 /\ Oversized[1].part = "long"
        BY DEF Oversized
      <4>4. Append(q, l) # Oversized
        <5>1. SUFFICES ASSUME Append(q, l) = Oversized PROVE FALSE
          OBVIOUS
        <5>2. Len(q) + 1 = 1
          BY <4>2, <4>3, <5>1
        <5>3. Oversized[1] = l
          BY <2>3, <4>2, <5>1, <5>2
        <5> QED BY <3>2, <4>3, <5>3
      <4> QED BY <1>2, <1>5, <2>1, <2>2, <2>3, <2>5, <3>1, <4>1, <4>2, <4>4
    <3>3. CASE GoesTo(i, h, Oversized)
      <4>1. Held(i)' = Oversized
        BY <3>3 DEF GoesTo
      <4> QED BY <1>2, <1>5, <2>1, <2>2, <2>3, <2>5, <3>1, <4>1
    <3> QED BY <2>5, <3>2, <3>3 DEF Holds
  <2> QED BY <2>4, <2>5
<1> QED BY <1>3, <1>4

\* Each line is taken once, and a record that stands alone as a whole.
LEMMA ReadEvents ==
  ASSUME LogInv, NEW i \in Inodes, NEW h \in Nat, NEW q \in Seq(LineType), NEW l \in LineType,
         At(i, h, q, l), Holds(i, h, q, l) \/ Takes(i, h, q, l) \/ Drops(i, h, q, l)
  PROVE  EventsInv'
<1>1. /\ UNCHANGED <<rotation, disk, path, pen, used, records, rest, server>> /\ UNCHANGED writer
      /\ i \in used /\ Len(disk[i]) \in Nat
      /\ h + 1 \in 1..Len(disk[i]) /\ l = disk[i][h + 1] /\ Known(l)
  BY ReadCommon
<1>2. /\ Typed /\ FilesTyped /\ DOMAIN records = 1..Len(records) /\ used \subseteq Inodes
      /\ LinesAreDistinct /\ LinesAreKnown
      /\ EventsInv /\ \A x \in Taken : Known(x)
      /\ \A j \in used : Len(disk[j]) \in Nat
  <2>1. Typed /\ FilesTyped /\ used \subseteq Inodes
    BY DEF LogInv, Typed, FilesTyped
  <2>2. \A j \in used : Len(disk[j]) \in Nat
    BY <2>1, LineFacts
  <2> QED BY <2>1, <2>2, RecordPlaces DEF LogInv, FilesInv, EventsInv
<1>3. ASSUME NEW j \in used, NEW n \in 1..Len(disk[j]), n > TakenTo(j)', disk[j][n] \in Taken
      PROVE  FALSE
  <2>1. n > TakenTo(j)
    <3>1. CASE j = i
      <4>1. TakenTo(i) \in Nat /\ TakenTo(i)' \in Nat /\ TakenTo(i)' >= TakenTo(i)
        BY ReadTakenTo
      <4> QED BY <1>3, <3>1, <4>1
    <3>2. CASE j # i
      BY <1>3, <3>2, ReadTakenTo
    <3> QED BY <3>1, <3>2
  <2> QED BY <1>2, <1>3, <2>1 DEF EventsInv, NotTakenYet
<1>4. CASE ~Takes(i, h, q, l)
  <2>1. Accepted' = Accepted /\ Taken' = Taken
    BY <1>4 DEF Holds, Drops, Taken
  <2>2. \/ db'.rejected = db.rejected
        \/ Drops(i, h, q, l) /\ db'.rejected = db.rejected \cup {l.rec}
    <3>1. CASE Holds(i, h, q, l)
      BY <3>1 DEF Holds
    <3>2. CASE Drops(i, h, q, l)
      BY <3>2 DEF Drops
    <3> QED BY <1>4, <3>1, <3>2
  <2>3. \A r \in db'.rejected : r \in 1..Len(records)
    BY <1>1, <1>2, <2>2 DEF EventsInv, Known
  <2>4. NotTakenYet'
    BY <1>1, <1>3, <2>1 DEF NotTakenYet
  <2>5. ASSUME NEW r \in 1..Len(records), Fits(r), Alone(r)
        PROVE  CameWhole(r)'
    <3>1. CameWhole(r)
      BY <1>2, <2>5 DEF EventsInv
    <3>2. r \notin db'.rejected
      <4>1. SUFFICES ASSUME Drops(i, h, q, l), l.rec = r PROVE FALSE
        BY <2>2, <3>1 DEF CameWhole
      <4>2. /\ q # Oversized /\ l.part # "long"
            /\ l.part = "F" => Append(q, l) = LinesOf(r)
        BY <2>5, <4>1, AloneInRecord
      <4> QED BY <1>2, <4>1, <4>2 DEF Drops
    <3> QED BY <1>1, <2>1, <3>1, <3>2, FilesStay DEF CameWhole
  <2>6. LinesAreTakenOnce'
    BY <1>2, <2>1 DEF EventsInv, LinesAreTakenOnce
  <2> QED BY <1>1, <1>2, <2>1, <2>3, <2>4, <2>5, <2>6, FilesStay DEF EventsInv
<1>5. CASE Takes(i, h, q, l)
  <2>1. q # Oversized /\ l.part = "F" /\ db'.rejected = db.rejected
    BY <1>5 DEF Takes
  <2>2. PICK e \in EventType : e.lines = Append(q, l) /\ Accepted' = Accepted \cup {e}
    BY <1>5 DEF Takes
  <2>3. Taken' = Taken \cup Range(e.lines)
    BY <2>2 DEF Taken
  <2>4. \A x \in Range(e.lines) : \E n \in 1..Len(disk[i]) :
          x = disk[i][n] /\ n <= h + 1 /\ n > TakenTo(i)
    <3>1. \A x \in Range(Append(q, l)) : \E n \in 1..Len(disk[i]) :
            x = disk[i][n] /\ n <= h + 1 /\ n > TakenTo(i)
      BY <2>1, EventPlaces
    <3>2. Range(e.lines) = Range(Append(q, l))
      BY <2>2
    <3> QED BY ONLY <3>1, <3>2
  <2>5. \A x \in Range(e.lines) : x \notin Taken /\ Known(x)
    BY <1>1, <1>2, <2>4 DEF EventsInv, NotTakenYet, LinesAreKnown
  <2>6. ASSUME NEW j \in used, NEW n \in 1..Len(disk[j]), n > TakenTo(j)', disk[j][n] \in Taken'
        PROVE  FALSE
    <3>1. disk[j][n] \in Range(e.lines)
      BY <1>3, <2>3, <2>6
    <3>2. PICK m \in 1..Len(disk[i]) : disk[j][n] = disk[i][m] /\ m <= h + 1
      BY <2>4, <3>1
    <3>3. j = i /\ n = m
      BY <1>1, <1>2, <3>2 DEF LinesAreDistinct
    <3>4. TakenTo(i)' = h + 1
      BY <1>5, ReadTakenTo
    <3> QED BY <1>1, <2>6, <3>2, <3>3, <3>4
  <2>7. NotTakenYet'
    BY <1>1, <2>6 DEF NotTakenYet
  <2>8. \A f \in Accepted : Range(f.lines) \cap Range(e.lines) = {}
    BY <2>5 DEF Taken
  <2>9. LinesAreTakenOnce'
    BY <1>2, <2>2, <2>8 DEF EventsInv, LinesAreTakenOnce
  <2>10. ASSUME NEW r \in 1..Len(records), Fits(r), Alone(r)
         PROVE  CameWhole(r)'
    <3>1. CameWhole(r)
      BY <1>2, <2>10 DEF EventsInv
    <3>2. ASSUME NEW x \in Range(e.lines), x.rec = r
          PROVE  e.lines = LinesOf(r)
      <4>1. x \in Range(Append(q, l)) /\ Fits(r) /\ Alone(r) /\ x.rec = r
        BY <2>2, <2>10, <3>2
      <4>2. Append(q, l) = LinesOf(r)
        BY <2>1, <2>10, <4>1, EventIsRecord
      <4> QED BY <2>2, <4>2
    <3> QED BY <1>1, <2>1, <2>2, <3>1, <3>2, FilesStay DEF CameWhole
  <2>11. \A r \in db'.rejected : r \in 1..Len(records)
    BY <1>2, <2>1 DEF EventsInv
  <2>12. \A x \in Taken' : Known(x)'
    BY <1>1, <1>2, <2>3, <2>5, FilesStay
  <2> QED BY <1>1, <2>7, <2>9, <2>10, <2>11, <2>12, FilesStay DEF EventsInv
<1> QED BY <1>4, <1>5

\* The invariant as a whole over a read.
LEMMA ReadKeeps ==
  ASSUME LogInv, NEW i \in Inodes, Read(i)
  PROVE  LogInv'
<1>1. PICK h \in Nat, q \in Seq(LineType), l \in LineType :
        At(i, h, q, l) /\ (Holds(i, h, q, l) \/ Takes(i, h, q, l) \/ Drops(i, h, q, l))
  BY ReadFacts
<1>2. Typed' /\ FilesInv'
  BY <1>1, ReadCommon
<1>3. ReaderInv' /\ SavedInv' /\ EventsInv'
  BY <1>1, ReadReader, ReadSaved, ReadEvents
<1> QED BY <1>2, <1>3 DEF LogInv

----------------------------------------------------------------------------
(* The theorems *)

\* Nothing is written or read in the beginning.
LEMMA InitHolds ==
  ASSUME Init
  PROVE  LogInv
<1>1. path \in Inodes
  BY InodesAssumption DEF Init
<1>2. /\ rotation \in Rotations /\ pen = path /\ used = {path}
      /\ disk = [j \in Inodes |-> <<>>] /\ records = <<>>
      /\ rest = [s \in Streams |-> [rec |-> 0, at |-> 0]]
      /\ proc = NoFiles /\ ids = 0 /\ server = {}
      /\ db = [events |-> <<>>, cursors |-> <<>>, rejected |-> {}, dropped |-> {}]
  BY DEF Init
<1>3. /\ \A j \in Inodes : disk[j] = <<>> /\ Len(disk[j]) = 0
      /\ Len(records) = 0 /\ 1..0 = {}
  BY <1>2
<1>4. /\ proc = [up |-> TRUE, handles |-> <<>>, parts |-> <<>>]
      /\ proc.up /\ DOMAIN proc.handles = {} /\ DOMAIN proc.parts = {}
  BY <1>2 DEF NoFiles
<1>5. /\ db.events = <<>> /\ DOMAIN db.cursors = {} /\ db.rejected = {} /\ db.dropped = {}
  BY <1>2
<1>6. \A s \in Streams : rest[s].rec = 0 /\ rest[s].at = 0
  BY <1>2
<1>7. Accepted = {} /\ Taken = {}
  BY <1>2, <1>5 DEF Accepted, Taken, Range
<1>8. FilesTyped
  <2>1. disk \in [Inodes -> Seq(LineType)] /\ records \in Seq(Shapes)
    BY <1>2
  <2>2. rest \in [Streams -> [rec : Nat, at : Nat]]
    BY <1>2
  <2> QED BY <1>1, <1>2, <1>3, <2>1, <2>2 DEF FilesTyped
<1>9. ReaderTyped
  BY <1>4 DEF ReaderTyped
<1>10. OutboxTyped
  <2>1. db \in [events : Seq(EventType), cursors : {db.cursors},
                rejected : SUBSET Nat, dropped : SUBSET EventType]
    BY <1>2
  <2> QED BY <1>2, <1>5, <2>1 DEF OutboxTyped
<1>11. FilesInv
  BY <1>2, <1>3, <1>4, <1>6
     DEF FilesInv, StreamsAreApart, LinesAreDistinct, LinesAreKnown, OneFile
<1>12. ReaderInv
  BY <1>4 DEF ReaderInv
<1>13. SavedInv
  BY <1>1, <1>2, <1>3, <1>4, <1>5 DEF SavedInv, SavedBetween
<1>14. EventsInv
  BY <1>1, <1>2, <1>3, <1>5, <1>7 DEF EventsInv, NotTakenYet, LinesAreTakenOnce
<1> QED BY <1>8, <1>9, <1>10, <1>11, <1>12, <1>13, <1>14 DEF LogInv, Typed

\* Each step of the writer, the rotation, the reader and the outbox.
LEMMA NextKeeps ==
  ASSUME LogInv, [Next]_vars
  PROVE  LogInv'
<1>1. Typed /\ FilesInv /\ ReaderInv /\ SavedInv
  BY DEF LogInv
<1>2. CASE Rotate \/ Reopen \/ Truncate \/ \E s \in Streams : BeginRecord(s) \/ EndRecord(s)
  BY <1>2, WriterKeeps
<1>3. CASE Open
  BY <1>1, <1>3, OpenMoves, MovesKeep
<1>4. ASSUME NEW i \in Inodes, Shrunk(i)
      PROVE  LogInv'
  BY <1>1, <1>4, ShrunkMoves, MovesKeep
<1>5. ASSUME NEW i \in Inodes, Read(i)
      PROVE  LogInv'
  BY <1>5, ReadKeeps
<1>6. ASSUME NEW i \in Inodes, Close(i)
      PROVE  LogInv'
  BY <1>1, <1>6, CloseMoves, MovesKeep
<1>7. CASE Answered \/ Unanswered
  BY <1>1, <1>7, DeliveryStill, StillKeeps
<1>8. CASE Crash \/ Restart
  BY <1>1, <1>8, EndMoves, MovesKeep
<1>9. CASE UNCHANGED vars
  BY <1>1, <1>9, StutterStill, StillKeeps
<1> QED BY <1>2, <1>3, <1>4, <1>5, <1>6, <1>7, <1>8, <1>9 DEF Next

\* The invariant as one of the specification.
LEMMA LogInvariant == Spec => []LogInv
<1>1. Init => LogInv
  BY InitHolds
<1>2. LogInv /\ [Next]_vars => LogInv'
  BY NextKeeps
<1> QED BY <1>1, <1>2, PTL DEF Spec

\* The part of a sequence behind a place, line by line.
LEMMA PartOf ==
  ASSUME NEW S, NEW s \in Seq(S), NEW a \in Nat, NEW b \in Nat, a <= b, b <= Len(s)
  PROVE  /\ SubSeq(s, a + 1, b) = [n \in 1..b - a |-> s[a + n]]
         /\ SubSeq(s, a + 1, b) \in Seq(S) /\ Len(SubSeq(s, a + 1, b)) = b - a
         /\ \A n \in 1..b - a : SubSeq(s, a + 1, b)[n] = s[a + n]
<1>1. a + 1 \in 1..Len(s) + 1 /\ b \in a + 1 - 1..Len(s) /\ b - (a + 1) + 1 = b - a
  BY LenProperties
<1>2. /\ SubSeq(s, a + 1, b) \in Seq(S)
      /\ Len(SubSeq(s, a + 1, b)) = b - a
      /\ \A n \in 1..b - a : SubSeq(s, a + 1, b)[n] = s[a + n]
  BY <1>1, SubSeqProperties
<1> QED BY <1>1, <1>2, LenProperties

\* A record whose parts stand together behind a boundary stands alone.
LEMMA ApartIsAlone ==
  ASSUME Typed, NEW r \in 1..Len(records), Apart(r)
  PROVE  Alone(r)
<1>1. /\ FilesTyped /\ \A i \in Inodes : disk[i] \in Seq(LineType) /\ Len(disk[i]) \in Nat
      /\ records[r] \in Seq(Kinds) /\ Len(records[r]) \in Nat
      /\ DOMAIN records[r] = 1..Len(records[r]) /\ used \subseteq Inodes
  <2>1. FilesTyped /\ used \subseteq Inodes
    BY DEF Typed, FilesTyped
  <2>2. records[r] \in Seq(Kinds)
    BY <2>1, ShapesAssumption DEF FilesTyped, Kinds
  <2> QED BY <2>1, <2>2, LineFacts
<1>6. PICK i \in used : \E b \in 0..Len(disk[i]) - Len(records[r]) :
        Boundary(i, b) /\ SubSeq(disk[i], b + 1, b + Len(records[r])) = LinesOf(r)
  BY DEF Apart
<1>2. PICK b \in 0..Len(disk[i]) - Len(records[r]) :
        Boundary(i, b) /\ SubSeq(disk[i], b + 1, b + Len(records[r])) = LinesOf(r)
  BY <1>6
<1>3. b \in Nat /\ b + Len(records[r]) \in Nat /\ b + Len(records[r]) <= Len(disk[i])
      /\ b <= b + Len(records[r]) /\ b \in 0..Len(disk[i])
  BY <1>1, <1>2
<1>4. \A m \in 1..Len(records[r]) : disk[i][b + m] = LineAt(r, m)
  <2>1. \A m \in 1..Len(records[r]) :
          SubSeq(disk[i], b + 1, b + Len(records[r]))[m] = disk[i][b + m]
    <3>1. disk[i] \in Seq(LineType)
      BY <1>1
    <3>2. ASSUME NEW e \in Nat, e = b + Len(records[r])
          PROVE  \A m \in 1..e - b : SubSeq(disk[i], b + 1, e)[m] = disk[i][b + m]
      BY <1>3, <3>1, <3>2, PartOf
    <3>3. b + Len(records[r]) - b = Len(records[r])
      BY <1>1, <1>3
    <3> QED BY <1>3, <3>2, <3>3
  <2> QED BY <1>1, <1>2, <2>1 DEF LinesOf, LineAt
<1>5. \A m \in 1..Len(records[r]) : b + m <= Len(disk[i])
  BY <1>1, <1>3
<1> QED BY <1>2, <1>3, <1>4, <1>5 DEF Alone

\* What is held is all that lies behind the saved position.
LEMMA CrashFollows ==
  ASSUME LogInv
  PROVE  CrashLosesNothing
<1> SUFFICES ASSUME NEW i \in DOMAIN proc.handles, rotation # "truncate"
    PROVE  Held(i) = IF proc.handles[i] <= Offset(i) + MaxJoined
                     THEN SubSeq(disk[i], Offset(i) + 1, proc.handles[i])
                     ELSE Oversized
  BY DEF CrashLosesNothing
<1>1. /\ i \in Inodes /\ i \in used /\ proc.handles[i] \in Nat
      /\ disk[i] \in Seq(LineType) /\ Len(disk[i]) \in Nat
  <2>1. FilesTyped /\ ReaderTyped /\ i \in used /\ i \in Inodes
    BY DEF LogInv, Typed, FilesTyped, ReaderTyped
  <2> QED BY <2>1, LineFacts DEF ReaderTyped
<1>2. /\ Offset(i) \in Nat /\ Offset(i) <= proc.handles[i] /\ HeldIsUnsaved(i)
  BY <1>1, OffsetFacts DEF LogInv, SavedInv, Typed
<1>3. proc.handles[i] <= Len(disk[i]) /\ HeldWell(i, proc.handles[i], Held(i))
  BY DEF LogInv, ReaderInv
<1>4. CASE proc.handles[i] <= Offset(i) + MaxJoined
  <2>1. Held(i) # Oversized /\ Len(Held(i)) = proc.handles[i] - Offset(i)
    BY <1>2, <1>4 DEF HeldIsUnsaved
  <2>2. \A n \in 1..Len(Held(i)) :
          Held(i)[n] = disk[i][proc.handles[i] - Len(Held(i)) + n]
    BY <1>3, <2>1 DEF HeldWell, HeldLines
  <2>3. Held(i) \in Seq(LineType)
    BY DEF LogInv, Typed, ReaderTyped, Held
  <2>4. Held(i) = [n \in 1..Len(Held(i)) |-> Held(i)[n]]
    BY <2>3
  <2>5. SubSeq(disk[i], Offset(i) + 1, proc.handles[i])
          = [n \in 1..proc.handles[i] - Offset(i) |-> disk[i][Offset(i) + n]]
    BY <1>1, <1>2, <1>3, PartOf
  <2>6. proc.handles[i] - Len(Held(i)) = Offset(i)
    BY <1>1, <1>2, <2>1
  <2>7. \A n \in 1..proc.handles[i] - Offset(i) : Held(i)[n] = disk[i][Offset(i) + n]
    BY <2>1, <2>2, <2>6
  <2> QED BY <1>4, <2>1, <2>4, <2>5, <2>7
<1>5. CASE ~(proc.handles[i] <= Offset(i) + MaxJoined)
  BY <1>2, <1>5 DEF HeldIsUnsaved
<1> QED BY <1>4, <1>5

\* With any files, streams, shapes of records and limits, over rotation, truncation,
\* crashes and eviction, what poll makes of a record that stands behind a boundary
\* is one event of all of it and nothing else; no such record is rejected.
THEOREM EventsAreWholeRecords == Spec => []ApartRecordsAreWhole
<1>1. LogInv => ApartRecordsAreWhole
  <2> SUFFICES ASSUME LogInv, NEW r \in DOMAIN records, Fits(r), Apart(r)
      PROVE  CameWhole(r)
    BY DEF ApartRecordsAreWhole, CameWhole
  <2>1. r \in 1..Len(records)
    BY RecordPlaces DEF LogInv, Typed
  <2>2. Alone(r)
    BY <2>1, ApartIsAlone DEF LogInv
  <2> QED BY <2>1, <2>2 DEF LogInv, EventsInv
<1> QED BY <1>1, LogInvariant, PTL

\* Positions and events are committed together: with any files, streams, limits and
\* crashes, no line is in two events, and what a crash forgets is read again.
THEOREM LinesAreReadOnce == Spec => []ReadOnce
<1>1. LogInv => ReadOnce
  BY CrashFollows DEF ReadOnce, LogInv, EventsInv
<1> QED BY <1>1, LogInvariant, PTL

----------------------------------------------------------------------------
(* The journal *)

NoPosition == JournalRecords + 1
Outcomes == done.accepted \cup done.rejected \cup done.early

JournalTyped ==
  /\ journal \in Seq({"good", "unknown", "bad", "long"}) /\ Len(journal) <= JournalRecords
  /\ follow \in [up : BOOLEAN, at : Nat] /\ follow.at <= Len(journal)
  /\ oversized \in BOOLEAN
  /\ cursor \in 0..Len(journal) \cup {NoPosition}
  /\ done \in [accepted : SUBSET (1..Len(journal)), rejected : SUBSET (1..Len(journal)),
               early : SUBSET (1..Len(journal))]

\* Where reading goes on.
GivenUpTo == IF follow.up THEN follow.at ELSE cursor

\* The flag is only up, once a position is kept, for a record that cannot be taken.
FlagIsMeant ==
  oversized /\ cursor # NoPosition =>
    GivenUpTo < Len(journal) /\ journal[GivenUpTo + 1] \in {"bad", "long"}

\* After the kept position nothing was given that would have moved it.
PositionIsKept ==
  follow.up /\ cursor # NoPosition =>
    /\ cursor <= follow.at
    /\ \A n \in cursor + 1..follow.at : journal[n] \in {"bad", "long"}

\* Every record after one that came to an end has an outcome, as far as was read.
NoneIsMissed ==
  /\ cursor = NoPosition => done.accepted = {} /\ done.rejected = {}
  /\ \A m \in done.accepted \cup done.rejected, n \in 1..Len(journal) :
       m < n /\ (n <= cursor \/ (follow.up /\ n <= follow.at)) => n \in Outcomes

JournalInv ==
  /\ JournalTyped /\ FlagIsMeant /\ PositionIsKept /\ NoneIsMissed
  /\ \A n \in done.rejected : journal[n] # "good"

\* The unit's journal is empty in the beginning, with or without a position.
LEMMA JournalInit ==
  ASSUME Journal!Init
  PROVE  JournalInv
<1>1. /\ journal = <<>> /\ follow = [up |-> FALSE, at |-> 0] /\ oversized = FALSE
      /\ cursor \in {0, JournalRecords + 1}
      /\ done = [accepted |-> {}, rejected |-> {}, early |-> {}]
  BY DEF Journal!Init, Journal!NoCursor
<1>2. Len(journal) = 0 /\ journal \in Seq({"good", "unknown", "bad", "long"})
  BY <1>1
<1>3. JournalTyped
  <2>1. follow \in [up : BOOLEAN, at : Nat] /\ follow.at <= Len(journal)
    BY <1>1, <1>2
  <2>2. done \in [accepted : SUBSET (1..Len(journal)), rejected : SUBSET (1..Len(journal)),
                  early : SUBSET (1..Len(journal))]
    BY <1>1
  <2>3. cursor \in 0..Len(journal) \cup {NoPosition} /\ oversized \in BOOLEAN
    <3>1. cursor = 0 \/ cursor = NoPosition
      BY <1>1 DEF NoPosition
    <3>2. 0 \in 0..Len(journal)
      BY <1>2
    <3> QED BY <1>1, <3>1, <3>2
  <2> QED BY <1>2, <2>1, <2>2, <2>3, BoundsAssumption DEF JournalTyped
<1> QED BY <1>1, <1>2, <1>3
        DEF JournalInv, FlagIsMeant, PositionIsKept, NoneIsMissed, NoPosition

\* A record is logged, whatever the reader does.
LEMMA LogKeeps ==
  ASSUME JournalInv, Journal!Log
  PROVE  JournalInv'
<1>1. PICK kind \in {"good", "unknown", "bad", "long"} : journal' = Append(journal, kind)
  BY DEF Journal!Log
<1>2. /\ Len(journal) < JournalRecords /\ Len(journal) \in Nat
      /\ UNCHANGED <<follow, oversized, cursor, done>>
  BY DEF Journal!Log, JournalInv, JournalTyped
<1>3. /\ journal' \in Seq({"good", "unknown", "bad", "long"})
      /\ Len(journal') = Len(journal) + 1
      /\ \A n \in 1..Len(journal) : journal'[n] = journal[n]
  BY <1>1, AppendProperties DEF JournalInv, JournalTyped
<1>4. JournalTyped'
  <2>1. \A n \in 1..Len(journal) : n \in 1..Len(journal')
    BY <1>2, <1>3
  <2>2. done' \in [accepted : SUBSET (1..Len(journal')), rejected : SUBSET (1..Len(journal')),
                   early : SUBSET (1..Len(journal'))]
    BY <1>2, <2>1 DEF JournalInv, JournalTyped
  <2>3. cursor' \in 0..Len(journal') \cup {NoPosition}
    BY <1>2, <1>3 DEF JournalInv, JournalTyped
  <2> QED BY <1>2, <1>3, <2>2, <2>3, BoundsAssumption
          DEF JournalInv, JournalTyped, NoPosition
<1>5. FlagIsMeant'
  BY SMTT(30), <1>2, <1>3, BoundsAssumption
     DEF JournalInv, JournalTyped, FlagIsMeant, GivenUpTo, NoPosition
<1>6. PositionIsKept'
  BY SMTT(30), <1>2, <1>3 DEF JournalInv, JournalTyped, PositionIsKept, NoPosition
<1>7. NoneIsMissed'
  <2> SUFFICES ASSUME NEW m \in done.accepted \cup done.rejected, NEW n \in 1..Len(journal'),
                      m < n, n <= cursor \/ (follow.up /\ n <= follow.at)
      PROVE n \in Outcomes
    BY <1>2 DEF JournalInv, NoneIsMissed, Outcomes, NoPosition
  <2>1. cursor # NoPosition
    BY DEF JournalInv, NoneIsMissed
  <2>2. n \in 1..Len(journal)
    BY <1>2, <1>3, <2>1 DEF JournalInv, JournalTyped
  <2> QED BY <2>2 DEF JournalInv, NoneIsMissed
<1>8. \A n \in done'.rejected : journal'[n] # "good"
  BY <1>2, <1>3 DEF JournalInv, JournalTyped
<1> QED BY <1>4, <1>5, <1>6, <1>7, <1>8 DEF JournalInv

\* journalctl starts, and gives what comes after the kept position.
LEMMA StartKeeps ==
  ASSUME JournalInv, Journal!Start
  PROVE  JournalInv'
<1>1. /\ ~follow.up /\ UNCHANGED <<journal, oversized, cursor, done>>
      /\ follow' = [up |-> TRUE, at |-> IF cursor = NoPosition THEN Len(journal) ELSE cursor]
  BY DEF Journal!Start, Journal!Position, Journal!NoCursor, JournalInv, JournalTyped, NoPosition
<1>2. Len(journal) \in Nat
  BY DEF JournalInv, JournalTyped
<1>3. /\ follow'.up /\ follow'.at \in 0..Len(journal)
      /\ cursor # NoPosition => follow'.at = cursor
  BY <1>1, <1>2 DEF JournalInv, JournalTyped
<1>4. JournalTyped'
  BY <1>1, <1>2, <1>3 DEF JournalInv, JournalTyped, NoPosition
<1>5. FlagIsMeant' /\ PositionIsKept'
  BY <1>1, <1>2, <1>3
     DEF JournalInv, JournalTyped, FlagIsMeant, PositionIsKept, GivenUpTo, NoPosition
<1>6. NoneIsMissed'
  BY <1>1, <1>2, <1>3 DEF JournalInv, NoneIsMissed, Outcomes, NoPosition
<1> QED BY <1>1, <1>4, <1>5, <1>6 DEF JournalInv

\* The flag goes up for a record that is too long.
LEMMA OverflowKeeps ==
  ASSUME JournalInv, Journal!Overflow
  PROVE  JournalInv'
<1>1. /\ follow.up /\ follow.at < Len(journal) /\ journal[follow.at + 1] = "long"
      /\ oversized' = TRUE /\ UNCHANGED <<journal, follow, cursor, done>>
  BY DEF Journal!Overflow
<1> QED BY <1>1 DEF JournalInv, JournalTyped, FlagIsMeant, PositionIsKept, NoneIsMissed,
                    GivenUpTo, Outcomes, NoPosition

\* Reading again begins with the record that the flag is up for.
LEMMA EndKeeps ==
  ASSUME JournalInv, Journal!End \/ Journal!Crash
  PROVE  JournalInv'
<1>1. /\ UNCHANGED <<journal, cursor, done>> /\ follow' = [follow EXCEPT !.up = FALSE]
      /\ oversized' = FALSE \/ (oversized' = oversized /\ follow.up)
  BY DEF Journal!End, Journal!Crash
<1>2. follow' \in [up : BOOLEAN, at : Nat] /\ follow'.at = follow.at /\ ~follow'.up
  BY <1>1 DEF JournalInv, JournalTyped
<1>3. JournalTyped'
  BY <1>1, <1>2 DEF JournalInv, JournalTyped, NoPosition
<1>4. FlagIsMeant'
  <2> SUFFICES ASSUME oversized', cursor # NoPosition
      PROVE cursor < Len(journal) /\ journal[cursor + 1] \in {"bad", "long"}
    BY <1>1, <1>2 DEF FlagIsMeant, GivenUpTo, NoPosition
  <2>1. oversized /\ follow.up
    BY <1>1
  <2>2. /\ cursor \in Nat /\ follow.at \in Nat /\ Len(journal) \in Nat
        /\ cursor <= follow.at /\ follow.at < Len(journal)
        /\ journal[follow.at + 1] \in {"bad", "long"}
        /\ \A n \in cursor + 1..follow.at : journal[n] \in {"bad", "long"}
    BY <2>1 DEF JournalInv, JournalTyped, FlagIsMeant, PositionIsKept, GivenUpTo
  <2>3. cursor = follow.at \/ cursor + 1 \in cursor + 1..follow.at
    BY <2>2
  <2> QED BY <2>2, <2>3
<1>5. PositionIsKept' /\ NoneIsMissed'
  BY <1>1, <1>2 DEF JournalInv, PositionIsKept, NoneIsMissed, Outcomes, NoPosition
<1> QED BY <1>1, <1>3, <1>4, <1>5 DEF JournalInv

\* A line is taken, rejected, or is before the first position that is kept.
LEMMA LineKeeps ==
  ASSUME JournalInv, Journal!Line
  PROVE  JournalInv'
<1> SUFFICES ASSUME NEW n, n = follow.at + 1, NEW kind, kind = journal[n]
    PROVE JournalInv'
  OBVIOUS
<1>1. /\ follow.up /\ follow.at \in Nat /\ follow.at < Len(journal) /\ Len(journal) \in Nat
      /\ Len(journal) <= JournalRecords /\ n \in Nat /\ n \in 1..Len(journal)
      /\ kind \in {"good", "unknown", "bad", "long"}
  BY DEF Journal!Line, JournalInv, JournalTyped
<1>2. /\ done' = IF ~oversized /\ kind = "good" THEN [done EXCEPT !.accepted = @ \cup {n}]
                 ELSE IF cursor = NoPosition THEN [done EXCEPT !.early = @ \cup {n}]
                 ELSE [done EXCEPT !.rejected = @ \cup {n}]
      /\ cursor' = IF ~oversized /\ kind \in {"good", "unknown"} THEN n ELSE cursor
      /\ follow' = [follow EXCEPT !.at = n]
      /\ oversized' = FALSE /\ UNCHANGED journal
  BY DEF Journal!Line, Journal!FlagAfterLine, Journal!NoCursor, NoPosition
<1>3. follow' \in [up : BOOLEAN, at : Nat] /\ follow'.up /\ follow'.at = n
  BY <1>1, <1>2 DEF JournalInv, JournalTyped
<1>4. done \in [accepted : SUBSET (1..Len(journal)), rejected : SUBSET (1..Len(journal)),
                early : SUBSET (1..Len(journal))]
  BY DEF JournalInv, JournalTyped
<1>5. n # NoPosition /\ (cursor # NoPosition => cursor \in 0..follow.at)
  BY <1>1, BoundsAssumption DEF JournalInv, JournalTyped, PositionIsKept, NoPosition
<1>6. oversized /\ cursor # NoPosition => kind \in {"bad", "long"}
  BY <1>1 DEF JournalInv, FlagIsMeant, GivenUpTo
<1>7. /\ done' \in [accepted : SUBSET (1..Len(journal)), rejected : SUBSET (1..Len(journal)),
                    early : SUBSET (1..Len(journal))]
      /\ Outcomes' = Outcomes \cup {n}
      /\ (done.accepted \cup done.rejected)' \subseteq done.accepted \cup done.rejected \cup {n}
  <2>1. CASE ~oversized /\ kind = "good"
    <3>1. done' = [done EXCEPT !.accepted = @ \cup {n}]
      BY <1>2, <2>1
    <3> QED BY <1>1, <1>4, <3>1 DEF Outcomes
  <2>2. CASE ~(~oversized /\ kind = "good") /\ cursor = NoPosition
    <3>1. done' = [done EXCEPT !.early = @ \cup {n}]
      BY <1>2, <2>2
    <3> QED BY <1>1, <1>4, <3>1 DEF Outcomes
  <2>3. CASE ~(~oversized /\ kind = "good") /\ cursor # NoPosition
    <3>1. done' = [done EXCEPT !.rejected = @ \cup {n}]
      BY <1>2, <2>3
    <3> QED BY <1>1, <1>4, <3>1 DEF Outcomes
  <2> QED BY <2>1, <2>2, <2>3
<1>8. JournalTyped'
  <2>1. cursor' \in 0..Len(journal) \cup {NoPosition}
    BY <1>1, <1>2 DEF JournalInv, JournalTyped
  <2>2. journal' \in Seq({"good", "unknown", "bad", "long"}) /\ Len(journal') <= JournalRecords
    BY <1>2 DEF JournalInv, JournalTyped
  <2>3. follow'.at <= Len(journal') /\ oversized' \in BOOLEAN /\ journal' = journal
    <3>1. oversized' = FALSE /\ journal' = journal
      BY <1>2
    <3>2. n <= Len(journal)
      BY <1>1
    <3> QED BY <1>3, <3>1, <3>2
  <2>4. NoPosition' = NoPosition
    BY DEF NoPosition
  <2> QED BY <1>3, <1>7, <2>1, <2>2, <2>3, <2>4 DEF JournalTyped
<1>9. FlagIsMeant'
  BY <1>2 DEF FlagIsMeant
<1>10. PositionIsKept'
  <2>1. CASE cursor' = n
    BY <1>1, <1>2, <1>3, <2>1 DEF PositionIsKept
  <2>2. CASE cursor' = cursor /\ (oversized \/ kind \in {"bad", "long"})
    <3> SUFFICES ASSUME cursor # NoPosition, NEW x \in cursor + 1..n
        PROVE cursor <= n /\ journal[x] \in {"bad", "long"}
      BY <1>1, <1>2, <1>3, <1>5, <2>2 DEF PositionIsKept, NoPosition
    <3>1. x = n \/ x \in cursor + 1..follow.at
      BY <1>1, <1>5
    <3>2. kind \in {"bad", "long"}
      BY <1>6, <2>2
    <3> QED BY <1>1, <1>5, <3>1, <3>2 DEF JournalInv, PositionIsKept
  <2> QED BY <1>1, <1>2, <2>1, <2>2
<1>11. NoneIsMissed'
  <2>1. cursor' = NoPosition => cursor = NoPosition /\ ~(~oversized /\ kind = "good")
    BY <1>2, <1>5
  <2>2. cursor' = NoPosition => done'.accepted = {} /\ done'.rejected = {}
    BY <1>2, <1>4, <2>1 DEF JournalInv, NoneIsMissed
  <2>3. ASSUME NEW m \in done'.accepted \cup done'.rejected, NEW x \in 1..Len(journal),
               m < x, x <= cursor' \/ x <= n
        PROVE  x \in Outcomes'
    <3>1. cursor' # NoPosition
      BY <2>2, <2>3
    <3>2. cursor' \in Nat /\ cursor' <= n
      BY <1>1, <1>2, <1>5, <3>1
    <3>3. x \in Nat /\ x <= n
      BY <1>1, <2>3, <3>2
    <3>4. CASE x = n
      BY <1>7, <3>4
    <3>5. CASE x # n
      <4>1. x <= follow.at /\ m # n
        BY <1>1, <2>3, <3>3, <3>5
      <4>2. m \in done.accepted \cup done.rejected
        BY <1>7, <2>3, <4>1
      <4> QED BY <1>1, <1>7, <2>3, <4>1, <4>2 DEF JournalInv, NoneIsMissed
    <3> QED BY <3>4, <3>5
  <2> QED BY <1>2, <1>3, <2>2, <2>3 DEF NoneIsMissed, NoPosition
<1>12. \A x \in done'.rejected : journal'[x] # "good"
  <2>1. done'.rejected = done.rejected \/ (done'.rejected = done.rejected \cup {n} /\ kind # "good")
    BY <1>2, <1>4, <1>6
  <2> QED BY <1>2, <2>1 DEF JournalInv
<1> QED BY <1>8, <1>9, <1>10, <1>11, <1>12 DEF JournalInv

\* No step of another input changes the journal.
LEMMA JournalKeeps ==
  ASSUME JournalInv, [MCNext]_mcvars
  PROVE  JournalInv'
<1>1. CASE Journal!Next
  BY <1>1, LogKeeps, StartKeeps, OverflowKeeps, LineKeeps, EndKeeps DEF Journal!Next
<1>2. CASE UNCHANGED inJournal
  BY <1>2 DEF inJournal, JournalInv, JournalTyped, FlagIsMeant, PositionIsKept, NoneIsMissed,
              GivenUpTo, Outcomes, NoPosition
<1> QED BY <1>1, <1>2 DEF MCNext, mcvars

\* A journal of any length: once a position is kept, no record that can be taken is
\* rejected for a neighbour that is too long, and no restart of journalctl or of
\* the collector passes a record over.
THEOREM JournalRecordsAreTaken == MCSpec => []JournalIsTaken
<1>1. MCInit => JournalInv
  BY JournalInit DEF MCInit
<1>2. JournalInv /\ [MCNext]_mcvars => JournalInv'
  BY JournalKeeps
<1>3. JournalInv => JournalIsTaken
  BY DEF JournalIsTaken, Journal!RecordsAreTaken, JournalInv, NoneIsMissed, Outcomes
<1> QED BY <1>1, <1>2, <1>3, PTL DEF MCSpec
=====
