----------------------------- MODULE ParallelScan -----------------------------
(***************************************************************************)
(* The parallel scan shared by the five flat-file table functions          *)
(* (src/src/include/idoc_multifile.hpp, src/src/idoc_reader.cpp,           *)
(* src/src/idoc_typed_reader.cpp).  Threads claim whole files from an      *)
(* atomic cursor, stream one file at a time, and fill output chunks of a   *)
(* bounded number of rows; a record's fields may span chunks.              *)
(*                                                                         *)
(* Threads share only next_file; every other variable is thread local.     *)
(* DuckDB calls the scan function of a thread again and again until it     *)
(* returns an empty chunk, and cancels the query when a call throws.       *)
(*                                                                         *)
(* A file is what RecordFeed promises of it: its records and whether a     *)
(* malformed rest follows them.                                            *)
(***************************************************************************)
EXTENDS Naturals, Sequences, FiniteSets

CONSTANTS
  NumberOfThreads,       \* of DuckDB's task scheduler
  Files,                 \* the resolved, sorted file list, with contents
  Reader,                \* the table function that is called
  Segment,               \* sap_idoc_read_segment: the wanted segment
  Fields,                \* the dictionary: number of fields of each segment it has
  IncludeUnknown,        \* sap_idoc_read_fields: rows for other segments too
  STANDARD_VECTOR_SIZE   \* rows of a chunk

Readers == {"raw", "control", "data", "segment", "fields"}

\* A record is its segment name ("" for a control record); bad is the field
\* whose value makes the reader throw (an invalid byte, an invalid number with
\* strict := true), 0 if there is none.
Record == [segnam : STRING, bad : Nat]

\* The segment name of a data record too short to hold one (a cut-off line, read
\* leniently): GetFieldRaw throws at the first field that is asked for.
CutOff == "(cut off)"

FileContent == [kind : {"flat", "xml", "missing"}, records : Seq(Record), fails : BOOLEAN]

ASSUME ScanAssumption ==
  /\ NumberOfThreads \in Nat \ {0}
  /\ Files \in Seq(FileContent)
  /\ Reader \in Readers
  /\ IncludeUnknown \in BOOLEAN
  /\ STANDARD_VECTOR_SIZE \in Nat \ {0}
  /\ \A s \in DOMAIN Fields : Fields[s] \in Nat \ {0}
  /\ CutOff \notin DOMAIN Fields \cup {Segment}
  /\ \A f \in DOMAIN Files : \A i \in DOMAIN Files[f].records :
       Files[f].records[i].segnam = CutOff => Files[f].records[i].bad = 1

File == 1..Len(Files)

\* MakeIdocGlobal: not more threads than files, at least one.
MaxThreads ==
  IF Len(Files) < NumberOfThreads
  THEN IF Len(Files) = 0 THEN 1 ELSE Len(Files)
  ELSE NumberOfThreads
Thread == 1..MaxThreads

\* Only the control reader takes IDoc-XML.
AllowXmlControl == Reader = "control"

\* The number of rows a reader makes of a record; 0 for the records it skips.  A data
\* record is skipped by its segment name, and one too short for it is not: the reader
\* throws before it knows.
RowsOf(record) ==
  LET isControl == record.segnam = ""
  IN  CASE Reader = "raw"     -> 1
        [] Reader = "control" -> IF isControl THEN 1 ELSE 0
        [] Reader = "data"    -> IF isControl THEN 0 ELSE 1
        [] Reader = "segment" -> IF record.segnam \in {Segment, CutOff} /\ ~isControl THEN 1 ELSE 0
        [] Reader = "fields"  -> IF isControl THEN 0
                                 ELSE IF record.segnam \in DOMAIN Fields
                                 THEN Fields[record.segnam]
                                 ELSE IF IncludeUnknown \/ record.segnam = CutOff THEN 1 ELSE 0

\* sap_idoc_read_raw hands out bytes and decodes nothing.
Throws(record, field) == Reader # "raw" /\ record.bad = field

-----------------------------------------------------------------------------
VARIABLES
  next_file,     \* the shared cursor: files claimed so far, and claims in vain
  active,        \* a file is open
  current_file,  \* the file claimed last, 0 before the first
  source,        \* the file the streamer (or the parsed XML) reads, 0 if reset
  position,      \* the records taken from it
  pending,       \* the record peeked at: [file, record]
  has_pending,
  field_cursor,  \* the fields of the pending record already written
  out_row,       \* the rows written to the current chunk
  emitted,       \* the rows written so far, in all chunks
  pc

local == <<active, current_file, source, position, pending, has_pending, field_cursor>>
vars == <<next_file, active, current_file, source, position, pending, has_pending,
          field_cursor, out_row, emitted, pc>>

NoRecord == [file |-> 0, record |-> 0]

Init ==
  /\ next_file = 0
  /\ active = [t \in Thread |-> FALSE]
  /\ current_file = [t \in Thread |-> 0]
  /\ source = [t \in Thread |-> 0]
  /\ position = [t \in Thread |-> 0]
  /\ pending = [t \in Thread |-> NoRecord]
  /\ has_pending = [t \in Thread |-> FALSE]
  /\ field_cursor = [t \in Thread |-> 0]
  /\ out_row = [t \in Thread |-> 0]
  /\ emitted = [t \in Thread |-> <<>>]
  /\ pc = [t \in Thread |-> "idle"]

Goto(t, place) == pc' = [pc EXCEPT ![t] = place]

\* A call of the scan function threw: the query fails.
Failed == \E t \in Thread : pc[t] = "failed"

\* (Mutant) the field cursor belongs to the call, not to the record.
StartOver(t) ==
  /\ pc[t] = "idle"
  /\ ~Failed
  /\ out_row' = [out_row EXCEPT ![t] = 0]
  /\ field_cursor' = [field_cursor EXCEPT ![t] = 0]
  /\ Goto(t, "peek")
  /\ UNCHANGED <<next_file, active, current_file, source, position, pending, has_pending, emitted>>

\* DuckDB calls the scan function for the next chunk.
StartChunk(t) ==
  /\ pc[t] = "idle"
  /\ ~Failed
  /\ out_row' = [out_row EXCEPT ![t] = 0]
  /\ Goto(t, "peek")
  /\ UNCHANGED <<next_file, local, emitted>>

\* (Mutant) the loop does not look at the rows of the chunk.
PeekUnbounded(t) ==
  /\ pc[t] = "peek"
  /\ Goto(t, CASE has_pending[t] -> "row"
               [] ~has_pending[t] /\ active[t] -> "next"
               [] OTHER -> "claim")
  /\ UNCHANGED <<next_file, local, out_row, emitted>>

\* (Mutant) a record is given up at the end of the chunk.
PeekForgets(t) ==
  /\ pc[t] = "peek"
  /\ Goto(t, CASE out_row[t] >= STANDARD_VECTOR_SIZE -> "return"
               [] out_row[t] < STANDARD_VECTOR_SIZE /\ active[t] -> "next"
               [] OTHER -> "claim")
  /\ UNCHANGED <<next_file, local, out_row, emitted>>

\* The scan loop's condition, and the start of IdocPeek.
Peek(t) ==
  /\ pc[t] = "peek"
  /\ Goto(t, CASE out_row[t] >= STANDARD_VECTOR_SIZE -> "return"
               [] out_row[t] < STANDARD_VECTOR_SIZE /\ has_pending[t] -> "row"
               [] out_row[t] < STANDARD_VECTOR_SIZE /\ ~has_pending[t] /\ active[t] -> "next"
               [] OTHER -> "claim")
  /\ UNCHANGED <<next_file, local, out_row, emitted>>

\* (Mutant) an increment that is not atomic may be lost.
FetchThenAdd == next_file' \in {next_file, next_file + 1}

\* The shared cursor is an atomic.
FetchAdd == next_file' = next_file + 1

\* IdocOpenNextFile: fetch_add on the shared cursor, and the local reset.
Claim(t) ==
  /\ pc[t] = "claim"
  /\ FetchAdd
  /\ IF next_file >= Len(Files)
     THEN /\ Goto(t, "return")
          /\ UNCHANGED local
     ELSE /\ Goto(t, "open")
          /\ current_file' = [current_file EXCEPT ![t] = next_file + 1]
          /\ source' = [source EXCEPT ![t] = 0]
          /\ position' = [position EXCEPT ![t] = 0]
          /\ has_pending' = [has_pending EXCEPT ![t] = FALSE]
          /\ field_cursor' = [field_cursor EXCEPT ![t] = 0]
          /\ UNCHANGED <<active, pending>>
  /\ UNCHANGED <<out_row, emitted>>

\* A file that cannot be opened by this reader.  IDoc-XML is parsed as a whole.
Unopenable(f) ==
  \/ Files[f].kind = "missing"
  \/ Files[f].kind = "xml" /\ (~AllowXmlControl \/ Files[f].fails)

\* The rest of IdocOpenNextFile: open the file, look at its prefix.
Open(t) ==
  /\ pc[t] = "open"
  /\ IF Unopenable(current_file[t])
     THEN /\ Goto(t, "failed")
          /\ UNCHANGED local
     ELSE /\ Goto(t, "next")
          /\ source' = [source EXCEPT ![t] = current_file[t]]
          /\ active' = [active EXCEPT ![t] = TRUE]
          /\ UNCHANGED <<current_file, position, pending, has_pending, field_cursor>>
  /\ UNCHANGED <<next_file, out_row, emitted>>

\* IdocPeek: the next record of the open file; at its end, the next file.
NextRecord(t) ==
  /\ pc[t] = "next"
  /\ LET content == Files[source[t]]
     IN  IF position[t] < Len(content.records)
         THEN /\ Goto(t, "row")
              /\ position' = [position EXCEPT ![t] = @ + 1]
              /\ pending' = [pending EXCEPT ![t] = [file |-> source[t], record |-> position[t] + 1]]
              /\ has_pending' = [has_pending EXCEPT ![t] = TRUE]
              /\ field_cursor' = [field_cursor EXCEPT ![t] = 0]
              /\ UNCHANGED <<active, current_file, source>>
         ELSE /\ Goto(t, IF content.fails THEN "failed" ELSE "claim")
              /\ active' = IF content.fails THEN active ELSE [active EXCEPT ![t] = FALSE]
              /\ UNCHANGED <<current_file, source, position, pending, has_pending, field_cursor>>
  /\ UNCHANGED <<next_file, out_row, emitted>>

PendingRecord(t) == Files[pending[t].file].records[pending[t].record]

\* IdocConsume.
Consume(t) ==
  /\ has_pending' = [has_pending EXCEPT ![t] = FALSE]
  /\ field_cursor' = [field_cursor EXCEPT ![t] = 0]

\* (Mutant) the record is passed over without IdocConsume.
SkipForever(t) ==
  /\ pc[t] = "row"
  /\ RowsOf(PendingRecord(t)) = 0
  /\ Goto(t, "peek")
  /\ UNCHANGED <<next_file, local, out_row, emitted>>

\* (Mutant) the first record that is skipped ends the file.
SkipRest(t) ==
  /\ pc[t] = "row"
  /\ RowsOf(PendingRecord(t)) = 0
  /\ Consume(t)
  /\ active' = [active EXCEPT ![t] = FALSE]
  /\ Goto(t, "peek")
  /\ UNCHANGED <<next_file, current_file, source, position, pending, out_row, emitted>>

\* The scan loop's body for a record the reader skips.
Skip(t) ==
  /\ pc[t] = "row"
  /\ RowsOf(PendingRecord(t)) = 0
  /\ Consume(t)
  /\ Goto(t, "peek")
  /\ UNCHANGED <<next_file, active, current_file, source, position, pending, out_row, emitted>>

\* (Mutant) the filename is looked up with the shared cursor.
RowByCursor(t) ==
  [filename |-> next_file, file |-> pending[t].file, record |-> pending[t].record,
   field |-> field_cursor[t] + 1]

\* The next row of the pending record, tagged with the current file.
RowOf(t) ==
  [filename |-> current_file[t], file |-> pending[t].file, record |-> pending[t].record,
   field |-> field_cursor[t] + 1]

\* The record is written, or its fields are, until the record or the chunk is
\* full.
Emit(t) ==
  /\ pc[t] = "row"
  /\ field_cursor[t] < RowsOf(PendingRecord(t))
  /\ ~Throws(PendingRecord(t), field_cursor[t] + 1)
  /\ emitted' = [emitted EXCEPT ![t] = Append(@, RowOf(t))]
  /\ out_row' = [out_row EXCEPT ![t] = @ + 1]
  /\ IF field_cursor[t] + 1 >= RowsOf(PendingRecord(t))
     THEN Consume(t) /\ Goto(t, "peek")
     ELSE /\ field_cursor' = [field_cursor EXCEPT ![t] = @ + 1]
          /\ Goto(t, IF out_row[t] + 1 < STANDARD_VECTOR_SIZE THEN "row" ELSE "peek")
          /\ UNCHANGED has_pending
  /\ UNCHANGED <<next_file, active, current_file, source, position, pending>>

\* (Mutant) a record with a value that cannot be decoded is dropped.
DecodeSkip(t) ==
  /\ pc[t] = "row"
  /\ field_cursor[t] < RowsOf(PendingRecord(t))
  /\ Throws(PendingRecord(t), field_cursor[t] + 1)
  /\ Consume(t)
  /\ Goto(t, "peek")
  /\ UNCHANGED <<next_file, active, current_file, source, position, pending, out_row, emitted>>

\* A value of the record cannot be decoded.
DecodeError(t) ==
  /\ pc[t] = "row"
  /\ field_cursor[t] < RowsOf(PendingRecord(t))
  /\ Throws(PendingRecord(t), field_cursor[t] + 1)
  /\ Goto(t, "failed")
  /\ UNCHANGED <<next_file, local, out_row, emitted>>

\* (Mutant) an empty chunk does not end the thread's scan.
ReturnAgain(t) ==
  /\ pc[t] = "return"
  /\ Goto(t, "idle")
  /\ UNCHANGED <<next_file, local, out_row, emitted>>

\* The scan function returns its chunk; an empty one ends the thread's scan.
Return(t) ==
  /\ pc[t] = "return"
  /\ Goto(t, IF out_row[t] = 0 THEN "done" ELSE "idle")
  /\ UNCHANGED <<next_file, local, out_row, emitted>>

Step(t) ==
  \/ StartChunk(t) \/ Peek(t) \/ Claim(t) \/ Open(t) \/ NextRecord(t)
  \/ Skip(t) \/ Emit(t) \/ DecodeError(t) \/ Return(t)

Next == \E t \in Thread : Step(t)

\* DuckDB schedules every thread of the scan until it is done.
Spec == Init /\ [][Next]_vars /\ \A t \in Thread : WF_vars(Step(t))

-----------------------------------------------------------------------------
(* Properties.                                                             *)

Pc == {"idle", "peek", "claim", "open", "next", "row", "return", "done", "failed"}

Row == [filename : File, file : File, record : Nat, field : Nat]

\* The shared cursor and the members of IdocLocalState have their types; a
\* pending record is one of the file list.
TypeOK ==
  /\ next_file \in Nat
  /\ active \in [Thread -> BOOLEAN]
  /\ current_file \in [Thread -> File \cup {0}]
  /\ source \in [Thread -> File \cup {0}]
  /\ position \in [Thread -> Nat]
  /\ pending \in [Thread -> [file : File, record : Nat] \cup {NoRecord}]
  /\ has_pending \in [Thread -> BOOLEAN]
  /\ field_cursor \in [Thread -> Nat]
  /\ out_row \in [Thread -> 0..STANDARD_VECTOR_SIZE]
  /\ emitted \in [Thread -> Seq(Row)]
  /\ pc \in [Thread -> Pc]

\* The files whose rows a thread has written or may write.
Touched(t) == ({current_file[t]} \ {0}) \cup {emitted[t][i].filename : i \in DOMAIN emitted[t]}

\* One file, one thread: no two threads ever read the same entry of the list
\* (the atomic fetch_add of IdocOpenNextFile).
OneReaderPerFile ==
  \A t, u \in Thread : t # u => Touched(t) \cap Touched(u) = {}

\* The filename column names the file the record was read from (current_file
\* is set on claiming, read when the row is written, across chunks).
FilenameIsSource ==
  \A t \in Thread : \A i \in DOMAIN emitted[t] : emitted[t][i].filename = emitted[t][i].file

\* Row r comes before row s: in an earlier file, record or field.
Before(r, s) ==
  \/ r.filename < s.filename
  \/ r.filename = s.filename /\ r.record < s.record
  \/ r.filename = s.filename /\ r.record = s.record /\ r.field < s.field

\* A thread writes rows in file order, and none twice, also when the fields of
\* a record span chunks (pending and field_cursor).
RowsInOrder ==
  \A t \in Thread : \A i, j \in DOMAIN emitted[t] :
    i < j => Before(emitted[t][i], emitted[t][j])

\* Row k of record i of file f is written.
Written(f, i, k) ==
  \E t \in Thread : \E n \in DOMAIN emitted[t] :
    emitted[t][n] = [filename |-> f, file |-> f, record |-> i, field |-> k]

\* No row is lost: when every thread got its empty chunk, every row the reader
\* makes of every file was written.
NoRowLost ==
  (\A t \in Thread : pc[t] = "done") =>
    \A f \in File : \A i \in DOMAIN Files[f].records :
      \A k \in 1..RowsOf(Files[f].records[i]) :
        Written(f, i, k)

\* A thread claims in vain at most twice (a last chunk with rows, then the
\* empty one), so the shared cursor stays near the length of the list.
CursorBounded == next_file <= Len(Files) + 2 * MaxThreads

\* The scan ends: every thread runs out of files, or the query fails.
Terminates == <>(Failed \/ \A t \in Thread : pc[t] = "done")

-----------------------------------------------------------------------------
(* The inductive invariant behind the safety properties.                   *)

\* Where a thread is, against its file and its pending record.
ThreadState(t) ==
  /\ current_file[t] <= next_file
  /\ pc[t] = "open" => current_file[t] \in File
  /\ pc[t] \in {"claim", "open", "next"} => ~has_pending[t]
  /\ pc[t] = "next" => active[t]
  /\ pc[t] = "row" => has_pending[t]
  /\ pc[t] \in {"claim", "open"} => ~active[t]
  /\ pc[t] \in {"claim", "open", "next", "row"} => out_row[t] < STANDARD_VECTOR_SIZE
  /\ active[t] => current_file[t] \in File /\ source[t] = current_file[t]
  /\ has_pending[t] =>
       /\ active[t]
       /\ pending[t] = [file |-> current_file[t], record |-> position[t]]
       /\ position[t] \in DOMAIN Files[current_file[t]].records
       /\ field_cursor[t] < RowsOf(PendingRecord(t)) \/ RowsOf(PendingRecord(t)) = 0
  /\ pc[t] = "return" /\ out_row[t] = 0 => ~active[t] /\ next_file >= Len(Files)
  /\ pc[t] = "done" => ~active[t] /\ next_file >= Len(Files)

\* What a thread wrote lies behind its cursor.
Behind(t) ==
  \A i \in DOMAIN emitted[t] :
    LET r == emitted[t][i]
    IN  /\ r.filename <= current_file[t]
        /\ r.filename = current_file[t] => r.record <= position[t]
        /\ r.filename = current_file[t] /\ r.record = position[t] /\ has_pending[t]
             => r.field <= field_cursor[t]

\* Row k of record i of file f lies ahead of a thread's cursor.
Ahead(t, f, i, k) ==
  /\ current_file[t] = f
  /\ i > position[t] \/ (i = position[t] /\ has_pending[t] /\ k > field_cursor[t])

\* A claimed file's rows are written or lie ahead of the thread reading it.
Accounted ==
  \A f \in File : f <= next_file => \A i \in DOMAIN Files[f].records :
    \A k \in 1..RowsOf(Files[f].records[i]) :
      Written(f, i, k) \/ \E t \in Thread : Ahead(t, f, i, k)

\* A thread leaves a file only when it took all its records.
Exhausted(t) ==
  ~active[t] /\ pc[t] \notin {"open", "failed"} /\ current_file[t] # 0
    => position[t] >= Len(Files[current_file[t]].records)

IndInv ==
  /\ TypeOK
  /\ \A t \in Thread : ThreadState(t)
  /\ \A t \in Thread : Behind(t)
  /\ \A t \in Thread : Exhausted(t)
  /\ OneReaderPerFile
  /\ FilenameIsSource
  /\ RowsInOrder
  /\ Accounted

-----------------------------------------------------------------------------
(* Refinement of ScanResult.                                               *)

\* The first n rows of record i of file f.
RowsOfRecord(f, i, n) ==
  [k \in 1..n |-> [filename |-> f, file |-> f, record |-> i, field |-> k]]

\* Some value of the record makes the reader throw.
Stops(record) == \E k \in 1..RowsOf(record) : Throws(record, k)

\* The number of rows before it; of all rows, if there is none.
GoodRows(record) == IF Stops(record) THEN record.bad - 1 ELSE RowsOf(record)

\* The rows a reader makes of the first i records of a file, up to the first value
\* it cannot decode.
RowsUpTo(f) ==
  LET records == Files[f].records
      rows[i \in 0..Len(records)] ==
        IF i = 0 THEN <<>>
        ELSE IF \E j \in 1..(i - 1) : Stops(records[j]) THEN rows[i - 1]
        ELSE rows[i - 1] \o RowsOfRecord(f, i, GoodRows(records[i]))
  IN  rows

\* The rows a reader makes of a file.
ExpectedOf(f) == IF Unopenable(f) THEN <<>> ELSE RowsUpTo(f)[Len(Files[f].records)]

\* Nothing in the file makes the reader throw.
IsReadable(f) ==
  /\ ~Unopenable(f)
  /\ ~Files[f].fails
  /\ \A i \in DOMAIN Files[f].records : ~Stops(Files[f].records[i])

\* The rows of file f among the first i of rows s.
OfFileUpTo(s, f) ==
  LET rows[i \in 0..Len(s)] ==
        IF i = 0 THEN <<>>
        ELSE IF s[i].filename = f THEN Append(rows[i - 1], s[i])
        ELSE rows[i - 1]
  IN  rows

OfFile(s, f) == OfFileUpTo(s, f)[Len(s)]

\* The rows of the chunks a thread has returned.
Returned(t) ==
  IF pc[t] \in {"idle", "done"} THEN emitted[t]
  ELSE SubSeq(emitted[t], 1, Len(emitted[t]) - out_row[t])

\* The parts of the first n threads, one after the other.
JoinedUpTo(parts) ==
  LET joined[n \in 0..MaxThreads] ==
        IF n = 0 THEN <<>> ELSE joined[n - 1] \o parts[n]
  IN  joined

\* The returned rows of a file, over all threads.
ReturnedOf(f) == JoinedUpTo([t \in Thread |-> OfFile(Returned(t), f)])[MaxThreads]

Result == INSTANCE ScanResult WITH
            Expected <- [f \in File |-> ExpectedOf(f)],
            Readable <- {f \in File : IsReadable(f)},
            result   <- [f \in File |-> ReturnedOf(f)],
            status   <- IF Failed THEN "failed"
                        ELSE IF \A t \in Thread : pc[t] = "done" THEN "done"
                        ELSE "running"

\* The scan delivers every row of every file exactly once and in file order; it
\* succeeds only when all rows were delivered and fails only when a file cannot
\* be read to its end.
ImplementsResult == Result!Spec

=============================================================================
