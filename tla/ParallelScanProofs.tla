-------------------------- MODULE ParallelScanProofs --------------------------
(***************************************************************************)
(* The safety properties of ParallelScan, for every number of threads,     *)
(* every file list, every reader and every chunk size.                     *)
(*                                                                         *)
(* The inductive invariant IndInv is proved in two layers: first the       *)
(* thread-local facts (LocalInv), which no other thread can disturb        *)
(* because next_file only grows; then what relates the written rows to the *)
(* cursors, which uses the first layer.  WalkInv adds to it that the rows  *)
(* written of a file are exactly those behind the cursor of its thread,    *)
(* from which the scan implements ScanResult.                              *)
(***************************************************************************)
EXTENDS ParallelScan, InductionLemmas, FiniteSetTheorems, SequenceTheorems, TLAPS

LocalInv ==
  /\ TypeOK
  /\ \A t \in Thread : ThreadState(t)

-----------------------------------------------------------------------------
(* Facts about the constants.                                              *)

\* The contents of a file have their type.
LEMMA FileFacts ==
  ASSUME NEW f \in File
  PROVE  /\ Files[f] \in FileContent
         /\ Files[f].records \in Seq(Record)
         /\ Len(Files[f].records) \in Nat
         /\ DOMAIN Files[f].records = 1..Len(Files[f].records)
<1>1. Files[f] \in FileContent
  BY ScanAssumption DEF File
<1>2. Files[f].records \in Seq(Record)
  BY <1>1 DEF FileContent
<1> QED
  BY <1>1, <1>2

\* A reader makes a number of rows of each record.
LEMMA RowsOfNat ==
  ASSUME NEW r \in Record
  PROVE  RowsOf(r) \in Nat
<1>1. \A s \in DOMAIN Fields : Fields[s] \in Nat
  BY ScanAssumption
<1>2. Reader \in Readers
  BY ScanAssumption
<1> QED
  BY <1>1, <1>2 DEF RowsOf, Readers

\* The numbers of files and threads, and the size of a chunk.
LEMMA ConstantFacts ==
  /\ Len(Files) \in Nat
  /\ STANDARD_VECTOR_SIZE \in Nat
  /\ STANDARD_VECTOR_SIZE > 0
BY ScanAssumption

-----------------------------------------------------------------------------
(* The thread-local layer.                                                 *)

\* Before the first call every thread is idle, without a file.
LEMMA LocalInit == Init => LocalInv
BY ConstantFacts DEF Init, LocalInv, TypeOK, ThreadState, NoRecord, Pc, File

\* What one step of thread t keeps of the types.
LEMMA LocalType ==
  ASSUME NEW t \in Thread, TypeOK, ThreadState(t), Step(t)
  PROVE  TypeOK'
<1>1. CASE StartChunk(t)
  BY <1>1, ConstantFacts DEF StartChunk, TypeOK, Pc, Goto, local
<1>2. CASE Peek(t)
  <2>1. pc' \in [Thread -> Pc]
    BY <1>2 DEF Peek, TypeOK, Pc, Goto
  <2> QED
    BY <1>2, <2>1 DEF Peek, TypeOK, local
<1>3. CASE Claim(t)
  <2>1. next_file' \in Nat
    BY <1>3 DEF Claim, FetchAdd, TypeOK
  <2>2. pc' \in [Thread -> Pc]
    <3>1. pc' = [pc EXCEPT ![t] = "return"] \/ pc' = [pc EXCEPT ![t] = "open"]
      BY <1>3 DEF Claim, Goto
    <3> QED
      BY <3>1 DEF TypeOK, Pc
  <2>3. CASE next_file >= Len(Files)
    BY <1>3, <2>1, <2>2, <2>3 DEF Claim, FetchAdd, TypeOK, local
  <2>4. CASE ~(next_file >= Len(Files))
    <3>1. next_file + 1 \in File
      BY <2>4, ConstantFacts DEF TypeOK, File
    <3>2. /\ current_file' \in [Thread -> File \cup {0}]
          /\ source' \in [Thread -> File \cup {0}]
      BY <1>3, <2>4, <3>1 DEF Claim, FetchAdd, TypeOK
    <3>3. position' \in [Thread -> Nat]
      BY <1>3, <2>4 DEF Claim, FetchAdd, TypeOK
    <3>4. field_cursor' \in [Thread -> Nat]
      BY <1>3, <2>4 DEF Claim, FetchAdd, TypeOK
    <3>5. has_pending' \in [Thread -> BOOLEAN]
      BY <1>3, <2>4 DEF Claim, FetchAdd, TypeOK
    <3> QED
      BY <1>3, <2>1, <2>2, <2>4, <3>2, <3>3, <3>4, <3>5 DEF Claim, FetchAdd, TypeOK
  <2> QED
    BY <2>3, <2>4
<1>4. CASE Open(t)
  BY <1>4 DEF Open, TypeOK, Pc, Goto, local
<1>5. CASE NextRecord(t)
  <2>1. source[t] \in File
    BY <1>5 DEF NextRecord, ThreadState
  <2>2. pc' \in [Thread -> Pc]
    BY <1>5 DEF NextRecord, TypeOK, Pc, Goto
  <2>3. CASE position[t] < Len(Files[source[t]].records)
    <3> DEFINE rec == [file |-> source[t], record |-> position[t] + 1]
    <3>1. rec \in [file : File, record : Nat]
      BY <2>1 DEF TypeOK
    <3>2. /\ pending' = [pending EXCEPT ![t] = rec]
          /\ position' = [position EXCEPT ![t] = position[t] + 1]
          /\ field_cursor' = [field_cursor EXCEPT ![t] = 0]
      BY <1>5, <2>3 DEF NextRecord
    <3>3. pending' \in [Thread -> [file : File, record : Nat] \cup {NoRecord}]
      BY <3>1, <3>2 DEF TypeOK
    <3>4. position' \in [Thread -> Nat] /\ field_cursor' \in [Thread -> Nat]
      BY <3>2 DEF TypeOK
    <3>5. has_pending' \in [Thread -> BOOLEAN]
      BY <1>5, <2>3 DEF NextRecord, TypeOK
    <3> QED
      BY <1>5, <2>2, <2>3, <3>3, <3>4, <3>5 DEF NextRecord, TypeOK
  <2>4. CASE ~(position[t] < Len(Files[source[t]].records))
    BY <1>5, <2>2, <2>4 DEF NextRecord, TypeOK
  <2> QED
    BY <2>3, <2>4
<1>6. CASE Skip(t)
  BY <1>6 DEF Skip, Consume, TypeOK, Pc, Goto, local
<1>7. CASE Emit(t)
  <2> DEFINE row == [filename |-> current_file[t], file |-> pending[t].file,
                     record |-> pending[t].record, field |-> field_cursor[t] + 1]
  <2>1. /\ current_file[t] \in File
        /\ out_row[t] < STANDARD_VECTOR_SIZE
        /\ pending[t] = [file |-> current_file[t], record |-> position[t]]
    BY <1>7 DEF Emit, RowOf, ThreadState
  <2>2. row \in Row
    BY <2>1 DEF Row, TypeOK
  <2>3. emitted' = [emitted EXCEPT ![t] = Append(emitted[t], row)]
    BY <1>7 DEF Emit, RowOf
  <2>4. emitted' \in [Thread -> Seq(Row)]
    BY <2>2, <2>3 DEF TypeOK
  <2>5. out_row' \in [Thread -> 0..STANDARD_VECTOR_SIZE]
    BY <1>7, <2>1, ConstantFacts DEF Emit, RowOf, TypeOK
  <2>6. pc' \in [Thread -> Pc]
    BY <1>7 DEF Emit, RowOf, TypeOK, Pc, Goto, local
  <2>7. has_pending' \in [Thread -> BOOLEAN]
    BY <1>7 DEF Emit, RowOf, Consume, TypeOK
  <2>8. field_cursor' \in [Thread -> Nat]
    BY SMTT(30), <1>7 DEF Emit, RowOf, Consume, TypeOK
  <2> QED
    BY <1>7, <2>4, <2>5, <2>6, <2>7, <2>8 DEF Emit, RowOf, TypeOK
<1>8. CASE DecodeError(t)
  BY <1>8 DEF DecodeError, TypeOK, Pc, Goto, local
<1>9. CASE Return(t)
  BY <1>9 DEF Return, TypeOK, Pc, Goto, local
<1> QED
  BY <1>1, <1>2, <1>3, <1>4, <1>5, <1>6, <1>7, <1>8, <1>9 DEF Step

\* A step of thread t leaves the locals of every other thread alone.
LEMMA Frame ==
  ASSUME TypeOK, NEW t \in Thread, Step(t), NEW u \in Thread, u # t
  PROVE  /\ active'[u] = active[u]
         /\ current_file'[u] = current_file[u]
         /\ source'[u] = source[u]
         /\ position'[u] = position[u]
         /\ pending'[u] = pending[u]
         /\ has_pending'[u] = has_pending[u]
         /\ field_cursor'[u] = field_cursor[u]
         /\ out_row'[u] = out_row[u]
         /\ emitted'[u] = emitted[u]
         /\ pc'[u] = pc[u]
<1>1. CASE StartChunk(t)
  BY <1>1 DEF StartChunk, TypeOK, Goto, local
<1>2. CASE Peek(t)
  BY <1>2 DEF Peek, TypeOK, Goto, local
<1>3. CASE Claim(t)
  BY <1>3 DEF Claim, FetchAdd, TypeOK, Goto, local
<1>4. CASE Open(t)
  BY <1>4 DEF Open, TypeOK, Goto, local
<1>5. CASE NextRecord(t)
  BY <1>5 DEF NextRecord, TypeOK, Goto
<1>6. CASE Skip(t)
  BY <1>6 DEF Skip, Consume, TypeOK, Goto
<1>7. CASE Emit(t)
  BY <1>7 DEF Emit, RowOf, Consume, TypeOK, Goto
<1>8. CASE DecodeError(t)
  BY <1>8 DEF DecodeError, Goto, TypeOK, local
<1>9. CASE Return(t)
  BY <1>9 DEF Return, Goto, TypeOK, local
<1> QED
  BY <1>1, <1>2, <1>3, <1>4, <1>5, <1>6, <1>7, <1>8, <1>9 DEF Step

\* The shared cursor never goes back.
LEMMA CursorGrows ==
  ASSUME TypeOK, NEW t \in Thread, Step(t)
  PROVE  next_file' = next_file \/ (next_file' = next_file + 1 /\ Claim(t))
BY DEF Step, StartChunk, Peek, Claim, FetchAdd, Open, NextRecord, Skip, Emit, RowOf, DecodeError, Return

\* Another thread's state is as good after the step as before.
LEMMA OtherThread ==
  ASSUME TypeOK, NEW t \in Thread, Step(t), NEW u \in Thread, u # t, ThreadState(u)
  PROVE  ThreadState(u)'
<1>1. next_file \in Nat /\ current_file[u] \in Nat
  BY DEF TypeOK, File
<1>2. next_file <= next_file' /\ next_file' \in Nat
  BY <1>1, CursorGrows
<1> QED
  BY SMTT(30), <1>1, <1>2, Frame, ConstantFacts DEF ThreadState, PendingRecord

\* The pending record is a record of its file, and the reader makes a number of
\* rows of it.
LEMMA PendingFacts ==
  ASSUME TypeOK, NEW t \in Thread, ThreadState(t), has_pending[t]
  PROVE  /\ current_file[t] \in File
         /\ pending[t].file = current_file[t]
         /\ pending[t].record = position[t]
         /\ PendingRecord(t) = Files[current_file[t]].records[position[t]]
         /\ PendingRecord(t) \in Record
         /\ RowsOf(PendingRecord(t)) \in Nat
<1>1. /\ current_file[t] \in File
      /\ pending[t].file = current_file[t]
      /\ pending[t].record = position[t]
      /\ position[t] \in DOMAIN Files[current_file[t]].records
  BY DEF ThreadState
<1>2. PendingRecord(t) = Files[current_file[t]].records[position[t]]
  BY <1>1 DEF PendingRecord
<1>3. PendingRecord(t) \in Record
  BY <1>1, <1>2, FileFacts
<1> QED
  BY <1>1, <1>2, <1>3, RowsOfNat

\* The thread that steps keeps its own state consistent.
LEMMA OwnThread ==
  ASSUME TypeOK, NEW t \in Thread, Step(t), ThreadState(t)
  PROVE  ThreadState(t)'
<1>1. CASE StartChunk(t)
  BY <1>1, ConstantFacts DEF StartChunk, Goto, local, TypeOK, ThreadState, PendingRecord
<1>2. CASE Peek(t)
  BY <1>2, ConstantFacts DEF Peek, Goto, local, TypeOK, ThreadState, PendingRecord
<1>3. CASE Claim(t)
  BY SMTT(30), <1>3, ConstantFacts DEF Claim, FetchAdd, Goto, local, TypeOK, ThreadState, PendingRecord, File
<1>4. CASE Open(t)
  BY <1>4 DEF Open, Goto, local, TypeOK, ThreadState, PendingRecord
<1>5. CASE NextRecord(t)
  <2>1. /\ source[t] = current_file[t] /\ current_file[t] \in File /\ active[t]
        /\ current_file[t] <= next_file /\ ~has_pending[t]
        /\ out_row[t] < STANDARD_VECTOR_SIZE
    BY <1>5 DEF NextRecord, ThreadState
  <2>2. CASE position[t] < Len(Files[source[t]].records)
    <3> DEFINE rec == Files[source[t]].records[position[t] + 1]
    <3>1. /\ position[t] + 1 \in DOMAIN Files[source[t]].records
          /\ rec \in Record
      BY <2>1, <2>2, FileFacts DEF TypeOK
    <3>2. RowsOf(rec) \in Nat
      BY <3>1, RowsOfNat
    <3>3. /\ pc'[t] = "row" /\ has_pending'[t] /\ field_cursor'[t] = 0
          /\ position'[t] = position[t] + 1
          /\ pending'[t] = [file |-> source[t], record |-> position[t] + 1]
          /\ UNCHANGED <<active, current_file, source, next_file, out_row>>
      BY <1>5, <2>2 DEF NextRecord, Goto, TypeOK
    <3>4. PendingRecord(t)' = rec
      BY <3>3 DEF PendingRecord
    <3>5. (field_cursor[t] < RowsOf(PendingRecord(t)) \/ RowsOf(PendingRecord(t)) = 0)'
      BY <3>2, <3>3, <3>4
    <3> QED
      BY <2>1, <3>1, <3>3, <3>5 DEF ThreadState
  <2>3. CASE ~(position[t] < Len(Files[source[t]].records))
    BY <1>5, <2>1, <2>3 DEF NextRecord, Goto, TypeOK, ThreadState, PendingRecord
  <2> QED
    BY <2>2, <2>3
<1>6. CASE Skip(t)
  BY <1>6 DEF Skip, Consume, Goto, TypeOK, ThreadState, PendingRecord
<1>7. CASE Emit(t)
  <2>1. /\ has_pending[t] /\ out_row[t] < STANDARD_VECTOR_SIZE
        /\ out_row[t] \in Nat /\ field_cursor[t] \in Nat
    BY <1>7 DEF Emit, RowOf, ThreadState, TypeOK
  <2>2. RowsOf(PendingRecord(t)) \in Nat /\ PendingRecord(t)' = PendingRecord(t)
    BY <1>7, <2>1, PendingFacts DEF Emit, RowOf, PendingRecord
  <2>3. /\ out_row'[t] = out_row[t] + 1
        /\ UNCHANGED <<next_file, active, current_file, source, position, pending>>
    BY <1>7 DEF Emit, RowOf, TypeOK
  <2>4. CASE field_cursor[t] + 1 >= RowsOf(PendingRecord(t))
    <3>1. pc'[t] = "peek" /\ ~has_pending'[t]
      BY <1>7, <2>4 DEF Emit, RowOf, Consume, Goto, TypeOK
    <3> QED
      BY <2>3, <3>1 DEF ThreadState
  <2>5. CASE ~(field_cursor[t] + 1 >= RowsOf(PendingRecord(t)))
    <3>1. /\ pc'[t] = IF out_row[t] + 1 < STANDARD_VECTOR_SIZE THEN "row" ELSE "peek"
          /\ field_cursor'[t] = field_cursor[t] + 1
          /\ has_pending'[t] = has_pending[t]
      BY <1>7, <2>5 DEF Emit, RowOf, Goto, TypeOK
    <3>2. (field_cursor[t] < RowsOf(PendingRecord(t)))'
      BY <2>1, <2>2, <2>5, <3>1
    <3> QED
      BY <2>1, <2>3, <3>1, <3>2 DEF ThreadState
  <2> QED
    BY <2>4, <2>5
<1>8. CASE DecodeError(t)
  BY <1>8 DEF DecodeError, Goto, local, TypeOK, ThreadState, PendingRecord
<1>9. CASE Return(t)
  BY <1>9, ConstantFacts DEF Return, Goto, local, TypeOK, ThreadState, PendingRecord
<1> QED
  BY <1>1, <1>2, <1>3, <1>4, <1>5, <1>6, <1>7, <1>8, <1>9 DEF Step

\* TypeOK and the state of every thread are invariant.
LEMMA LocalStep == LocalInv /\ [Next]_vars => LocalInv'
<1> SUFFICES ASSUME LocalInv, [Next]_vars
             PROVE  LocalInv'
  OBVIOUS
<1>1. ASSUME NEW t \in Thread, Step(t)
      PROVE  LocalInv'
  <2>1. TypeOK /\ ThreadState(t)
    BY DEF LocalInv
  <2>2. TypeOK'
    BY <1>1, <2>1, LocalType
  <2>3. ASSUME NEW u \in Thread
        PROVE  ThreadState(u)'
    BY <1>1, <2>1, OwnThread, OtherThread DEF LocalInv
  <2> QED
    BY <2>2, <2>3 DEF LocalInv
<1>2. CASE UNCHANGED vars
  BY <1>2 DEF LocalInv, TypeOK, ThreadState, PendingRecord, vars
<1> QED
  BY <1>1, <1>2 DEF Next

\* Every variable keeps its type: the members of IdocGlobalState and
\* IdocLocalState, the chunk never overfilled, a row only for listed files.
THEOREM ScanTypeCorrect == Spec => []TypeOK
<1>1. LocalInv => TypeOK
  BY DEF LocalInv
<1> QED
  BY <1>1, LocalInit, LocalStep, PTL DEF Spec

-----------------------------------------------------------------------------
(* Written rows.                                                           *)

\* Rows have their type.
LEMMA RowTypes ==
  ASSUME TypeOK, NEW t \in Thread
  PROVE  /\ Len(emitted[t]) \in Nat
         /\ DOMAIN emitted[t] = 1..Len(emitted[t])
         /\ \A i \in DOMAIN emitted[t] :
              /\ emitted[t][i] \in Row
              /\ emitted[t][i].filename \in Nat
              /\ emitted[t][i].filename \in File
              /\ emitted[t][i].record \in Nat
              /\ emitted[t][i].field \in Nat
         /\ current_file[t] \in Nat /\ position[t] \in Nat /\ field_cursor[t] \in Nat
         /\ next_file \in Nat
<1>1. emitted[t] \in Seq(Row)
  BY DEF TypeOK
<1>2. \A i \in DOMAIN emitted[t] : emitted[t][i] \in Row
  BY <1>1
<1>3. \A r \in Row : r.filename \in File /\ r.filename \in Nat /\ r.record \in Nat /\ r.field \in Nat
  BY DEF Row, File
<1>4. current_file[t] \in Nat /\ position[t] \in Nat /\ field_cursor[t] \in Nat /\ next_file \in Nat
  BY DEF TypeOK, File
<1> QED
  BY <1>1, <1>2, <1>3, <1>4

\* Only Emit writes, and only its own thread's rows.
LEMMA NothingWritten ==
  ASSUME NEW t \in Thread, Step(t), ~Emit(t)
  PROVE  emitted' = emitted
BY DEF Step, StartChunk, Peek, Claim, FetchAdd, Open, NextRecord, Skip, DecodeError, Return

\* The row Emit writes is that of the pending record, tagged with its file.
LEMMA RowWritten ==
  ASSUME TypeOK, NEW t \in Thread, ThreadState(t), Emit(t)
  PROVE  /\ Len(emitted'[t]) = Len(emitted[t]) + 1
         /\ DOMAIN emitted'[t] = 1..(Len(emitted[t]) + 1)
         /\ \A i \in 1..Len(emitted[t]) : emitted'[t][i] = emitted[t][i]
         /\ emitted'[t][Len(emitted[t]) + 1].filename = current_file[t]
         /\ emitted'[t][Len(emitted[t]) + 1].record = position[t]
         /\ emitted'[t][Len(emitted[t]) + 1].field = field_cursor[t] + 1
         /\ emitted'[t][Len(emitted[t]) + 1]
              = [filename |-> current_file[t], file |-> current_file[t],
                 record |-> position[t], field |-> field_cursor[t] + 1]
<1> DEFINE row == [filename |-> current_file[t], file |-> pending[t].file,
                   record |-> pending[t].record, field |-> field_cursor[t] + 1]
<1>1. emitted[t] \in Seq(Row)
  BY DEF TypeOK
<1>2. emitted'[t] = Append(emitted[t], row)
  BY DEF Emit, RowOf, TypeOK
<1>3. pending[t].file = current_file[t] /\ pending[t].record = position[t]
  BY PendingFacts DEF Emit, RowOf, ThreadState
<1> QED
  BY <1>1, <1>2, <1>3

\* Emit moves the field cursor on, or is done with the record.
LEMMA EmitCursor ==
  ASSUME TypeOK, NEW t \in Thread, ThreadState(t), Emit(t)
  PROVE  /\ has_pending[t]
         /\ UNCHANGED <<current_file[t], position[t], next_file>>
         /\ \/ field_cursor[t] + 1 >= RowsOf(PendingRecord(t)) /\ ~has_pending'[t]
            \/ field_cursor'[t] = field_cursor[t] + 1 /\ has_pending'[t]
<1>1. has_pending[t] /\ UNCHANGED <<current_file, position, next_file>>
  BY DEF Emit, RowOf, ThreadState
<1>2. CASE field_cursor[t] + 1 >= RowsOf(PendingRecord(t))
  <2>1. has_pending' = [has_pending EXCEPT ![t] = FALSE]
    BY <1>2 DEF Emit, RowOf, Consume
  <2>2. ~has_pending'[t]
    BY <2>1 DEF TypeOK
  <2> QED
    BY <1>1, <1>2, <2>2
<1>3. CASE ~(field_cursor[t] + 1 >= RowsOf(PendingRecord(t)))
  <2>1. /\ field_cursor' = [field_cursor EXCEPT ![t] = field_cursor[t] + 1]
        /\ has_pending' = has_pending
    BY <1>3 DEF Emit, RowOf
  <2>2. field_cursor'[t] = field_cursor[t] + 1
    BY <2>1 DEF TypeOK
  <2> QED
    BY <1>1, <2>1, <2>2
<1> QED
  BY <1>2, <1>3

\* What a step does to the cursor of its thread.
LEMMA CursorStep ==
  ASSUME TypeOK, NEW t \in Thread, Step(t), ThreadState(t)
  PROVE  \/ /\ ~Emit(t)
            /\ UNCHANGED <<current_file[t], position[t], has_pending[t], field_cursor[t]>>
            /\ next_file <= next_file'
         \/ /\ Claim(t) /\ next_file < Len(Files) /\ next_file' = next_file + 1
            /\ current_file'[t] = next_file + 1 /\ position'[t] = 0
         \/ /\ NextRecord(t) /\ ~has_pending[t] /\ has_pending'[t]
            /\ current_file'[t] = current_file[t] /\ position'[t] = position[t] + 1
            /\ field_cursor'[t] = 0 /\ next_file' = next_file
         \/ /\ Skip(t) /\ ~has_pending'[t] /\ RowsOf(PendingRecord(t)) = 0
            /\ UNCHANGED <<current_file[t], position[t], next_file>>
         \/ /\ Emit(t) /\ has_pending[t]
            /\ UNCHANGED <<current_file[t], position[t], next_file>>
            /\ \/ field_cursor[t] + 1 >= RowsOf(PendingRecord(t)) /\ ~has_pending'[t]
               \/ field_cursor'[t] = field_cursor[t] + 1 /\ has_pending'[t]
<1>1. CASE StartChunk(t)
  BY <1>1 DEF StartChunk, Emit, RowOf, TypeOK, local
<1>2. CASE Peek(t)
  BY <1>2 DEF Peek, Emit, RowOf, TypeOK, local
<1>3. CASE Claim(t)
  <2>1. CASE next_file >= Len(Files)
    BY <1>3, <2>1 DEF Claim, FetchAdd, Goto, Emit, RowOf, TypeOK, local
  <2>2. CASE ~(next_file >= Len(Files))
    BY <1>3, <2>2, ConstantFacts DEF Claim, FetchAdd, TypeOK
  <2> QED
    BY <2>1, <2>2
<1>4. CASE Open(t)
  BY <1>4 DEF Open, Emit, RowOf, TypeOK, local
<1>5. CASE NextRecord(t)
  <2>1. CASE position[t] < Len(Files[source[t]].records)
    BY <1>5, <2>1 DEF NextRecord, TypeOK, ThreadState
  <2>2. CASE ~(position[t] < Len(Files[source[t]].records))
    BY <1>5, <2>2 DEF NextRecord, Emit, RowOf, TypeOK
  <2> QED
    BY <2>1, <2>2
<1>6. CASE Skip(t)
  BY <1>6 DEF Skip, Consume, TypeOK
<1>7. CASE Emit(t)
  BY <1>7, EmitCursor
<1>8. CASE DecodeError(t)
  BY <1>8 DEF DecodeError, Emit, RowOf, TypeOK, local
<1>9. CASE Return(t)
  BY <1>9 DEF Return, Emit, RowOf, TypeOK, local
<1> QED
  BY <1>1, <1>2, <1>3, <1>4, <1>5, <1>6, <1>7, <1>8, <1>9 DEF Step

\* Written rows stay behind the cursor of their thread.
LEMMA BehindStep ==
  ASSUME LocalInv, NEW t \in Thread, Step(t), NEW u \in Thread, Behind(u)
  PROVE  Behind(u)'
<1>1. TypeOK /\ ThreadState(t)
  BY DEF LocalInv
<1>2. CASE u # t
  BY <1>1, <1>2, Frame DEF Behind
<1>3. CASE u = t
  <2>1. ASSUME ~Emit(t)
        PROVE  Behind(t)'
    <3> SUFFICES ASSUME NEW i \in DOMAIN emitted[t]
                 PROVE  LET r == emitted[t][i]
                        IN  /\ r.filename <= current_file'[t]
                            /\ r.filename = current_file'[t] => r.record <= position'[t]
                            /\ r.filename = current_file'[t] /\ r.record = position'[t] /\ has_pending'[t]
                                 => r.field <= field_cursor'[t]
      BY <2>1, NothingWritten DEF Behind
    <3>1. /\ emitted[t][i].filename \in Nat /\ emitted[t][i].record \in Nat
          /\ emitted[t][i].field \in Nat
          /\ current_file[t] \in Nat /\ position[t] \in Nat /\ field_cursor[t] \in Nat
          /\ next_file \in Nat /\ current_file[t] <= next_file
      BY <1>1, RowTypes DEF ThreadState
    <3>2. LET r == emitted[t][i]
          IN  /\ r.filename <= current_file[t]
              /\ r.filename = current_file[t] => r.record <= position[t]
              /\ r.filename = current_file[t] /\ r.record = position[t] /\ has_pending[t]
                   => r.field <= field_cursor[t]
      BY <1>3 DEF Behind
    <3>3. \/ UNCHANGED <<current_file[t], position[t], has_pending[t], field_cursor[t]>>
          \/ current_file'[t] = next_file + 1
          \/ current_file'[t] = current_file[t] /\ position'[t] = position[t] + 1
          \/ /\ ~has_pending'[t]
             /\ UNCHANGED <<current_file[t], position[t]>>
      BY <1>1, <2>1, CursorStep
    <3> QED
      BY <3>1, <3>2, <3>3
  <2>2. ASSUME Emit(t)
        PROVE  Behind(t)'
    <3>1. /\ current_file'[t] = current_file[t] /\ position'[t] = position[t]
          /\ has_pending[t]
          /\ has_pending'[t] => field_cursor'[t] = field_cursor[t] + 1
      BY <1>1, <2>2, EmitCursor
    <3>2. /\ DOMAIN emitted'[t] = 1..(Len(emitted[t]) + 1)
          /\ \A i \in 1..Len(emitted[t]) : emitted'[t][i] = emitted[t][i]
          /\ emitted'[t][Len(emitted[t]) + 1].filename = current_file[t]
          /\ emitted'[t][Len(emitted[t]) + 1].record = position[t]
          /\ emitted'[t][Len(emitted[t]) + 1].field = field_cursor[t] + 1
      BY <1>1, <2>2, RowWritten
    <3>3. /\ Len(emitted[t]) \in Nat /\ DOMAIN emitted[t] = 1..Len(emitted[t])
          /\ \A i \in DOMAIN emitted[t] : emitted[t][i].field \in Nat
          /\ current_file[t] \in Nat /\ position[t] \in Nat /\ field_cursor[t] \in Nat
      BY <1>1, RowTypes
    <3>4. \A i \in 1..Len(emitted[t]) :
            /\ emitted[t][i].filename <= current_file[t]
            /\ emitted[t][i].filename = current_file[t] => emitted[t][i].record <= position[t]
            /\ emitted[t][i].filename = current_file[t] /\ emitted[t][i].record = position[t]
                 => emitted[t][i].field <= field_cursor[t]
      BY <1>3, <3>1, <3>3 DEF Behind
    <3> SUFFICES ASSUME NEW i \in DOMAIN emitted'[t]
                 PROVE  LET r == emitted'[t][i]
                        IN  /\ r.filename <= current_file[t]
                            /\ r.filename = current_file[t] => r.record <= position[t]
                            /\ r.filename = current_file[t] /\ r.record = position[t] /\ has_pending'[t]
                                 => r.field <= field_cursor'[t]
      BY <3>1 DEF Behind
    <3>5. CASE i \in 1..Len(emitted[t])
      <4>1. emitted'[t][i] = emitted[t][i] /\ emitted[t][i].field \in Nat
        BY <3>2, <3>3, <3>5
      <4>2. /\ emitted[t][i].filename <= current_file[t]
            /\ emitted[t][i].filename = current_file[t] => emitted[t][i].record <= position[t]
            /\ emitted[t][i].filename = current_file[t] /\ emitted[t][i].record = position[t]
                 => emitted[t][i].field <= field_cursor[t]
        BY <3>4, <3>5
      <4> QED
        BY <3>1, <3>3, <4>1, <4>2
    <3>6. CASE i = Len(emitted[t]) + 1
      BY <3>1, <3>2, <3>3, <3>6
    <3> QED
      BY <3>2, <3>3, <3>5, <3>6
  <2> QED
    BY <1>3, <2>1, <2>2
<1> QED
  BY <1>2, <1>3

\* Rows are written in order.
LEMMA OrderStep ==
  ASSUME LocalInv, \A u \in Thread : Behind(u), RowsInOrder, NEW t \in Thread, Step(t)
  PROVE  RowsInOrder'
<1>1. TypeOK /\ ThreadState(t)
  BY DEF LocalInv
<1>2. ASSUME ~Emit(t)
      PROVE  RowsInOrder'
  BY <1>2, NothingWritten DEF RowsInOrder
<1>3. ASSUME Emit(t)
      PROVE  RowsInOrder'
  <2> SUFFICES ASSUME NEW u \in Thread, NEW i \in DOMAIN emitted'[u],
                      NEW j \in DOMAIN emitted'[u], i < j
               PROVE  Before(emitted'[u][i], emitted'[u][j])
    BY DEF RowsInOrder
  <2>1. CASE u # t
    BY <1>1, <2>1, Frame DEF RowsInOrder
  <2>2. CASE u = t
    <3>1. /\ DOMAIN emitted'[t] = 1..(Len(emitted[t]) + 1)
          /\ \A n \in 1..Len(emitted[t]) : emitted'[t][n] = emitted[t][n]
          /\ emitted'[t][Len(emitted[t]) + 1].filename = current_file[t]
          /\ emitted'[t][Len(emitted[t]) + 1].record = position[t]
          /\ emitted'[t][Len(emitted[t]) + 1].field = field_cursor[t] + 1
      BY <1>1, <1>3, RowWritten
    <3>2. /\ Len(emitted[t]) \in Nat /\ DOMAIN emitted[t] = 1..Len(emitted[t])
          /\ \A n \in DOMAIN emitted[t] :
               /\ emitted[t][n].filename \in Nat /\ emitted[t][n].record \in Nat
               /\ emitted[t][n].field \in Nat
          /\ current_file[t] \in Nat /\ position[t] \in Nat /\ field_cursor[t] \in Nat
      BY <1>1, RowTypes
    <3>3. i \in 1..Len(emitted[t]) /\ j \in 1..(Len(emitted[t]) + 1)
      BY <2>2, <3>1, <3>2
    <3>4. CASE j \in 1..Len(emitted[t])
      BY <2>2, <3>1, <3>2, <3>3, <3>4 DEF RowsInOrder
    <3>5. CASE j = Len(emitted[t]) + 1
      <4>1. has_pending[t]
        BY <1>1, <1>3 DEF Emit, RowOf, ThreadState
      <4>2. LET r == emitted[t][i]
            IN  /\ r.filename <= current_file[t]
                /\ r.filename = current_file[t] => r.record <= position[t]
                /\ r.filename = current_file[t] /\ r.record = position[t]
                     => r.field <= field_cursor[t]
        BY <3>2, <3>3, <4>1 DEF Behind
      <4>3. /\ emitted'[u][i] = emitted[t][i]
            /\ emitted'[u][j].filename = current_file[t]
            /\ emitted'[u][j].record = position[t]
            /\ emitted'[u][j].field = field_cursor[t] + 1
        BY <2>2, <3>1, <3>3, <3>5
      <4>4. /\ emitted[t][i].filename \in Nat /\ emitted[t][i].record \in Nat
            /\ emitted[t][i].field \in Nat
        BY <3>2, <3>3
      <4> QED
        BY SMTT(30), <3>2, <4>2, <4>3, <4>4 DEF Before
    <3>6. j \in 1..Len(emitted[t]) \/ j = Len(emitted[t]) + 1
      BY <3>2, <3>3
    <3> QED
      BY <3>4, <3>5, <3>6
  <2> QED
    BY <2>1, <2>2
<1> QED
  BY <1>2, <1>3


\* The row Emit writes carries the name of the file its record was read from.
LEMMA SourceStep ==
  ASSUME LocalInv, FilenameIsSource, NEW t \in Thread, Step(t)
  PROVE  FilenameIsSource'
<1>1. TypeOK /\ ThreadState(t)
  BY DEF LocalInv
<1>2. ASSUME ~Emit(t)
      PROVE  FilenameIsSource'
  BY <1>2, NothingWritten DEF FilenameIsSource
<1>3. ASSUME Emit(t)
      PROVE  FilenameIsSource'
  <2> SUFFICES ASSUME NEW u \in Thread, NEW i \in DOMAIN emitted'[u]
               PROVE  emitted'[u][i].filename = emitted'[u][i].file
    BY DEF FilenameIsSource
  <2>1. CASE u # t
    BY <1>1, <2>1, Frame DEF FilenameIsSource
  <2>2. CASE u = t
    <3>1. /\ DOMAIN emitted'[t] = 1..(Len(emitted[t]) + 1)
          /\ \A n \in 1..Len(emitted[t]) : emitted'[t][n] = emitted[t][n]
          /\ emitted'[t][Len(emitted[t]) + 1]
               = [filename |-> current_file[t], file |-> current_file[t],
                  record |-> position[t], field |-> field_cursor[t] + 1]
      BY <1>1, <1>3, RowWritten
    <3>2. Len(emitted[t]) \in Nat /\ DOMAIN emitted[t] = 1..Len(emitted[t])
      BY <1>1, RowTypes
    <3>3. CASE i \in 1..Len(emitted[t])
      BY <2>2, <3>1, <3>2, <3>3 DEF FilenameIsSource
    <3>4. CASE i = Len(emitted[t]) + 1
      BY <2>2, <3>1, <3>4
    <3> QED
      BY <2>2, <3>1, <3>2, <3>3, <3>4
  <2> QED
    BY <2>1, <2>2
<1> QED
  BY <1>2, <1>3

-----------------------------------------------------------------------------
(* One reader per file.                                                    *)

\* What a thread touches lies below the shared cursor.
LEMMA TouchedClaimed ==
  ASSUME LocalInv, NEW u \in Thread, Behind(u)
  PROVE  \A f \in Touched(u) : f \in Nat /\ f <= next_file
<1>1. TypeOK /\ current_file[u] <= next_file
  BY DEF LocalInv, ThreadState
<1>2. /\ current_file[u] \in Nat /\ next_file \in Nat
      /\ \A i \in DOMAIN emitted[u] : emitted[u][i].filename \in Nat
  BY <1>1, RowTypes
<1>3. \A i \in DOMAIN emitted[u] : emitted[u][i].filename <= current_file[u]
  BY DEF Behind
<1> QED
  BY <1>1, <1>2, <1>3 DEF Touched

\* A step touches no file but the one it claims.
LEMMA TouchedStep ==
  ASSUME LocalInv, NEW t \in Thread, Step(t)
  PROVE  Touched(t)' \subseteq Touched(t) \cup (IF next_file' = next_file THEN {} ELSE {next_file + 1})
<1>1. TypeOK /\ ThreadState(t)
  BY DEF LocalInv
<1>2. /\ next_file \in Nat /\ current_file[t] \in Nat
      /\ Len(emitted[t]) \in Nat /\ DOMAIN emitted[t] = 1..Len(emitted[t])
  BY <1>1, RowTypes
<1>3. ASSUME Emit(t)
      PROVE  Touched(t)' \subseteq Touched(t)
  <2>1. current_file'[t] = current_file[t] /\ current_file[t] # 0
    <3>1. has_pending[t] /\ current_file'[t] = current_file[t]
      BY <1>1, <1>3, EmitCursor
    <3>2. current_file[t] \in File
      BY <1>1, <3>1 DEF ThreadState
    <3> QED
      BY <3>1, <3>2 DEF File
  <2>2. /\ DOMAIN emitted'[t] = 1..(Len(emitted[t]) + 1)
        /\ \A n \in 1..Len(emitted[t]) : emitted'[t][n] = emitted[t][n]
        /\ emitted'[t][Len(emitted[t]) + 1].filename = current_file[t]
    BY <1>1, <1>3, RowWritten
  <2>3. ASSUME NEW i \in DOMAIN emitted'[t]
        PROVE  emitted'[t][i].filename \in Touched(t)
    <3>1. CASE i \in 1..Len(emitted[t])
      BY <1>2, <2>2, <3>1 DEF Touched
    <3>2. CASE i = Len(emitted[t]) + 1
      BY <2>1, <2>2, <3>2 DEF Touched
    <3> QED
      BY <1>2, <2>2, <3>1, <3>2
  <2>4. current_file'[t] \in Touched(t)
    BY <2>1 DEF Touched
  <2> QED
    BY <2>3, <2>4 DEF Touched
<1>4. ASSUME ~Emit(t)
      PROVE  Touched(t)' \subseteq Touched(t) \cup (IF next_file' = next_file THEN {} ELSE {next_file + 1})
  <2>1. emitted' = emitted
    BY <1>4, NothingWritten
  <2>2. \/ current_file'[t] = current_file[t]
        \/ current_file'[t] = next_file + 1 /\ next_file' # next_file
    BY <1>1, <1>2, <1>4, CursorStep
  <2> QED
    BY <2>1, <2>2 DEF Touched
<1> QED
  BY <1>3, <1>4

\* The atomic cursor gives a file to one thread.
LEMMA ReaderStep ==
  ASSUME LocalInv, \A u \in Thread : Behind(u), OneReaderPerFile, NEW t \in Thread, Step(t)
  PROVE  OneReaderPerFile'
<1>1. TypeOK /\ next_file \in Nat
  BY DEF LocalInv, TypeOK
<1>2. ASSUME NEW u \in Thread, u # t
      PROVE  Touched(u)' = Touched(u) /\ next_file + 1 \notin Touched(u)
  <2>1. Touched(u)' = Touched(u)
    BY <1>1, <1>2, Frame DEF Touched
  <2>2. \A f \in Touched(u) : f \in Nat /\ f <= next_file
    BY TouchedClaimed
  <2> QED
    BY <1>1, <2>1, <2>2
<1>3. Touched(t)' \subseteq Touched(t) \cup {next_file + 1}
  BY TouchedStep
<1> SUFFICES ASSUME NEW u \in Thread, NEW v \in Thread, u # v
             PROVE  Touched(u)' \cap Touched(v)' = {}
  BY DEF OneReaderPerFile
<1>4. Touched(u) \cap Touched(v) = {}
  BY DEF OneReaderPerFile
<1>5. CASE u = t
  BY <1>2, <1>3, <1>4, <1>5
<1>6. CASE v = t
  BY <1>2, <1>3, <1>4, <1>6
<1>7. CASE u # t /\ v # t
  BY <1>2, <1>4, <1>7
<1> QED
  BY <1>5, <1>6, <1>7


-----------------------------------------------------------------------------
(* No row is lost.                                                         *)

\* A thread that closes its file took all its records.
LEMMA ExhaustedStep ==
  ASSUME LocalInv, NEW t \in Thread, Step(t), NEW u \in Thread, Exhausted(u)
  PROVE  Exhausted(u)'
<1>1. TypeOK /\ ThreadState(t)
  BY DEF LocalInv
<1>2. CASE u # t
  BY <1>1, <1>2, Frame DEF Exhausted
<1>3. CASE u = t
  <2>1. CASE StartChunk(t)
    BY <1>1, <1>3, <2>1 DEF StartChunk, Goto, local, TypeOK, Exhausted
  <2>2. CASE Peek(t)
    BY <1>1, <1>3, <2>2 DEF Peek, Goto, local, TypeOK, Exhausted
  <2>3. CASE Claim(t)
    BY <1>1, <1>3, <2>3 DEF Claim, FetchAdd, Goto, local, TypeOK, Exhausted
  <2>4. CASE Open(t)
    BY <1>1, <1>3, <2>4 DEF Open, Goto, local, TypeOK, Exhausted
  <2>5. CASE NextRecord(t)
    <3>1. source[t] = current_file[t]
      BY <1>1, <2>5 DEF NextRecord, ThreadState
    <3>2. CASE position[t] < Len(Files[source[t]].records)
      <4>1. active'[t] = active[t] /\ active[t]
        BY <1>1, <2>5, <3>2 DEF NextRecord, ThreadState
      <4> QED
        BY <1>3, <4>1 DEF Exhausted
    <3>3. CASE ~(position[t] < Len(Files[source[t]].records))
      <4>1. /\ UNCHANGED <<current_file, position>>
            /\ pc'[t] = IF Files[source[t]].fails THEN "failed" ELSE "claim"
        BY <1>1, <2>5, <3>3 DEF NextRecord, Goto, TypeOK
      <4>2. current_file[t] \in File /\ position[t] \in Nat
        BY <1>1, <2>5 DEF NextRecord, ThreadState, TypeOK
      <4>3. Len(Files[current_file[t]].records) \in Nat
        BY <4>2, FileFacts
      <4> QED
        BY <1>3, <3>1, <3>3, <4>1, <4>2, <4>3 DEF Exhausted
    <3> QED
      BY <3>2, <3>3
  <2>6. CASE Skip(t)
    BY <1>1, <1>3, <2>6 DEF Skip, Consume, Goto, TypeOK, ThreadState, Exhausted
  <2>7. CASE Emit(t)
    <3>1. active[t] /\ active' = active
      BY <1>1, <2>7 DEF Emit, RowOf, ThreadState
    <3> QED
      BY <1>3, <3>1 DEF Exhausted
  <2>8. CASE DecodeError(t)
    BY <1>1, <1>3, <2>8 DEF DecodeError, Goto, local, TypeOK, Exhausted
  <2>9. CASE Return(t)
    BY <1>1, <1>3, <2>9 DEF Return, Goto, local, TypeOK, Exhausted
  <2> QED
    BY <2>1, <2>2, <2>3, <2>4, <2>5, <2>6, <2>7, <2>8, <2>9 DEF Step
<1> QED
  BY <1>2, <1>3

\* A written row stays written.
LEMMA WrittenStep ==
  ASSUME LocalInv, NEW t \in Thread, Step(t), NEW f, NEW i, NEW k, Written(f, i, k)
  PROVE  Written(f, i, k)'
<1>1. TypeOK /\ ThreadState(t)
  BY DEF LocalInv
<1>2. PICK u \in Thread : \E n \in DOMAIN emitted[u] :
        emitted[u][n] = [filename |-> f, file |-> f, record |-> i, field |-> k]
  BY DEF Written
<1>3. PICK n \in DOMAIN emitted[u] :
        emitted[u][n] = [filename |-> f, file |-> f, record |-> i, field |-> k]
  BY <1>2
<1>4. n \in DOMAIN emitted'[u] /\ emitted'[u][n] = emitted[u][n]
  <2>1. CASE u # t
    BY <1>1, <2>1, Frame
  <2>2. CASE u = t /\ Emit(t)
    <3>1. /\ DOMAIN emitted'[t] = 1..(Len(emitted[t]) + 1)
          /\ \A m \in 1..Len(emitted[t]) : emitted'[t][m] = emitted[t][m]
      BY <1>1, <2>2, RowWritten
    <3>2. Len(emitted[t]) \in Nat /\ DOMAIN emitted[t] = 1..Len(emitted[t])
      BY <1>1, RowTypes
    <3> QED
      BY <2>2, <3>1, <3>2
  <2>3. CASE ~Emit(t)
    BY <2>3, NothingWritten
  <2> QED
    BY <2>1, <2>2, <2>3
<1> QED
  BY <1>3, <1>4 DEF Written

\* A row ahead of a thread is written next or stays ahead of it.
LEMMA AheadStep ==
  ASSUME LocalInv, NEW t \in Thread, Step(t), Exhausted(t),
         NEW f \in File, NEW i \in DOMAIN Files[f].records,
         NEW k \in 1..RowsOf(Files[f].records[i]), Ahead(t, f, i, k)
  PROVE  Written(f, i, k)' \/ Ahead(t, f, i, k)'
<1>1. TypeOK /\ ThreadState(t)
  BY DEF LocalInv
<1>2. /\ i \in Nat /\ k \in Nat /\ k > 0 /\ f # 0
      /\ position[t] \in Nat /\ field_cursor[t] \in Nat
      /\ Len(Files[f].records) \in Nat /\ i <= Len(Files[f].records)
      /\ RowsOf(Files[f].records[i]) \in Nat
  <2>1. /\ Len(Files[f].records) \in Nat /\ DOMAIN Files[f].records = 1..Len(Files[f].records)
        /\ Files[f].records[i] \in Record
    BY FileFacts
  <2>2. RowsOf(Files[f].records[i]) \in Nat
    BY <2>1, RowsOfNat
  <2> QED
    BY <1>1, <2>1, <2>2, RowTypes DEF File
<1>3. /\ current_file[t] = f
      /\ i > position[t] \/ (i = position[t] /\ has_pending[t] /\ k > field_cursor[t])
  BY DEF Ahead
<1>4. CASE UNCHANGED <<current_file[t], position[t], has_pending[t], field_cursor[t]>>
  BY <1>3, <1>4 DEF Ahead
<1>5. CASE Claim(t)
  <2>1. ~has_pending[t] /\ ~active[t] /\ pc[t] = "claim"
    BY <1>1, <1>5 DEF Claim, FetchAdd, ThreadState
  <2>2. position[t] >= Len(Files[f].records)
    BY <1>2, <1>3, <2>1 DEF Exhausted
  <2> QED
    BY <1>2, <1>3, <2>1, <2>2
<1>6. CASE /\ ~has_pending[t] /\ has_pending'[t]
           /\ current_file'[t] = current_file[t] /\ position'[t] = position[t] + 1
           /\ field_cursor'[t] = 0
  BY <1>2, <1>3, <1>6 DEF Ahead
<1>7. CASE /\ Skip(t) /\ RowsOf(PendingRecord(t)) = 0
           /\ UNCHANGED <<current_file[t], position[t], next_file>>
  <2>1. CASE i > position[t]
    BY <1>3, <1>7, <2>1 DEF Ahead
  <2>2. CASE i = position[t] /\ has_pending[t]
    <3>1. PendingRecord(t) = Files[f].records[i]
      BY <1>1, <1>3, <2>2, PendingFacts
    <3> QED
      BY <1>2, <1>7, <3>1
  <2> QED
    BY <1>3, <2>1, <2>2
<1>8. CASE Emit(t)
  <2>1. /\ has_pending[t]
        /\ UNCHANGED <<current_file[t], position[t], next_file>>
        /\ \/ field_cursor[t] + 1 >= RowsOf(PendingRecord(t)) /\ ~has_pending'[t]
           \/ field_cursor'[t] = field_cursor[t] + 1 /\ has_pending'[t]
    BY <1>1, <1>8, EmitCursor
  <2>2. CASE i > position[t]
    BY <1>3, <2>1, <2>2 DEF Ahead
  <2>3. CASE i = position[t] /\ k = field_cursor[t] + 1
    <3>1. /\ DOMAIN emitted'[t] = 1..(Len(emitted[t]) + 1)
          /\ emitted'[t][Len(emitted[t]) + 1]
               = [filename |-> current_file[t], file |-> current_file[t],
                  record |-> position[t], field |-> field_cursor[t] + 1]
      BY <1>1, <1>8, RowWritten
    <3>2. Len(emitted[t]) + 1 \in DOMAIN emitted'[t]
      BY <1>1, <3>1, RowTypes
    <3> QED
      BY <1>3, <2>3, <3>1, <3>2 DEF Written
  <2>4. CASE i = position[t] /\ k > field_cursor[t] + 1
    <3>1. PendingRecord(t) = Files[f].records[i]
      BY <1>1, <1>3, <2>1, <2>4, PendingFacts
    <3>2. k <= RowsOf(PendingRecord(t)) /\ RowsOf(PendingRecord(t)) \in Nat
      BY <1>2, <3>1
    <3>3. field_cursor'[t] = field_cursor[t] + 1 /\ has_pending'[t]
      BY <1>2, <2>1, <2>4, <3>2
    <3> QED
      BY <1>3, <2>1, <2>4, <3>3 DEF Ahead
  <2> QED
    BY <1>2, <1>3, <2>2, <2>3, <2>4
<1> QED
  BY <1>1, <1>4, <1>5, <1>6, <1>7, <1>8, CursorStep

\* The rows of a claimed file are written or lie ahead of its reader.
LEMMA AccountedStep ==
  ASSUME LocalInv, \A u \in Thread : Exhausted(u), Accounted, NEW t \in Thread, Step(t)
  PROVE  Accounted'
<1>1. TypeOK /\ next_file \in Nat
  BY DEF LocalInv, TypeOK
<1> SUFFICES ASSUME NEW f \in File, f <= next_file',
                    NEW i \in DOMAIN Files[f].records,
                    NEW k \in 1..RowsOf(Files[f].records[i])
             PROVE  Written(f, i, k)' \/ \E u \in Thread : Ahead(u, f, i, k)'
  BY DEF Accounted
<1>2. CASE f <= next_file
  <2>1. CASE Written(f, i, k)
    BY <2>1, WrittenStep
  <2>2. CASE \E u \in Thread : Ahead(u, f, i, k)
    <3>1. PICK u \in Thread : Ahead(u, f, i, k)
      BY <2>2
    <3>2. CASE u = t
      BY <3>1, <3>2, AheadStep
    <3>3. CASE u # t
      BY <1>1, <3>1, <3>3, Frame DEF Ahead
    <3> QED
      BY <3>2, <3>3
  <2> QED
    BY <1>2, <2>1, <2>2 DEF Accounted
<1>3. CASE ~(f <= next_file)
  <2>1. f \in Nat /\ f <= Len(Files) /\ Len(Files) \in Nat
    BY ConstantFacts DEF File
  <2>2. Claim(t) /\ next_file' = next_file + 1
    BY <1>1, <1>3, CursorGrows
  <2>3. f = next_file + 1 /\ ~(next_file >= Len(Files))
    BY <1>1, <1>3, <2>1, <2>2
  <2>4. current_file'[t] = f /\ position'[t] = 0
    BY <1>1, <2>2, <2>3 DEF Claim, FetchAdd, TypeOK
  <2>5. i \in Nat /\ i > 0
    BY FileFacts
  <2> QED
    BY <2>4, <2>5 DEF Ahead
<1> QED
  BY <1>2, <1>3

-----------------------------------------------------------------------------
(* The inductive invariant and the theorems.                               *)

\* The invariant holds before the first call.
LEMMA InvInit == Init => IndInv
<1> SUFFICES ASSUME Init
             PROVE  IndInv
  OBVIOUS
<1>1. TypeOK /\ \A t \in Thread : ThreadState(t)
  BY LocalInit DEF LocalInv
<1>2. \A t \in Thread : emitted[t] = <<>> /\ current_file[t] = 0
  BY DEF Init
<1>3. \A t \in Thread : DOMAIN emitted[t] = {}
  BY <1>2
<1>4. \A t \in Thread : Behind(t)
  BY <1>3 DEF Behind
<1>5. \A t \in Thread : Exhausted(t)
  BY <1>2 DEF Exhausted
<1>6. OneReaderPerFile
  BY <1>2, <1>3 DEF OneReaderPerFile, Touched
<1>7. FilenameIsSource /\ RowsInOrder
  BY <1>3 DEF FilenameIsSource, RowsInOrder
<1>8. Accounted
  BY DEF Accounted, Init, File
<1> QED
  BY <1>1, <1>4, <1>5, <1>6, <1>7, <1>8 DEF IndInv

\* Every step of every thread keeps it.
LEMMA InvStep == IndInv /\ [Next]_vars => IndInv'
<1> SUFFICES ASSUME IndInv, [Next]_vars
             PROVE  IndInv'
  OBVIOUS
<1>1. LocalInv /\ LocalInv'
  BY LocalStep DEF IndInv, LocalInv
<1>2. ASSUME NEW t \in Thread, Step(t)
      PROVE  IndInv'
  <2>1. \A u \in Thread : Behind(u)'
    BY <1>1, <1>2, BehindStep DEF IndInv
  <2>2. \A u \in Thread : Exhausted(u)'
    BY <1>1, <1>2, ExhaustedStep DEF IndInv
  <2>3. OneReaderPerFile'
    BY <1>1, <1>2, ReaderStep DEF IndInv
  <2>4. FilenameIsSource'
    BY <1>1, <1>2, SourceStep DEF IndInv
  <2>5. RowsInOrder'
    BY <1>1, <1>2, OrderStep DEF IndInv
  <2>6. Accounted'
    BY <1>1, <1>2, AccountedStep DEF IndInv
  <2> QED
    BY <1>1, <2>1, <2>2, <2>3, <2>4, <2>5, <2>6 DEF IndInv, LocalInv
<1>3. CASE UNCHANGED vars
  <2>1. (\A u \in Thread : Behind(u))'
    BY <1>3 DEF IndInv, Behind, vars
  <2>2. (\A u \in Thread : Exhausted(u))'
    BY <1>3 DEF IndInv, Exhausted, vars
  <2>3. OneReaderPerFile'
    BY <1>3 DEF IndInv, OneReaderPerFile, Touched, vars
  <2>4. FilenameIsSource'
    BY <1>3 DEF IndInv, FilenameIsSource, vars
  <2>5. RowsInOrder'
    BY <1>3 DEF IndInv, RowsInOrder, vars
  <2>6. Accounted'
    BY <1>3 DEF IndInv, Accounted, Written, Ahead, vars
  <2> QED
    BY <1>1, <2>1, <2>2, <2>3, <2>4, <2>5, <2>6 DEF IndInv, LocalInv
<1> QED
  BY <1>2, <1>3 DEF Next

\* Hence it holds throughout the scan.
LEMMA Invariance == Spec => []IndInv
BY InvInit, InvStep, PTL DEF Spec

\* No two threads read the same entry of the file list: the fetch_add of
\* IdocOpenNextFile hands an index to one of them.
THEOREM ScanOneReaderPerFile == Spec => []OneReaderPerFile
<1>1. IndInv => OneReaderPerFile
  BY DEF IndInv
<1> QED
  BY <1>1, Invariance, PTL

\* The filename column of a row names the file the row was read from.
THEOREM ScanFilenameIsSource == Spec => []FilenameIsSource
<1>1. IndInv => FilenameIsSource
  BY DEF IndInv
<1> QED
  BY <1>1, Invariance, PTL

\* A thread writes its rows in order, none twice, across chunk boundaries.
THEOREM ScanRowsInOrder == Spec => []RowsInOrder
<1>1. IndInv => RowsInOrder
  BY DEF IndInv
<1> QED
  BY <1>1, Invariance, PTL

\* When every thread got its empty chunk, every row of every file was written.
THEOREM ScanNoRowLost == Spec => []NoRowLost
<1>1. IndInv => NoRowLost
  <2> SUFFICES ASSUME IndInv, \A t \in Thread : pc[t] = "done",
                      NEW f \in File, NEW i \in DOMAIN Files[f].records,
                      NEW k \in 1..RowsOf(Files[f].records[i])
               PROVE  Written(f, i, k)
    BY DEF NoRowLost
  <2>1. f \in Nat /\ f # 0 /\ f <= Len(Files) /\ Len(Files) \in Nat /\ next_file \in Nat
    BY ConstantFacts DEF File, IndInv, TypeOK
  <2>2. 1 \in Thread
    BY ScanAssumption, ConstantFacts DEF Thread, MaxThreads
  <2>3. \A t \in Thread : ~active[t] /\ ~has_pending[t] /\ next_file >= Len(Files)
    BY DEF IndInv, ThreadState
  <2>4. f <= next_file
    BY <2>1, <2>2, <2>3
  <2>5. ASSUME NEW t \in Thread
        PROVE  ~Ahead(t, f, i, k)
    <3>1. position[t] \in Nat /\ Len(Files[f].records) \in Nat /\ i \in 1..Len(Files[f].records)
      BY FileFacts DEF IndInv, TypeOK
    <3>2. current_file[t] = f => position[t] >= Len(Files[f].records)
      BY <2>1, <2>3 DEF IndInv, Exhausted
    <3> QED
      BY <2>3, <3>1, <3>2 DEF Ahead
  <2> QED
    BY <2>4, <2>5 DEF IndInv, Accounted
<1> QED
  BY <1>1, Invariance, PTL


-----------------------------------------------------------------------------
(* The cursor beyond the end of the list.                                  *)

\* The claims in vain a thread has behind it for certain: both once it got its empty
\* chunk, one when it has no file and does not look for one with rows in its chunk.
Spent(t) ==
  IF pc[t] = "done" \/ (pc[t] = "return" /\ out_row[t] = 0) THEN 1..2
  ELSE IF ~active[t] /\ (pc[t] \in {"idle", "peek", "return"} \/ (pc[t] = "claim" /\ out_row[t] = 0))
  THEN {1}
  ELSE {}

SpentClaims == {c \in Thread \X (1..2) : c[2] \in Spent(c[1])}

\* A chunk is filled from an open file.
FilledFrom(t) == pc[t] = "peek" /\ out_row[t] > 0 => active[t]

\* Once the list is exhausted the cursor counts claims in vain only.
CursorInv ==
  /\ \A t \in Thread : FilledFrom(t)
  /\ next_file <= Len(Files) + Cardinality(SpentClaims)

\* There are two such claims for each thread.
LEMMA ClaimsBounded ==
  ASSUME NEW S \in SUBSET (Thread \X (1..2))
  PROVE  IsFiniteSet(S) /\ Cardinality(S) \in Nat /\ Cardinality(S) <= 2 * MaxThreads
<1>1. MaxThreads \in Nat
  BY ScanAssumption, ConstantFacts DEF MaxThreads
<1>0. \A n \in Nat : IsFiniteSet(1..n) /\ Cardinality(1..n) = n
  <2> TAKE n \in Nat
  <2>1. IsFiniteSet(1..n) /\ Cardinality(1..n) = IF 1 > n THEN 0 ELSE n - 1 + 1
    BY FS_Interval
  <2> QED
    BY <2>1
<1>2. IsFiniteSet(Thread) /\ Cardinality(Thread) = MaxThreads
  BY <1>0, <1>1 DEF Thread
<1>3. IsFiniteSet(1..2) /\ Cardinality(1..2) = 2
  BY <1>0
<1>4. IsFiniteSet(Thread \X (1..2)) /\ Cardinality(Thread \X (1..2)) = MaxThreads * 2
  BY <1>2, <1>3, FS_Product
<1>5. IsFiniteSet(S) /\ Cardinality(S) <= Cardinality(Thread \X (1..2))
  BY <1>4, FS_Subset
<1>6. Cardinality(S) \in Nat
  BY <1>5, FS_CardinalityType
<1> QED
  BY <1>1, <1>4, <1>5, <1>6

\* Only a row moves the loop on with something in the chunk.
LEMMA FilledStep ==
  ASSUME TypeOK, NEW t \in Thread, ThreadState(t), FilledFrom(t), Step(t)
  PROVE  FilledFrom(t)'
<1>1. CASE StartChunk(t)
  BY <1>1 DEF StartChunk, Goto, TypeOK, FilledFrom
<1>2. CASE Skip(t) \/ Emit(t)
  <2>1. active[t] /\ active' = active
    BY <1>2 DEF Skip, Emit, RowOf, ThreadState
  <2> QED
    BY <2>1 DEF FilledFrom
<1>3. CASE Peek(t) \/ Claim(t) \/ Open(t) \/ NextRecord(t) \/ DecodeError(t) \/ Return(t)
  <2>1. pc'[t] # "peek"
    BY <1>3 DEF Peek, Claim, Open, NextRecord, DecodeError, Return, Goto, TypeOK
  <2> QED
    BY <2>1 DEF FilledFrom
<1> QED
  BY <1>1, <1>2, <1>3 DEF Step

\* A claim in vain is a new one.
LEMMA VainClaim ==
  ASSUME TypeOK, NEW t \in Thread, ThreadState(t), Claim(t), next_file >= Len(Files)
  PROVE  \E k \in 1..2 : k \notin Spent(t) /\ Spent(t)' = Spent(t) \cup {k}
<1>1. /\ pc[t] = "claim" /\ ~active[t] /\ pc'[t] = "return"
      /\ active'[t] = active[t] /\ out_row'[t] = out_row[t] /\ out_row[t] \in Nat
  BY DEF Claim, FetchAdd, Goto, local, TypeOK, ThreadState
<1>2. CASE out_row[t] = 0
  <2>1. Spent(t) = {1} /\ Spent(t)' = 1..2
    BY <1>1, <1>2 DEF Spent
  <2> QED
    BY <2>1
<1>3. CASE out_row[t] # 0
  <2>1. Spent(t) = {} /\ Spent(t)' = {1}
    BY <1>1, <1>3 DEF Spent
  <2> QED
    BY <2>1
<1> QED
  BY <1>2, <1>3

\* Unless it finds a file, a thread keeps what it has spent.
LEMMA SpentKept ==
  ASSUME TypeOK, NEW t \in Thread, ThreadState(t), FilledFrom(t), Step(t), ~Claim(t)
  PROVE  Spent(t) \subseteq Spent(t)'
<1>0. out_row[t] \in Nat
  BY DEF TypeOK
<1>1. CASE StartChunk(t)
  <2>1. /\ pc[t] = "idle" /\ pc'[t] = "peek" /\ active'[t] = active[t]
    BY <1>1 DEF StartChunk, Goto, local, TypeOK
  <2> QED
    BY <2>1 DEF Spent
<1>2. CASE Peek(t)
  <2>1. /\ pc[t] = "peek" /\ active' = active /\ out_row' = out_row
        /\ pc'[t] \in {"return", "row", "next", "claim"}
        /\ pc'[t] \in {"row", "next"} => has_pending[t] \/ active[t]
    BY <1>2 DEF Peek, Goto, local, TypeOK
  <2>2. active[t] \/ out_row[t] = 0
    BY <1>0, <2>1 DEF FilledFrom
  <2>3. has_pending[t] => active[t]
    BY DEF ThreadState
  <2> QED
    BY <2>1, <2>2, <2>3 DEF Spent
<1>3. CASE Open(t) \/ NextRecord(t) \/ Skip(t) \/ Emit(t) \/ DecodeError(t)
  <2>1. pc[t] = "open" \/ pc[t] = "next" \/ pc[t] = "row"
    BY <1>3 DEF Open, NextRecord, Skip, Emit, RowOf, DecodeError
  <2> QED
    BY <2>1 DEF Spent
<1>4. CASE Return(t)
  <2>1. /\ pc[t] = "return" /\ active'[t] = active[t]
        /\ pc'[t] = IF out_row[t] = 0 THEN "done" ELSE "idle"
    BY <1>4 DEF Return, Goto, local, TypeOK
  <2> QED
    BY <2>1 DEF Spent
<1> QED
  BY <1>1, <1>2, <1>3, <1>4 DEF Step

\* The spent claims of the other threads stay.
LEMMA SpentFrame ==
  ASSUME TypeOK, NEW t \in Thread, Step(t), NEW u \in Thread, u # t
  PROVE  Spent(u)' = Spent(u) /\ (FilledFrom(u) => FilledFrom(u)')
BY Frame DEF Spent, FilledFrom

\* Every step counts a claim in vain at most.
LEMMA CursorInvStep ==
  ASSUME LocalInv, LocalInv', CursorInv, NEW t \in Thread, Step(t)
  PROVE  CursorInv'
<1>0. TypeOK /\ ThreadState(t) /\ FilledFrom(t) /\ Len(Files) \in Nat /\ next_file \in Nat
  BY ConstantFacts DEF LocalInv, CursorInv, TypeOK
<1>1. \A u \in Thread : FilledFrom(u)'
  BY <1>0, FilledStep, SpentFrame DEF CursorInv
<1>2. SpentClaims \in SUBSET (Thread \X (1..2)) /\ SpentClaims' \in SUBSET (Thread \X (1..2))
  BY DEF SpentClaims
<1>3. /\ IsFiniteSet(SpentClaims) /\ Cardinality(SpentClaims) \in Nat
      /\ IsFiniteSet(SpentClaims') /\ Cardinality(SpentClaims') \in Nat
  BY <1>2, ClaimsBounded
<1>4. next_file <= Len(Files) + Cardinality(SpentClaims)
  BY DEF CursorInv
<1>5. next_file' <= Len(Files) + Cardinality(SpentClaims')
  <2>1. CASE Claim(t) /\ next_file < Len(Files)
    BY <1>0, <1>3, <2>1, CursorGrows
  <2>2. CASE Claim(t) /\ next_file >= Len(Files)
    <3>1. PICK k \in 1..2 : k \notin Spent(t) /\ Spent(t)' = Spent(t) \cup {k}
      BY <1>0, <2>2, VainClaim
    <3>2. <<t, k>> \notin SpentClaims
      BY <3>1 DEF SpentClaims
    <3>3. \A u \in Thread : u # t => Spent(u)' = Spent(u)
      BY <1>0, SpentFrame
    <3>4. \A c \in Thread \X (1..2) : c[2] \in Spent(c[1])' <=> c[2] \in Spent(c[1]) \/ c = <<t, k>>
      BY <3>1, <3>3
    <3>5. SpentClaims' = {c \in Thread \X (1..2) : c[2] \in Spent(c[1])'}
      BY DEF SpentClaims
    <3>6. SpentClaims' = SpentClaims \cup {<<t, k>>}
      BY <3>4, <3>5 DEF SpentClaims
    <3>7. Cardinality(SpentClaims') = Cardinality(SpentClaims) + 1
      BY <1>3, <3>2, <3>6, FS_AddElement
    <3> QED
      BY <1>0, <1>3, <1>4, <3>7, CursorGrows
  <2>3. CASE ~Claim(t)
    <3>1. Spent(t) \subseteq Spent(t)'
      BY <1>0, <2>3, SpentKept
    <3>2. \A u \in Thread : u # t => Spent(u)' = Spent(u)
      BY <1>0, SpentFrame
    <3>3. \A c \in Thread \X (1..2) : c[2] \in Spent(c[1]) => c[2] \in Spent(c[1])'
      BY <3>1, <3>2
    <3>4. SpentClaims' = {c \in Thread \X (1..2) : c[2] \in Spent(c[1])'}
      BY DEF SpentClaims
    <3>5. SpentClaims \subseteq SpentClaims'
      BY <3>3, <3>4 DEF SpentClaims
    <3>6. Cardinality(SpentClaims) <= Cardinality(SpentClaims')
      BY <1>3, <3>5, FS_Subset
    <3> QED
      BY <1>0, <1>3, <1>4, <2>3, <3>6, CursorGrows
  <2> QED
    BY <1>0, <2>1, <2>2, <2>3
<1> QED
  BY <1>1, <1>5 DEF CursorInv

\* The shared cursor stays near the length of the list: a thread claims in vain at most
\* twice, with rows in its chunk and for the empty chunk (IdocOpenNextFile).
THEOREM ScanCursorBounded == Spec => []CursorBounded
<1>1. Init => CursorInv
  <2> SUFFICES ASSUME Init
               PROVE  CursorInv
    OBVIOUS
  <2>1. SpentClaims \in SUBSET (Thread \X (1..2))
    BY DEF SpentClaims
  <2>2. Cardinality(SpentClaims) \in Nat
    BY <2>1, ClaimsBounded
  <2>3. next_file = 0 /\ \A t \in Thread : pc[t] = "idle"
    BY DEF Init
  <2> QED
    BY <2>2, <2>3, ConstantFacts DEF CursorInv, FilledFrom
<1>2. LocalInv /\ LocalInv' /\ CursorInv /\ [Next]_vars => CursorInv'
  <2> SUFFICES ASSUME LocalInv, LocalInv', CursorInv, [Next]_vars
               PROVE  CursorInv'
    OBVIOUS
  <2>1. CASE UNCHANGED vars
    <3>1. SpentClaims' = SpentClaims
      BY <2>1 DEF SpentClaims, Spent, vars
    <3> QED
      BY <2>1, <3>1 DEF CursorInv, FilledFrom, vars
  <2> QED
    BY <2>1, CursorInvStep DEF Next
<1>3. LocalInv /\ CursorInv => CursorBounded
  <2> SUFFICES ASSUME LocalInv, CursorInv
               PROVE  CursorBounded
    OBVIOUS
  <2>1. SpentClaims \in SUBSET (Thread \X (1..2))
    BY DEF SpentClaims
  <2>2. Cardinality(SpentClaims) \in Nat /\ Cardinality(SpentClaims) <= 2 * MaxThreads
    BY <2>1, ClaimsBounded
  <2>3. MaxThreads \in Nat
    BY ScanAssumption, ConstantFacts DEF MaxThreads
  <2> QED
    BY <2>2, <2>3, ConstantFacts DEF CursorInv, CursorBounded, LocalInv, TypeOK
<1> QED
  BY <1>1, <1>2, <1>3, LocalInit, LocalStep, PTL DEF Spec

-----------------------------------------------------------------------------
(* Refinement: what a thread has written of its files.                     *)

\* The rows of its file that lie behind a thread's cursor.
BehindCursor(t) ==
  LET f == current_file[t]
  IN  IF has_pending[t]
      THEN RowsUpTo(f)[position[t] - 1] \o RowsOfRecord(f, position[t], field_cursor[t])
      ELSE RowsUpTo(f)[position[t]]

\* A thread has met nothing in its file that makes the reader throw, and it left the
\* file only if nothing does.
Clean(t) ==
  current_file[t] # 0 =>
    LET records == Files[current_file[t]].records
    IN  /\ position[t] <= Len(records)
        /\ \A i \in 1..position[t] : Stops(records[i]) => has_pending[t] /\ i = position[t]
        /\ has_pending[t] => field_cursor[t] <= GoodRows(records[position[t]])
        /\ Unopenable(current_file[t]) =>
             position[t] = 0 /\ ~has_pending[t] /\ pc[t] \in {"open", "failed"}
        /\ ~active[t] /\ pc[t] \notin {"open", "failed"} => ~Files[current_file[t]].fails

\* A thread wrote of its file what lies behind its cursor, and a chunk holds rows it wrote.
Walk(t) ==
  /\ current_file[t] # 0 => OfFile(emitted[t], current_file[t]) = BehindCursor(t)
  /\ out_row[t] <= Len(emitted[t])

\* A file is being read by thread t, or thread t alone wrote its rows, all of them.
Owns(t, f) ==
  \/ current_file[t] = f
  \/ /\ \A u \in Thread : current_file[u] # f
     /\ \A u \in Thread \ {t} : OfFile(emitted[u], f) = <<>>
     /\ IsReadable(f)
     /\ OfFile(emitted[t], f) = ExpectedOf(f)

\* Every claimed file has its thread.
Owned == \A f \in File : f <= next_file => \E t \in Thread : Owns(t, f)

\* The invariant behind the refinement.
WalkInv ==
  /\ IndInv
  /\ \A t \in Thread : Clean(t)
  /\ \A t \in Thread : Walk(t)
  /\ Owned

-----------------------------------------------------------------------------
(* Sequences that grow.                                                    *)

\* One sequence is the beginning of another.
PrefixOf(s, u) == Len(s) <= Len(u) /\ \A i \in 1..Len(s) : s[i] = u[i]

\* It is what ScanResult calls a prefix.
LEMMA PrefixIsPrefix ==
  ASSUME NEW S, NEW s \in Seq(S), NEW u \in Seq(S), PrefixOf(s, u)
  PROVE  Result!IsPrefix(s, u)
<1>1. Len(s) <= Len(u) /\ \A i \in 1..Len(s) : s[i] = u[i]
  BY DEF PrefixOf
<1>2. SubSeq(s, 1, Len(s)) = SubSeq(u, 1, Len(s))
  BY <1>1
<1> QED
  BY <1>1, <1>2 DEF Result!IsPrefix

\* A beginning of a beginning is one.
LEMMA PrefixTransitive ==
  ASSUME NEW S, NEW s \in Seq(S), NEW u \in Seq(S), NEW w \in Seq(S),
         PrefixOf(s, u), PrefixOf(u, w)
  PROVE  PrefixOf(s, w)
BY DEF PrefixOf

\* Only the empty sequence is a beginning of the empty sequence.
LEMMA PrefixOfEmpty ==
  ASSUME NEW S, NEW s \in Seq(S), PrefixOf(s, <<>>)
  PROVE  s = <<>>
BY DEF PrefixOf

\* What is put together begins with its first part.
LEMMA PrefixOfJoined ==
  ASSUME NEW S, NEW s \in Seq(S), NEW u \in Seq(S)
  PROVE  PrefixOf(s, s \o u) /\ PrefixOf(s, s)
BY DEF PrefixOf

\* An appended element comes after what was there.
LEMMA PrefixOfAppended ==
  ASSUME NEW S, NEW s \in Seq(S), NEW e \in S
  PROVE  PrefixOf(s, Append(s, e))
BY DEF PrefixOf

\* The functions whose values are sequences that grow with their argument.
Growing(n, S) == {g \in [0..n -> Seq(S)] : \A i \in 1..n : PrefixOf(g[i - 1], g[i])}

\* Such a function grows from any number to any later one.
LEMMA GrowingFacts ==
  ASSUME NEW S, NEW n \in Nat, NEW g \in Growing(n, S), NEW i \in 0..n, NEW j \in 0..n, i <= j
  PROVE  PrefixOf(g[i], g[j])
<1> DEFINE T == {k \in Nat : i <= k /\ k <= n => PrefixOf(g[i], g[k])}
<1>0. g \in [0..n -> Seq(S)] /\ \A k \in 1..n : PrefixOf(g[k - 1], g[k])
  BY DEF Growing
<1>1. PrefixOf(g[i], g[i])
  BY <1>0, PrefixOfJoined
<1>2. 0 \in T
  BY <1>1
<1>3. ASSUME NEW k \in Nat, k \in T
      PROVE  k + 1 \in T
  <2> SUFFICES ASSUME i <= k + 1, k + 1 <= n
               PROVE  PrefixOf(g[i], g[k + 1])
    OBVIOUS
  <2>1. CASE i = k + 1
    BY <1>1, <2>1
  <2>2. CASE i # k + 1
    <3>1. i <= k /\ k <= n /\ k \in 0..n
      BY <2>2
    <3>2. PrefixOf(g[i], g[k])
      BY <1>3, <3>1
    <3>3. PICK m \in 1..n : m = k + 1
      BY <1>3
    <3>4. m - 1 = k /\ m \in 0..n
      BY <3>3
    <3>5. PrefixOf(g[k], g[m])
      BY <1>0, <3>3, <3>4
    <3>6. g[i] \in Seq(S) /\ g[k] \in Seq(S) /\ g[m] \in Seq(S)
      BY <1>0, <3>1, <3>4
    <3>7. PrefixOf(g[i], g[m])
      BY <3>2, <3>5, <3>6, PrefixTransitive
    <3> QED
      BY <3>3, <3>7
  <2> QED
    BY <2>1, <2>2
<1> HIDE DEF T
<1>4. j \in T
  BY <1>2, <1>3, NatSetInduction
<1> QED
  BY <1>4 DEF T

-----------------------------------------------------------------------------
(* The rows of one file among the rows written.                            *)

\* The recursive definition holds: each row of the file is added.
LEMMA OfFileUpToDef ==
  ASSUME NEW s \in Seq(Row), NEW f
  PROVE  /\ OfFileUpTo(s, f) \in [0..Len(s) -> Seq(Row)]
         /\ OfFileUpTo(s, f)[0] = <<>>
         /\ \A i \in 1..Len(s) :
              OfFileUpTo(s, f)[i] = IF s[i].filename = f THEN Append(OfFileUpTo(s, f)[i - 1], s[i])
                                    ELSE OfFileUpTo(s, f)[i - 1]
<1> DEFINE n == Len(s)
           T == Seq(Row)
           step == [x \in T \X Nat |-> IF x[2] \in 1..n /\ s[x[2]].filename = f
                                       THEN Append(x[1], s[x[2]]) ELSE x[1]]
           IsRows(g) == g = [i \in 0..n |-> IF i = 0 THEN <<>>
                                            ELSE IF s[i].filename = f THEN Append(g[i - 1], s[i])
                                            ELSE g[i - 1]]
<1>1. n \in Nat /\ <<>> \in T /\ \A i \in 1..n : s[i] \in Row
  OBVIOUS
<1>2. step \in StepFunctions(T)
  <2>1. ASSUME NEW x \in T \X Nat
        PROVE  (IF x[2] \in 1..n /\ s[x[2]].filename = f THEN Append(x[1], s[x[2]]) ELSE x[1]) \in T
    <3>1. x[1] \in Seq(Row)
      OBVIOUS
    <3>2. CASE x[2] \in 1..n /\ s[x[2]].filename = f
      <4>1. s[x[2]] \in Row
        BY <1>1, <3>2
      <4>2. Append(x[1], s[x[2]]) \in Seq(Row)
        BY <3>1, <4>1
      <4> QED
        BY <3>2, <4>2
    <3>3. CASE ~(x[2] \in 1..n /\ s[x[2]].filename = f)
      BY <3>1, <3>3
    <3> QED
      BY <3>2, <3>3
  <2> QED
    BY <2>1 DEF StepFunctions
<1> HIDE DEF step, n, T
<1>3. PICK g : FollowsUpTo(g, n, T, <<>>, step)
  BY <1>1, <1>2, PrimitiveRecursion
<1>4. g \in [0..n -> T] /\ g[0] = <<>> /\ \A i \in 1..n : g[i] = step[<<g[i - 1], i>>]
  BY <1>3 DEF FollowsUpTo
<1>5. \A i \in 0..n : g[i] = IF i = 0 THEN <<>>
                             ELSE IF s[i].filename = f THEN Append(g[i - 1], s[i])
                             ELSE g[i - 1]
  <2> TAKE i \in 0..n
  <2>1. CASE i = 0
    BY <1>4, <2>1
  <2>2. CASE i # 0
    <3>1. i \in 1..n /\ i - 1 \in 0..n /\ i \in Nat
      BY <1>1, <2>2
    <3>2. <<g[i - 1], i>> \in T \X Nat
      BY <1>4, <3>1
    <3>3. step[<<g[i - 1], i>>] = IF s[i].filename = f THEN Append(g[i - 1], s[i]) ELSE g[i - 1]
      BY <3>1, <3>2 DEF step
    <3> QED
      BY <1>4, <2>2, <3>1, <3>3
  <2> QED
    BY <2>1, <2>2
<1>6. IsRows(g)
  BY <1>4, <1>5
<1>7. OfFileUpTo(s, f) = CHOOSE h : IsRows(h)
  BY DEF OfFileUpTo, n
<1> DEFINE J == OfFileUpTo(s, f)
<1>8. IsRows(J)
  <2> HIDE DEF IsRows
  <2> QED
    BY <1>6, <1>7
<1> HIDE DEF J
<1>9. \A i \in 0..n : J[i] = IF i = 0 THEN <<>>
                             ELSE IF s[i].filename = f THEN Append(J[i - 1], s[i])
                             ELSE J[i - 1]
  BY <1>8
<1>10. DOMAIN J = 0..n /\ J = [i \in DOMAIN J |-> J[i]]
  BY <1>8
<1>11. \A i \in 0..n : J[i] \in T
  <2> DEFINE K == {i \in Nat : i <= n => J[i] \in T}
  <2>1. 0 \in K
    BY <1>1, <1>9
  <2>2. ASSUME NEW i \in Nat, i \in K
        PROVE  i + 1 \in K
    <3> SUFFICES ASSUME i + 1 <= n
                 PROVE  J[i + 1] \in T
      OBVIOUS
    <3>1. PICK m \in 1..n : m = i + 1
      BY <1>1
    <3>2. J[i] \in T /\ m - 1 = i /\ m \in 0..n /\ m # 0
      BY <1>1, <2>2, <3>1
    <3>3. J[m] = IF s[m].filename = f THEN Append(J[i], s[m]) ELSE J[i]
      BY <1>9, <3>2
    <3>4. J[m] \in T
      BY <1>1, <3>2, <3>3 DEF T
    <3> QED
      BY <3>1, <3>4
  <2> HIDE DEF K
  <2>3. Nat \subseteq K
    BY <2>1, <2>2, NatSetInduction
  <2> QED
    BY <1>1, <2>3 DEF K
<1>12. J \in [0..n -> T]
  BY <1>10, <1>11
<1>13. J[0] = <<>>
  BY <1>1, <1>9
<1>14. \A i \in 1..n : J[i] = IF s[i].filename = f THEN Append(J[i - 1], s[i]) ELSE J[i - 1]
  BY <1>1, <1>9
<1> QED
  BY <1>12, <1>13, <1>14 DEF J, T, n

\* The rows of a file are those of the file up to the end.
LEMMA OfFileType ==
  ASSUME NEW s \in Seq(Row), NEW f
  PROVE  OfFile(s, f) \in Seq(Row) /\ (Len(s) = 0 => OfFile(s, f) = <<>>)
<1>1. Len(s) \in 0..Len(s) /\ Len(s) \in Nat
  OBVIOUS
<1>2. OfFileUpTo(s, f) \in [0..Len(s) -> Seq(Row)] /\ OfFileUpTo(s, f)[0] = <<>>
  BY OfFileUpToDef
<1> QED
  BY <1>1, <1>2 DEF OfFile

\* Rows that begin alike have the same rows of a file up to there.
LEMMA OfFileSame ==
  ASSUME NEW s \in Seq(Row), NEW u \in Seq(Row), NEW f, PrefixOf(s, u)
  PROVE  \A i \in 0..Len(s) : OfFileUpTo(s, f)[i] = OfFileUpTo(u, f)[i]
<1> DEFINE S == OfFileUpTo(s, f)
           U == OfFileUpTo(u, f)
           T == {k \in Nat : k <= Len(s) => S[k] = U[k]}
<1>0. /\ Len(s) \in Nat /\ Len(u) \in Nat /\ Len(s) <= Len(u)
      /\ \A i \in 1..Len(s) : i \in 1..Len(u) /\ s[i] = u[i]
  BY DEF PrefixOf
<1>1. S[0] = <<>> /\ \A i \in 1..Len(s) : S[i] = IF s[i].filename = f THEN Append(S[i - 1], s[i]) ELSE S[i - 1]
  BY OfFileUpToDef
<1>2. U[0] = <<>> /\ \A i \in 1..Len(u) : U[i] = IF u[i].filename = f THEN Append(U[i - 1], u[i]) ELSE U[i - 1]
  BY OfFileUpToDef
<1> HIDE DEF S, U
<1>3. 0 \in T
  BY <1>1, <1>2
<1>4. ASSUME NEW k \in Nat, k \in T
      PROVE  k + 1 \in T
  <2> SUFFICES ASSUME k + 1 <= Len(s)
               PROVE  S[k + 1] = U[k + 1]
    OBVIOUS
  <2>1. PICK m \in 1..Len(s) : m = k + 1
    BY <1>0
  <2>2. S[k] = U[k] /\ m - 1 = k
    BY <1>0, <1>4, <2>1
  <2>3. S[m] = IF s[m].filename = f THEN Append(S[k], s[m]) ELSE S[k]
    BY <1>1, <2>2
  <2>4. U[m] = IF u[m].filename = f THEN Append(U[k], u[m]) ELSE U[k]
    BY <1>0, <1>2, <2>2
  <2>5. s[m] = u[m]
    BY <1>0
  <2>6. S[m] = U[m]
    BY <2>2, <2>3, <2>4, <2>5, Zenon
  <2> QED
    BY <2>1, <2>6
<1> HIDE DEF T
<1>5. Nat \subseteq T
  BY <1>3, <1>4, NatSetInduction
<1>6. \A i \in 0..Len(s) : i \in T /\ i <= Len(s)
  BY <1>0, <1>5
<1>7. \A i \in 0..Len(s) : S[i] = U[i]
  BY <1>6 DEF T
<1> QED
  BY <1>7 DEF S, U

\* A written row is added to the rows of its file.
LEMMA OfFileAppend ==
  ASSUME NEW s \in Seq(Row), NEW r \in Row, NEW f
  PROVE  OfFile(Append(s, r), f) = IF r.filename = f THEN Append(OfFile(s, f), r) ELSE OfFile(s, f)
<1> DEFINE u == Append(s, r)
           n == Len(s)
<1>1. u \in Seq(Row) /\ Len(u) = n + 1 /\ u[n + 1] = r /\ n \in Nat /\ n + 1 \in 1..Len(u)
  OBVIOUS
<1>2. PrefixOf(s, u)
  BY PrefixOfAppended
<1> HIDE DEF u
<1>3. OfFileUpTo(u, f)[n + 1] = IF u[n + 1].filename = f THEN Append(OfFileUpTo(u, f)[n + 1 - 1], u[n + 1])
                                ELSE OfFileUpTo(u, f)[n + 1 - 1]
  BY <1>1, OfFileUpToDef
<1>4. n + 1 - 1 = n /\ n \in 0..n
  BY <1>1
<1>5. OfFileUpTo(u, f)[n] = OfFileUpTo(s, f)[n]
  BY <1>1, <1>2, <1>4, OfFileSame
<1>6. OfFile(u, f) = OfFileUpTo(u, f)[n + 1]
  BY <1>1 DEF OfFile
<1>7. OfFile(u, f) = IF r.filename = f THEN Append(OfFileUpTo(s, f)[n], r) ELSE OfFileUpTo(s, f)[n]
  BY <1>1, <1>3, <1>4, <1>5, <1>6
<1> QED
  BY <1>7 DEF OfFile, u, n

\* The rows of a file grow with the rows.
LEMMA OfFileGrows ==
  ASSUME NEW s \in Seq(Row), NEW u \in Seq(Row), NEW f, PrefixOf(s, u)
  PROVE  PrefixOf(OfFile(s, f), OfFile(u, f))
<1> DEFINE U == OfFileUpTo(u, f)
<1>1. /\ U \in [0..Len(u) -> Seq(Row)]
      /\ \A i \in 1..Len(u) : U[i] = IF u[i].filename = f THEN Append(U[i - 1], u[i]) ELSE U[i - 1]
  BY OfFileUpToDef
<1>2. Len(s) \in Nat /\ Len(u) \in Nat /\ Len(s) <= Len(u)
  BY DEF PrefixOf
<1> HIDE DEF U
<1>3. ASSUME NEW i \in 1..Len(u)
      PROVE  PrefixOf(U[i - 1], U[i])
  <2>1. U[i - 1] \in Seq(Row) /\ u[i] \in Row
    BY <1>1, <1>2
  <2>2. PrefixOf(U[i - 1], Append(U[i - 1], u[i])) /\ PrefixOf(U[i - 1], U[i - 1])
    BY <2>1, PrefixOfAppended, PrefixOfJoined
  <2> QED
    BY <1>1, <2>2
<1>4. U \in Growing(Len(u), Row)
  BY <1>1, <1>3 DEF Growing
<1>5. Len(s) \in 0..Len(u) /\ Len(u) \in 0..Len(u) /\ Len(s) \in 0..Len(s)
  BY <1>2
<1>6. PrefixOf(U[Len(s)], U[Len(u)])
  BY <1>2, <1>4, <1>5, GrowingFacts
<1>7. OfFileUpTo(s, f)[Len(s)] = U[Len(s)]
  BY <1>5, OfFileSame DEF U
<1> QED
  BY <1>6, <1>7 DEF OfFile, U

\* Rows of other files are none of this one.
LEMMA OfFileNone ==
  ASSUME NEW s \in Seq(Row), NEW f, \A i \in DOMAIN s : s[i].filename # f
  PROVE  OfFile(s, f) = <<>>
<1> DEFINE S == OfFileUpTo(s, f)
           T == {k \in Nat : k <= Len(s) => S[k] = <<>>}
<1>0. Len(s) \in Nat /\ \A i \in 1..Len(s) : s[i].filename # f
  OBVIOUS
<1>1. S[0] = <<>> /\ \A i \in 1..Len(s) : S[i] = IF s[i].filename = f THEN Append(S[i - 1], s[i]) ELSE S[i - 1]
  BY OfFileUpToDef
<1> HIDE DEF S
<1>2. 0 \in T
  BY <1>1
<1>3. ASSUME NEW k \in Nat, k \in T
      PROVE  k + 1 \in T
  <2> SUFFICES ASSUME k + 1 <= Len(s)
               PROVE  S[k + 1] = <<>>
    OBVIOUS
  <2>1. PICK m \in 1..Len(s) : m = k + 1
    BY <1>0
  <2>2. S[k] = <<>> /\ m - 1 = k
    BY <1>0, <1>3, <2>1
  <2>3. S[m] = S[m - 1]
    BY <1>0, <1>1
  <2> QED
    BY <2>1, <2>2, <2>3
<1> HIDE DEF T
<1>4. Len(s) \in T
  BY <1>0, <1>2, <1>3, NatSetInduction
<1> QED
  BY <1>0, <1>4 DEF T, OfFile, S

-----------------------------------------------------------------------------
(* The rows expected of a file.                                            *)

\* What stops a reader in a record is the first value it cannot decode.
LEMMA GoodRowsFacts ==
  ASSUME NEW r \in Record
  PROVE  /\ GoodRows(r) \in Nat /\ RowsOf(r) \in Nat /\ GoodRows(r) <= RowsOf(r)
         /\ ~Stops(r) => GoodRows(r) = RowsOf(r)
         /\ RowsOf(r) = 0 => ~Stops(r)
         /\ \A k \in 1..RowsOf(r) : Throws(r, k) => Stops(r)
         /\ \A c \in Nat : c < RowsOf(r) /\ c <= GoodRows(r) /\ ~Throws(r, c + 1) =>
              /\ c + 1 <= GoodRows(r)
              /\ c + 1 >= RowsOf(r) => ~Stops(r)
<1>1. RowsOf(r) \in Nat
  BY RowsOfNat
<1>2. CASE Stops(r)
  <2>1. PICK k \in 1..RowsOf(r) : Throws(r, k)
    BY <1>2 DEF Stops
  <2>2. Reader # "raw" /\ r.bad = k /\ k \in Nat /\ k >= 1 /\ k <= RowsOf(r)
    BY <1>1, <2>1 DEF Throws
  <2>3. GoodRows(r) = k - 1
    BY <1>2, <2>2 DEF GoodRows
  <2>4. ASSUME NEW c \in Nat, c < RowsOf(r), c <= GoodRows(r), ~Throws(r, c + 1)
        PROVE  c + 1 <= GoodRows(r) /\ c + 1 < RowsOf(r)
    <3>1. c + 1 # k
      BY <2>2, <2>4 DEF Throws
    <3> QED
      BY <1>1, <2>2, <2>3, <2>4, <3>1
  <2>5. RowsOf(r) # 0
    BY <1>1, <2>2
  <2>6. GoodRows(r) \in Nat /\ GoodRows(r) <= RowsOf(r)
    BY <1>1, <2>2, <2>3
  <2>7. \A c \in Nat : c < RowsOf(r) /\ c <= GoodRows(r) /\ ~Throws(r, c + 1) =>
          c + 1 <= GoodRows(r) /\ (c + 1 >= RowsOf(r) => ~Stops(r))
    <3> TAKE c \in Nat
    <3> HAVE c < RowsOf(r) /\ c <= GoodRows(r) /\ ~Throws(r, c + 1)
    <3>1. c + 1 <= GoodRows(r) /\ c + 1 < RowsOf(r)
      BY <2>4
    <3> QED
      BY <1>1, <3>1
  <2> QED
    BY <1>1, <1>2, <2>5, <2>6, <2>7
<1>3. CASE ~Stops(r)
  <2>1. GoodRows(r) = RowsOf(r)
    BY <1>3 DEF GoodRows
  <2>2. \A k \in 1..RowsOf(r) : ~Throws(r, k)
    BY <1>3 DEF Stops
  <2> QED
    BY <1>1, <1>3, <2>1, <2>2
<1> QED
  BY <1>2, <1>3

\* The rows of a record have their type, and come one after the other.
LEMMA RecordRowsFacts ==
  ASSUME NEW f \in File, NEW i \in Nat, NEW n \in Nat
  PROVE  /\ RowsOfRecord(f, i, n) \in Seq(Row)
         /\ Len(RowsOfRecord(f, i, n)) = n
         /\ \A k \in 1..n : RowsOfRecord(f, i, n)[k] = [filename |-> f, file |-> f, record |-> i, field |-> k]
<1>1. \A k \in 1..n : [filename |-> f, file |-> f, record |-> i, field |-> k] \in Row
  BY DEF Row
<1>2. RowsOfRecord(f, i, n) \in [1..n -> Row]
  BY <1>1 DEF RowsOfRecord
<1>3. RowsOfRecord(f, i, n) \in Seq(Row) /\ Len(RowsOfRecord(f, i, n)) = n
  BY <1>2
<1> QED
  BY <1>3 DEF RowsOfRecord

\* Nothing is added for no row.
LEMMA NoRecordRows ==
  ASSUME NEW f \in File, NEW i \in Nat, NEW s \in Seq(Row)
  PROVE  s \o RowsOfRecord(f, i, 0) = s
<1>1. RowsOfRecord(f, i, 0) \in Seq(Row) /\ Len(RowsOfRecord(f, i, 0)) = 0
  BY RecordRowsFacts
<1> QED
  BY <1>1

\* The next row comes last.
LEMMA NextRecordRow ==
  ASSUME NEW f \in File, NEW i \in Nat, NEW n \in Nat, NEW s \in Seq(Row)
  PROVE  s \o RowsOfRecord(f, i, n + 1)
           = Append(s \o RowsOfRecord(f, i, n), [filename |-> f, file |-> f, record |-> i, field |-> n + 1])
<1> DEFINE a == RowsOfRecord(f, i, n)
           b == RowsOfRecord(f, i, n + 1)
           r == [filename |-> f, file |-> f, record |-> i, field |-> n + 1]
<1>1. /\ a \in Seq(Row) /\ Len(a) = n
      /\ \A k \in 1..n : a[k] = [filename |-> f, file |-> f, record |-> i, field |-> k]
  BY RecordRowsFacts
<1>2. PICK m \in Nat : m = n + 1
  OBVIOUS
<1>3. /\ b \in Seq(Row) /\ Len(b) = m
      /\ \A k \in 1..m : b[k] = [filename |-> f, file |-> f, record |-> i, field |-> k]
  BY <1>2, RecordRowsFacts
<1>4. r \in Row
  BY DEF Row
<1>5. r = b[m]
  BY <1>2, <1>3
<1>6. \A k \in 1..n : a[k] = b[k]
  BY <1>1, <1>2, <1>3
<1> HIDE DEF a, b, r
<1>7. s \o b = Append(s \o a, r)
  <2>0. Len(s) \in Nat
    OBVIOUS
  <2>1. s \o a \in Seq(Row) /\ Len(s \o a) = Len(s) + n
    BY <1>1, ConcatProperties
  <2>2. s \o b \in Seq(Row) /\ Len(s \o b) = Len(s) + n + 1
    <3>1. s \o b \in Seq(Row) /\ Len(s \o b) = Len(s) + Len(b)
      BY <1>3, ConcatProperties
    <3> QED
      BY <1>2, <1>3, <2>0, <3>1
  <2>3. Append(s \o a, r) \in Seq(Row) /\ Len(Append(s \o a, r)) = Len(s) + n + 1
    BY <1>4, <2>1
  <2>4. ASSUME NEW k \in 1..(Len(s) + n + 1)
        PROVE  (s \o b)[k] = Append(s \o a, r)[k]
    <3>1. CASE k <= Len(s)
      BY <1>1, <1>2, <1>3, <1>4, <2>1, <3>1
    <3>2. CASE k > Len(s) /\ k <= Len(s) + n
      <4>1. PICK j \in 1..n : j = k - Len(s)
        BY <3>2
      <4>2. (s \o b)[k] = b[j] /\ (s \o a)[k] = a[j]
        BY <1>1, <1>2, <1>3, <3>2, <4>1
      <4>3. Append(s \o a, r)[k] = (s \o a)[k]
        BY <1>4, <2>1, <3>2
      <4> QED
        BY <1>6, <4>2, <4>3
    <3>3. CASE k = Len(s) + n + 1
      <4>1. (s \o b)[k] = b[m]
        BY <1>2, <1>3, <3>3
      <4>2. Append(s \o a, r)[k] = r
        BY <1>4, <2>1, <3>3
      <4> QED
        BY <1>5, <4>1, <4>2
    <3>4. \/ k <= Len(s)
          \/ k > Len(s) /\ k <= Len(s) + n
          \/ k = Len(s) + n + 1
      BY <2>0
    <3> QED
      BY <3>1, <3>2, <3>3, <3>4
  <2> QED
    BY <2>2, <2>3, <2>4
<1> QED
  BY <1>7 DEF a, b, r

\* Fewer rows of a record come before more.
LEMMA FewerRecordRows ==
  ASSUME NEW f \in File, NEW i \in Nat, NEW n \in Nat, NEW m \in Nat, n <= m, NEW s \in Seq(Row)
  PROVE  PrefixOf(s \o RowsOfRecord(f, i, n), s \o RowsOfRecord(f, i, m))
<1> DEFINE a == RowsOfRecord(f, i, n)
           b == RowsOfRecord(f, i, m)
<1>1. /\ a \in Seq(Row) /\ Len(a) = n
      /\ \A k \in 1..n : a[k] = [filename |-> f, file |-> f, record |-> i, field |-> k]
  BY RecordRowsFacts
<1>2. /\ b \in Seq(Row) /\ Len(b) = m
      /\ \A k \in 1..m : b[k] = [filename |-> f, file |-> f, record |-> i, field |-> k]
  BY RecordRowsFacts
<1>3. ASSUME NEW k \in 1..n
      PROVE  a[k] = b[k]
  <2>1. k \in 1..m
    OBVIOUS
  <2>2. a[k] = [filename |-> f, file |-> f, record |-> i, field |-> k]
    BY <1>1, Zenon
  <2>3. b[k] = [filename |-> f, file |-> f, record |-> i, field |-> k]
    BY <1>2, <2>1, Zenon
  <2> QED
    BY <2>2, <2>3, Zenon
<1> HIDE DEF a, b
<1>4. Len(s \o a) = Len(s) + n /\ Len(s \o b) = Len(s) + m /\ Len(s) \in Nat
  <2>1. Len(s \o a) = Len(s) + Len(a)
    BY <1>1, ConcatProperties
  <2>2. Len(s \o b) = Len(s) + Len(b)
    BY <1>2, ConcatProperties
  <2> QED
    BY <1>1, <1>2, <2>1, <2>2
<1>5. ASSUME NEW k \in 1..(Len(s) + n)
      PROVE  (s \o a)[k] = (s \o b)[k]
  <2>1. CASE k <= Len(s)
    BY <1>1, <1>2, <2>1
  <2>2. CASE k > Len(s)
    <3>1. PICK j \in 1..n : j = k - Len(s)
      BY <2>2
    <3>2. (s \o a)[k] = a[j] /\ (s \o b)[k] = b[j]
      BY <1>1, <1>2, <2>2, <3>1
    <3> QED
      BY <1>3, <3>2
  <2> QED
    BY <1>4, <2>1, <2>2
<1>6. PrefixOf(s \o a, s \o b)
  BY <1>4, <1>5 DEF PrefixOf
<1> QED
  BY <1>6 DEF a, b

\* The recursive definition holds: each record adds its rows, until one stops the reader.
LEMMA RowsUpToDef ==
  ASSUME NEW f \in File
  PROVE  LET records == Files[f].records
         IN  /\ RowsUpTo(f) \in [0..Len(records) -> Seq(Row)]
             /\ RowsUpTo(f)[0] = <<>>
             /\ \A i \in 1..Len(records) :
                  RowsUpTo(f)[i] = IF \E j \in 1..(i - 1) : Stops(records[j]) THEN RowsUpTo(f)[i - 1]
                                   ELSE RowsUpTo(f)[i - 1] \o RowsOfRecord(f, i, GoodRows(records[i]))
<1> DEFINE records == Files[f].records
           n == Len(records)
           T == Seq(Row)
           Stopped(i) == \E j \in 1..(i - 1) : Stops(records[j])
           Of(i) == RowsOfRecord(f, i, GoodRows(records[i]))
           step == [x \in T \X Nat |-> IF x[2] \in 1..n /\ ~Stopped(x[2]) THEN x[1] \o Of(x[2]) ELSE x[1]]
           IsRows(g) == g = [i \in 0..n |-> IF i = 0 THEN <<>>
                                            ELSE IF Stopped(i) THEN g[i - 1]
                                            ELSE g[i - 1] \o Of(i)]
<1>1. n \in Nat /\ <<>> \in T
  BY FileFacts
<1>2. \A i \in 1..n : Of(i) \in T
  <2> TAKE i \in 1..n
  <2>1. records[i] \in Record /\ i \in Nat
    BY <1>1, FileFacts
  <2>2. GoodRows(records[i]) \in Nat
    BY <2>1, GoodRowsFacts
  <2> QED
    BY <2>1, <2>2, RecordRowsFacts
<1> HIDE DEF Of, Stopped
<1>3. step \in StepFunctions(T)
  <2>1. ASSUME NEW x \in T \X Nat
        PROVE  (IF x[2] \in 1..n /\ ~Stopped(x[2]) THEN x[1] \o Of(x[2]) ELSE x[1]) \in T
    <3>1. CASE x[2] \in 1..n /\ ~Stopped(x[2])
      <4>1. x[1] \in Seq(Row) /\ Of(x[2]) \in Seq(Row)
        BY <1>2, <3>1
      <4>2. x[1] \o Of(x[2]) \in Seq(Row)
        BY <4>1, ConcatProperties
      <4> QED
        BY <3>1, <4>2
    <3>2. CASE ~(x[2] \in 1..n /\ ~Stopped(x[2]))
      BY <3>2
    <3> QED
      BY <3>1, <3>2
  <2> QED
    BY <2>1 DEF StepFunctions
<1> HIDE DEF step, n, T
<1>4. PICK g : FollowsUpTo(g, n, T, <<>>, step)
  BY <1>1, <1>3, PrimitiveRecursion
<1>5. g \in [0..n -> T] /\ g[0] = <<>> /\ \A i \in 1..n : g[i] = step[<<g[i - 1], i>>]
  BY <1>4 DEF FollowsUpTo
<1>6. \A i \in 0..n : g[i] = IF i = 0 THEN <<>> ELSE IF Stopped(i) THEN g[i - 1] ELSE g[i - 1] \o Of(i)
  <2> TAKE i \in 0..n
  <2>1. CASE i = 0
    BY <1>5, <2>1
  <2>2. CASE i # 0
    <3>1. i \in 1..n /\ i - 1 \in 0..n /\ i \in Nat
      BY <1>1, <2>2
    <3>2. <<g[i - 1], i>> \in T \X Nat
      BY <1>5, <3>1
    <3>3. step[<<g[i - 1], i>>] = IF Stopped(i) THEN g[i - 1] ELSE g[i - 1] \o Of(i)
      BY <3>1, <3>2 DEF step
    <3> QED
      BY <1>5, <2>2, <3>1, <3>3
  <2> QED
    BY <2>1, <2>2
<1>7. IsRows(g)
  BY <1>5, <1>6
<1>8. RowsUpTo(f) = CHOOSE h : IsRows(h)
  BY DEF RowsUpTo, n, Stopped, Of
<1> DEFINE J == RowsUpTo(f)
<1>9. IsRows(J)
  <2> HIDE DEF IsRows
  <2> QED
    BY <1>7, <1>8
<1> HIDE DEF J
<1>10. \A i \in 0..n : J[i] = IF i = 0 THEN <<>> ELSE IF Stopped(i) THEN J[i - 1] ELSE J[i - 1] \o Of(i)
  BY <1>9
<1>11. DOMAIN J = 0..n /\ J = [i \in DOMAIN J |-> J[i]]
  BY <1>9
<1>12. \A i \in 0..n : J[i] \in T
  <2> DEFINE K == {i \in Nat : i <= n => J[i] \in T}
  <2>1. 0 \in K
    BY <1>1, <1>10
  <2>2. ASSUME NEW i \in Nat, i \in K
        PROVE  i + 1 \in K
    <3> SUFFICES ASSUME i + 1 <= n
                 PROVE  J[i + 1] \in T
      OBVIOUS
    <3>1. PICK m \in 1..n : m = i + 1
      BY <1>1
    <3>2. J[i] \in T /\ m - 1 = i /\ m \in 0..n /\ m # 0
      BY <1>1, <2>2, <3>1
    <3>3. J[m] = IF Stopped(m) THEN J[i] ELSE J[i] \o Of(m)
      BY <1>10, <3>2
    <3>4. J[i] \o Of(m) \in T
      <4>1. J[i] \in Seq(Row) /\ Of(m) \in Seq(Row)
        BY <1>2, <3>1, <3>2 DEF T
      <4> QED
        BY <4>1, ConcatProperties DEF T
    <3>5. J[m] \in T
      BY <3>2, <3>3, <3>4
    <3> QED
      BY <3>1, <3>5
  <2> HIDE DEF K
  <2>3. Nat \subseteq K
    BY <2>1, <2>2, NatSetInduction
  <2> QED
    BY <1>1, <2>3 DEF K
<1>13. J \in [0..n -> T]
  BY <1>11, <1>12
<1>14. J[0] = <<>> /\ \A i \in 1..n : J[i] = IF Stopped(i) THEN J[i - 1] ELSE J[i - 1] \o Of(i)
  BY <1>1, <1>10
<1> QED
  BY <1>13, <1>14 DEF J, T, n, Stopped, Of

\* The rows expected grow from record to record.
LEMMA RowsUpToGrows ==
  ASSUME NEW f \in File, NEW i \in 0..Len(Files[f].records), NEW j \in 0..Len(Files[f].records), i <= j
  PROVE  PrefixOf(RowsUpTo(f)[i], RowsUpTo(f)[j])
<1> DEFINE records == Files[f].records
           J == RowsUpTo(f)
           Stopped(k) == \E m \in 1..(k - 1) : Stops(records[m])
<1>1. /\ J \in [0..Len(records) -> Seq(Row)]
      /\ \A k \in 1..Len(records) : J[k] = IF Stopped(k) THEN J[k - 1]
                                           ELSE J[k - 1] \o RowsOfRecord(f, k, GoodRows(records[k]))
  BY RowsUpToDef
<1>2. Len(records) \in Nat /\ \A k \in 1..Len(records) : records[k] \in Record
  BY FileFacts
<1> HIDE DEF J, Stopped, records
<1>3. ASSUME NEW k \in 1..Len(records)
      PROVE  PrefixOf(J[k - 1], J[k])
  <2>0. k \in Nat /\ k - 1 \in 0..Len(records)
    BY <1>2
  <2>1. J[k - 1] \in Seq(Row) /\ GoodRows(records[k]) \in Nat
    <3>1. J[k - 1] \in Seq(Row)
      BY <1>1, <2>0
    <3>2. records[k] \in Record
      BY <1>2
    <3> QED
      BY <3>1, <3>2, GoodRowsFacts
  <2>2. RowsOfRecord(f, k, GoodRows(records[k])) \in Seq(Row)
    BY <2>0, <2>1, RecordRowsFacts
  <2>3. PrefixOf(J[k - 1], J[k - 1]) /\ PrefixOf(J[k - 1], J[k - 1] \o RowsOfRecord(f, k, GoodRows(records[k])))
    BY <2>1, <2>2, PrefixOfJoined
  <2> QED
    BY <1>1, <2>3
<1>4. J \in Growing(Len(records), Row)
  BY <1>1, <1>3 DEF Growing
<1>5. i \in 0..Len(records) /\ j \in 0..Len(records)
  BY DEF records
<1> QED
  BY <1>2, <1>4, <1>5, GrowingFacts DEF J

\* What is expected of a file are rows.
LEMMA ExpectedType ==
  ASSUME NEW f \in File
  PROVE  ExpectedOf(f) \in Seq(Row)
<1>1. Len(Files[f].records) \in Nat
  BY FileFacts
<1>2. RowsUpTo(f) \in [0..Len(Files[f].records) -> Seq(Row)]
  BY RowsUpToDef
<1> QED
  BY <1>1, <1>2 DEF ExpectedOf

-----------------------------------------------------------------------------
(* Nothing behind the cursor stops the reader.                             *)

\* Where the cursor stays, a thread that is not opening a file has met nothing.
LEMMA CleanStay ==
  ASSUME TypeOK, NEW t \in Thread, Step(t), Clean(t),
         UNCHANGED <<current_file[t], position[t], has_pending[t], field_cursor[t], active[t]>>,
         pc[t] \notin {"open", "failed"}
  PROVE  Clean(t)'
BY DEF Clean

\* Every action of the thread keeps it so.
LEMMA CleanStep ==
  ASSUME IndInv, NEW t \in Thread, Step(t), NEW u \in Thread, Clean(u)
  PROVE  Clean(u)'
<1>0. TypeOK /\ ThreadState(t)
  BY DEF IndInv
<1>1. CASE u # t
  BY <1>0, <1>1, Frame DEF Clean
<1>2. CASE u = t
  <2>1. CASE StartChunk(t) \/ Peek(t) \/ DecodeError(t) \/ Return(t)
    <3>1. /\ UNCHANGED <<current_file[t], position[t], has_pending[t], field_cursor[t], active[t]>>
          /\ pc[t] \notin {"open", "failed"}
      BY <2>1 DEF StartChunk, Peek, DecodeError, Return, local
    <3> QED
      BY <1>0, <1>2, <3>1, CleanStay
  <2>2. CASE Claim(t)
    <3>1. CASE next_file >= Len(Files)
      <4>1. /\ UNCHANGED <<current_file[t], position[t], has_pending[t], field_cursor[t], active[t]>>
            /\ pc[t] \notin {"open", "failed"}
        BY <2>2, <3>1 DEF Claim, local
      <4> QED
        BY <1>0, <1>2, <4>1, CleanStay
    <3>2. CASE ~(next_file >= Len(Files))
      <4>1. /\ current_file'[t] = next_file + 1 /\ position'[t] = 0 /\ ~has_pending'[t]
            /\ pc'[t] = "open"
        BY <1>0, <2>2, <3>2 DEF Claim, Goto, TypeOK
      <4>2. next_file + 1 \in File
        BY <1>0, <3>2, ConstantFacts DEF TypeOK, File
      <4>3. Len(Files[next_file + 1].records) \in Nat
        BY <4>2, FileFacts
      <4> QED
        BY <1>2, <4>1, <4>3 DEF Clean
    <3> QED
      BY <3>1, <3>2
  <2>3. CASE Open(t)
    <3>1. /\ UNCHANGED <<current_file[t], position[t], has_pending[t], field_cursor[t]>>
          /\ pc[t] = "open"
          /\ \/ Unopenable(current_file[t]) /\ pc'[t] = "failed"
             \/ ~Unopenable(current_file[t]) /\ pc'[t] = "next" /\ active'[t]
      BY <1>0, <2>3 DEF Open, Goto, local, TypeOK
    <3> QED
      BY <1>2, <3>1 DEF Clean
  <2>4. CASE NextRecord(t)
    <3>0. /\ pc[t] = "next" /\ active[t] /\ ~has_pending[t]
          /\ current_file[t] \in File /\ source[t] = current_file[t]
      BY <1>0, <2>4 DEF NextRecord, ThreadState
    <3>1. CASE position[t] < Len(Files[source[t]].records)
      <4>1. /\ current_file'[t] = current_file[t] /\ position'[t] = position[t] + 1
            /\ has_pending'[t] /\ field_cursor'[t] = 0 /\ active'[t] /\ position[t] \in Nat
        BY <1>0, <2>4, <3>0, <3>1 DEF NextRecord, TypeOK
      <4>2. PICK p \in Nat : p = position[t] + 1
        BY <4>1
      <4>3. p \in 1..Len(Files[current_file[t]].records) /\ Len(Files[current_file[t]].records) \in Nat
        BY <3>0, <3>1, <4>1, <4>2, FileFacts
      <4>4. GoodRows(Files[current_file[t]].records[p]) \in Nat
        BY <3>0, <4>3, FileFacts, GoodRowsFacts
      <4>5. \A i \in 1..p : Stops(Files[current_file[t]].records[i]) => i = p
        BY <1>2, <3>0, <4>1, <4>2 DEF Clean, File
      <4>6. ~Unopenable(current_file[t])
        BY <1>2, <3>0 DEF Clean, File
      <4> QED
        BY <1>2, <3>0, <4>1, <4>2, <4>3, <4>4, <4>5, <4>6 DEF Clean
    <3>2. CASE ~(position[t] < Len(Files[source[t]].records))
      <4>1. /\ UNCHANGED <<current_file[t], position[t], has_pending[t], field_cursor[t]>>
            /\ pc'[t] # "failed" => ~Files[current_file[t]].fails
        BY <1>0, <2>4, <3>0, <3>2 DEF NextRecord, Goto, TypeOK
      <4> QED
        BY <1>2, <3>0, <4>1 DEF Clean
    <3> QED
      BY <3>1, <3>2
  <2>5. CASE Skip(t)
    <3>1. /\ UNCHANGED <<current_file[t], position[t], active[t]>> /\ ~has_pending'[t]
          /\ has_pending[t] /\ pc[t] = "row" /\ RowsOf(PendingRecord(t)) = 0
      BY <1>0, <2>5 DEF Skip, Consume, TypeOK, ThreadState
    <3>2. ~Stops(Files[current_file[t]].records[position[t]])
      BY <1>0, <3>1, PendingFacts, GoodRowsFacts
    <3>3. active[t]
      BY <1>0, <3>1 DEF ThreadState
    <3> QED
      BY <1>2, <3>1, <3>2, <3>3 DEF Clean
  <2>6. CASE Emit(t)
    <3>1. /\ UNCHANGED <<current_file[t], position[t], active[t]>>
          /\ has_pending[t] /\ pc[t] = "row"
          /\ field_cursor[t] < RowsOf(PendingRecord(t))
          /\ ~Throws(PendingRecord(t), field_cursor[t] + 1)
      BY <1>0, <2>6 DEF Emit, ThreadState
    <3>2. \/ field_cursor[t] + 1 >= RowsOf(PendingRecord(t)) /\ ~has_pending'[t]
          \/ field_cursor'[t] = field_cursor[t] + 1 /\ has_pending'[t]
      BY <1>0, <2>6, EmitCursor
    <3> DEFINE r == Files[current_file[t]].records[position[t]]
    <3>3. r = PendingRecord(t) /\ r \in Record /\ current_file[t] # 0 /\ field_cursor[t] \in Nat
      <4>1. r = PendingRecord(t) /\ r \in Record /\ current_file[t] \in File
        BY <1>0, <3>1, PendingFacts
      <4> QED
        BY <1>0, <4>1 DEF File, TypeOK
    <3>4. field_cursor[t] <= GoodRows(r)
      BY <1>2, <3>1, <3>3 DEF Clean
    <3>5. /\ field_cursor[t] + 1 <= GoodRows(r)
          /\ field_cursor[t] + 1 >= RowsOf(r) => ~Stops(r)
      BY <3>1, <3>3, <3>4, GoodRowsFacts
    <3>6. active[t]
      BY <1>0, <3>1 DEF ThreadState
    <3> QED
      BY <1>2, <3>1, <3>2, <3>3, <3>5, <3>6 DEF Clean
  <2> QED
    BY <2>1, <2>2, <2>3, <2>4, <2>5, <2>6 DEF Step
<1> QED
  BY <1>1, <1>2

-----------------------------------------------------------------------------
(* What is written lies behind the cursor, and all of it.                  *)

\* The cursor is at a record of its file, and no record before it stops the reader.
LEMMA CursorFacts ==
  ASSUME TypeOK, NEW t \in Thread, ThreadState(t), Clean(t), current_file[t] # 0
  PROVE  /\ current_file[t] \in File
         /\ position[t] \in 0..Len(Files[current_file[t]].records)
         /\ field_cursor[t] \in Nat
         /\ \A i \in 1..(position[t] - 1) : ~Stops(Files[current_file[t]].records[i])
         /\ has_pending[t] =>
              /\ position[t] \in 1..Len(Files[current_file[t]].records)
              /\ position[t] - 1 \in 0..Len(Files[current_file[t]].records)
              /\ position[t] \in Nat
              /\ Files[current_file[t]].records[position[t]] \in Record
              /\ field_cursor[t] <= GoodRows(Files[current_file[t]].records[position[t]])
<1>1. /\ current_file[t] \in File /\ position[t] \in Nat /\ field_cursor[t] \in Nat
      /\ position[t] <= Len(Files[current_file[t]].records)
  BY DEF TypeOK, Clean
<1>2. /\ Len(Files[current_file[t]].records) \in Nat
      /\ DOMAIN Files[current_file[t]].records = 1..Len(Files[current_file[t]].records)
      /\ Files[current_file[t]].records \in Seq(Record)
  BY <1>1, FileFacts
<1>3. \A i \in 1..(position[t] - 1) : ~Stops(Files[current_file[t]].records[i])
  BY <1>1 DEF Clean
<1>4. ASSUME has_pending[t]
      PROVE  position[t] \in DOMAIN Files[current_file[t]].records
  BY <1>4 DEF ThreadState
<1>5. has_pending[t] => field_cursor[t] <= GoodRows(Files[current_file[t]].records[position[t]])
  BY DEF Clean
<1> QED
  BY <1>1, <1>2, <1>3, <1>4, <1>5

\* Once a record is done with, its rows and those before it are the rows up to it.
LEMMA RecordDone ==
  ASSUME NEW f \in File, NEW p \in 1..Len(Files[f].records),
         \A i \in 1..(p - 1) : ~Stops(Files[f].records[i])
  PROVE  RowsUpTo(f)[p] = RowsUpTo(f)[p - 1] \o RowsOfRecord(f, p, GoodRows(Files[f].records[p]))
BY RowsUpToDef

\* The rows behind a cursor are rows.
LEMMA BehindCursorType ==
  ASSUME NEW f \in File, NEW p \in Nat, NEW c \in Nat, p <= Len(Files[f].records)
  PROVE  /\ RowsUpTo(f)[p] \in Seq(Row)
         /\ p # 0 => RowsUpTo(f)[p - 1] \o RowsOfRecord(f, p, c) \in Seq(Row)
<1>1. Len(Files[f].records) \in Nat /\ RowsUpTo(f) \in [0..Len(Files[f].records) -> Seq(Row)]
  BY FileFacts, RowsUpToDef
<1>2. RowsUpTo(f)[p] \in Seq(Row) /\ (p # 0 => RowsUpTo(f)[p - 1] \in Seq(Row))
  <2>1. p \in 0..Len(Files[f].records) /\ (p # 0 => p - 1 \in 0..Len(Files[f].records))
    BY <1>1
  <2> DEFINE J == RowsUpTo(f)
  <2>2. J \in [0..Len(Files[f].records) -> Seq(Row)]
    BY <1>1
  <2> HIDE DEF J
  <2>3. J[p] \in Seq(Row) /\ (p # 0 => J[p - 1] \in Seq(Row))
    BY <2>1, <2>2
  <2> QED
    BY <2>3 DEF J
<1>3. RowsOfRecord(f, p, c) \in Seq(Row)
  BY RecordRowsFacts
<1> QED
  BY <1>2, <1>3, ConcatProperties

\* A row is written after the others, with the name of the thread's file.
LEMMA RowAppended ==
  ASSUME TypeOK, NEW t \in Thread, ThreadState(t), Emit(t)
  PROVE  /\ emitted'[t] = Append(emitted[t], RowOf(t)) /\ emitted[t] \in Seq(Row)
         /\ RowOf(t) \in Row /\ RowOf(t).filename = current_file[t]
<1>1. emitted'[t] = Append(emitted[t], RowOf(t)) /\ emitted[t] \in Seq(Row)
  BY DEF Emit, TypeOK
<1>2. has_pending[t]
  BY DEF Emit, ThreadState
<1>3. /\ pending[t].file = current_file[t] /\ pending[t].record = position[t]
      /\ current_file[t] \in File /\ position[t] \in Nat /\ field_cursor[t] \in Nat
  BY <1>2, PendingFacts DEF TypeOK
<1>4. RowOf(t) \in Row /\ RowOf(t).filename = current_file[t]
  BY <1>3 DEF RowOf, Row
<1> QED
  BY <1>1, <1>4

\* Where the cursor stays and nothing is written, nothing changes.
LEMMA WalkStay ==
  ASSUME NEW t \in Thread, Walk(t),
         UNCHANGED <<current_file[t], position[t], has_pending[t], field_cursor[t], emitted[t]>>,
         out_row'[t] = out_row[t] \/ out_row'[t] = 0, Len(emitted[t]) \in Nat
  PROVE  Walk(t)'
BY DEF Walk, BehindCursor

\* A thread that claims a file has no row of it.
LEMMA WalkClaim ==
  ASSUME TypeOK, NEW t \in Thread, ThreadState(t), Behind(t), Walk(t), Claim(t), next_file < Len(Files)
  PROVE  Walk(t)'
<1>1. /\ current_file'[t] = next_file + 1 /\ position'[t] = 0 /\ ~has_pending'[t]
      /\ emitted' = emitted /\ out_row' = out_row /\ next_file \in Nat
  BY ConstantFacts DEF Claim, TypeOK
<1>2. PICK f \in File : f = next_file + 1
  BY <1>1, ConstantFacts DEF File
<1>3. \A i \in DOMAIN emitted[t] : emitted[t][i].filename # f
  <2> TAKE i \in DOMAIN emitted[t]
  <2>1. /\ emitted[t][i].filename \in Nat /\ current_file[t] \in Nat
        /\ emitted[t][i].filename <= current_file[t]
    BY RowTypes DEF Behind
  <2>2. current_file[t] <= next_file
    BY DEF ThreadState
  <2> QED
    BY <1>1, <1>2, <2>1, <2>2
<1>4. emitted[t] \in Seq(Row)
  BY DEF TypeOK
<1>5. OfFile(emitted[t], f) = <<>>
  BY <1>3, <1>4, OfFileNone
<1>6. RowsUpTo(f)[0] = <<>>
  BY RowsUpToDef
<1>7. BehindCursor(t)' = RowsUpTo(f)[0]
  BY <1>1, <1>2 DEF BehindCursor
<1> QED
  BY <1>1, <1>2, <1>5, <1>6, <1>7 DEF Walk

\* Of the next record nothing is written yet.
LEMMA WalkNext ==
  ASSUME TypeOK, NEW t \in Thread, ThreadState(t), Clean(t), Walk(t), NextRecord(t),
         position[t] < Len(Files[source[t]].records)
  PROVE  Walk(t)'
<1>1. /\ ~has_pending[t] /\ active[t] /\ source[t] = current_file[t] /\ current_file[t] \in File
  BY DEF NextRecord, ThreadState
<1>2. /\ current_file'[t] = current_file[t] /\ position'[t] = position[t] + 1
      /\ has_pending'[t] /\ field_cursor'[t] = 0
      /\ emitted' = emitted /\ out_row' = out_row
  BY DEF NextRecord, TypeOK
<1>3. PICK f \in File : f = current_file[t]
  BY <1>1
<1>4. PICK p \in Nat : p = position[t]
  BY DEF TypeOK
<1>5. p + 1 - 1 = p /\ p <= Len(Files[f].records) /\ f # 0 /\ p + 1 \in Nat
  BY <1>1, <1>3, <1>4, FileFacts DEF File
<1>6. BehindCursor(t)' = RowsUpTo(f)[p] \o RowsOfRecord(f, p + 1, 0)
  <2>1. BehindCursor(t)' = RowsUpTo(f)[position'[t] - 1] \o RowsOfRecord(f, position'[t], field_cursor'[t])
    BY <1>2, <1>3 DEF BehindCursor
  <2>2. position'[t] = p + 1 /\ position'[t] - 1 = p /\ field_cursor'[t] = 0
    BY <1>2, <1>4
  <2> QED
    BY <2>1, <2>2, Zenon
<1>7. RowsUpTo(f)[p] \in Seq(Row)
  BY <1>5, BehindCursorType
<1>8. BehindCursor(t)' = RowsUpTo(f)[p]
  BY <1>5, <1>6, <1>7, NoRecordRows
<1>9. OfFile(emitted[t], f) = RowsUpTo(f)[p]
  BY <1>1, <1>3, <1>4, <1>5 DEF Walk, BehindCursor
<1> QED
  BY <1>2, <1>3, <1>8, <1>9 DEF Walk

\* A record that is skipped has no rows.
LEMMA WalkSkip ==
  ASSUME TypeOK, NEW t \in Thread, ThreadState(t), Clean(t), Walk(t), Skip(t)
  PROVE  Walk(t)'
<1>1. /\ UNCHANGED <<current_file[t], position[t], emitted, out_row>> /\ ~has_pending'[t]
      /\ has_pending[t] /\ RowsOf(PendingRecord(t)) = 0
  BY DEF Skip, Consume, TypeOK, ThreadState
<1>2. PICK f \in File : f = current_file[t]
  BY <1>1, PendingFacts
<1>3. f # 0
  BY DEF File
<1>4. PICK p \in Nat : p = position[t]
  BY DEF TypeOK
<1>5. /\ p \in 1..Len(Files[f].records) /\ p - 1 \in 0..Len(Files[f].records)
      /\ Files[f].records[p] \in Record
      /\ field_cursor[t] \in Nat /\ field_cursor[t] <= GoodRows(Files[f].records[p])
      /\ \A i \in 1..(p - 1) : ~Stops(Files[f].records[i])
  BY <1>1, <1>2, <1>3, <1>4, CursorFacts
<1>6. PendingRecord(t) = Files[f].records[p]
  BY <1>1, <1>2, <1>4, PendingFacts
<1>7. GoodRows(Files[f].records[p]) = 0
  BY <1>1, <1>5, <1>6, GoodRowsFacts
<1>8. field_cursor[t] = 0
  BY <1>5, <1>7
<1>9. OfFile(emitted[t], f) = RowsUpTo(f)[p - 1] \o RowsOfRecord(f, p, 0)
  BY <1>1, <1>2, <1>3, <1>4, <1>8 DEF Walk, BehindCursor
<1>10. RowsUpTo(f)[p] = RowsUpTo(f)[p - 1] \o RowsOfRecord(f, p, 0)
  BY <1>5, <1>7, RecordDone
<1>11. BehindCursor(t)' = RowsUpTo(f)[p]
  BY <1>1, <1>2, <1>4 DEF BehindCursor
<1> QED
  BY <1>1, <1>2, <1>9, <1>10, <1>11 DEF Walk

\* A written row is the next one of its file.
LEMMA WalkEmit ==
  ASSUME TypeOK, NEW t \in Thread, ThreadState(t), Clean(t), Walk(t), Emit(t)
  PROVE  Walk(t)'
<1>1. /\ UNCHANGED <<current_file[t], position[t]>> /\ has_pending[t]
      /\ field_cursor[t] < RowsOf(PendingRecord(t))
      /\ ~Throws(PendingRecord(t), field_cursor[t] + 1)
      /\ out_row'[t] = out_row[t] + 1 /\ out_row[t] \in Nat
  BY DEF Emit, TypeOK, ThreadState
<1>2. PICK f \in File : f = current_file[t]
  BY <1>1, PendingFacts
<1>3. f # 0
  BY DEF File
<1>4. PICK p \in Nat : p = position[t]
  BY DEF TypeOK
<1>5. PICK c \in Nat : c = field_cursor[t]
  BY DEF TypeOK
<1> DEFINE record == Files[f].records[p]
           row == [filename |-> f, file |-> f, record |-> p, field |-> c + 1]
           before == RowsUpTo(f)[p - 1]
<1>6. /\ p \in 1..Len(Files[f].records) /\ p - 1 \in 0..Len(Files[f].records)
      /\ record \in Record
      /\ c <= GoodRows(record)
      /\ \A i \in 1..(p - 1) : ~Stops(Files[f].records[i])
  BY <1>1, <1>2, <1>3, <1>4, <1>5, CursorFacts
<1>7. PendingRecord(t) = record
  BY <1>1, <1>2, <1>4, PendingFacts
<1>8. /\ c + 1 <= GoodRows(record) /\ GoodRows(record) \in Nat
      /\ c + 1 >= RowsOf(record) => c + 1 = GoodRows(record)
  <2>1. c < RowsOf(record) /\ ~Throws(record, c + 1)
    BY <1>1, <1>5, <1>7
  <2>2. /\ c + 1 <= GoodRows(record) /\ GoodRows(record) \in Nat /\ RowsOf(record) \in Nat
        /\ GoodRows(record) <= RowsOf(record)
    BY <1>6, <2>1, GoodRowsFacts
  <2> QED
    BY <2>2
<1>9. before \in Seq(Row)
  <2>1. RowsUpTo(f) \in [0..Len(Files[f].records) -> Seq(Row)]
    BY RowsUpToDef
  <2> QED
    BY <1>6, <2>1
<1>10. emitted'[t] = Append(emitted[t], row) /\ emitted[t] \in Seq(Row) /\ row \in Row /\ row.filename = f
  <2>1. /\ emitted'[t] = Append(emitted[t], RowOf(t)) /\ emitted[t] \in Seq(Row) /\ RowOf(t) \in Row
    BY RowAppended
  <2>2. pending[t].file = current_file[t] /\ pending[t].record = position[t]
    BY <1>1, PendingFacts
  <2>3. RowOf(t) = row
    BY <1>2, <1>4, <1>5, <2>2 DEF RowOf
  <2> QED
    BY <2>1, <2>3
<1>11. OfFile(emitted[t], f) = before \o RowsOfRecord(f, p, c)
  BY <1>1, <1>2, <1>3, <1>4, <1>5 DEF Walk, BehindCursor
<1> HIDE DEF row
<1>12. OfFile(emitted'[t], f) = Append(OfFile(emitted[t], f), row)
  BY <1>10, OfFileAppend
<1>13. OfFile(emitted'[t], f) = before \o RowsOfRecord(f, p, c + 1)
  <2>1. before \o RowsOfRecord(f, p, c + 1) = Append(before \o RowsOfRecord(f, p, c), row)
    BY <1>9, NextRecordRow DEF row
  <2> QED
    BY <1>11, <1>12, <2>1
<1>14. OfFile(emitted'[t], f) = BehindCursor(t)'
  <2>1. CASE c + 1 >= RowsOf(record) /\ ~has_pending'[t]
    <3>1. BehindCursor(t)' = RowsUpTo(f)[p]
      BY <1>1, <1>2, <1>4, <2>1 DEF BehindCursor
    <3>2. RowsUpTo(f)[p] = before \o RowsOfRecord(f, p, GoodRows(record))
      BY <1>6, RecordDone
    <3>3. GoodRows(record) = c + 1
      BY <1>8, <2>1
    <3> QED
      BY <1>13, <3>1, <3>2, <3>3
  <2>2. CASE field_cursor'[t] = c + 1 /\ has_pending'[t]
    <3>1. BehindCursor(t)' = before \o RowsOfRecord(f, p, c + 1)
      BY <1>1, <1>2, <1>4, <2>2 DEF BehindCursor
    <3> QED
      BY <1>13, <3>1
  <2>3. \/ field_cursor[t] + 1 >= RowsOf(PendingRecord(t)) /\ ~has_pending'[t]
        \/ field_cursor'[t] = field_cursor[t] + 1 /\ has_pending'[t]
    BY EmitCursor
  <2> QED
    BY <1>5, <1>7, <2>1, <2>2, <2>3
<1>15. Len(emitted'[t]) = Len(emitted[t]) + 1 /\ Len(emitted[t]) \in Nat
  BY <1>10
<1> QED
  BY <1>1, <1>2, <1>14, <1>15 DEF Walk

\* What is written of the file that is being read lies behind the cursor.
LEMMA WalkStep ==
  ASSUME IndInv, NEW t \in Thread, Clean(t), Step(t), NEW u \in Thread, Walk(u)
  PROVE  Walk(u)'
<1>0. TypeOK /\ ThreadState(t) /\ Behind(t) /\ Len(emitted[t]) \in Nat
  BY RowTypes DEF IndInv
<1>1. CASE u # t
  BY <1>0, <1>1, Frame DEF Walk, BehindCursor
<1>2. CASE u = t
  <2>1. CASE StartChunk(t) \/ Peek(t) \/ Open(t) \/ DecodeError(t) \/ Return(t)
    <3>1. /\ UNCHANGED <<current_file[t], position[t], has_pending[t], field_cursor[t], emitted[t]>>
          /\ out_row'[t] = out_row[t] \/ out_row'[t] = 0
      BY <1>0, <2>1 DEF StartChunk, Peek, Open, DecodeError, Return, local, TypeOK
    <3> QED
      BY <1>0, <1>2, <3>1, WalkStay
  <2>2. CASE Claim(t)
    <3>1. CASE next_file >= Len(Files)
      <4>1. UNCHANGED <<current_file[t], position[t], has_pending[t], field_cursor[t], emitted[t], out_row[t]>>
        BY <2>2, <3>1 DEF Claim, local
      <4> QED
        BY <1>0, <1>2, <4>1, WalkStay
    <3>2. CASE ~(next_file >= Len(Files))
      <4>1. next_file < Len(Files)
        BY <1>0, <3>2, ConstantFacts DEF TypeOK
      <4> QED
        BY <1>0, <1>2, <2>2, <4>1, WalkClaim
    <3> QED
      BY <3>1, <3>2
  <2>3. CASE NextRecord(t)
    <3>1. CASE position[t] < Len(Files[source[t]].records)
      BY <1>0, <1>2, <2>3, <3>1, WalkNext
    <3>2. CASE ~(position[t] < Len(Files[source[t]].records))
      <4>1. UNCHANGED <<current_file[t], position[t], has_pending[t], field_cursor[t], emitted[t], out_row[t]>>
        BY <2>3, <3>2 DEF NextRecord
      <4> QED
        BY <1>0, <1>2, <4>1, WalkStay
    <3> QED
      BY <3>1, <3>2
  <2>4. CASE Skip(t)
    BY <1>0, <1>2, <2>4, WalkSkip
  <2>5. CASE Emit(t)
    BY <1>0, <1>2, <2>5, WalkEmit
  <2> QED
    BY <2>1, <2>2, <2>3, <2>4, <2>5 DEF Step
<1> QED
  BY <1>1, <1>2

-----------------------------------------------------------------------------
(* Every claimed file has its thread.                                      *)

\* No other thread has a row of the file a thread reads.
LEMMA OnlyReader ==
  ASSUME IndInv, NEW t \in Thread, NEW u \in Thread, u # t, NEW f \in File, current_file[t] = f
  PROVE  current_file[u] # f /\ OfFile(emitted[u], f) = <<>>
<1>1. f # 0
  BY DEF File
<1>2. f \in Touched(t) /\ Touched(t) \cap Touched(u) = {}
  BY <1>1 DEF Touched, IndInv, OneReaderPerFile
<1>3. current_file[u] # f /\ \A i \in DOMAIN emitted[u] : emitted[u][i].filename # f
  BY <1>1, <1>2 DEF Touched
<1>4. emitted[u] \in Seq(Row)
  BY DEF IndInv, TypeOK
<1> QED
  BY <1>3, <1>4, OfFileNone

\* A thread that left its file wrote all of it, and nothing in it stopped the reader.
LEMMA LeftFile ==
  ASSUME IndInv, NEW t \in Thread, Clean(t), Walk(t), current_file[t] # 0,
         ~active[t], pc[t] \notin {"open", "failed"}
  PROVE  /\ IsReadable(current_file[t])
         /\ OfFile(emitted[t], current_file[t]) = ExpectedOf(current_file[t])
<1>0. TypeOK /\ ThreadState(t) /\ Exhausted(t)
  BY DEF IndInv
<1>1. PICK f \in File : f = current_file[t]
  BY <1>0 DEF TypeOK
<1>2. /\ position[t] \in 0..Len(Files[f].records)
      /\ DOMAIN Files[f].records = 1..Len(Files[f].records) /\ Len(Files[f].records) \in Nat
  BY <1>0, <1>1, CursorFacts, FileFacts
<1>3. position[t] = Len(Files[f].records)
  BY <1>0, <1>1, <1>2 DEF Exhausted
<1>4. ~has_pending[t]
  BY <1>0 DEF ThreadState
<1>5. /\ ~Unopenable(f) /\ ~Files[f].fails
      /\ \A i \in DOMAIN Files[f].records : ~Stops(Files[f].records[i])
  BY <1>1, <1>2, <1>3, <1>4 DEF Clean
<1>6. OfFile(emitted[t], f) = RowsUpTo(f)[Len(Files[f].records)]
  BY <1>1, <1>3, <1>4 DEF Walk, BehindCursor
<1> QED
  BY <1>1, <1>5, <1>6 DEF IsReadable, ExpectedOf

\* What a step does to the rows of a file that no thread reads: nothing.
LEMMA OtherFile ==
  ASSUME IndInv, NEW t \in Thread, Step(t), NEW u \in Thread, NEW f \in File, current_file[t] # f
  PROVE  OfFile(emitted'[u], f) = OfFile(emitted[u], f)
<1>0. TypeOK /\ ThreadState(t)
  BY DEF IndInv
<1>1. CASE u # t
  BY <1>0, <1>1, Frame
<1>2. CASE u = t
  <2>1. CASE ~Emit(t)
    BY <1>2, <2>1, NothingWritten
  <2>2. CASE Emit(t)
    <3>1. /\ emitted'[t] = Append(emitted[t], RowOf(t)) /\ emitted[t] \in Seq(Row)
          /\ RowOf(t) \in Row /\ RowOf(t).filename = current_file[t]
      BY <1>0, <2>2, RowAppended
    <3> QED
      BY <1>2, <3>1, OfFileAppend
  <2> QED
    BY <2>1, <2>2
<1> QED
  BY <1>1, <1>2

\* A claimed file comes to the claiming thread, and stays with it when it is left.
LEMMA OwnedStep ==
  ASSUME WalkInv, NEW t \in Thread, Step(t)
  PROVE  Owned'
<1>0. /\ IndInv /\ TypeOK /\ ThreadState(t) /\ Clean(t) /\ Walk(t) /\ next_file \in Nat
      /\ \A u \in Thread : current_file[u] \in Nat /\ current_file[u] <= next_file
  BY RowTypes DEF WalkInv, IndInv, ThreadState
<1> SUFFICES ASSUME NEW f \in File, f <= next_file'
             PROVE  \E u \in Thread : Owns(u, f)'
  BY DEF Owned
<1>1. f \in Nat /\ f # 0 /\ f <= Len(Files) /\ Len(Files) \in Nat
  BY ConstantFacts DEF File
<1>2. CASE f <= next_file
  <2>0. PICK o \in Thread : Owns(o, f)
    BY <1>2 DEF WalkInv, Owned
  <2>1. \/ current_file'[t] = current_file[t]
        \/ Claim(t) /\ current_file'[t] = next_file + 1
    BY <1>0, CursorStep
  <2>2. \A u \in Thread : u # t => current_file'[u] = current_file[u]
    BY <1>0, Frame
  <2>3. current_file'[t] # current_file[t] => Claim(t) /\ current_file'[t] # f
    BY <1>0, <1>1, <1>2, <2>1
  <2>4. CASE current_file[o] = f
    <3>1. CASE current_file'[o] = f
      BY <3>1 DEF Owns
    <3>2. CASE current_file'[o] # f
      <4>1. o = t /\ Claim(t) /\ current_file[t] = f
        BY <2>2, <2>3, <2>4, <3>2
      <4>2. ~active[t] /\ pc[t] = "claim" /\ emitted' = emitted
        BY <1>0, <4>1 DEF Claim, ThreadState
      <4>3. IsReadable(f) /\ OfFile(emitted[t], f) = ExpectedOf(f)
        BY <1>0, <1>1, <4>1, <4>2, LeftFile
      <4>4. \A u \in Thread \ {t} : current_file[u] # f /\ OfFile(emitted[u], f) = <<>>
        BY <1>0, <4>1, OnlyReader
      <4>5. \A u \in Thread : current_file'[u] # f
        BY <2>2, <3>2, <4>1, <4>4
      <4>6. Owns(t, f)'
        BY <4>2, <4>3, <4>4, <4>5 DEF Owns
      <4> QED
        BY <4>6
    <3> QED
      BY <3>1, <3>2
  <2>5. CASE current_file[o] # f
    <3>1. /\ \A u \in Thread : current_file[u] # f
          /\ \A u \in Thread \ {o} : OfFile(emitted[u], f) = <<>>
          /\ IsReadable(f)
          /\ OfFile(emitted[o], f) = ExpectedOf(f)
      BY <2>0, <2>5 DEF Owns
    <3>2. \A u \in Thread : OfFile(emitted'[u], f) = OfFile(emitted[u], f)
      BY <1>0, <3>1, OtherFile
    <3>3. \A u \in Thread : current_file'[u] # f
      BY <2>2, <2>3, <3>1
    <3>4. Owns(o, f)'
      BY <3>1, <3>2, <3>3 DEF Owns
    <3> QED
      BY <3>4
  <2> QED
    BY <2>4, <2>5
<1>3. CASE ~(f <= next_file)
  <2>1. Claim(t) /\ next_file' = next_file + 1
    BY <1>0, <1>1, <1>3, CursorGrows
  <2>2. f = next_file + 1 /\ ~(next_file >= Len(Files))
    BY <1>0, <1>1, <1>3, <2>1
  <2>3. current_file'[t] = f
    BY <1>0, <2>1, <2>2 DEF Claim, TypeOK
  <2> QED
    BY <2>3 DEF Owns
<1> QED
  BY <1>2, <1>3

\* The invariant holds before the first call.
LEMMA WalkInit == Init => WalkInv
<1> SUFFICES ASSUME Init
             PROVE  WalkInv
  OBVIOUS
<1>1. IndInv
  BY InvInit
<1>2. \A t \in Thread : Clean(t) /\ Walk(t)
  BY DEF Init, Clean, Walk
<1>3. Owned
  BY DEF Init, Owned, File
<1> QED
  BY <1>1, <1>2, <1>3 DEF WalkInv

\* Every step keeps it.
LEMMA WalkInvStep == WalkInv /\ [Next]_vars => WalkInv'
<1> SUFFICES ASSUME WalkInv, [Next]_vars
             PROVE  WalkInv'
  OBVIOUS
<1>1. IndInv /\ IndInv'
  BY InvStep DEF WalkInv
<1>2. ASSUME NEW t \in Thread, Step(t)
      PROVE  WalkInv'
  <2>1. \A u \in Thread : Clean(u)' /\ Walk(u)'
    BY <1>1, <1>2, CleanStep, WalkStep DEF WalkInv
  <2>2. Owned'
    BY <1>2, OwnedStep
  <2> QED
    BY <1>1, <2>1, <2>2 DEF WalkInv
<1>3. CASE UNCHANGED vars
  <2>1. \A u \in Thread : Clean(u)' /\ Walk(u)'
    BY <1>3 DEF WalkInv, Clean, Walk, BehindCursor, vars
  <2>2. Owned'
    BY <1>3 DEF WalkInv, Owned, Owns, vars
  <2> QED
    BY <1>1, <2>1, <2>2 DEF WalkInv
<1> QED
  BY <1>2, <1>3 DEF Next

-----------------------------------------------------------------------------
(* The rows returned of a file.                                            *)

\* The recursive definition holds: one part comes after the other.
LEMMA JoinedUpToDef ==
  ASSUME NEW parts \in [Thread -> Seq(Row)]
  PROVE  /\ MaxThreads \in Nat
         /\ JoinedUpTo(parts) \in [0..MaxThreads -> Seq(Row)]
         /\ JoinedUpTo(parts)[0] = <<>>
         /\ \A n \in 1..MaxThreads : JoinedUpTo(parts)[n] = JoinedUpTo(parts)[n - 1] \o parts[n]
<1> DEFINE T == Seq(Row)
           N == MaxThreads
           step == [x \in T \X Nat |-> IF x[2] \in 1..N THEN x[1] \o parts[x[2]] ELSE x[1]]
           IsJoined(g) == g = [n \in 0..N |-> IF n = 0 THEN <<>> ELSE g[n - 1] \o parts[n]]
<1>1. N \in Nat /\ <<>> \in T /\ \A n \in 1..N : parts[n] \in T
  BY ScanAssumption, ConstantFacts DEF MaxThreads, Thread
<1>2. step \in StepFunctions(T)
  <2>1. ASSUME NEW x \in T \X Nat
        PROVE  (IF x[2] \in 1..N THEN x[1] \o parts[x[2]] ELSE x[1]) \in T
    <3>1. CASE x[2] \in 1..N
      <4>1. x[1] \in Seq(Row) /\ parts[x[2]] \in Seq(Row)
        BY <1>1, <3>1
      <4>2. x[1] \o parts[x[2]] \in Seq(Row)
        BY <4>1, ConcatProperties
      <4> QED
        BY <3>1, <4>2
    <3>2. CASE x[2] \notin 1..N
      BY <3>2
    <3> QED
      BY <3>1, <3>2
  <2> QED
    BY <2>1 DEF StepFunctions
<1> HIDE DEF step, N, T
<1>3. PICK g : FollowsUpTo(g, N, T, <<>>, step)
  BY <1>1, <1>2, PrimitiveRecursion
<1>4. g \in [0..N -> T] /\ g[0] = <<>> /\ \A n \in 1..N : g[n] = step[<<g[n - 1], n>>]
  BY <1>3 DEF FollowsUpTo
<1>5. \A n \in 0..N : g[n] = IF n = 0 THEN <<>> ELSE g[n - 1] \o parts[n]
  <2> TAKE n \in 0..N
  <2>1. CASE n = 0
    BY <1>4, <2>1
  <2>2. CASE n # 0
    <3>1. n \in 1..N /\ n - 1 \in 0..N /\ n \in Nat
      BY <1>1, <2>2
    <3>2. <<g[n - 1], n>> \in T \X Nat
      BY <1>4, <3>1
    <3>3. step[<<g[n - 1], n>>] = g[n - 1] \o parts[n]
      BY <3>1, <3>2 DEF step
    <3> QED
      BY <1>4, <2>2, <3>1, <3>3
  <2> QED
    BY <2>1, <2>2
<1>6. IsJoined(g)
  BY <1>4, <1>5
<1>7. JoinedUpTo(parts) = CHOOSE h : IsJoined(h)
  BY DEF JoinedUpTo, N
<1> DEFINE J == JoinedUpTo(parts)
<1>8. IsJoined(J)
  <2> HIDE DEF IsJoined
  <2> QED
    BY <1>6, <1>7
<1> HIDE DEF J
<1>9. \A n \in 0..N : J[n] = IF n = 0 THEN <<>> ELSE J[n - 1] \o parts[n]
  BY <1>8
<1>10. DOMAIN J = 0..N /\ J = [n \in DOMAIN J |-> J[n]]
  BY <1>8
<1>11. \A n \in 0..N : J[n] \in T
  <2> DEFINE K == {n \in Nat : n <= N => J[n] \in T}
  <2>1. 0 \in K
    BY <1>1, <1>9
  <2>2. ASSUME NEW n \in Nat, n \in K
        PROVE  n + 1 \in K
    <3> SUFFICES ASSUME n + 1 <= N
                 PROVE  J[n + 1] \in T
      OBVIOUS
    <3>1. PICK m \in 1..N : m = n + 1
      BY <1>1
    <3>2. J[n] \in T /\ m - 1 = n /\ m \in 0..N /\ m # 0
      BY <1>1, <2>2, <3>1
    <3>3. J[m] = J[n] \o parts[m]
      BY <1>9, <3>2
    <3>4. J[n] \o parts[m] \in T
      <4>1. J[n] \in Seq(Row) /\ parts[m] \in Seq(Row)
        BY <1>1, <3>2 DEF T
      <4> QED
        BY <4>1, ConcatProperties DEF T
    <3> QED
      BY <3>1, <3>3, <3>4
  <2> HIDE DEF K
  <2>3. Nat \subseteq K
    BY <2>1, <2>2, NatSetInduction
  <2> QED
    BY <1>1, <2>3 DEF K
<1>12. J \in [0..N -> T]
  BY <1>10, <1>11
<1>13. J[0] = <<>> /\ \A n \in 1..N : J[n] = J[n - 1] \o parts[n]
  <2>1. 0 \in 0..N /\ \A n \in 1..N : n \in 0..N /\ n # 0
    BY <1>1
  <2> QED
    BY <1>9, <2>1, Zenon
<1> QED
  BY <1>1, <1>12, <1>13 DEF J, T, N

\* If only one part has rows, it is the whole.
LEMMA JoinedOne ==
  ASSUME NEW parts \in [Thread -> Seq(Row)], NEW t \in Thread,
         \A u \in Thread : u # t => parts[u] = <<>>
  PROVE  JoinedUpTo(parts)[MaxThreads] = parts[t]
<1> DEFINE J == JoinedUpTo(parts)
           K == {n \in Nat : n <= MaxThreads => J[n] = IF n < t THEN <<>> ELSE parts[t]}
<1>1. /\ MaxThreads \in Nat /\ J[0] = <<>>
      /\ \A n \in 1..MaxThreads : J[n] = J[n - 1] \o parts[n]
  BY JoinedUpToDef
<1>2. t \in 1..MaxThreads /\ t \in Nat /\ parts[t] \in Seq(Row)
  BY <1>1 DEF Thread
<1> HIDE DEF J
<1>3. 0 \in K
  BY <1>1, <1>2
<1>4. ASSUME NEW n \in Nat, n \in K
      PROVE  n + 1 \in K
  <2> SUFFICES ASSUME n + 1 <= MaxThreads
               PROVE  J[n + 1] = IF n + 1 < t THEN <<>> ELSE parts[t]
    OBVIOUS
  <2>1. PICK m \in 1..MaxThreads : m = n + 1
    BY <1>1
  <2>2. J[n] = (IF n < t THEN <<>> ELSE parts[t]) /\ m - 1 = n
    BY <1>1, <1>4, <2>1
  <2>3. J[m] = J[n] \o parts[m]
    BY <1>1, <2>2
  <2>4. m # t => parts[m] = <<>>
    BY DEF Thread
  <2>5. <<>> \o <<>> = <<>> /\ <<>> \o parts[t] = parts[t] /\ parts[t] \o <<>> = parts[t]
    BY <1>2
  <2>6. CASE m < t
    BY <1>2, <2>1, <2>2, <2>3, <2>4, <2>5, <2>6
  <2>7. CASE m = t
    <3>1. n < t /\ ~(n + 1 < t)
      BY <1>2, <2>1, <2>7
    <3>2. J[m] = parts[t]
      BY <2>2, <2>3, <2>5, <2>7, <3>1, Zenon
    <3> QED
      BY <2>1, <3>1, <3>2, Zenon
  <2>8. CASE m > t
    <3>1. ~(n < t) /\ ~(n + 1 < t) /\ m # t
      BY <1>2, <2>1, <2>8
    <3>2. J[m] = parts[t]
      BY <2>2, <2>3, <2>4, <2>5, <3>1, Zenon
    <3> QED
      BY <2>1, <3>1, <3>2, Zenon
  <2> QED
    BY <1>1, <1>2, <2>6, <2>7, <2>8
<1> HIDE DEF K
<1>5. MaxThreads \in K
  BY <1>1, <1>3, <1>4, NatSetInduction
<1> QED
  BY <1>1, <1>2, <1>5 DEF J, K

\* What a thread has returned is the beginning of what it wrote; all of it between calls.
LEMMA ReturnedFacts ==
  ASSUME TypeOK, NEW t \in Thread, Walk(t)
  PROVE  /\ Returned(t) \in Seq(Row)
         /\ PrefixOf(Returned(t), emitted[t])
         /\ pc[t] \in {"idle", "done"} => Returned(t) = emitted[t]
<1>1. emitted[t] \in Seq(Row) /\ Len(emitted[t]) \in Nat /\ out_row[t] \in Nat /\ out_row[t] <= Len(emitted[t])
  BY DEF TypeOK, Walk
<1>2. CASE pc[t] \in {"idle", "done"}
  <2>1. Returned(t) = emitted[t]
    BY <1>2 DEF Returned
  <2> QED
    BY <1>1, <2>1, PrefixOfJoined
<1>3. CASE pc[t] \notin {"idle", "done"}
  <2>1. PICK n \in 0..Len(emitted[t]) : n = Len(emitted[t]) - out_row[t]
    BY <1>1
  <2>2. Returned(t) = SubSeq(emitted[t], 1, n)
    BY <1>3, <2>1 DEF Returned
  <2>3. /\ SubSeq(emitted[t], 1, n) \in Seq(Row) /\ Len(SubSeq(emitted[t], 1, n)) = n
        /\ \A i \in 1..n : SubSeq(emitted[t], 1, n)[i] = emitted[t][i]
    BY <1>1
  <2> QED
    BY <1>1, <1>3, <2>1, <2>2, <2>3 DEF PrefixOf
<1> QED
  BY <1>2, <1>3

\* Only the return of a chunk changes what is returned: then it is all that is written.
LEMMA ReturnedStep ==
  ASSUME TypeOK, NEW t \in Thread, ThreadState(t), Walk(t), Step(t), NEW u \in Thread
  PROVE  \/ Returned(u)' = Returned(u)
         \/ Return(t) /\ u = t /\ Returned(t)' = emitted[t] /\ emitted' = emitted
<1>1. CASE u # t
  BY <1>1, Frame DEF Returned
<1>2. CASE u = t
  <2>0. emitted[t] \in Seq(Row) /\ Len(emitted[t]) \in Nat /\ out_row[t] \in Nat /\ out_row[t] <= Len(emitted[t])
    BY DEF TypeOK, Walk
  <2>1. CASE StartChunk(t)
    <3>1. pc[t] = "idle" /\ pc'[t] = "peek" /\ emitted' = emitted /\ out_row'[t] = 0
      BY <2>1 DEF StartChunk, Goto, TypeOK
    <3>2. SubSeq(emitted[t], 1, Len(emitted[t]) - 0) = emitted[t]
      BY <2>0
    <3> QED
      BY <1>2, <3>1, <3>2 DEF Returned
  <2>2. CASE Emit(t)
    <3>0. pc[t] = "row" /\ pc'[t] \in {"row", "peek"} /\ out_row'[t] = out_row[t] + 1
      BY <2>2 DEF Emit, Goto, TypeOK
    <3>1. emitted'[t] = Append(emitted[t], RowOf(t)) /\ RowOf(t) \in Row
      BY <2>2, RowAppended
    <3>2. PICK n \in Nat : n = Len(emitted[t]) - out_row[t]
      BY <2>0
    <3> DEFINE old == emitted[t]
               new == emitted'[t]
    <3>3. /\ n <= Len(old) /\ Len(new) = Len(old) + 1 /\ Len(new) - (out_row[t] + 1) = n
          /\ \A i \in 1..Len(old) : new[i] = old[i]
      BY <2>0, <3>1, <3>2, AppendProperties
    <3>4. SubSeq(new, 1, n) = SubSeq(old, 1, n)
      <4> HIDE DEF old, new
      <4> QED
        BY <2>0, <3>3
    <3>5. Returned(t) = SubSeq(emitted[t], 1, n)
      BY <3>0, <3>2 DEF Returned
    <3>6. Returned(t)' = SubSeq(emitted'[t], 1, Len(emitted'[t]) - out_row'[t])
      BY <3>0 DEF Returned
    <3> QED
      BY <1>2, <3>0, <3>3, <3>4, <3>5, <3>6
  <2>3. CASE Peek(t) \/ Claim(t) \/ Open(t) \/ NextRecord(t) \/ Skip(t) \/ DecodeError(t)
    <3>1. /\ pc[t] \notin {"idle", "done"} /\ pc'[t] \notin {"idle", "done"}
          /\ emitted' = emitted /\ out_row' = out_row
      BY <2>3 DEF Peek, Claim, Open, NextRecord, Skip, DecodeError, Goto, TypeOK
    <3> QED
      BY <1>2, <3>1 DEF Returned
  <2>4. CASE Return(t)
    <3>1. pc'[t] \in {"idle", "done"} /\ emitted' = emitted
      BY <2>4 DEF Return, Goto, TypeOK
    <3> QED
      BY <1>2, <2>4, <3>1 DEF Returned
  <2> QED
    BY <2>1, <2>2, <2>3, <2>4 DEF Step
<1> QED
  BY <1>1, <1>2

-----------------------------------------------------------------------------
(* The steps of ScanResult.                                                *)

\* No row of a file beyond the shared cursor is written.
LEMMA Unclaimed ==
  ASSUME IndInv, NEW t \in Thread, NEW f, ~(f <= next_file)
  PROVE  OfFile(emitted[t], f) = <<>>
<1>0. TypeOK /\ emitted[t] \in Seq(Row)
  BY DEF IndInv, TypeOK
<1>1. \A i \in DOMAIN emitted[t] : emitted[t][i].filename # f
  <2> TAKE i \in DOMAIN emitted[t]
  <2>1. emitted[t][i].filename \in Nat /\ current_file[t] \in Nat /\ next_file \in Nat
    BY <1>0, RowTypes
  <2>2. emitted[t][i].filename <= current_file[t] /\ current_file[t] <= next_file
    BY DEF IndInv, Behind, ThreadState
  <2> QED
    BY <2>1, <2>2
<1> QED
  BY <1>0, <1>1, OfFileNone

\* All rows of a file are with one thread.
LEMMA OneWriter ==
  ASSUME WalkInv, NEW f \in File
  PROVE  \E t \in Thread : \A u \in Thread : u # t => OfFile(emitted[u], f) = <<>>
<1>0. IndInv /\ TypeOK /\ 1 \in Thread
  BY ScanAssumption, ConstantFacts DEF WalkInv, IndInv, Thread, MaxThreads
<1>1. CASE f <= next_file
  <2>1. PICK o \in Thread : Owns(o, f)
    BY <1>1 DEF WalkInv, Owned
  <2>2. CASE current_file[o] = f
    <3>1. \A u \in Thread : u # o => OfFile(emitted[u], f) = <<>>
      BY <1>0, <2>2, OnlyReader
    <3> QED
      BY <3>1
  <2>3. CASE current_file[o] # f
    BY <2>1, <2>3 DEF Owns
  <2> QED
    BY <2>2, <2>3
<1>2. CASE ~(f <= next_file)
  <2>1. \A u \in Thread : OfFile(emitted[u], f) = <<>>
    BY <1>0, <1>2, Unclaimed
  <2> QED
    BY <1>0, <2>1
<1> QED
  BY <1>1, <1>2

\* The rows behind a cursor come first among those expected of the file.
LEMMA BehindExpected ==
  ASSUME TypeOK, NEW t \in Thread, ThreadState(t), Clean(t), Walk(t), current_file[t] # 0
  PROVE  PrefixOf(OfFile(emitted[t], current_file[t]), ExpectedOf(current_file[t]))
<1>1. PICK f \in File : f = current_file[t]
  BY DEF TypeOK
<1>2. PICK p \in Nat : p = position[t]
  BY DEF TypeOK
<1>3. OfFile(emitted[t], f) = BehindCursor(t)
  BY <1>1 DEF Walk
<1>4. Len(Files[f].records) \in Nat /\ p \in 0..Len(Files[f].records)
  BY <1>1, <1>2, CursorFacts, FileFacts
<1>5. RowsUpTo(f) \in [0..Len(Files[f].records) -> Seq(Row)] /\ RowsUpTo(f)[0] = <<>>
  BY RowsUpToDef
<1>6. CASE Unopenable(f)
  <2>1. BehindCursor(t) = <<>> /\ ExpectedOf(f) = <<>>
    BY <1>1, <1>5, <1>6 DEF Clean, BehindCursor, ExpectedOf
  <2>2. <<>> \in Seq(Row) /\ PrefixOf(<<>>, <<>>)
    BY DEF PrefixOf
  <2> QED
    BY <1>1, <1>3, <2>1, <2>2
<1>7. CASE ~Unopenable(f)
  <2> DEFINE all == RowsUpTo(f)[Len(Files[f].records)]
  <2>1. ExpectedOf(f) = all
    BY <1>7 DEF ExpectedOf
  <2>2. all \in Seq(Row) /\ RowsUpTo(f)[p] \in Seq(Row) /\ PrefixOf(RowsUpTo(f)[p], all)
    <3>1. Len(Files[f].records) \in 0..Len(Files[f].records) /\ p <= Len(Files[f].records)
      BY <1>4
    <3>2. PrefixOf(RowsUpTo(f)[p], all)
      BY <1>4, <3>1, RowsUpToGrows
    <3> QED
      BY <1>4, <1>5, <3>1, <3>2
  <2>3. CASE ~has_pending[t]
    <3>1. BehindCursor(t) = RowsUpTo(f)[p]
      BY <1>1, <1>2, <2>3 DEF BehindCursor
    <3> QED
      BY <1>1, <1>3, <2>1, <2>2, <3>1
  <2>4. CASE has_pending[t]
    <3>1. PICK c \in Nat : c = field_cursor[t]
      BY DEF TypeOK
    <3> DEFINE before == RowsUpTo(f)[p - 1]
               good == GoodRows(Files[f].records[p])
    <3>2. /\ p \in 1..Len(Files[f].records) /\ p - 1 \in 0..Len(Files[f].records)
          /\ Files[f].records[p] \in Record /\ c <= good
          /\ \A i \in 1..(p - 1) : ~Stops(Files[f].records[i])
      BY <1>1, <1>2, <2>4, <3>1, CursorFacts
    <3>3. good \in Nat /\ before \in Seq(Row)
      BY <1>5, <3>2, GoodRowsFacts
    <3>4. RowsUpTo(f)[p] = before \o RowsOfRecord(f, p, good)
      BY <3>2, RecordDone
    <3>5. BehindCursor(t) = before \o RowsOfRecord(f, p, c)
      BY <1>1, <1>2, <2>4, <3>1 DEF BehindCursor
    <3>6. PrefixOf(before \o RowsOfRecord(f, p, c), before \o RowsOfRecord(f, p, good))
      <4> HIDE DEF before, good
      <4> QED
        BY <3>2, <3>3, FewerRecordRows
    <3>7. before \o RowsOfRecord(f, p, c) \in Seq(Row)
      <4>1. RowsOfRecord(f, p, c) \in Seq(Row)
        BY RecordRowsFacts
      <4> HIDE DEF before
      <4> QED
        BY <3>3, <4>1, ConcatProperties
    <3>8. PrefixOf(BehindCursor(t), RowsUpTo(f)[p]) /\ BehindCursor(t) \in Seq(Row)
      BY <3>4, <3>5, <3>6, <3>7
    <3>9. PrefixOf(BehindCursor(t), all)
      <4> HIDE DEF all
      <4> QED
        BY <2>2, <3>8, PrefixTransitive
    <3> QED
      BY <1>1, <1>3, <2>1, <3>9
  <2> QED
    BY <2>3, <2>4
<1> QED
  BY <1>6, <1>7

\* What a thread wrote of a file comes first among what is expected of it.
LEMMA WrittenExpected ==
  ASSUME WalkInv, NEW t \in Thread, NEW f \in File
  PROVE  PrefixOf(OfFile(emitted[t], f), ExpectedOf(f))
<1>0. IndInv /\ TypeOK /\ f # 0 /\ ThreadState(t) /\ Clean(t) /\ Walk(t)
  BY DEF WalkInv, IndInv, File
<1>1. ExpectedOf(f) \in Seq(Row)
  BY ExpectedType
<1>2. OfFile(emitted[t], f) = <<>> => PrefixOf(OfFile(emitted[t], f), ExpectedOf(f))
  BY <1>1 DEF PrefixOf
<1>3. CASE current_file[t] = f
  BY <1>0, <1>3, BehindExpected
<1>4. CASE current_file[t] # f /\ f <= next_file
  <2>1. PICK o \in Thread : Owns(o, f)
    BY <1>4 DEF WalkInv, Owned
  <2>2. CASE current_file[o] = f
    BY <1>0, <1>2, <1>4, <2>2, OnlyReader
  <2>3. CASE current_file[o] # f
    <3>1. OfFile(emitted[t], f) = <<>> \/ OfFile(emitted[t], f) = ExpectedOf(f)
      BY <2>1, <2>3 DEF Owns
    <3>2. PrefixOf(ExpectedOf(f), ExpectedOf(f))
      BY <1>1, PrefixOfJoined
    <3> QED
      BY <1>2, <3>1, <3>2
  <2> QED
    BY <2>2, <2>3
<1>5. CASE ~(f <= next_file)
  BY <1>0, <1>2, <1>5, Unclaimed
<1> QED
  BY <1>3, <1>4, <1>5

\* The returned rows of a file are those of the one thread that wrote any.
LEMMA ReturnedOfOne ==
  ASSUME WalkInv, NEW f \in File, NEW t \in Thread,
         \A u \in Thread : u # t => OfFile(emitted[u], f) = <<>>
  PROVE  ReturnedOf(f) = OfFile(Returned(t), f)
<1> DEFINE parts == [u \in Thread |-> OfFile(Returned(u), f)]
<1>1. \A u \in Thread : /\ Returned(u) \in Seq(Row) /\ emitted[u] \in Seq(Row)
                        /\ PrefixOf(Returned(u), emitted[u])
  BY ReturnedFacts DEF WalkInv, IndInv, TypeOK
<1>2. \A u \in Thread : OfFile(Returned(u), f) \in Seq(Row)
  BY <1>1, OfFileType
<1>3. ASSUME NEW u \in Thread, u # t
      PROVE  OfFile(Returned(u), f) = <<>>
  <2>1. PrefixOf(OfFile(Returned(u), f), OfFile(emitted[u], f))
    BY <1>1, OfFileGrows
  <2>2. PrefixOf(OfFile(Returned(u), f), <<>>)
    BY <1>3, <2>1
  <2> QED
    BY <1>2, <2>2, PrefixOfEmpty
<1>4. parts \in [Thread -> Seq(Row)]
  BY <1>2
<1>5. \A u \in Thread : u # t => parts[u] = <<>>
  BY <1>3
<1>6. parts[t] = OfFile(Returned(t), f)
  OBVIOUS
<1>7. ReturnedOf(f) = JoinedUpTo(parts)[MaxThreads]
  BY DEF ReturnedOf
<1> HIDE DEF parts
<1> QED
  BY <1>4, <1>5, <1>6, <1>7, JoinedOne

\* When every thread got its empty chunk, all that is expected was returned, and nothing
\* in any file stops a reader.
LEMMA AllReturned ==
  ASSUME WalkInv, \A t \in Thread : pc[t] = "done", NEW f \in File
  PROVE  IsReadable(f) /\ ReturnedOf(f) = ExpectedOf(f)
<1>0. IndInv /\ TypeOK /\ 1 \in Thread /\ next_file \in Nat
  BY ScanAssumption, ConstantFacts DEF WalkInv, IndInv, TypeOK, Thread, MaxThreads
<1>1. f \in Nat /\ f # 0 /\ f <= Len(Files) /\ Len(Files) \in Nat
  BY ConstantFacts DEF File
<1>2. \A t \in Thread : ~active[t] /\ next_file >= Len(Files)
  BY <1>0 DEF IndInv, ThreadState
<1>3. f <= next_file
  BY <1>0, <1>1, <1>2
<1>4. PICK o \in Thread : Owns(o, f)
  BY <1>3 DEF WalkInv, Owned
<1>5. /\ \A u \in Thread : u # o => OfFile(emitted[u], f) = <<>>
      /\ IsReadable(f) /\ OfFile(emitted[o], f) = ExpectedOf(f)
  <2>1. CASE current_file[o] = f
    <3>1. \A u \in Thread : u # o => OfFile(emitted[u], f) = <<>>
      BY <1>0, <2>1, OnlyReader
    <3>2. Clean(o) /\ Walk(o) /\ ~active[o] /\ pc[o] = "done"
      BY <1>2 DEF WalkInv
    <3>3. IsReadable(f) /\ OfFile(emitted[o], f) = ExpectedOf(f)
      BY <1>0, <1>1, <2>1, <3>2, LeftFile
    <3> QED
      BY <3>1, <3>3
  <2>2. CASE current_file[o] # f
    BY <1>4, <2>2 DEF Owns
  <2> QED
    BY <2>1, <2>2
<1>6. ReturnedOf(f) = OfFile(Returned(o), f)
  BY <1>5, ReturnedOfOne
<1>7. Returned(o) = emitted[o]
  BY DEF Returned
<1> QED
  BY <1>5, <1>6, <1>7

\* What the invariant says of the rows written and returned.
Delivered ==
  /\ \A t \in Thread : Returned(t) \in Seq(Row) /\ PrefixOf(Returned(t), emitted[t])
  /\ \A f \in File :
       /\ \A t \in Thread : PrefixOf(OfFile(emitted[t], f), ExpectedOf(f))
       /\ \E t \in Thread : \A u \in Thread : u # t => OfFile(emitted[u], f) = <<>>
       /\ \A t \in Thread : (\A u \in Thread : u # t => OfFile(emitted[u], f) = <<>>) =>
            ReturnedOf(f) = OfFile(Returned(t), f)
       /\ (\A t \in Thread : pc[t] = "done") => IsReadable(f) /\ ReturnedOf(f) = ExpectedOf(f)

\* It follows from the invariant.
LEMMA DeliveredHolds == WalkInv => Delivered
<1> SUFFICES ASSUME WalkInv
             PROVE  Delivered
  OBVIOUS
<1>1. \A t \in Thread : Returned(t) \in Seq(Row) /\ PrefixOf(Returned(t), emitted[t])
  BY ReturnedFacts DEF WalkInv, IndInv
<1>2. ASSUME NEW f \in File
      PROVE  /\ \A t \in Thread : PrefixOf(OfFile(emitted[t], f), ExpectedOf(f))
             /\ \E t \in Thread : \A u \in Thread : u # t => OfFile(emitted[u], f) = <<>>
             /\ \A t \in Thread : (\A u \in Thread : u # t => OfFile(emitted[u], f) = <<>>) =>
                  ReturnedOf(f) = OfFile(Returned(t), f)
             /\ (\A t \in Thread : pc[t] = "done") => IsReadable(f) /\ ReturnedOf(f) = ExpectedOf(f)
  BY WrittenExpected, OneWriter, ReturnedOfOne, AllReturned
<1> QED
  BY <1>1, <1>2 DEF Delivered

\* And so it does after a step.
LEMMA DeliveredNext == WalkInv' => Delivered'
BY DeliveredHolds, PTL

\* What is returned of a file grows, towards what is expected; only the return of a
\* chunk with rows changes it.
LEMMA ResultGrows ==
  ASSUME WalkInv, WalkInv', NEW t \in Thread, Step(t), NEW f \in File
  PROVE  /\ Result!IsPrefix(ReturnedOf(f), ReturnedOf(f)')
         /\ Result!IsPrefix(ReturnedOf(f)', ExpectedOf(f))
         /\ ReturnedOf(f)' = ReturnedOf(f) \/ (Return(t) /\ out_row[t] # 0)
<1>0. TypeOK /\ ThreadState(t) /\ Walk(t) /\ TypeOK' /\ Delivered /\ Delivered'
  BY DeliveredHolds, DeliveredNext DEF WalkInv, IndInv
<1>1. PICK o \in Thread : \A u \in Thread : u # o => OfFile(emitted'[u], f) = <<>>
  BY <1>0 DEF Delivered
<1>2. \A u \in Thread : /\ emitted[u] \in Seq(Row) /\ emitted'[u] \in Seq(Row)
                        /\ PrefixOf(emitted[u], emitted'[u])
  <2> TAKE u \in Thread
  <2>1. emitted[u] \in Seq(Row) /\ emitted'[u] \in Seq(Row)
    BY <1>0 DEF TypeOK
  <2>2. CASE u = t /\ Emit(t)
    <3>1. Len(emitted'[t]) = Len(emitted[t]) + 1 /\ \A i \in 1..Len(emitted[t]) : emitted'[t][i] = emitted[t][i]
      BY <1>0, <2>2, RowWritten
    <3> QED
      BY <2>1, <2>2, <3>1 DEF PrefixOf
  <2>3. CASE ~(u = t /\ Emit(t))
    <3>1. emitted'[u] = emitted[u]
      BY <1>0, <2>3, Frame, NothingWritten
    <3> QED
      BY <2>1, <3>1, PrefixOfJoined
  <2> QED
    BY <2>1, <2>2, <2>3
<1>3. \A u \in Thread : u # o => OfFile(emitted[u], f) = <<>>
  <2> TAKE u \in Thread
  <2> HAVE u # o
  <2>1. PrefixOf(OfFile(emitted[u], f), <<>>)
    BY <1>1, <1>2, OfFileGrows
  <2> QED
    BY <1>2, <2>1, OfFileType, PrefixOfEmpty
<1>4. ReturnedOf(f) = OfFile(Returned(o), f)
  BY <1>0, <1>3 DEF Delivered
<1>5. ReturnedOf(f)' = OfFile(Returned(o)', f)
  BY <1>0, <1>1 DEF Delivered
<1>6. /\ Returned(o) \in Seq(Row) /\ Returned(o)' \in Seq(Row)
      /\ PrefixOf(Returned(o), emitted[o]) /\ PrefixOf(Returned(o)', emitted'[o])
  BY <1>0 DEF Delivered
<1>7. \/ Returned(o)' = Returned(o)
      \/ Return(t) /\ o = t /\ Returned(t)' = emitted[t] /\ emitted' = emitted
  BY <1>0, ReturnedStep
<1>8. PrefixOf(Returned(o), Returned(o)')
  BY <1>6, <1>7, PrefixOfJoined
<1>9. /\ ReturnedOf(f) \in Seq(Row) /\ ReturnedOf(f)' \in Seq(Row) /\ OfFile(emitted'[o], f) \in Seq(Row)
      /\ ExpectedOf(f) \in Seq(Row)
  BY <1>2, <1>4, <1>5, <1>6, OfFileType, ExpectedType
<1>10. PrefixOf(ReturnedOf(f), ReturnedOf(f)')
  BY <1>4, <1>5, <1>6, <1>8, OfFileGrows
<1>11. PrefixOf(ReturnedOf(f)', ExpectedOf(f))
  <2>1. PrefixOf(ReturnedOf(f)', OfFile(emitted'[o], f))
    BY <1>2, <1>5, <1>6, OfFileGrows
  <2>2. PrefixOf(OfFile(emitted'[o], f), ExpectedOf(f))
    BY <1>0 DEF Delivered
  <2> QED
    BY <1>9, <2>1, <2>2, PrefixTransitive
<1>12. ReturnedOf(f)' = ReturnedOf(f) \/ (Return(t) /\ out_row[t] # 0)
  <2>1. CASE Returned(o)' = Returned(o)
    BY <1>4, <1>5, <2>1
  <2>2. CASE Return(t) /\ o = t /\ Returned(t)' = emitted[t] /\ out_row[t] = 0
    <3>1. pc[t] = "return" /\ emitted[t] \in Seq(Row)
      BY <1>0, <2>2 DEF Return, TypeOK
    <3>2. Returned(t) = SubSeq(emitted[t], 1, Len(emitted[t]) - 0)
      BY <2>2, <3>1 DEF Returned
    <3>3. Returned(t) = emitted[t]
      BY <3>1, <3>2
    <3> QED
      BY <1>4, <1>5, <2>2, <3>3
  <2> QED
    BY <1>7, <2>1, <2>2
<1> QED
  BY <1>9, <1>10, <1>11, <1>12, PrefixIsPrefix

\* A step ends a thread's scan with an empty chunk, or fails on a file that cannot be
\* read, or goes on.
LEMMA EndStep ==
  ASSUME WalkInv, NEW t \in Thread, Step(t)
  PROVE  /\ pc[t] \notin {"done", "failed"}
         /\ \/ pc'[t] \notin {"done", "failed"}
            \/ pc'[t] = "done" /\ Return(t) /\ out_row[t] = 0
            \/ /\ pc'[t] = "failed" /\ ~Return(t)
               /\ current_file[t] \in File /\ ~IsReadable(current_file[t])
<1>0. TypeOK /\ ThreadState(t)
  BY DEF WalkInv, IndInv
<1>1. CASE StartChunk(t) \/ Peek(t) \/ Claim(t) \/ Skip(t) \/ Emit(t)
  BY <1>0, <1>1 DEF StartChunk, Peek, Claim, Skip, Emit, Goto, TypeOK
<1>2. CASE Open(t)
  <2>1. pc[t] = "open" /\ current_file[t] \in File
    BY <1>0, <1>2 DEF Open, ThreadState
  <2>2. pc'[t] = "next" \/ (pc'[t] = "failed" /\ Unopenable(current_file[t]))
    BY <1>0, <1>2 DEF Open, Goto, TypeOK
  <2> QED
    BY <2>1, <2>2 DEF IsReadable, Return
<1>3. CASE NextRecord(t)
  <2>1. pc[t] = "next" /\ source[t] = current_file[t] /\ current_file[t] \in File
    BY <1>0, <1>3 DEF NextRecord, ThreadState
  <2>2. pc'[t] \in {"row", "claim"} \/ (pc'[t] = "failed" /\ Files[current_file[t]].fails)
    BY <1>0, <1>3, <2>1 DEF NextRecord, Goto, TypeOK
  <2> QED
    BY <2>1, <2>2 DEF IsReadable, Return
<1>4. CASE DecodeError(t)
  <2>1. pc[t] = "row" /\ pc'[t] = "failed" /\ has_pending[t]
    BY <1>0, <1>4 DEF DecodeError, Goto, TypeOK, ThreadState
  <2> DEFINE r == Files[current_file[t]].records[position[t]]
  <2>2. /\ current_file[t] \in File /\ PendingRecord(t) = r /\ r \in Record
        /\ position[t] \in DOMAIN Files[current_file[t]].records
    BY <1>0, <2>1, PendingFacts DEF ThreadState
  <2>3. PICK k \in 1..RowsOf(r) : k = field_cursor[t] + 1
    <3>1. field_cursor[t] \in Nat /\ field_cursor[t] < RowsOf(r) /\ RowsOf(r) \in Nat
      BY <1>0, <1>4, <2>2, RowsOfNat DEF DecodeError, TypeOK
    <3> QED
      BY <3>1
  <2>4. Throws(r, k)
    BY <1>4, <2>2, <2>3 DEF DecodeError
  <2>5. Stops(r)
    BY <2>4 DEF Stops
  <2> QED
    BY <2>1, <2>2, <2>5 DEF IsReadable, Return
<1>5. CASE Return(t)
  BY <1>0, <1>5 DEF Return, Goto, TypeOK
<1> QED
  BY <1>1, <1>2, <1>3, <1>4, <1>5 DEF Step

\* Before the first call nothing is returned.
LEMMA ResultInit == Init => Result!Init
<1> SUFFICES ASSUME Init
             PROVE  Result!Init
  OBVIOUS
<1>1. WalkInv /\ Delivered
  BY WalkInit, DeliveredHolds
<1>2. ASSUME NEW f \in File
      PROVE  ReturnedOf(f) = <<>>
  <2>1. PICK t \in Thread : ReturnedOf(f) = OfFile(Returned(t), f)
    BY <1>1 DEF Delivered
  <2>2. Returned(t) = <<>> /\ <<>> \in Seq(Row) /\ Len(<<>>) = 0
    BY DEF Init, Returned
  <2> QED
    BY <2>1, <2>2, OfFileType
<1>3. 1 \in Thread
  BY ScanAssumption, ConstantFacts DEF Thread, MaxThreads
<1>4. ~Failed /\ ~(\A t \in Thread : pc[t] = "done")
  BY <1>3 DEF Init, Failed
<1>5. [f \in File |-> ReturnedOf(f)] = [f \in File |-> <<>>]
  BY <1>2
<1> QED
  BY <1>4, <1>5 DEF Result!Init

\* Every step of a thread delivers rows, ends the query, or changes nothing of it.
LEMMA ResultStep == WalkInv /\ WalkInv' /\ [Next]_vars => [Result!Next]_(Result!vars)
<1> SUFFICES ASSUME WalkInv, WalkInv', [Next]_vars
             PROVE  [Result!Next]_(Result!vars)
  OBVIOUS
<1> DEFINE rows == [f \in File |-> ReturnedOf(f)]
           done == \A u \in Thread : pc[u] = "done"
           end == IF Failed THEN "failed" ELSE IF done THEN "done" ELSE "running"
<1>1. ASSUME NEW t \in Thread, Step(t)
      PROVE  [Result!Next]_(Result!vars)
  <2>0. \A u \in Thread : u # t => pc'[u] = pc[u]
    BY <1>1, Frame DEF WalkInv, IndInv
  <2>1. /\ pc[t] \notin {"done", "failed"}
        /\ \/ pc'[t] \notin {"done", "failed"}
           \/ pc'[t] = "done" /\ Return(t) /\ out_row[t] = 0
           \/ /\ pc'[t] = "failed" /\ ~Return(t)
              /\ current_file[t] \in File /\ ~IsReadable(current_file[t])
    BY <1>1, EndStep
  <2>2. \A f \in File :
          /\ Result!IsPrefix(ReturnedOf(f), ReturnedOf(f)')
          /\ Result!IsPrefix(ReturnedOf(f)', ExpectedOf(f))
          /\ ReturnedOf(f)' = ReturnedOf(f) \/ (Return(t) /\ out_row[t] # 0)
    BY <1>1, ResultGrows
  <2>3. ~done
    BY <2>1
  <2>4. rows' = rows \/ (Return(t) /\ out_row[t] # 0)
    BY <2>2
  <2>5. CASE Return(t) /\ out_row[t] # 0
    <3>1. pc'[t] = "idle"
      BY <2>5 DEF Return, Goto, WalkInv, IndInv, TypeOK
    <3>2. ~done' /\ (Failed' <=> Failed)
      BY <2>0, <2>1, <3>1 DEF Failed
    <3>3. end' = end /\ end # "done"
      BY <2>3, <3>2
    <3>4. Result!Advance
      BY <2>2, <3>3 DEF Result!Advance
    <3> QED
      BY <3>4 DEF Result!Next
  <2>6. CASE rows' = rows
    <3>1. CASE pc'[t] \notin {"done", "failed"}
      <4>1. ~done' /\ (Failed' <=> Failed)
        BY <2>0, <2>1, <3>1 DEF Failed
      <4>2. end' = end
        BY <2>3, <4>1
      <4> QED
        BY <2>6, <4>2 DEF Result!vars
    <3>2. CASE pc'[t] = "done"
      <4>1. Failed' <=> Failed
        BY <2>0, <2>1, <3>2 DEF Failed
      <4>2. CASE Failed \/ ~done'
        <5>1. end' = end
          BY <2>3, <4>1, <4>2
        <5> QED
          BY <2>6, <5>1 DEF Result!vars
      <4>3. CASE ~Failed /\ done'
        <5>1. end = "running" /\ end' = "done"
          BY <2>3, <4>1, <4>3
        <5>2. \A f \in File : IsReadable(f) /\ ReturnedOf(f)' = ExpectedOf(f)
          BY <4>3, DeliveredNext DEF Delivered
        <5>3. rows' = [f \in File |-> ExpectedOf(f)]
          BY <5>2
        <5>4. Result!Succeed
          BY <2>6, <5>1, <5>2, <5>3 DEF Result!Succeed
        <5> QED
          BY <5>4 DEF Result!Next
      <4> QED
        BY <4>2, <4>3
    <3>3. CASE pc'[t] = "failed"
      <4>1. Failed' /\ current_file[t] \in File /\ ~IsReadable(current_file[t])
        BY <2>1, <3>3 DEF Failed
      <4>2. CASE Failed
        <5>1. end' = end
          BY <4>1, <4>2
        <5> QED
          BY <2>6, <5>1 DEF Result!vars
      <4>3. CASE ~Failed
        <5>1. end = "running" /\ end' = "failed"
          BY <2>3, <4>1, <4>3
        <5>2. Result!Fail
          BY <2>6, <4>1, <5>1 DEF Result!Fail
        <5> QED
          BY <5>2 DEF Result!Next
      <4> QED
        BY <4>2, <4>3
    <3> QED
      BY <2>1, <3>1, <3>2, <3>3
  <2> QED
    BY <2>4, <2>5, <2>6
<1>2. CASE UNCHANGED vars
  <2>1. rows' = rows /\ end' = end
    BY <1>2 DEF vars, ReturnedOf, Returned, Failed
  <2> QED
    BY <2>1 DEF Result!vars
<1> QED
  BY <1>1, <1>2 DEF Next

\* The scan of many files by many threads is what ScanResult promises the query: every
\* row of every file once and in file order, success only with all of them, failure only
\* for a file that cannot be read (IdocOpenNextFile, IdocPeek, and the scan functions).
THEOREM ScanImplementsResult == Spec => ImplementsResult
<1>1. Init => WalkInv /\ Result!Init
  BY WalkInit, ResultInit
<1>2. WalkInv /\ [Next]_vars => WalkInv'
  BY WalkInvStep
<1>3. WalkInv /\ WalkInv' /\ [Next]_vars => [Result!Next]_(Result!vars)
  BY ResultStep
<1> QED
  BY <1>1, <1>2, <1>3, PTL DEF Spec, ImplementsResult, Result!Spec

=============================================================================
