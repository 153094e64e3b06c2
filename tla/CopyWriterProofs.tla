--------------------------- MODULE CopyWriterProofs ---------------------------
(***************************************************************************)
(* The safety properties of CopyWriter, for any number of COPYs, of any    *)
(* rows, to any local and remote targets, with any calls failing and with  *)
(* or without a crash.                                                     *)
(*                                                                         *)
(* What a COPY does to its own temporary file needs no assumption on the   *)
(* others.  What the target holds does: Exclusive, which is a hypothesis   *)
(* of the theorems about the target (the run copy_same_target shows the    *)
(* counterexample without it).                                             *)
(***************************************************************************)
EXTENDS CopyWriter, InductionLemmas, SequenceTheorems, TLAPS

\* The types, and that a COPY writes only while something is left to write.
Types ==
  /\ TypeOK
  /\ \A j \in Job : pc[j] = "write" => rest[j] # <<>>

\* Only a COPY to a local target has a temporary file, and only one that is done is
\* published.
Tidy ==
  /\ \A p \in Target \cap Remote : dir[TmpPath(p)] = 0
  /\ \A j \in Job : pc[j] \in {"check", "remove", "move", "unmoved"} => HasTmp(j)
  /\ \A j \in Job : published[j] => pc[j] = "done"

\* No two COPYs to one target are running.
OnePerTarget ==
  \A j, k \in Job :
    j # k /\ Jobs[j].target = Jobs[k].target /\ pc[j] \in Running => pc[k] \notin Running

\* No two names lead to one file.
NoLinks ==
  \A p, q \in Path : dir[p] # 0 /\ dir[p] = dir[q] => p = q

\* A handle is that of the file at the path the job writes to.
OpenAtPath ==
  \A j \in Job : handle[j] # 0 => pc[j] \in Running /\ dir[OutPath(j)] = handle[j]

\* What a job streams and has streamed is its output up to the row it is at.
Streamed(j) ==
  LET file == ContentAt(OutPath(j))
  IN  /\ pc[j] = "bound" => row[j] = 0 /\ offset[j] = 0
      /\ pc[j] \in {"sink", "write", "close"} =>
           row[j] \in 0..Len(Jobs[j].rows) /\ offset[j] = Len(file)
      /\ pc[j] \in {"sink", "close"} => file = OutputUpTo(j)[row[j]]
      /\ pc[j] = "write" => file \o rest[j] = OutputUpTo(j)[row[j]]
      /\ pc[j] = "close" => row[j] = Len(Jobs[j].rows)
      /\ pc[j] \in {"check", "remove", "move", "unmoved"} => dir[OutPath(j)] # 0 /\ file = Output(j)

\* A running job has not touched a local target but for removing it last.
AsFound(j) ==
  HasTmp(j) /\ pc[j] \in Running =>
    \/ ContentAt(TargetPath(Jobs[j].target)) = found[j]
    \/ pc[j] \in {"move", "unmoved"} /\ dir[TargetPath(Jobs[j].target)] = 0

\* The inductive invariant under Exclusive.
IndInv ==
  /\ Types
  /\ Tidy
  /\ OnePerTarget
  /\ NoLinks
  /\ OpenAtPath
  /\ \A j \in Job : Streamed(j)
  /\ \A j \in Job : AsFound(j)
  /\ TargetWhole

\* InitGlobal, when the file opens.
OpensFile(j) ==
  /\ OpenFile(j, OutPath(j))
  /\ left' = left \ {Jobs[j].target}
  /\ Goto(j, "sink")
  /\ UNCHANGED <<offset, row, rest, published, crashed>>

-----------------------------------------------------------------------------
(* Facts about the constants and the operators.                            *)

\* The parts of a job have their types.
LEMMA JobFacts ==
  ASSUME NEW j \in Job
  PROVE  /\ Job = 1..Len(Jobs) /\ Len(Jobs) \in Nat
         /\ Jobs[j].rows \in Seq(Sizes)
         /\ Len(Jobs[j].rows) \in Nat
         /\ Jobs[j].target \in Target
<1> DEFINE R == [target : STRING, rows : Seq(Sizes), framing : Framings, validate : BOOLEAN]
<1>1. Jobs \in Seq(R)
  BY CopyAssumption
<1>2. \A r \in R : r.rows \in Seq(Sizes)
  OBVIOUS
<1> HIDE DEF R
<1>3. Job = 1..Len(Jobs) /\ Len(Jobs) \in Nat /\ Jobs[j] \in R
  BY <1>1 DEF Job
<1>4. Jobs[j].rows \in Seq(Sizes) /\ Len(Jobs[j].rows) \in Nat
  BY <1>2, <1>3
<1> QED
  BY <1>3, <1>4 DEF Target

\* The paths of two targets differ, and the target and its temporary file differ.
LEMMA PathFacts ==
  ASSUME NEW p \in Target, NEW q \in Target
  PROVE  /\ TargetPath(p) \in Path /\ TmpPath(p) \in Path
         /\ TargetPath(p) # TmpPath(q)
         /\ TargetPath(p) = TargetPath(q) => p = q
         /\ TmpPath(p) = TmpPath(q) => p = q
         /\ TargetPath(p).kind = "target" /\ TargetPath(p).of = p
         /\ TmpPath(p).kind = "tmp"
BY DEF Path, TargetPath, TmpPath

\* A job writes to the one path or the other.
LEMMA OutPathFacts ==
  ASSUME NEW j \in Job
  PROVE  /\ OutPath(j) \in Path
         /\ TargetPath(Jobs[j].target) \in Path
         /\ TmpPath(Jobs[j].target) \in Path
         /\ HasTmp(j) => OutPath(j) = TmpPath(Jobs[j].target)
         /\ ~HasTmp(j) => OutPath(j) = TargetPath(Jobs[j].target)
BY JobFacts, PathFacts DEF OutPath

\* What a job writes for a row is a sequence of cells.
LEMMA CellsOfType ==
  ASSUME NEW j \in Job, NEW i \in Nat
  PROVE  CellsOf(j, i) \in Contents
<1>1. Cell(j, i, "record") \in Cells
  BY DEF Cell, Cells
<1>2. Cell(j, i, "terminator") \in Cells
  BY DEF Cell, Cells
<1> QED
  BY <1>1, <1>2 DEF CellsOf, Contents

\* The recursive definition of the output of a job holds: nothing before the first
\* row, and then what is written for each row.
LEMMA OutputUpToDef ==
  ASSUME NEW j \in Job
  PROVE  /\ OutputUpTo(j)[0] = <<>>
         /\ \A i \in 1..Len(Jobs[j].rows) :
              OutputUpTo(j)[i] = OutputUpTo(j)[i - 1] \o CellsOf(j, i)
<1> DEFINE n == Len(Jobs[j].rows)
           step == [x \in Contents \X Nat |-> x[1] \o CellsOf(j, x[2])]
           IsOutput(g) == g = [i \in 0..n |-> IF i = 0 THEN <<>> ELSE g[i - 1] \o CellsOf(j, i)]
<1>1. n \in Nat /\ <<>> \in Contents
  BY JobFacts DEF Contents
<1>2. step \in StepFunctions(Contents)
  <2>1. ASSUME NEW x \in Contents \X Nat
        PROVE  x[1] \o CellsOf(j, x[2]) \in Contents
    <3>1. x[1] \in Seq(Cells) /\ CellsOf(j, x[2]) \in Seq(Cells)
      BY CellsOfType DEF Contents
    <3> QED
      BY <3>1 DEF Contents
  <2> QED
    BY <2>1 DEF StepFunctions
<1> HIDE DEF step, n
<1>3. PICK g : FollowsUpTo(g, n, Contents, <<>>, step)
  BY <1>1, <1>2, PrimitiveRecursion
<1>4. \A i \in 0..n : g[i] = IF i = 0 THEN <<>> ELSE g[i - 1] \o CellsOf(j, i)
  <2> TAKE i \in 0..n
  <2>1. i # 0 => <<g[i - 1], i>> \in Contents \X Nat /\ i \in 1..n
    BY <1>1, <1>3 DEF FollowsUpTo
  <2>2. i # 0 => step[<<g[i - 1], i>>] = g[i - 1] \o CellsOf(j, i)
    BY <2>1 DEF step
  <2> QED
    BY <1>3, <2>1, <2>2 DEF FollowsUpTo
<1>5. IsOutput(g)
  BY <1>3, <1>4 DEF FollowsUpTo
<1>6. OutputUpTo(j) = CHOOSE f : IsOutput(f)
  BY DEF OutputUpTo, n
<1>7. IsOutput(OutputUpTo(j))
  <2> HIDE DEF IsOutput
  <2> QED
    BY <1>5, <1>6
<1>8. \A i \in 0..n :
        OutputUpTo(j)[i] = IF i = 0 THEN <<>> ELSE OutputUpTo(j)[i - 1] \o CellsOf(j, i)
  BY <1>7
<1>9. 0 \in 0..n /\ \A i \in 1..n : i \in 0..n /\ i # 0
  BY <1>1
<1> QED
  BY <1>8, <1>9 DEF n

\* A write at the end of a file appends to it, and a write anywhere makes a file.
LEMMA OverwriteFacts ==
  ASSUME NEW S, NEW old \in Seq(S), NEW cell \in S, Hole \in S, NEW at \in Nat
  PROVE  /\ Overwrite(old, at, cell) \in Seq(S)
         /\ at = Len(old) => Overwrite(old, at, cell) = Append(old, cell)
<1> DEFINE len == IF Len(old) > at THEN Len(old) ELSE at + 1
<1>1. len \in Nat
  OBVIOUS
<1>2. \A n \in 1..len :
        (IF n = at + 1 THEN cell ELSE IF n <= Len(old) THEN old[n] ELSE Hole) \in S
  OBVIOUS
<1>3. Overwrite(old, at, cell) \in [1..len -> S]
  BY <1>2 DEF Overwrite
<1>4. Overwrite(old, at, cell) \in Seq(S)
  BY <1>1, <1>3
<1>5. ASSUME at = Len(old)
      PROVE  Overwrite(old, at, cell) = Append(old, cell)
  <2>1. len = Len(old) + 1 /\ Len(old) \in Nat
    BY <1>5
  <2>2. \A n \in 1..len : Overwrite(old, at, cell)[n] = Append(old, cell)[n]
    BY <1>5, <2>1 DEF Overwrite
  <2>3. Append(old, cell) \in Seq(S) /\ Len(Append(old, cell)) = len
    BY <2>1
  <2>4. Len(Overwrite(old, at, cell)) = len
    BY <1>1, <1>3
  <2> QED
    BY <1>4, <2>2, <2>3, <2>4, SeqEqual
<1> QED
  BY <1>4, <1>5

-----------------------------------------------------------------------------
(* Types.                                                                  *)

\* The state in which every COPY is bound has its types.
LEMMA TypesInit == Init => Types
<1> SUFFICES ASSUME Init
             PROVE  Types
  OBVIOUS
<1>1. Original \in Contents /\ Absent \in Contents /\ <<>> \in Contents
  BY DEF Original, Absent, Cell, Cells, Contents
<1>2. Job = 1..Len(Jobs) /\ Len(Jobs) \in Nat
  BY CopyAssumption DEF Job
<1>3. inode \in Seq(Contents) /\ Len(inode) = Len(Jobs)
  BY <1>1, <1>2 DEF Init
<1>4. ASSUME NEW path \in Path
      PROVE  dir[path] \in 0..Len(inode)
  <2>1. path.of \in Target
    BY DEF Path, TargetPath, TmpPath
  <2>2. FirstInode(path.of) \in Job
    BY <2>1 DEF FirstInode, Target
  <2>3. dir[path] = 0 \/ dir[path] = FirstInode(path.of)
    BY DEF Init
  <2> QED
    BY <1>2, <1>3, <2>2, <2>3
<1>5. dir \in [Path -> 0..Len(inode)]
  BY <1>4 DEF Init
<1>6. handle \in [Job -> 0..Len(inode)]
  BY <1>2, <1>3 DEF Init
<1> QED
  BY <1>1, <1>3, <1>5, <1>6 DEF Init, Types, TypeOK

\* Opening a file: the handle is that of the file at the path, which is empty; the
\* other files are what they were.
LEMMA OpenFileEffect ==
  ASSUME TypeOK, NEW j \in Job, NEW path \in Path, OpenFile(j, path)
  PROVE  /\ inode' \in Seq(Contents) /\ Len(inode') \in Nat /\ Len(inode') >= Len(inode)
         /\ dir' \in [Path -> 0..Len(inode')]
         /\ handle' = [handle EXCEPT ![j] = dir'[path]]
         /\ dir'[path] \in 1..Len(inode')
         /\ inode'[dir'[path]] = <<>>
         /\ dir[path] # 0 => dir'[path] = dir[path]
         /\ dir[path] = 0 => dir'[path] = Len(inode) + 1
         /\ \A q \in Path : q # path => dir'[q] = dir[q]
         /\ \A i \in 1..Len(inode) : i # dir[path] => inode'[i] = inode[i]
<1>1. <<>> \in Contents /\ Len(inode) \in Nat
  BY DEF Contents, TypeOK
<1>2. inode \in Seq(Contents) /\ dir \in [Path -> 0..Len(inode)]
  BY DEF TypeOK
<1> HIDE DEF Contents
<1>3. CASE dir[path] = 0
  <2>1. /\ inode' = Append(inode, <<>>)
        /\ dir' = [dir EXCEPT ![path] = Len(inode) + 1]
        /\ handle' = [handle EXCEPT ![j] = Len(inode) + 1]
    BY <1>3 DEF OpenFile
  <2>2. /\ inode' \in Seq(Contents) /\ Len(inode') = Len(inode) + 1
        /\ \A i \in 1..Len(inode) : inode'[i] = inode[i]
        /\ inode'[Len(inode) + 1] = <<>>
    BY <1>1, <1>2, <2>1, AppendProperties
  <2> QED
    BY <1>1, <1>2, <1>3, <2>1, <2>2
<1>4. CASE dir[path] # 0
  <2>1. /\ inode' = [inode EXCEPT ![dir[path]] = <<>>]
        /\ dir' = dir
        /\ handle' = [handle EXCEPT ![j] = dir[path]]
    BY <1>4 DEF OpenFile
  <2>2. dir[path] \in 1..Len(inode)
    BY <1>1, <1>2, <1>4
  <2>3. /\ inode' \in Seq(Contents) /\ Len(inode') = Len(inode)
        /\ \A i \in 1..Len(inode) : inode'[i] = IF i = dir[path] THEN <<>> ELSE inode[i]
    BY <1>1, <1>2, <2>1, <2>2, ExceptSeq
  <2> QED
    BY <1>1, <1>2, <1>4, <2>1, <2>2, <2>3
<1> QED
  BY <1>3, <1>4

\* Writing a cell: the file of the handle grows if it is written at its end; the
\* other files are what they were.
LEMMA WriteCellEffect ==
  ASSUME TypeOK, NEW j \in Job, handle[j] # 0, NEW cell \in Cells, WriteCell(j, cell)
  PROVE  /\ inode' \in Seq(Contents) /\ Len(inode') = Len(inode)
         /\ \A i \in 1..Len(inode) : i # handle[j] => inode'[i] = inode[i]
         /\ offset[j] = Len(inode[handle[j]]) =>
              inode'[handle[j]] = Append(inode[handle[j]], cell)
<1>1. Hole \in Cells
  BY DEF Hole, Cell, Cells
<1>2. handle[j] \in 1..Len(inode) /\ offset[j] \in Nat
  BY DEF TypeOK
<1>3. inode \in Seq(Contents)
  BY DEF TypeOK
<1>4. inode[handle[j]] \in Seq(Cells)
  BY <1>2, <1>3 DEF Contents
<1> DEFINE new == Overwrite(inode[handle[j]], offset[j], cell)
<1>5. new \in Contents /\ (offset[j] = Len(inode[handle[j]]) => new = Append(inode[handle[j]], cell))
  BY <1>1, <1>2, <1>4, OverwriteFacts DEF Contents
<1>6. inode' = [inode EXCEPT ![handle[j]] = new]
  BY DEF WriteCell
<1> HIDE DEF new
<1> QED
  BY <1>2, <1>3, <1>5, <1>6, ExceptSeq

\* Every step of a COPY, and a crash, keep the types.
LEMMA TypesStep == Types /\ [Next]_vars => Types'
<1> SUFFICES ASSUME Types, [Next]_vars
             PROVE  Types'
  OBVIOUS
<1>0. TypeOK /\ 0 \in 0..Len(inode)
  BY DEF Types, TypeOK
<1>1. ASSUME NEW j \in Job, InitGlobal(j)
      PROVE  Types'
  <2>1. ContentAt(TargetPath(Jobs[j].target)) \in Contents
    <3>1. TargetPath(Jobs[j].target) \in Path
      BY OutPathFacts
    <3>2. Absent \in Contents
      BY DEF Absent, Cell, Cells, Contents
    <3> QED
      BY <1>0, <3>1, <3>2 DEF ContentAt, TypeOK
  <2>2. CASE OpensFile(j)
    <3>1. OutPath(j) \in Path
      BY OutPathFacts
    <3>2. /\ inode' \in Seq(Contents) /\ Len(inode') \in Nat /\ Len(inode') >= Len(inode)
          /\ dir' \in [Path -> 0..Len(inode')]
          /\ handle' = [handle EXCEPT ![j] = dir'[OutPath(j)]]
          /\ dir'[OutPath(j)] \in 1..Len(inode')
      BY <1>0, <2>2, <3>1, OpenFileEffect DEF OpensFile
    <3>3. handle' \in [Job -> 0..Len(inode')]
      BY <1>0, <3>2 DEF TypeOK
    <3>4. found' \in [Job -> Contents]
      BY <1>0, <1>1, <2>1 DEF TypeOK, InitGlobal
    <3> QED
      BY <1>0, <2>2, <3>2, <3>3, <3>4 DEF OpensFile, Types, TypeOK, Goto, Running, Ended, Failing
  <2>3. CASE Goto(j, "failing") /\ UNCHANGED <<disk, local, left, crashed>>
    BY <1>0, <1>1, <2>1, <2>3 DEF InitGlobal, Types, TypeOK, Goto, disk, local, history, Running, Ended, Failing
  <2> QED
    BY <1>1, <2>2, <2>3 DEF InitGlobal, OpensFile
<1>2. ASSUME NEW j \in Job, Sink(j)
      PROVE  Types'
  <2>1. row[j] + 1 \in Nat /\ CellsOf(j, row[j] + 1) \in Contents
    BY <1>0, CellsOfType DEF TypeOK
  <2>2. CASE Throw(j)
    BY <1>0, <1>2, <2>2 DEF Sink, Throw, Types, TypeOK, Goto, disk, local, history, Running, Ended, Failing
  <2>3. CASE /\ row' = [row EXCEPT ![j] = row[j] + 1]
             /\ rest' = [rest EXCEPT ![j] = CellsOf(j, row[j] + 1)]
             /\ Goto(j, IF CellsOf(j, row[j] + 1) = <<>> THEN "sink" ELSE "write")
             /\ UNCHANGED <<disk, handle, offset, published, history, crashed>>
    BY <1>0, <1>2, <2>1, <2>3 DEF Sink, Types, TypeOK, Goto, disk, history, Running, Ended, Failing
  <2> QED
    BY <1>2, <2>2, <2>3 DEF Sink
<1>3. ASSUME NEW j \in Job, Write(j)
      PROVE  Types'
  <2>1. rest[j] \in Seq(Cells) /\ rest[j] # <<>> /\ handle[j] # 0
    BY <1>0, <1>3 DEF Write, Types, TypeOK, Contents
  <2>2. Head(rest[j]) \in Cells /\ Tail(rest[j]) \in Contents /\ Len(Tail(rest[j])) = Len(rest[j]) - 1
    BY <2>1, HeadTailProperties DEF Contents
  <2>3. inode' \in Seq(Contents) /\ Len(inode') = Len(inode)
    BY <1>0, <1>3, <2>1, <2>2, WriteCellEffect DEF Write
  <2>4. Len(rest[j]) # 1 => Tail(rest[j]) # <<>>
    <3>1. Len(rest[j]) \in Nat
      BY <2>1, LenProperties
    <3>2. Tail(rest[j]) = <<>> => Len(Tail(rest[j])) = 0
      BY EmptySeq
    <3> HIDE DEF Contents
    <3> QED
      BY <2>2, <3>1, <3>2
  <2> QED
    BY <1>0, <1>3, <2>2, <2>3, <2>4 DEF Write, Types, TypeOK, Goto, history, Running, Ended, Failing
<1>4. ASSUME NEW j \in Job, WriteFails(j)
      PROVE  Types'
  <2>1. Cell(j, row[j], "torn") \in Cells
    BY <1>0 DEF TypeOK, Cell, Cells
  <2>2. handle[j] # 0
    BY <1>0, <1>4 DEF WriteFails, TypeOK
  <2>3. inode' \in Seq(Contents) /\ Len(inode') = Len(inode)
    BY <1>0, <1>4, <2>1, <2>2, WriteCellEffect DEF WriteFails, TypeOK
  <2> QED
    BY <1>0, <1>4, <2>3 DEF WriteFails, Types, TypeOK, Goto, local, history, Running, Ended, Failing
<1>5. ASSUME NEW j \in Job, Abort(j) \/ Finalize(j) \/ Check(j)
      PROVE  Types'
  BY <1>0, <1>5 DEF Abort, Throw, Finalize, Check, Types, TypeOK, Goto, disk, local, history, Running, Ended, Failing
<1>6. ASSUME NEW j \in Job, Close(j)
      PROVE  Types'
  <2>1. CASE Throw(j)
    BY <1>0, <1>6, <2>1 DEF Close, Throw, Types, TypeOK, Goto, disk, local, history, Running, Ended, Failing
  <2>2. CASE /\ handle' = [handle EXCEPT ![j] = 0]
             /\ Goto(j, IF HasTmp(j) THEN "check" ELSE "done")
             /\ UNCHANGED <<disk, offset, row, rest, published, history, crashed>>
    BY <1>0, <1>6, <2>2 DEF Close, Types, TypeOK, Goto, disk, history, Running, Ended, Failing
  <2> QED
    BY <1>6, <2>1, <2>2 DEF Close
<1>7. ASSUME NEW j \in Job, Remove(j)
      PROVE  Types'
  <2>1. CASE Throw(j)
    BY <1>0, <1>7, <2>1 DEF Remove, Throw, Types, TypeOK, Goto, disk, local, history, Running, Ended, Failing
  <2>2. CASE /\ dir' = [dir EXCEPT ![TargetPath(Jobs[j].target)] = 0]
             /\ Goto(j, "move")
             /\ UNCHANGED <<inode, local, history, crashed>>
    BY <1>0, <1>7, <2>2 DEF Remove, Types, TypeOK, Goto, local, history, Running, Ended, Failing
  <2> QED
    BY <1>7, <2>1, <2>2 DEF Remove
<1>8. ASSUME NEW j \in Job, Move(j)
      PROVE  Types'
  <2>1. CASE Goto(j, "unmoved") /\ UNCHANGED <<disk, local, history, crashed>>
    BY <1>0, <1>8, <2>1 DEF Move, Types, TypeOK, Goto, disk, local, history, Running, Ended, Failing
  <2>2. CASE /\ dir' = [dir EXCEPT ![TargetPath(Jobs[j].target)] = dir[TmpPath(Jobs[j].target)],
                                   ![TmpPath(Jobs[j].target)] = 0]
             /\ published' = [published EXCEPT ![j] = TRUE]
             /\ Goto(j, "done")
             /\ left' = left \ {Jobs[j].target}
             /\ UNCHANGED <<inode, handle, offset, row, rest, found, crashed>>
    <3>1. dir[TmpPath(Jobs[j].target)] \in 0..Len(inode)
      BY <1>0, OutPathFacts DEF TypeOK
    <3>2. dir' \in [Path -> 0..Len(inode)]
      BY <1>0, <2>2, <3>1 DEF TypeOK
    <3> QED
      BY <1>0, <1>8, <2>2, <3>2 DEF Move, Types, TypeOK, Goto, Running, Ended, Failing
  <2> QED
    BY <1>8, <2>1, <2>2 DEF Move
<1>9. ASSUME NEW j \in Job, Destroy(j)
      PROVE  Types'
  <2>1. dir' \in [Path -> 0..Len(inode)]
    BY <1>0, <1>9 DEF Destroy, CleanUp, TypeOK
  <2>2. left' \subseteq Target \ Remote
    BY <1>0, <1>9, JobFacts DEF Destroy, CleanUp, HasTmp, TypeOK
  <2> QED
    BY <1>0, <1>9, <2>1, <2>2 DEF Destroy, Types, TypeOK, Goto, Running, Ended, Failing
<1>10. CASE Crash
  <2>1. left' \subseteq Target \ Remote
    BY <1>0, <1>10, JobFacts DEF Crash, InProgress, HasTmp, TypeOK
  <2> QED
    BY <1>0, <1>10, <2>1 DEF Crash, Types, TypeOK, disk, Running, Ended, Failing
<1>11. CASE UNCHANGED vars
  BY <1>0, <1>11 DEF vars, Types, TypeOK
<1> QED
  BY <1>1, <1>2, <1>3, <1>4, <1>5, <1>6, <1>7, <1>8, <1>9, <1>10, <1>11 DEF Next, Step

\* The types are invariant, whatever runs at the same time.
LEMMA TypesInvariance == Spec => []Types
BY TypesInit, TypesStep, PTL DEF Spec

\* IdocWriteGlobalState keeps its types; a job has a file open exactly while it
\* streams, and all names and handles lead to files.
THEOREM CopyTypeCorrect == Spec => []TypeOK
<1>1. Types => TypeOK
  BY DEF Types
<1> QED
  BY <1>1, TypesInvariance, PTL

-----------------------------------------------------------------------------
(* The temporary files: what holds whatever the other COPYs do.            *)

\* The step of one job leaves the state of the others alone.
LEMMA OtherJob ==
  ASSUME TypeOK, NEW j \in Job, NEW k \in Job, j # k, Step(k)
  PROVE  /\ pc'[j] = pc[j] /\ handle'[j] = handle[j] /\ offset'[j] = offset[j] /\ row'[j] = row[j]
         /\ rest'[j] = rest[j] /\ published'[j] = published[j] /\ found'[j] = found[j]
<1>1. CASE InitGlobal(k)
  <2>1. handle'[j] = handle[j]
    BY <1>1 DEF InitGlobal, OpenFile, local, TypeOK
  <2> QED
    BY <1>1, <2>1 DEF InitGlobal, Goto, local, TypeOK
<1>2. CASE Sink(k) \/ Write(k) \/ WriteFails(k) \/ Abort(k) \/ Finalize(k)
  BY <1>2 DEF Sink, Write, WriteFails, Abort, Finalize, Throw, Goto, local, history, TypeOK
<1>3. CASE Close(k) \/ Check(k) \/ Remove(k) \/ Move(k) \/ Destroy(k)
  BY <1>3 DEF Close, Check, Remove, Move, Destroy, Throw, Goto, local, history, TypeOK
<1> QED
  BY <1>1, <1>2, <1>3 DEF Step

\* No temporary file is left of a remote target at first, and nothing is published.
LEMMA TidyInit == Init => Tidy
BY PathFacts DEF Init, Tidy

\* Every step keeps the temporary files tidy.
LEMMA TidyStep == Types /\ Tidy /\ [Next]_vars => Tidy'
<1> SUFFICES ASSUME Types, Tidy, [Next]_vars
             PROVE  Tidy'
  OBVIOUS
<1>0. TypeOK
  BY DEF Types
<1>1. ASSUME NEW j \in Job, InitGlobal(j)
      PROVE  Tidy'
  <2>1. OutPath(j) \in Path /\ \A p \in Target \cap Remote : TmpPath(p) \in Path /\ TmpPath(p) # OutPath(j)
    BY JobFacts, PathFacts, OutPathFacts DEF HasTmp
  <2>2. CASE OpensFile(j)
    <3>1. \A q \in Path : q # OutPath(j) => dir'[q] = dir[q]
      BY <1>0, <2>1, <2>2, OpenFileEffect DEF OpensFile
    <3> QED
      BY <1>0, <1>1, <2>1, <2>2, <3>1 DEF OpensFile, InitGlobal, Tidy, TypeOK, Goto
  <2>3. CASE Goto(j, "failing") /\ UNCHANGED <<disk, local, left, crashed>>
    BY <1>0, <1>1, <2>3 DEF InitGlobal, Tidy, TypeOK, Goto, disk, local
  <2> QED
    BY <1>1, <2>2, <2>3 DEF InitGlobal, OpensFile
<1>2. ASSUME NEW j \in Job, Sink(j) \/ Write(j) \/ WriteFails(j) \/ Abort(j) \/ Finalize(j) \/ Close(j) \/ Check(j)
      PROVE  Tidy'
  BY <1>0, <1>2 DEF Sink, Write, WriteFails, Abort, Finalize, Close, Check, Throw, Tidy, TypeOK, Goto, disk, local
<1>3. ASSUME NEW j \in Job, Remove(j)
      PROVE  Tidy'
  BY <1>0, <1>3, JobFacts, PathFacts DEF Remove, Throw, Tidy, TypeOK, Goto, disk, local
<1>4. ASSUME NEW j \in Job, Move(j)
      PROVE  Tidy'
  <2>1. CASE Goto(j, "unmoved") /\ UNCHANGED <<disk, local, history, crashed>>
    BY <1>0, <1>4, <2>1 DEF Move, Tidy, TypeOK, Goto, disk, local
  <2>2. CASE /\ dir' = [dir EXCEPT ![TargetPath(Jobs[j].target)] = dir[TmpPath(Jobs[j].target)],
                                   ![TmpPath(Jobs[j].target)] = 0]
             /\ published' = [published EXCEPT ![j] = TRUE]
             /\ Goto(j, "done")
    <3>1. \A p \in Target : TmpPath(p) # TmpPath(Jobs[j].target) => dir'[TmpPath(p)] = dir[TmpPath(p)]
      BY <1>0, <2>2, JobFacts, PathFacts DEF TypeOK
    <3>2. Jobs[j].target \notin Remote
      BY <1>4 DEF Move, Tidy, HasTmp
    <3> QED
      BY <1>0, <1>4, <2>2, <3>1, <3>2, JobFacts, PathFacts DEF Move, Tidy, TypeOK, Goto
  <2> QED
    BY <1>4, <2>1, <2>2 DEF Move
<1>5. ASSUME NEW j \in Job, Destroy(j)
      PROVE  Tidy'
  <2>1. \A p \in Target \cap Remote : dir'[TmpPath(p)] = 0
    BY <1>0, <1>5, JobFacts, PathFacts, OutPathFacts DEF Destroy, CleanUp, Tidy, TypeOK
  <2> QED
    BY <1>0, <1>5, <2>1 DEF Destroy, Tidy, TypeOK, Goto, Failing
<1>6. CASE Crash
  BY <1>0, <1>6 DEF Crash, Tidy, TypeOK, disk, Running, Failing
<1>7. CASE UNCHANGED vars
  BY <1>7 DEF vars, Tidy
<1> QED
  BY <1>1, <1>2, <1>3, <1>4, <1>5, <1>6, <1>7 DEF Next, Step

\* At first there is no temporary file.
LEMMA NothingLeftInit == Init => NothingLeft
BY PathFacts DEF Init, NothingLeft

\* The step of one COPY says nothing of the temporary files to other targets.
LEMMA OtherTemporaryFile ==
  ASSUME TypeOK, NEW k \in Job, Step(k), NEW p \in Target, p # Jobs[k].target
  PROVE  /\ dir'[TmpPath(p)] = dir[TmpPath(p)]
         /\ p \in left => p \in left'
<1>1. /\ TmpPath(p) \in Path /\ TmpPath(p) # OutPath(k)
      /\ TmpPath(p) # TmpPath(Jobs[k].target) /\ TmpPath(p) # TargetPath(Jobs[k].target)
  BY JobFacts, PathFacts, OutPathFacts
<1>2. CASE InitGlobal(k)
  <2>1. CASE OpensFile(k)
    BY <1>1, <2>1, OutPathFacts, OpenFileEffect DEF OpensFile
  <2>2. CASE UNCHANGED <<disk, left>>
    BY <2>2 DEF disk
  <2> QED
    BY <1>2, <2>1, <2>2 DEF InitGlobal, OpensFile
<1>3. CASE Sink(k) \/ Write(k) \/ WriteFails(k) \/ Abort(k) \/ Finalize(k) \/ Close(k) \/ Check(k)
  BY <1>3 DEF Sink, Write, WriteFails, Abort, Finalize, Close, Check, Throw, disk, history
<1>4. CASE Remove(k) \/ Move(k)
  BY <1>1, <1>4 DEF Remove, Move, Throw, disk, history, TypeOK
<1>5. CASE Destroy(k)
  BY <1>1, <1>5 DEF Destroy, CleanUp, TypeOK
<1> QED
  BY <1>2, <1>3, <1>4, <1>5 DEF Step

\* A COPY that goes on or ends has done away with its temporary file, is still writing
\* it, or failed to remove it.
LEMMA OwnTemporaryFile ==
  ASSUME Types, Tidy, NEW k \in Job, Step(k), HasTmp(k), dir'[TmpPath(Jobs[k].target)] # 0
  PROVE  pc'[k] \in Running \/ Jobs[k].target \in left'
<1> DEFINE tmp == TmpPath(Jobs[k].target)
<1>0. TypeOK /\ tmp \in Path
  BY OutPathFacts DEF Types
<1>1. CASE InitGlobal(k) \/ Sink(k) \/ Write(k) \/ WriteFails(k) \/ Abort(k) \/ Finalize(k) \/ Check(k) \/ Remove(k)
  BY <1>0, <1>1 DEF InitGlobal, Sink, Write, WriteFails, Abort, Finalize, Check, Remove, Throw, Goto,
                    TypeOK, Running, Failing
<1>2. CASE Close(k)
  BY <1>0, <1>2 DEF Close, Throw, Goto, TypeOK, Running, Failing
<1>3. CASE Move(k)
  BY <1>0, <1>3 DEF Move, Goto, TypeOK, Running, Failing
<1>4. CASE Destroy(k)
  <2>1. ~published[k]
    BY <1>4 DEF Destroy, Tidy, Failing
  <2>2. CleanUp(k)
    BY <1>4 DEF Destroy
  <2> QED
    BY <1>0, <2>1, <2>2 DEF CleanUp, TypeOK
<1> QED
  BY <1>1, <1>2, <1>3, <1>4 DEF Step

\* No step leaves a temporary file that nobody answers for.
LEMMA NothingLeftStep == Types /\ Tidy /\ NothingLeft /\ [Next]_vars => NothingLeft'
<1> SUFFICES ASSUME Types, Tidy, NothingLeft, [Next]_vars,
                    NEW p \in Target, dir'[TmpPath(p)] # 0
             PROVE  p \in left' \cup InProgress'
  BY DEF NothingLeft
<1>0. TypeOK /\ Tidy'
  BY TidyStep DEF Types
<1>1. ASSUME NEW k \in Job, Step(k), p # Jobs[k].target
      PROVE  p \in left' \cup InProgress'
  <2>1. dir[TmpPath(p)] # 0 /\ (p \in left => p \in left')
    BY <1>0, <1>1, OtherTemporaryFile
  <2>2. ASSUME NEW j \in Job, pc[j] \in Running, HasTmp(j), Jobs[j].target = p
        PROVE  p \in InProgress'
    <3>1. pc'[j] = pc[j]
      BY <1>0, <1>1, <2>2, OtherJob
    <3> QED
      BY <2>2, <3>1 DEF InProgress
  <2> QED
    BY <2>1, <2>2 DEF NothingLeft, InProgress
<1>2. ASSUME NEW k \in Job, Step(k), p = Jobs[k].target
      PROVE  p \in left' \cup InProgress'
  <2>1. HasTmp(k)
    BY <1>0, <1>2 DEF Tidy, HasTmp
  <2>2. pc'[k] \in Running \/ p \in left'
    BY <1>2, <2>1, OwnTemporaryFile
  <2> QED
    BY <1>2, <2>1, <2>2 DEF InProgress
<1>3. CASE Crash
  BY <1>3 DEF Crash, disk, NothingLeft
<1>4. CASE UNCHANGED vars
  BY <1>4 DEF vars, NothingLeft, InProgress
<1> QED
  BY <1>1, <1>2, <1>3, <1>4 DEF Next

\* A temporary file is that of a COPY in progress, or one that a crash or a failed
\* RemoveFile of ~IdocWriteGlobalState left and no later COPY has reused or removed:
\* whatever else fails, at whatever call, with any other COPYs at the same time.
THEOREM CopyNothingLeft == Spec => []NothingLeft
<1>1. Types /\ Tidy /\ NothingLeft /\ [Next]_vars => Tidy' /\ NothingLeft'
  BY TidyStep, NothingLeftStep
<1> QED
  BY <1>1, TypesInvariance, TidyInit, NothingLeftInit, PTL DEF Spec

-----------------------------------------------------------------------------
(* The files: who changes which.                                           *)

\* A step keeps the name of a file and, if there is one, what it contains.
Untouched(path) ==
  /\ dir'[path] = dir[path]
  /\ dir[path] # 0 => inode'[dir[path]] = inode[dir[path]]

\* Writing the first cell of the rest moves it from the rest to the file.
LEMMA WriteMovesCell ==
  ASSUME NEW S, NEW s \in Seq(S), NEW r \in Seq(S), r # <<>>
  PROVE  /\ Append(s, Head(r)) \in Seq(S)
         /\ Len(Append(s, Head(r))) = Len(s) + 1
         /\ Append(s, Head(r)) \o Tail(r) = s \o r
         /\ Len(r) = 1 => Append(s, Head(r)) = s \o r
<1>1. Head(r) \in S /\ Tail(r) \in Seq(S) /\ Len(Tail(r)) = Len(r) - 1
      /\ \A i \in 1..Len(Tail(r)) : Tail(r)[i] = r[i + 1]
  BY HeadTailProperties
<1>2. Head(r) = r[1] /\ Len(r) \in Nat \ {0} /\ Len(s) \in Nat
  BY EmptySeq, LenProperties
<1> DEFINE a == Append(s, Head(r))
<1>3. a \in Seq(S) /\ Len(a) = Len(s) + 1 /\ (\A i \in 1..Len(s) : a[i] = s[i]) /\ a[Len(s) + 1] = r[1]
  BY <1>1, <1>2, AppendProperties
<1> HIDE DEF a
<1>4. /\ a \o Tail(r) \in Seq(S) /\ Len(a \o Tail(r)) = Len(s) + Len(r)
      /\ \A i \in 1..(Len(s) + Len(r)) :
           (a \o Tail(r))[i] = IF i <= Len(s) + 1 THEN a[i] ELSE Tail(r)[i - (Len(s) + 1)]
  <2>1. Len(a) + Len(Tail(r)) = Len(s) + Len(r)
    BY <1>1, <1>2, <1>3
  <2>2. /\ a \o Tail(r) \in Seq(S) /\ Len(a \o Tail(r)) = Len(a) + Len(Tail(r))
        /\ \A i \in 1..(Len(a) + Len(Tail(r))) :
             (a \o Tail(r))[i] = IF i <= Len(a) THEN a[i] ELSE Tail(r)[i - Len(a)]
    BY <1>1, <1>3, ConcatProperties
  <2> QED
    BY <1>3, <2>1, <2>2
<1>5. /\ s \o r \in Seq(S) /\ Len(s \o r) = Len(s) + Len(r)
      /\ \A i \in 1..(Len(s) + Len(r)) : (s \o r)[i] = IF i <= Len(s) THEN s[i] ELSE r[i - Len(s)]
  BY <1>2, ConcatProperties
<1>6. \A i \in 1..(Len(s) + Len(r)) : (a \o Tail(r))[i] = (s \o r)[i]
  <2> TAKE i \in 1..(Len(s) + Len(r))
  <2>1. CASE i <= Len(s)
    BY <1>2, <1>3, <1>4, <1>5, <2>1
  <2>2. CASE i = Len(s) + 1
    BY <1>2, <1>3, <1>4, <1>5, <2>2
  <2>3. CASE i > Len(s) + 1
    <3>1. i - (Len(s) + 1) \in 1..Len(Tail(r)) /\ i - (Len(s) + 1) + 1 = i - Len(s)
      BY <1>1, <1>2, <2>3
    <3> QED
      BY <1>1, <1>2, <1>4, <1>5, <2>3, <3>1
  <2>4. i \in Int /\ Len(s) \in Int
    BY <1>2
  <2>5. i <= Len(s) \/ i = Len(s) + 1 \/ i > Len(s) + 1
    BY <2>4
  <2> QED
    BY <2>1, <2>2, <2>3, <2>5
<1>7. a \o Tail(r) = s \o r
  BY <1>4, <1>5, <1>6, SeqEqual
<1>8. ASSUME Len(r) = 1
      PROVE  a = s \o r
  <2>1. Len(a) = Len(s \o r) /\ \A i \in 1..Len(a) : a[i] = (s \o r)[i]
    BY <1>2, <1>3, <1>5, <1>8
  <2> QED
    BY <1>3, <1>5, <2>1, SeqEqual
<1> QED
  BY <1>3, <1>7, <1>8 DEF a

\* Only Remove and Move change another file than the one the job writes to.
LEMMA OwnFileOnly ==
  ASSUME Types, NoLinks, OpenAtPath, NEW k \in Job, Step(k),
         NEW path \in Path, path # OutPath(k),
         Remove(k) \/ Move(k) => path \notin {TargetPath(Jobs[k].target), TmpPath(Jobs[k].target)}
  PROVE  Untouched(path)
<1>0. TypeOK /\ OutPath(k) \in Path
  BY OutPathFacts DEF Types
<1>1. dir[path] \in 0..Len(inode) /\ dir[OutPath(k)] \in 0..Len(inode) /\ Len(inode) \in Nat
  BY <1>0 DEF TypeOK
<1>2. dir[path] # 0 => dir[path] # dir[OutPath(k)]
  BY <1>0 DEF NoLinks
<1>3. CASE InitGlobal(k)
  <2>1. CASE OpenFile(k, OutPath(k))
    BY <1>0, <1>1, <1>2, <2>1, OpenFileEffect DEF Untouched
  <2>2. CASE UNCHANGED disk
    BY <2>2 DEF Untouched, disk
  <2> QED
    BY <1>3, <2>1, <2>2 DEF InitGlobal, disk
<1>4. CASE Write(k) \/ WriteFails(k)
  <2>1. handle[k] # 0 /\ handle[k] = dir[OutPath(k)]
    BY <1>0, <1>4 DEF Write, WriteFails, TypeOK, OpenAtPath
  <2>2. ASSUME NEW cell \in Cells, WriteCell(k, cell)
        PROVE  dir[path] # 0 => inode'[dir[path]] = inode[dir[path]]
    BY <1>0, <1>1, <1>2, <2>1, <2>2, WriteCellEffect
  <2>3. Cell(k, row[k], "torn") \in Cells
    BY <1>0 DEF TypeOK, Cell, Cells
  <2>4. Write(k) => Head(rest[k]) \in Cells
    <3>1. rest[k] \in Seq(Cells) /\ (Write(k) => rest[k] # <<>>)
      BY <1>0 DEF Write, Types, TypeOK, Contents
    <3> QED
      BY <3>1, HeadTailProperties
  <2> QED
    BY <1>4, <2>2, <2>3, <2>4 DEF Write, WriteFails, Untouched
<1>5. CASE Sink(k) \/ Abort(k) \/ Finalize(k) \/ Close(k) \/ Check(k)
  BY <1>5 DEF Sink, Abort, Finalize, Close, Check, Throw, disk, Untouched
<1>6. CASE Remove(k) \/ Move(k)
  BY <1>0, <1>6 DEF Remove, Move, Throw, disk, Untouched, TypeOK
<1>7. CASE Destroy(k)
  BY <1>0, <1>7, OutPathFacts DEF Destroy, CleanUp, Untouched, TypeOK
<1> QED
  BY <1>3, <1>4, <1>5, <1>6, <1>7 DEF Step

\* What a path leads to that is not touched.
LEMMA UntouchedContent ==
  ASSUME NEW path \in Path, Untouched(path)
  PROVE  ContentAt(path)' = ContentAt(path)
BY DEF Untouched, ContentAt

\* While a job runs, the steps of the others are those of jobs to other targets, and
\* touch neither its target nor its temporary file.
LEMMA OtherFiles ==
  ASSUME Exclusive, IndInv, NEW j \in Job, pc[j] \in Running, NEW k \in Job, k # j, Step(k)
  PROVE  /\ Untouched(OutPath(j))
         /\ Untouched(TargetPath(Jobs[j].target))
<1>1. Jobs[k].target # Jobs[j].target
  <2>1. CASE pc[k] \in Running
    BY <2>1 DEF IndInv, OnePerTarget
  <2>2. CASE InitGlobal(k)
    BY <2>2 DEF InitGlobal
  <2> QED
    BY <2>1, <2>2 DEF Step, Sink, Write, WriteFails, Abort, Finalize, Close, Check, Remove, Move, Destroy,
                      Running
<1>2. ASSUME NEW path \in {TargetPath(Jobs[j].target), TmpPath(Jobs[j].target)}
      PROVE  /\ path \in Path /\ path # OutPath(k)
             /\ path \notin {TargetPath(Jobs[k].target), TmpPath(Jobs[k].target)}
  BY <1>1, JobFacts, PathFacts, OutPathFacts
<1>3. ASSUME NEW path \in {TargetPath(Jobs[j].target), TmpPath(Jobs[j].target)}
      PROVE  Untouched(path)
  BY <1>2, OwnFileOnly DEF IndInv
<1> QED
  BY <1>3, OutPathFacts

-----------------------------------------------------------------------------
(* The inductive invariant, one lemma per conjunct.                        *)

\* Before any COPY starts, the targets that exist are whole, each a file of its own.
LEMMA IndInvInit == Init => IndInv
<1> SUFFICES ASSUME Init
             PROVE  IndInv
  OBVIOUS
<1>1. Types /\ Tidy
  BY TypesInit, TidyInit
<1>2. OnePerTarget /\ OpenAtPath /\ (\A j \in Job : AsFound(j))
  BY DEF Init, OnePerTarget, OpenAtPath, AsFound, Running, Failing
<1>3. \A p \in Path : dir[p] # 0 => p.kind = "target" /\ dir[p] = FirstInode(p.of) /\ p.of \in Target
  BY DEF Init, Path, TargetPath, TmpPath
<1>4. \A t \in Target : FirstInode(t) \in Job /\ Jobs[FirstInode(t)].target = t
  BY DEF FirstInode, Target
<1>5. \A p \in Path : p.kind = "target" => p = TargetPath(p.of)
  BY DEF Path, TargetPath, TmpPath
<1>6. NoLinks
  BY <1>3, <1>4, <1>5 DEF NoLinks
<1>7. \A j \in Job : Streamed(j)
  BY DEF Init, Streamed
<1>8. TargetWhole
  <2> SUFFICES ASSUME NEW p \in Target \ Remote
               PROVE  ContentAt(TargetPath(p)) \in {Absent, Original}
    BY DEF TargetWhole
  <2> QED
    BY <1>3, <1>4, PathFacts DEF ContentAt, Init
<1> QED
  BY <1>1, <1>2, <1>6, <1>7, <1>8 DEF IndInv

\* InitGlobal waits, under Exclusive, until no COPY to its target runs.
LEMMA OnePerTargetStep ==
  ASSUME Exclusive, IndInv, NEW k \in Job, Step(k)
  PROVE  OnePerTarget'
<1>1. TypeOK
  BY DEF IndInv, Types
<1>2. pc[k] \in Running \/ \A j \in Job : Jobs[j].target = Jobs[k].target => pc[j] \notin Running
  BY DEF Step, InitGlobal, Sink, Write, WriteFails, Abort, Finalize, Close, Check, Remove, Move, Destroy,
         Running
<1>3. \A j \in Job : j # k => pc'[j] = pc[j]
  BY <1>1, OtherJob
<1>4. \A i, j \in Job : i # j /\ Jobs[i].target = Jobs[j].target /\ pc[i] \in Running => pc[j] \notin Running
  BY DEF IndInv, OnePerTarget
<1> SUFFICES ASSUME NEW i \in Job, NEW j \in Job, i # j, Jobs[i].target = Jobs[j].target,
                    pc'[i] \in Running, pc'[j] \in Running
             PROVE  FALSE
  BY DEF OnePerTarget
<1> QED
  BY <1>2, <1>3, <1>4

\* A file is created under a name nothing else leads to, and a rename moves the name.
LEMMA NoLinksStep ==
  ASSUME IndInv, NEW k \in Job, Step(k)
  PROVE  NoLinks'
<1>1. TypeOK /\ OutPath(k) \in Path
  BY OutPathFacts DEF IndInv, Types
<1>2. \A p, q \in Path : dir[p] # 0 /\ dir[p] = dir[q] => p = q
  BY DEF IndInv, NoLinks
<1>3. dir \in [Path -> 0..Len(inode)] /\ Len(inode) \in Nat
  BY <1>1 DEF TypeOK
<1>4. CASE OpenFile(k, OutPath(k))
  <2>1. \A p \in Path : p # OutPath(k) => dir'[p] = dir[p] /\ dir[p] # Len(inode) + 1
    BY <1>1, <1>3, <1>4, OpenFileEffect
  <2>2. dir'[OutPath(k)] = IF dir[OutPath(k)] = 0 THEN Len(inode) + 1 ELSE dir[OutPath(k)]
    BY <1>1, <1>4, OpenFileEffect
  <2> QED
    BY <1>1, <1>2, <2>1, <2>2 DEF NoLinks
<1>5. CASE Move(k)
  BY <1>2, <1>3, <1>5, OutPathFacts DEF Move, disk, NoLinks
<1>6. CASE \A p \in Path : dir'[p] = dir[p] \/ dir'[p] = 0
  BY <1>2, <1>6 DEF NoLinks
<1>7. InitGlobal(k) => OpenFile(k, OutPath(k)) \/ dir' = dir
  BY DEF InitGlobal, disk
<1>8. Remove(k) \/ Destroy(k) => \A p \in Path : dir'[p] = dir[p] \/ dir'[p] = 0
  BY <1>3 DEF Remove, Destroy, CleanUp, Throw, disk
<1>9. Sink(k) \/ Write(k) \/ WriteFails(k) \/ Abort(k) \/ Finalize(k) \/ Close(k) \/ Check(k) => dir' = dir
  BY DEF Sink, Write, WriteFails, Abort, Finalize, Close, Check, Throw, disk
<1> QED
  BY <1>4, <1>5, <1>6, <1>7, <1>8, <1>9 DEF Step

\* A running job's file keeps its name until the handle is closed.
LEMMA OpenAtPathStep ==
  ASSUME Exclusive, IndInv, NEW k \in Job, Step(k)
  PROVE  OpenAtPath'
<1>1. TypeOK /\ OutPath(k) \in Path
  BY OutPathFacts DEF IndInv, Types
<1>2. ASSUME NEW j \in Job, j # k, handle'[j] # 0
      PROVE  pc'[j] \in Running /\ dir'[OutPath(j)] = handle'[j]
  <2>1. pc'[j] = pc[j] /\ handle'[j] = handle[j]
    BY <1>1, <1>2, OtherJob
  <2>2. pc[j] \in Running /\ dir[OutPath(j)] = handle[j]
    BY <1>2, <2>1 DEF IndInv, OpenAtPath
  <2>3. Untouched(OutPath(j))
    BY <1>2, <2>2, OtherFiles
  <2> QED
    BY <2>1, <2>2, <2>3 DEF Untouched
<1>3. ASSUME handle'[k] # 0
      PROVE  pc'[k] \in Running /\ dir'[OutPath(k)] = handle'[k]
  <2>1. handle[k] # 0 => dir[OutPath(k)] = handle[k]
    BY DEF IndInv, OpenAtPath
  <2>2. CASE InitGlobal(k)
    <3>1. CASE OpenFile(k, OutPath(k)) /\ Goto(k, "sink")
      <4>1. handle'[k] = dir'[OutPath(k)]
        BY <1>1, <3>1, OpenFileEffect DEF TypeOK
      <4> QED
        BY <1>1, <3>1, <4>1 DEF Goto, TypeOK, Running
    <3>2. CASE Goto(k, "failing") /\ UNCHANGED <<disk, local, left, crashed>>
      BY <1>1, <1>3, <2>1, <3>2 DEF Goto, TypeOK, Running, Failing, disk, local
    <3> QED
      BY <2>2, <3>1, <3>2 DEF InitGlobal
  <2>3. CASE Sink(k) \/ Write(k) \/ WriteFails(k) \/ Abort(k) \/ Finalize(k)
    BY <1>1, <1>3, <2>1, <2>3 DEF Sink, Write, WriteFails, Abort, Finalize, Throw, Goto, TypeOK, Running,
                                  Failing, disk, local
  <2>4. CASE Close(k)
    BY <1>1, <1>3, <2>1, <2>4 DEF Close, Throw, Goto, TypeOK, Running, Failing, disk, local
  <2>5. CASE Check(k) \/ Remove(k) \/ Move(k) \/ Destroy(k)
    BY <1>1, <1>3, <2>5 DEF Check, Remove, Move, Destroy, Throw, TypeOK, local
  <2> QED
    BY <2>2, <2>3, <2>4, <2>5 DEF Step
<1> QED
  BY <1>2, <1>3 DEF OpenAtPath

\* What a job has streamed follows its rows.
LEMMA StreamedStep ==
  ASSUME Exclusive, IndInv, NEW k \in Job, Step(k), NEW j \in Job
  PROVE  Streamed(j)'
<1> DEFINE file == ContentAt(OutPath(j))
           rows == Jobs[j].rows
<1>0. /\ TypeOK /\ OutPath(j) \in Path /\ Streamed(j) /\ Len(rows) \in Nat
      /\ file \in Contents
      /\ pc[j] \in {"sink", "write", "close"} => handle[j] # 0 /\ dir[OutPath(j)] = handle[j] /\ file = inode[handle[j]]
  <2>1. TypeOK /\ OutPath(j) \in Path /\ Streamed(j) /\ Len(rows) \in Nat
    BY JobFacts, OutPathFacts DEF IndInv, Types
  <2>2. Absent \in Contents
    BY DEF Absent, Cell, Cells, Contents
  <2>3. file \in Contents
    BY <2>1, <2>2 DEF ContentAt, TypeOK
  <2>4. pc[j] \in {"sink", "write", "close"} => handle[j] # 0 /\ dir[OutPath(j)] = handle[j]
    BY <2>1 DEF IndInv, OpenAtPath, TypeOK
  <2> QED
    BY <2>1, <2>3, <2>4 DEF ContentAt
<1>1. CASE j # k
  <2>1. pc'[j] = pc[j] /\ offset'[j] = offset[j] /\ row'[j] = row[j] /\ rest'[j] = rest[j]
    BY <1>0, <1>1, OtherJob
  <2>2. CASE pc[j] \in Running
    <3>1. Untouched(OutPath(j))
      BY <1>1, <2>2, OtherFiles
    <3>2. ContentAt(OutPath(j))' = file /\ dir'[OutPath(j)] = dir[OutPath(j)]
      BY <1>0, <3>1, UntouchedContent DEF Untouched
    <3> QED
      BY <1>0, <2>1, <3>2 DEF Streamed
  <2>3. CASE pc[j] \notin Running
    BY <1>0, <2>1, <2>3 DEF Streamed, Running, Failing
  <2> QED
    BY <2>2, <2>3
<1>2. CASE j = k
  <2>1. CASE InitGlobal(j)
    <3>1. CASE OpensFile(j)
      <4>1. dir'[OutPath(j)] # 0 /\ inode'[dir'[OutPath(j)]] = <<>>
        BY <1>0, <3>1, OpenFileEffect DEF OpensFile
      <4>2. ContentAt(OutPath(j))' = <<>> /\ Len(<<>>) = 0
        BY <4>1 DEF ContentAt
      <4>3. pc'[j] = "sink" /\ row'[j] = 0 /\ offset'[j] = 0
        BY <1>0, <2>1, <3>1 DEF OpensFile, InitGlobal, Goto, TypeOK, Streamed
      <4>4. OutputUpTo(j)[0] = <<>> /\ 0 \in 0..Len(rows)
        BY <1>0, OutputUpToDef
      <4> QED
        BY <4>2, <4>3, <4>4 DEF Streamed
    <3>2. CASE Goto(j, "failing")
      BY <1>0, <3>2 DEF Goto, TypeOK, Streamed
    <3> QED
      BY <2>1, <3>1, <3>2 DEF InitGlobal, OpensFile
  <2>2. CASE Sink(j)
    <3>1. CASE Throw(j)
      BY <1>0, <3>1 DEF Throw, Goto, TypeOK, Streamed
    <3>2. CASE ~Throw(j)
      <4> DEFINE next == row[j] + 1
                 cells == CellsOf(j, next)
      <4>1. /\ row'[j] = next /\ rest'[j] = cells
            /\ pc'[j] = IF cells = <<>> THEN "sink" ELSE "write"
            /\ UNCHANGED <<dir, inode, offset>>
            /\ pc[j] = "sink" /\ row[j] < Len(rows)
        BY <1>0, <2>2, <3>2 DEF Sink, Goto, TypeOK, disk
      <4>2. row[j] \in 0..Len(rows) /\ offset[j] = Len(file) /\ file = OutputUpTo(j)[row[j]]
        BY <1>0, <4>1 DEF Streamed
      <4>3. next \in 1..Len(rows) /\ next - 1 = row[j]
        BY <1>0, <4>1, <4>2
      <4>4. OutputUpTo(j)[next] = file \o cells
        BY <4>2, <4>3, OutputUpToDef
      <4>5. ContentAt(OutPath(j))' = file
        BY <4>1 DEF ContentAt
      <4>6. file \o <<>> = file
        BY <1>0, ConcatEmptySeq DEF Contents
      <4>7. next \in 0..Len(rows)
        BY <4>3
      <4> HIDE DEF next, cells, file
      <4> QED
        BY <1>0, <4>1, <4>2, <4>4, <4>5, <4>6, <4>7 DEF Streamed
    <3> QED
      BY <3>1, <3>2
  <2>3. CASE Write(j)
    <3>1. /\ pc[j] = "write" /\ handle[j] # 0 /\ rest[j] \in Seq(Cells) /\ rest[j] # <<>>
          /\ file = inode[handle[j]] /\ file \in Seq(Cells)
      BY <1>0, <2>3 DEF Write, IndInv, Types, TypeOK, Contents
    <3>2. /\ row[j] \in 0..Len(rows) /\ offset[j] = Len(file)
          /\ file \o rest[j] = OutputUpTo(j)[row[j]]
      BY <1>0, <3>1 DEF Streamed
    <3>3. Head(rest[j]) \in Cells
      BY <3>1, HeadTailProperties
    <3>4. inode'[handle[j]] = Append(file, Head(rest[j]))
      BY <1>0, <2>3, <3>1, <3>2, <3>3, WriteCellEffect DEF Write
    <3>5. ContentAt(OutPath(j))' = Append(file, Head(rest[j]))
      BY <1>0, <2>3, <3>1, <3>4 DEF Write, ContentAt
    <3>6. /\ offset'[j] = Len(file) + 1 /\ rest'[j] = Tail(rest[j]) /\ row'[j] = row[j]
          /\ pc'[j] = IF Len(rest[j]) = 1 THEN "sink" ELSE "write"
      BY <1>0, <2>3, <3>2 DEF Write, Goto, TypeOK
    <3> HIDE DEF file
    <3>7. /\ Len(Append(file, Head(rest[j]))) = Len(file) + 1
          /\ Append(file, Head(rest[j])) \o Tail(rest[j]) = file \o rest[j]
          /\ Len(rest[j]) = 1 => Append(file, Head(rest[j])) = file \o rest[j]
      BY <3>1, WriteMovesCell
    <3> QED
      BY <3>2, <3>5, <3>6, <3>7 DEF Streamed
  <2>4. CASE Finalize(j)
    <3>1. /\ pc[j] = "sink" /\ pc'[j] = "close" /\ row[j] = Len(rows)
          /\ UNCHANGED <<dir, inode, row, offset>>
      BY <1>0, <2>4 DEF Finalize, Goto, TypeOK, disk, local
    <3>2. ContentAt(OutPath(j))' = file
      BY <3>1 DEF ContentAt
    <3> QED
      BY <1>0, <3>1, <3>2 DEF Streamed
  <2>5. CASE Close(j) \/ Check(j) \/ Remove(j)
    <3>1. CASE Throw(j)
      BY <1>0, <3>1 DEF Throw, Goto, TypeOK, Streamed
    <3>2. CASE ~Throw(j) /\ Close(j)
      <4>1. /\ pc[j] = "close" /\ pc'[j] \in {"check", "done"}
            /\ UNCHANGED <<dir, inode>>
        BY <1>0, <3>2 DEF Close, Goto, TypeOK, disk
      <4>2. ContentAt(OutPath(j))' = file
        BY <4>1 DEF ContentAt
      <4>3. file = Output(j) /\ dir[OutPath(j)] # 0
        BY <1>0, <4>1 DEF Streamed, Output
      <4> QED
        BY <4>1, <4>2, <4>3 DEF Streamed
    <3>3. CASE ~Throw(j) /\ (Check(j) \/ Remove(j))
      <4>1. /\ pc[j] \in {"check", "remove"} /\ pc'[j] \in {"remove", "move"} /\ inode' = inode
            /\ OutPath(j) # TargetPath(Jobs[j].target) => dir'[OutPath(j)] = dir[OutPath(j)]
        BY <1>0, <3>3 DEF Check, Remove, Goto, TypeOK, disk, local
      <4>2. HasTmp(j)
        BY <4>1 DEF IndInv, Tidy
      <4>3. dir'[OutPath(j)] = dir[OutPath(j)]
        BY <4>1, <4>2, JobFacts, PathFacts, OutPathFacts
      <4>4. ContentAt(OutPath(j))' = file
        BY <4>1, <4>3 DEF ContentAt
      <4> QED
        BY <1>0, <4>1, <4>3, <4>4 DEF Streamed
    <3> QED
      BY <2>5, <3>1, <3>2, <3>3
  <2>6. CASE WriteFails(j) \/ Abort(j) \/ Destroy(j)
    <3>1. pc'[j] \in {"failing", "failed"}
      BY <1>0, <2>6 DEF WriteFails, Abort, Destroy, Throw, Goto, TypeOK
    <3> QED
      BY <3>1 DEF Streamed
  <2>7. CASE Move(j)
    <3>1. pc'[j] = "done" \/ (pc'[j] = "unmoved" /\ UNCHANGED <<dir, inode>>)
      BY <1>0, <2>7 DEF Move, Goto, TypeOK, disk
    <3>2. pc[j] = "move"
      BY <2>7 DEF Move
    <3> QED
      BY <1>0, <3>1, <3>2 DEF Streamed, ContentAt
  <2> QED
    BY <1>2, <2>1, <2>2, <2>3, <2>4, <2>5, <2>6, <2>7 DEF Step
<1> QED
  BY <1>1, <1>2

\* What a COPY found at its target is there until it removes it.
LEMMA AsFoundStep ==
  ASSUME Exclusive, IndInv, NEW k \in Job, Step(k), NEW j \in Job
  PROVE  AsFound(j)'
<1> DEFINE target == TargetPath(Jobs[j].target)
<1>0. TypeOK /\ target \in Path /\ AsFound(j)
  BY OutPathFacts DEF IndInv, Types
<1>1. CASE j # k
  <2>1. pc'[j] = pc[j] /\ found'[j] = found[j]
    BY <1>0, <1>1, OtherJob
  <2>2. CASE pc[j] \in Running
    <3>1. Untouched(target)
      BY <1>1, <2>2, OtherFiles
    <3>2. ContentAt(target)' = ContentAt(target) /\ dir'[target] = dir[target]
      BY <1>0, <3>1, UntouchedContent DEF Untouched
    <3> QED
      BY <1>0, <2>1, <3>2 DEF AsFound
  <2>3. CASE pc[j] \notin Running
    BY <2>1, <2>3 DEF AsFound
  <2> QED
    BY <2>2, <2>3
<1>2. CASE j = k /\ HasTmp(j)
  <2>1. target # OutPath(j) /\ target # TmpPath(Jobs[j].target)
    BY <1>2, JobFacts, PathFacts, OutPathFacts
  <2>2. ASSUME ~Remove(j), ~Move(j)
        PROVE  ContentAt(target)' = ContentAt(target) /\ dir'[target] = dir[target]
    <3>1. Untouched(target)
      BY <1>0, <1>2, <2>1, <2>2, OwnFileOnly DEF IndInv
    <3> QED
      BY <1>0, <3>1, UntouchedContent DEF Untouched
  <2>3. CASE InitGlobal(j)
    <3>1. found'[j] = ContentAt(target)
      BY <1>0, <2>3 DEF InitGlobal, TypeOK
    <3>2. ~Remove(j) /\ ~Move(j)
      BY <2>3 DEF InitGlobal, Remove, Move
    <3> QED
      BY <2>2, <3>1, <3>2 DEF AsFound
  <2>4. CASE Sink(j) \/ Write(j) \/ WriteFails(j) \/ Abort(j) \/ Finalize(j) \/ Close(j) \/ Check(j)
    <3>1. ~Remove(j) /\ ~Move(j) /\ found' = found
      BY <2>4 DEF Sink, Write, WriteFails, Abort, Finalize, Close, Check, Throw, history, Remove, Move
    <3>2. pc[j] \in Running /\ pc[j] \notin {"move", "unmoved"}
      BY <2>4 DEF Sink, Write, WriteFails, Abort, Finalize, Close, Check, Running
    <3> QED
      BY <1>0, <1>2, <2>2, <3>1, <3>2 DEF AsFound
  <2>5. CASE Remove(j)
    <3>1. CASE Throw(j)
      BY <1>0, <1>2, <2>5, <3>1 DEF Remove, Throw, Goto, disk, history, AsFound, ContentAt, TypeOK, Running
    <3>2. CASE ~Throw(j)
      BY <1>0, <2>5, <3>2 DEF Remove, Goto, AsFound, TypeOK
    <3> QED
      BY <3>1, <3>2
  <2>6. CASE Move(j)
    <3>1. pc'[j] = "done" \/ (pc'[j] = "unmoved" /\ dir' = dir /\ inode' = inode /\ found' = found)
      BY <1>0, <2>6 DEF Move, Goto, TypeOK, disk, history
    <3>2. pc[j] = "move"
      BY <2>6 DEF Move
    <3> QED
      BY <1>0, <1>2, <3>1, <3>2 DEF AsFound, ContentAt, Running, Failing
  <2>7. CASE Destroy(j)
    BY <1>0, <2>7 DEF Destroy, Goto, TypeOK, AsFound, Running, Failing
  <2> QED
    BY <1>2, <2>3, <2>4, <2>5, <2>6, <2>7 DEF Step
<1>3. CASE ~HasTmp(j)
  BY <1>3 DEF AsFound
<1> QED
  BY <1>1, <1>2, <1>3

\* The rename puts the complete output of the job at its target.
LEMMA MovePublishes ==
  ASSUME IndInv, NEW k \in Job, Move(k), pc'[k] = "done"
  PROVE  ContentAt(TargetPath(Jobs[k].target))' = Output(k)
<1> DEFINE target == TargetPath(Jobs[k].target)
           tmp == TmpPath(Jobs[k].target)
<1>1. TypeOK /\ pc[k] = "move" /\ HasTmp(k) /\ Streamed(k)
  BY DEF IndInv, Types, Tidy, Move
<1>2. target \in Path /\ tmp \in Path /\ target # tmp /\ OutPath(k) = tmp
  BY <1>1, JobFacts, PathFacts, OutPathFacts
<1>3. dir[tmp] # 0 /\ ContentAt(tmp) = Output(k)
  BY <1>1, <1>2 DEF Streamed
<1>4. dir'[target] = dir[tmp] /\ inode' = inode
  BY <1>1, <1>2 DEF Move, Goto, TypeOK, disk
<1> QED
  BY <1>3, <1>4 DEF ContentAt

\* No step of a COPY leaves a local target cut short.
LEMMA TargetWholeStep ==
  ASSUME IndInv, NEW k \in Job, Step(k)
  PROVE  TargetWhole'
<1> SUFFICES ASSUME NEW p \in Target \ Remote
             PROVE  ContentAt(TargetPath(p))' \in
                      {Absent, Original} \cup {Output(j) : j \in {i \in Job : Jobs[i].target = p}}
  BY DEF TargetWhole
<1>0. /\ TypeOK /\ TargetPath(p) \in Path
      /\ ContentAt(TargetPath(p)) \in
           {Absent, Original} \cup {Output(j) : j \in {i \in Job : Jobs[i].target = p}}
  BY PathFacts DEF IndInv, Types, TargetWhole
<1>1. CASE Untouched(TargetPath(p))
  BY <1>0, <1>1, UntouchedContent
<1>2. CASE Jobs[k].target = p /\ Remove(k)
  <2>1. CASE Throw(k)
    BY <1>0, <2>1 DEF Throw, disk, ContentAt
  <2>2. CASE ~Throw(k)
    <3>1. dir'[TargetPath(p)] = 0
      BY <1>0, <1>2, <2>2 DEF Remove, TypeOK
    <3> QED
      BY <3>1 DEF ContentAt
  <2> QED
    BY <2>1, <2>2
<1>3. CASE Jobs[k].target = p /\ Move(k)
  <2>1. CASE pc'[k] = "done"
    <3>1. ContentAt(TargetPath(p))' = Output(k)
      BY <1>3, <2>1, MovePublishes
    <3> QED
      BY <1>3, <3>1
  <2>2. CASE pc'[k] # "done"
    BY <1>0, <1>3, <2>2 DEF Move, Goto, TypeOK, disk, ContentAt
  <2> QED
    BY <2>1, <2>2
<1>4. TargetPath(p) # OutPath(k) /\ TargetPath(p) # TmpPath(Jobs[k].target)
  BY JobFacts, PathFacts, OutPathFacts DEF HasTmp
<1>5. Jobs[k].target # p => TargetPath(p) # TargetPath(Jobs[k].target)
  BY JobFacts, PathFacts
<1>6. (Jobs[k].target # p \/ ~(Remove(k) \/ Move(k))) => Untouched(TargetPath(p))
  BY <1>0, <1>4, <1>5, OwnFileOnly DEF IndInv
<1> QED
  BY <1>1, <1>2, <1>3, <1>6

\* A crash closes all handles and changes no file.
LEMMA CrashStep ==
  ASSUME IndInv, Crash
  PROVE  IndInv'
<1>0. TypeOK
  BY DEF IndInv, Types
<1>1. Types' /\ Tidy'
  BY TypesStep, TidyStep DEF IndInv, Next
<1>2. /\ dir' = dir /\ inode' = inode /\ offset' = offset /\ row' = row
      /\ \A j \in Job : handle'[j] = 0 /\ pc'[j] = IF pc[j] \in Running THEN "crashed" ELSE pc[j]
  BY DEF Crash, disk
<1>3. OnePerTarget' /\ NoLinks' /\ OpenAtPath' /\ TargetWhole'
  BY <1>2 DEF IndInv, OnePerTarget, NoLinks, OpenAtPath, TargetWhole, ContentAt, Running, Failing
<1>4. \A j \in Job : pc'[j] \notin Running
  BY <1>2 DEF Running, Failing
<1>5. \A j \in Job : AsFound(j)'
  BY <1>4 DEF AsFound
<1>6. \A j \in Job : Streamed(j)'
  <2> TAKE j \in Job
  <2>1. pc'[j] = "bound" => pc[j] = "bound"
    BY <1>2
  <2>2. pc[j] = "bound" => row[j] = 0 /\ offset[j] = 0
    BY DEF IndInv, Streamed
  <2> QED
    BY <1>2, <1>4, <2>1, <2>2 DEF Streamed, Running, Failing
<1> QED
  BY <1>1, <1>3, <1>5, <1>6 DEF IndInv

\* The invariant is inductive when no two COPYs to one target run at once.
LEMMA IndInvStep == Exclusive /\ IndInv /\ [Next]_vars => IndInv'
<1> SUFFICES ASSUME Exclusive, IndInv, [Next]_vars
             PROVE  IndInv'
  OBVIOUS
<1>1. ASSUME NEW k \in Job, Step(k)
      PROVE  IndInv'
  <2>1. Types' /\ Tidy'
    BY <1>1, TypesStep, TidyStep DEF IndInv, Next
  <2>2. OnePerTarget' /\ NoLinks' /\ OpenAtPath' /\ TargetWhole'
    BY <1>1, OnePerTargetStep, NoLinksStep, OpenAtPathStep, TargetWholeStep
  <2>3. \A j \in Job : Streamed(j)' /\ AsFound(j)'
    BY <1>1, StreamedStep, AsFoundStep
  <2> QED
    BY <2>1, <2>2, <2>3 DEF IndInv
<1>2. CASE UNCHANGED vars
  <2>1. Types' /\ Tidy'
    BY TypesStep, TidyStep DEF IndInv
  <2>2. OnePerTarget' /\ NoLinks' /\ OpenAtPath' /\ TargetWhole'
    BY <1>2 DEF vars, IndInv, OnePerTarget, NoLinks, OpenAtPath, TargetWhole, ContentAt
  <2>3. \A j \in Job : Streamed(j)' /\ AsFound(j)'
    BY <1>2 DEF vars, IndInv, Streamed, AsFound, ContentAt
  <2> QED
    BY <2>1, <2>2, <2>3 DEF IndInv
<1> QED
  BY <1>1, <1>2, CrashStep DEF Next

\* The invariant, under Exclusive.
LEMMA Invariance ==
  ASSUME Exclusive
  PROVE  Spec => []IndInv
<1>1. IndInv /\ [Next]_vars => IndInv'
  BY IndInvStep
<1> QED
  BY <1>1, IndInvInit, PTL DEF Spec

-----------------------------------------------------------------------------
(* What the target holds.                                                  *)

\* A COPY that runs alone on its local target leaves it at every moment absent, as it
\* was or complete: IdocWriteSink writes to the temporary path, IdocWriteFinalize
\* renames what is complete.
THEOREM CopyTargetWhole ==
  ASSUME Exclusive
  PROVE  Spec => []TargetWhole
<1>1. IndInv => TargetWhole
  BY DEF IndInv
<1> QED
  BY <1>1, Invariance, PTL

\* The step that ends a COPY well leaves its whole output at the target.
LEMMA SuccessIsCompleteStep ==
  ASSUME Exclusive, IndInv, Next, NEW j \in Job, pc'[j] = "done", pc[j] # "done"
  PROVE  ContentAt(TargetPath(Jobs[j].target))' = Output(j)
<1>0. TypeOK
  BY DEF IndInv, Types
<1>1. ~Crash
  BY <1>0 DEF Crash, TypeOK
<1>2. PICK k \in Job : Step(k)
  BY <1>1 DEF Next
<1>3. k = j
  BY <1>0, <1>2, OtherJob
<1>4. Close(j) \/ Move(j)
  BY <1>0, <1>2, <1>3 DEF Step, InitGlobal, Sink, Write, WriteFails, Abort, Finalize, Check, Remove, Destroy,
                          Throw, Goto, TypeOK
<1>5. CASE Close(j)
  <2>1. ~HasTmp(j) /\ pc[j] = "close" /\ UNCHANGED <<dir, inode>>
    BY <1>0, <1>5 DEF Close, Throw, Goto, TypeOK, disk
  <2>2. ContentAt(OutPath(j)) = Output(j)
    BY <2>1 DEF IndInv, Streamed, Output
  <2> QED
    BY <2>1, <2>2, OutPathFacts DEF ContentAt
<1> QED
  BY <1>4, <1>5, MovePublishes

\* A COPY that succeeds has written all its rows in order, to a local target or to a
\* remote one.
THEOREM CopySuccessIsComplete ==
  ASSUME Exclusive
  PROVE  Spec => SuccessIsComplete
<1>1. IndInv /\ [Next]_vars =>
        [\A j \in Job : pc'[j] = "done" /\ pc[j] # "done" =>
           ContentAt(TargetPath(Jobs[j].target))' = Output(j)]_vars
  BY SuccessIsCompleteStep
<1> QED
  BY <1>1, Invariance, PTL DEF Spec, SuccessIsComplete

\* The step that ends a failed COPY leaves the target as the COPY found it.
LEMMA OriginalSurvivesStep ==
  ASSUME Exclusive, IndInv, Next, NEW j \in Job, HasTmp(j),
         pc'[j] = "failed", pc[j] # "failed", pc[j] = "unmoved" => found[j] = Absent
  PROVE  ContentAt(TargetPath(Jobs[j].target))' = found[j]
<1> DEFINE target == TargetPath(Jobs[j].target)
<1>0. TypeOK /\ AsFound(j) /\ target \in Path /\ target # OutPath(j)
  BY JobFacts, PathFacts, OutPathFacts DEF IndInv, Types
<1>1. ~Crash
  BY <1>0 DEF Crash, TypeOK
<1>2. PICK k \in Job : Step(k)
  BY <1>1 DEF Next
<1>3. k = j
  BY <1>0, <1>2, OtherJob
<1>4. Destroy(j)
  BY <1>0, <1>2, <1>3 DEF Step, InitGlobal, Sink, Write, WriteFails, Abort, Finalize, Close, Check, Remove,
                          Move, Throw, Goto, TypeOK
<1>5. pc[j] \in {"failing", "unmoved"}
  BY <1>4 DEF Destroy, Failing
<1>6. ContentAt(target) = found[j]
  BY <1>0, <1>5 DEF AsFound, ContentAt, Running, Failing
<1>7. ~Remove(j) /\ ~Move(j)
  BY <1>5 DEF Remove, Move
<1>8. Untouched(target)
  BY <1>0, <1>2, <1>3, <1>7, OwnFileOnly DEF IndInv
<1> QED
  BY <1>0, <1>6, <1>8, UntouchedContent

\* A COPY to a local target that fails, whatever failed and wherever, leaves the target
\* as it was, unless the rename itself fails after the target was removed.
THEOREM CopyOriginalSurvives ==
  ASSUME Exclusive
  PROVE  Spec => OriginalSurvives
<1>1. IndInv /\ [Next]_vars =>
        [\A j \in Job :
           /\ pc'[j] = "failed" /\ pc[j] # "failed" /\ HasTmp(j)
           /\ pc[j] = "unmoved" => found[j] = Absent
           => ContentAt(TargetPath(Jobs[j].target))' = found[j]]_vars
  BY OriginalSurvivesStep
<1> QED
  BY <1>1, Invariance, PTL DEF Spec, OriginalSurvives

\* A crash finds a COPY that has not touched its target, or has its whole output in the
\* temporary file.
LEMMA CrashRecoverableStep ==
  ASSUME IndInv, Next, NEW j \in Job, pc'[j] = "crashed", pc[j] # "crashed", HasTmp(j)
  PROVE  \/ ContentAt(TargetPath(Jobs[j].target))' = found[j]
         \/ ContentAt(TmpPath(Jobs[j].target))' = Output(j)
<1>0. TypeOK /\ AsFound(j) /\ Streamed(j) /\ OutPath(j) = TmpPath(Jobs[j].target)
  BY OutPathFacts DEF IndInv, Types
<1>1. Crash
  <2> SUFFICES ASSUME NEW k \in Job, Step(k)
               PROVE  FALSE
    BY DEF Next
  <2>1. k = j
    BY <1>0, OtherJob
  <2> QED
    BY <1>0, <2>1 DEF Step, InitGlobal, Sink, Write, WriteFails, Abort, Finalize, Close, Check, Remove,
                      Move, Destroy, Throw, Goto, TypeOK
<1>2. pc[j] \in Running /\ dir' = dir /\ inode' = inode
  BY <1>0, <1>1 DEF Crash, TypeOK, disk
<1>3. ContentAt(TargetPath(Jobs[j].target)) = found[j] \/ ContentAt(TmpPath(Jobs[j].target)) = Output(j)
  BY <1>0, <1>2 DEF AsFound, Streamed
<1> QED
  BY <1>2, <1>3 DEF ContentAt

\* A COPY to a local target that dies with the process, at whatever call, leaves the
\* target as it found it or its whole output in the temporary file: also when it dies
\* between the RemoveFile and the MoveFile of IdocWriteFinalize.
THEOREM CopyCrashRecoverable ==
  ASSUME Exclusive
  PROVE  Spec => CrashRecoverable
<1>1. IndInv /\ [Next]_vars =>
        [\A j \in Job : pc'[j] = "crashed" /\ pc[j] # "crashed" /\ HasTmp(j) =>
           \/ ContentAt(TargetPath(Jobs[j].target))' = found[j]
           \/ ContentAt(TmpPath(Jobs[j].target))' = Output(j)]_vars
  BY CrashRecoverableStep
<1> QED
  BY <1>1, Invariance, PTL DEF Spec, CrashRecoverable

=============================================================================
