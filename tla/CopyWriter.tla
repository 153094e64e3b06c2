----------------------------- MODULE CopyWriter -----------------------------
(***************************************************************************)
(* COPY ... TO '<target>' (FORMAT sap_idoc): src/src/idoc_copy.cpp.        *)
(*                                                                         *)
(* A COPY is bound, opens its file, sinks chunks of records row by row and *)
(* is finalized; when any of that throws, its global state is destroyed.   *)
(* A local target is written as `<target>.erpl_idoc.tmp` and renamed into  *)
(* place in Finalize; a remote target is written directly.                 *)
(*                                                                         *)
(* The file system is external: a directory from paths to files (inodes),  *)
(* handles that outlive the name of their file, calls that may fail.       *)
(* DuckDB is external too: it sinks the rows one after the other (the      *)
(* copy function announces no parallel execution mode), finalizes after    *)
(* the last row, and destroys the state in any case.                       *)
(***************************************************************************)
EXTENDS Naturals, Sequences

CONSTANTS
  Jobs,       \* the COPY statements: [target, rows, framing, validate]
  Remote,     \* the targets for which FileSystem::IsRemoteFile holds
  Present,    \* the targets that exist at first
  Faults,     \* the file system calls that may fail
  Exclusive,  \* no two COPYs run to one target at the same time
  MayCrash    \* the process may die, and be started again

\* A row is NULL, or a record by its size.
Sizes == {"null", "control", "data", "other"}
Framings == {"fixed", "lf", "crlf"}
FileCalls == {"open", "write", "close", "remove", "move"}

ASSUME CopyAssumption ==
  /\ Jobs \in Seq([target : STRING, rows : Seq(Sizes), framing : Framings, validate : BOOLEAN])
  /\ Faults \subseteq FileCalls
  /\ Exclusive \in BOOLEAN
  /\ MayCrash \in BOOLEAN

Job == DOMAIN Jobs
Target == {Jobs[j].target : j \in Job}

\* IdocWriteInitGlobal: the path a job writes to.
TargetPath(target) == [of |-> target, kind |-> "target"]
TmpPath(target) == [of |-> target, kind |-> "tmp"]
Path == {TargetPath(p) : p \in Target} \cup {TmpPath(p) : p \in Target}
HasTmp(j) == Jobs[j].target \notin Remote

\* (Mutant) a local target is written directly, too.
OutPathDirect(j) == TargetPath(Jobs[j].target)

OutPath(j) == IF HasTmp(j) THEN TmpPath(Jobs[j].target) ELSE TargetPath(Jobs[j].target)

-----------------------------------------------------------------------------
(* What a job writes.  One cell stands for one WriteAll.                   *)

Cell(job, row, part) == [job |-> job, row |-> row, part |-> part]
Hole == Cell(0, 0, "hole")
Original == <<Cell(0, 0, "original")>>

\* IdocWriteSink, validate: 524 or 1063 bytes, whatever the record is.
Accepted(j, row) == Jobs[j].validate => Jobs[j].rows[row] \in {"control", "data"}

Terminated(j) == Jobs[j].framing # "fixed"

\* What IdocWriteSink writes for a row; nothing for a NULL.
CellsOf(j, row) ==
  IF Jobs[j].rows[row] = "null" THEN <<>>
  ELSE IF Terminated(j) THEN <<Cell(j, row, "record"), Cell(j, row, "terminator")>>
  ELSE <<Cell(j, row, "record")>>

\* The file of a job after each of its rows, and the whole file.
OutputUpTo(j) ==
  LET upTo[row \in 0..Len(Jobs[j].rows)] ==
        IF row = 0 THEN <<>> ELSE upTo[row - 1] \o CellsOf(j, row)
  IN  upTo
Output(j) == OutputUpTo(j)[Len(Jobs[j].rows)]

-----------------------------------------------------------------------------
VARIABLES
  dir,        \* the directory: the inode of a path, 0 if there is none
  inode,      \* the contents of the files, also of those without a name
  handle,     \* the inode a job has open, 0 if none
  offset,     \* the file position of its handle
  row,        \* the rows a job has sunk
  rest,       \* what is still to be written of the current row
  published,
  found,      \* (history) what a job found at its target
  left,       \* (history) the targets whose temporary file a crash or a failed clean-up left
  crashed,    \* (bound) the process died already
  pc

disk == <<dir, inode>>
local == <<handle, offset, row, rest, published>>
history == <<found, left>>
vars == <<dir, inode, handle, offset, row, rest, published, found, left, crashed, pc>>

\* "unmoved" is "failing" after MoveFile threw.
Failing == {"failing", "unmoved"}
Running == {"sink", "write", "close", "check", "remove", "move"} \cup Failing
Ended == {"done", "failed", "crashed"}

\* The contents of the file at a path; no contents when there is no file.
Absent == <<Cell(0, 0, "absent")>>
ContentAt(path) == IF dir[path] = 0 THEN Absent ELSE inode[dir[path]]

\* A target that exists is a file of its own: the one of some job that writes to it.
FirstInode(target) == CHOOSE j \in Job : Jobs[j].target = target

Init ==
  /\ inode = [j \in Job |-> Original]
  /\ dir = [path \in Path |->
              IF path.kind = "target" /\ path.of \in Present THEN FirstInode(path.of) ELSE 0]
  /\ handle = [j \in Job |-> 0]
  /\ offset = [j \in Job |-> 0]
  /\ row = [j \in Job |-> 0]
  /\ rest = [j \in Job |-> <<>>]
  /\ published = [j \in Job |-> FALSE]
  /\ found = [j \in Job |-> Absent]
  /\ left = {}
  /\ crashed = FALSE
  /\ pc = [j \in Job |-> "bound"]

Goto(j, place) == pc' = [pc EXCEPT ![j] = place]

\* A call throws; DuckDB goes on to destroy the state.
Throw(j) == Goto(j, "failing") /\ UNCHANGED <<disk, local, history, crashed>>

\* (Mutant) a file of that name is opened as it is.
OpenKeeping(j, path) ==
  IF dir[path] = 0
  THEN /\ inode' = Append(inode, <<>>)
       /\ dir' = [dir EXCEPT ![path] = Len(inode) + 1]
       /\ handle' = [handle EXCEPT ![j] = Len(inode) + 1]
  ELSE /\ handle' = [handle EXCEPT ![j] = dir[path]]
       /\ UNCHANGED <<dir, inode>>

\* FILE_CREATE_NEW is open(path, O_CREAT | O_TRUNC): a file of that name loses its
\* contents.
OpenFile(j, path) ==
  IF dir[path] = 0
  THEN /\ inode' = Append(inode, <<>>)
       /\ dir' = [dir EXCEPT ![path] = Len(inode) + 1]
       /\ handle' = [handle EXCEPT ![j] = Len(inode) + 1]
  ELSE /\ inode' = [inode EXCEPT ![dir[path]] = <<>>]
       /\ handle' = [handle EXCEPT ![j] = dir[path]]
       /\ UNCHANGED dir

\* IdocWriteInitGlobal.
InitGlobal(j) ==
  /\ pc[j] = "bound"
  /\ Exclusive => \A k \in Job : Jobs[k].target = Jobs[j].target => pc[k] \notin Running
  /\ found' = [found EXCEPT ![j] = ContentAt(TargetPath(Jobs[j].target))]
  /\ \/ /\ OpenFile(j, OutPath(j))
        /\ left' = left \ {Jobs[j].target}
        /\ Goto(j, "sink")
        /\ UNCHANGED <<offset, row, rest, published, crashed>>
     \/ /\ "open" \in Faults
        /\ Goto(j, "failing")
        /\ UNCHANGED <<disk, local, left, crashed>>

\* IdocWriteSink, one row: skipped, rejected, or to be written.
Sink(j) ==
  /\ pc[j] = "sink"
  /\ row[j] < Len(Jobs[j].rows)
  /\ LET next == row[j] + 1
     IN  IF Jobs[j].rows[next] # "null" /\ ~Accepted(j, next)
         THEN Throw(j)
         ELSE /\ row' = [row EXCEPT ![j] = next]
              /\ rest' = [rest EXCEPT ![j] = CellsOf(j, next)]
              /\ Goto(j, IF CellsOf(j, next) = <<>> THEN "sink" ELSE "write")
              /\ UNCHANGED <<disk, handle, offset, published, history, crashed>>

\* write at the file position; a gap before it reads as zeros.
Overwrite(old, at, cell) ==
  [n \in 1..(IF Len(old) > at THEN Len(old) ELSE at + 1) |->
     IF n = at + 1 THEN cell ELSE IF n <= Len(old) THEN old[n] ELSE Hole]

WriteCell(j, cell) ==
  inode' = [inode EXCEPT ![handle[j]] = Overwrite(@, offset[j], cell)]

\* WriteAll of the record, then of the terminator.
Write(j) ==
  /\ pc[j] = "write"
  /\ WriteCell(j, Head(rest[j]))
  /\ offset' = [offset EXCEPT ![j] = @ + 1]
  /\ rest' = [rest EXCEPT ![j] = Tail(@)]
  /\ Goto(j, IF Len(rest[j]) = 1 THEN "sink" ELSE "write")
  /\ UNCHANGED <<dir, handle, row, published, history, crashed>>

\* WriteAll fails, perhaps after a part of the bytes.
WriteFails(j) ==
  /\ pc[j] = "write"
  /\ "write" \in Faults
  /\ WriteCell(j, Cell(j, row[j], "torn")) \/ UNCHANGED inode
  /\ Goto(j, "failing")
  /\ UNCHANGED <<dir, local, history, crashed>>

\* The query that feeds the COPY fails, or is interrupted, between two rows.
Abort(j) == pc[j] = "sink" /\ Throw(j)

\* DuckDB calls IdocWriteFinalize after the last row.
Finalize(j) ==
  /\ pc[j] = "sink"
  /\ row[j] = Len(Jobs[j].rows)
  /\ Goto(j, "close")
  /\ UNCHANGED <<disk, local, history, crashed>>

\* (Mutant) the file is renamed while it is open.
CloseNothing(j) ==
  /\ pc[j] = "close"
  /\ Goto(j, IF HasTmp(j) THEN "check" ELSE "done")
  /\ UNCHANGED <<disk, local, history, crashed>>

\* IdocWriteFinalize: the handle is closed; a direct target is done with that.
Close(j) ==
  /\ pc[j] = "close"
  /\ \/ /\ handle' = [handle EXCEPT ![j] = 0]
        /\ Goto(j, IF HasTmp(j) THEN "check" ELSE "done")
        /\ UNCHANGED <<disk, offset, row, rest, published, history, crashed>>
     \/ "close" \in Faults /\ Throw(j)

\* FileExists(target_path).
Check(j) ==
  /\ pc[j] = "check"
  /\ Goto(j, IF dir[TargetPath(Jobs[j].target)] = 0 THEN "move" ELSE "remove")
  /\ UNCHANGED <<disk, local, history, crashed>>

\* RemoveFile(target_path): fails also when there is no such file any more.
Remove(j) ==
  /\ pc[j] = "remove"
  /\ \/ /\ dir[TargetPath(Jobs[j].target)] # 0
        /\ dir' = [dir EXCEPT ![TargetPath(Jobs[j].target)] = 0]
        /\ Goto(j, "move")
        /\ UNCHANGED <<inode, local, history, crashed>>
     \/ /\ "remove" \in Faults \/ dir[TargetPath(Jobs[j].target)] = 0
        /\ Throw(j)

\* MoveFile(tmp_path, target_path), and published is set.
Move(j) ==
  /\ pc[j] = "move"
  /\ \/ /\ dir[TmpPath(Jobs[j].target)] # 0
        /\ dir' = [dir EXCEPT ![TargetPath(Jobs[j].target)] = dir[TmpPath(Jobs[j].target)],
                              ![TmpPath(Jobs[j].target)] = 0]
        /\ published' = [published EXCEPT ![j] = TRUE]
        /\ left' = left \ {Jobs[j].target}
        /\ Goto(j, "done")
        /\ UNCHANGED <<inode, handle, offset, row, rest, found, crashed>>
     \/ /\ "move" \in Faults \/ dir[TmpPath(Jobs[j].target)] = 0
        /\ Goto(j, "unmoved")
        /\ UNCHANGED <<disk, local, history, crashed>>

\* (Mutant) the temporary file is left behind.
CleanNothing(j) == UNCHANGED <<dir, left>>

\* (Mutant) the target is removed.
CleanTarget(j) ==
  /\ dir' = [dir EXCEPT ![TargetPath(Jobs[j].target)] = IF HasTmp(j) /\ ~published[j] THEN 0 ELSE @]
  /\ UNCHANGED left

\* What the destructor of a failed COPY calls and may throw: handle.reset(), RemoveFile.
CleanUpThrows(j) == "remove" \in Faults \/ ("close" \in Faults /\ handle[j] # 0)

\* ~IdocWriteGlobalState after a failure: the handle is closed and the temporary file
\* removed.  What that throws is caught and forgotten, and the file stays.
CleanUp(j) ==
  IF HasTmp(j) /\ ~published[j]
  THEN \/ /\ dir' = [dir EXCEPT ![TmpPath(Jobs[j].target)] = 0]
          /\ left' = left \ {Jobs[j].target}
       \/ /\ CleanUpThrows(j)
          /\ left' = left \cup {Jobs[j].target}
          /\ UNCHANGED dir
  ELSE UNCHANGED <<dir, left>>

\* DuckDB may remove the output of a failed COPY that was written directly.
Destroy(j) ==
  /\ pc[j] \in Failing
  /\ \/ CleanUp(j)
     \/ ~HasTmp(j) /\ dir' = [dir EXCEPT ![OutPath(j)] = 0] /\ UNCHANGED left
  /\ handle' = [handle EXCEPT ![j] = 0]
  /\ Goto(j, "failed")
  /\ UNCHANGED <<inode, offset, row, rest, published, found, crashed>>

\* The targets some COPY is writing a temporary file for.
InProgress == {Jobs[j].target : j \in {k \in Job : pc[k] \in Running /\ HasTmp(k)}}

\* The process dies: no destructor runs, the files stay as they are.
Crash ==
  /\ MayCrash
  /\ ~crashed
  /\ crashed' = TRUE
  /\ handle' = [j \in Job |-> 0]
  /\ pc' = [j \in Job |-> IF pc[j] \in Running THEN "crashed" ELSE pc[j]]
  /\ left' = left \cup InProgress
  /\ UNCHANGED <<disk, offset, row, rest, published, found>>

Step(j) ==
  \/ InitGlobal(j) \/ Sink(j) \/ Write(j) \/ WriteFails(j) \/ Abort(j) \/ Finalize(j)
  \/ Close(j) \/ Check(j) \/ Remove(j) \/ Move(j) \/ Destroy(j)

Next == Crash \/ \E j \in Job : Step(j)

\* DuckDB runs every COPY until it ends.
Spec == Init /\ [][Next]_vars /\ \A j \in Job : WF_vars(Step(j))

-----------------------------------------------------------------------------
(* Properties.                                                             *)

Cells == [job : Job \cup {0}, row : Nat,
          part : {"record", "terminator", "torn", "hole", "original", "absent"}]
Contents == Seq(Cells)

\* A job has a file open exactly while it streams, and all handles and names
\* lead to files.
TypeOK ==
  /\ inode \in Seq(Contents)
  /\ dir \in [Path -> 0..Len(inode)]
  /\ handle \in [Job -> 0..Len(inode)]
  /\ offset \in [Job -> Nat]
  /\ row \in [Job -> Nat]
  /\ rest \in [Job -> Contents]
  /\ published \in [Job -> BOOLEAN]
  /\ found \in [Job -> Contents]
  /\ left \subseteq Target \ Remote
  /\ crashed \in BOOLEAN
  /\ pc \in [Job -> {"bound"} \cup Running \cup Ended]
  /\ \A j \in Job : pc[j] \in {"sink", "write", "close"} => handle[j] # 0
  /\ \A j \in Job : pc[j] \in {"check", "remove", "move", "done", "failed", "crashed"} => handle[j] = 0

\* A local target is at every moment absent, as it was, or the complete output
\* of a COPY: never a truncated file, also when a COPY fails, is interrupted or
\* dies with the process.
TargetWhole ==
  \A p \in Target \ Remote :
    ContentAt(TargetPath(p)) \in {Absent, Original}
                                   \cup {Output(j) : j \in {k \in Job : Jobs[k].target = p}}

\* What a COPY that succeeds leaves is its output, all rows in order.
SuccessIsComplete ==
  [][\A j \in Job : pc'[j] = "done" /\ pc[j] # "done" =>
       ContentAt(TargetPath(Jobs[j].target))' = Output(j)]_vars

\* A COPY to a local target that fails leaves the target as it found it, but for
\* one that replaces a file and fails in the rename.
OriginalSurvives ==
  [][\A j \in Job :
       /\ pc'[j] = "failed" /\ pc[j] # "failed" /\ HasTmp(j)
       /\ pc[j] = "unmoved" => found[j] = Absent
       => ContentAt(TargetPath(Jobs[j].target))' = found[j]]_vars

\* A COPY that dies with the process loses nothing, at whatever call it dies, between
\* RemoveFile and MoveFile too: the target is as the COPY found it, or its whole output
\* is in the temporary file.
CrashRecoverable ==
  [][\A j \in Job : pc'[j] = "crashed" /\ pc[j] # "crashed" /\ HasTmp(j) =>
       \/ ContentAt(TargetPath(Jobs[j].target))' = found[j]
       \/ ContentAt(TmpPath(Jobs[j].target))' = Output(j)]_vars

\* A temporary file is that of a COPY in progress, or one that a crash or a destructor
\* whose RemoveFile failed left behind and no later COPY to the target has reused or
\* removed: no other way to fail, at whatever call, leaves one.
NothingLeft ==
  \A p \in Target : dir[TmpPath(p)] # 0 => p \in left \cup InProgress

\* (Documentation) idoc_copy_failure.test: "the original must survive a failed
\* overwrite", whichever call it was that failed.
FailedOverwriteKeeps ==
  [][\A j \in Job : pc'[j] = "failed" /\ pc[j] # "failed" /\ HasTmp(j) =>
       ContentAt(TargetPath(Jobs[j].target))' = found[j]]_vars

=============================================================================
