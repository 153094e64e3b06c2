------------------------------ MODULE ScanResult ------------------------------
(***************************************************************************)
(* What a scan over many files promises the query: the rows of each file,  *)
(* each exactly once and in file order; the query succeeds only when every *)
(* row of every file was delivered, and fails only when some file cannot   *)
(* be read.  In which order files are read, and how many at a time, is     *)
(* left open.                                                              *)
(***************************************************************************)
EXTENDS SequencesExt

CONSTANTS
  File,      \* the files of the scan
  Expected,  \* the rows of each file, up to the point where it is unreadable
  Readable   \* the files that can be read to their end

VARIABLES
  result,    \* for each file, the rows delivered so far
  status     \* "running", then "done" or "failed"

vars == <<result, status>>

Init ==
  /\ result = [f \in File |-> <<>>]
  /\ status = "running"

\* A chunk arrives: some files advance along their rows.
Advance ==
  /\ status # "done"
  /\ DOMAIN result' = File
  /\ \A f \in File : IsPrefix(result[f], result'[f]) /\ IsPrefix(result'[f], Expected[f])
  /\ UNCHANGED status

Succeed ==
  /\ status = "running"
  /\ File \subseteq Readable
  /\ result = Expected
  /\ status' = "done"
  /\ UNCHANGED result

Fail ==
  /\ status = "running"
  /\ \E f \in File : f \notin Readable
  /\ status' = "failed"
  /\ UNCHANGED result

Next == Advance \/ Succeed \/ Fail

Spec == Init /\ [][Next]_vars
=============================================================================
