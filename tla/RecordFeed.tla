------------------------------ MODULE RecordFeed ------------------------------
(***************************************************************************)
(* What reading one file promises its consumer: the records of the file,   *)
(* one at a time and in order, then either the end of the file or, when    *)
(* the file is malformed, one failure.  RecordStreamer implements it;      *)
(* ParallelScan relies on it.                                              *)
(***************************************************************************)
EXTENDS Naturals, Sequences

VARIABLES
  records,  \* the records the file holds (fixed)
  fails,    \* whether a malformed rest follows them (fixed)
  feed,     \* the records handed out so far
  outcome   \* "open", then "end" or "error"

vars == <<records, fails, feed, outcome>>

Init ==
  /\ feed = <<>>
  /\ outcome = "open"

Deliver ==
  /\ outcome = "open"
  /\ Len(feed) < Len(records)
  /\ feed' = Append(feed, records[Len(feed) + 1])
  /\ UNCHANGED <<records, fails, outcome>>

Finish ==
  /\ outcome = "open"
  /\ feed = records
  /\ outcome' = IF fails THEN "error" ELSE "end"
  /\ UNCHANGED <<records, fails, feed>>

Next == Deliver \/ Finish

Spec == Init /\ [][Next]_vars /\ WF_vars(Next)

=============================================================================
