---------------------------- MODULE MCCopyWriter ----------------------------
(***************************************************************************)
(* Small instances of CopyWriter: two or three COPYs of two or three rows, *)
(* terminated and fixed framing, a NULL row and a rejected one.            *)
(***************************************************************************)
EXTENDS CopyWriter

Copy(target, rows, framing, validate) ==
  [target |-> target, rows |-> rows, framing |-> framing, validate |-> validate]

\* Two COPYs to one local target, one after the other and one of them rejected in
\* its last row; and one to a remote target, which takes a non-standard record.
MixedJobs ==
  << Copy("a", <<"control", "data", "other">>, "lf", TRUE),
     Copy("a", <<"control", "null", "data">>, "fixed", TRUE),
     Copy("s3", <<"control", "other">>, "crlf", FALSE) >>

OneJob == << Copy("a", <<"control">>, "fixed", TRUE) >>

\* Two COPYs to one target at the same time.
SameTarget ==
  << Copy("a", <<"control", "data">>, "fixed", TRUE),
     Copy("a", <<"control", "data">>, "fixed", TRUE) >>

=============================================================================
