--------------------------- MODULE MCParallelScan ---------------------------
(***************************************************************************)
(* Small instances of ParallelScan: up to six files of up to four          *)
(* records, a dictionary with one segment of three fields, chunks of two   *)
(* rows (so that a record's fields span chunks), two or three threads.     *)
(***************************************************************************)
EXTENDS ParallelScan

Control == [segnam |-> "", bad |-> 0]
Seg(name) == [segnam |-> name, bad |-> 0]
Bad(name, field) == [segnam |-> name, bad |-> field]

Flat(records) == [kind |-> "flat", records |-> records, fails |-> FALSE]
Truncated(records) == [kind |-> "flat", records |-> records, fails |-> TRUE]
Xml(records) == [kind |-> "xml", records |-> records, fails |-> FALSE]
Missing == [kind |-> "missing", records |-> <<>>, fails |-> FALSE]

MCFields == [s \in {"A"} |-> 3]

\* Two segments in and one out of the dictionary, an empty file among them.
GoodFiles ==
  << Flat(<<Control, Seg("A"), Seg("U")>>), Flat(<<>>),
     Flat(<<Control, Seg("A"), Control, Seg("A")>>) >>

\* A file that is missing, one whose second field does not decode, IDoc-XML for a
\* reader that does not take it, a file that is cut off, and one whose last record
\* is too short to tell whether it would be skipped.
FailingFiles ==
  << Flat(<<Control, Seg("A")>>), Missing, Flat(<<Seg("U"), Bad("A", 2), Seg("A")>>),
     Xml(<<Control>>), Truncated(<<Seg("A")>>),
     Flat(<<Seg("U"), Bad(CutOff, 1)>>) >>

\* The control reader over flat files and IDoc-XML.
ControlFiles ==
  << Flat(<<Control, Seg("A"), Control>>), Xml(<<Control, Control, Control>>),
     Flat(<<Seg("A"), Control>>) >>

=============================================================================
