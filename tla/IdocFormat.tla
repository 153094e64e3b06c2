------------------------------ MODULE IdocFormat ------------------------------
(***************************************************************************)
(* The flat IDoc file format: record geometry, framing detection and the   *)
(* whole-image split and parse (src/src/idoc/idoc_format.cpp).             *)
(*                                                                         *)
(* An image is a sequence of bytes.  A byte is abstracted to what the code *)
(* compares it with: the bytes of the control-record magic "EDI_DC", a     *)
(* carriage return, a line feed, and anything else.  The record lengths    *)
(* and the magic are parameters, so that a small instance keeps the shape  *)
(* (magic < control record < data record) with few bytes.                  *)
(*                                                                         *)
(* Where the code throws, an operator returns a record whose field ok is   *)
(* FALSE, next to the records found before the throw.                      *)
(***************************************************************************)
EXTENDS Naturals, Sequences, FiniteSets

CONSTANTS
  Magic,               \* the prefix "EDI_DC" of a control record
  CONTROL_RECORD_LEN,  \* 524 bytes
  DATA_RECORD_LEN      \* 1063 bytes

CR == "\r"
LF == "\n"

Byte == {Magic[i] : i \in DOMAIN Magic} \cup {"x", CR, LF}

ASSUME FormatAssumption ==
  /\ CONTROL_RECORD_LEN \in Nat
  /\ DATA_RECORD_LEN \in Nat
  /\ Magic \in Seq(STRING)
  /\ 0 < Len(Magic)
  /\ Len(Magic) <= CONTROL_RECORD_LEN
  /\ CONTROL_RECORD_LEN + 2 <= DATA_RECORD_LEN
  /\ \A i \in DOMAIN Magic : Magic[i] \notin {"x", CR, LF}

FIXED == "fixed"
TERMINATED_LF == "lf"
TERMINATED_CRLF == "crlf"
Framing == {FIXED, TERMINATED_LF, TERMINATED_CRLF}

-----------------------------------------------------------------------------
(* Records.                                                                *)

\* The bytes of data from position p on start with the magic.
MagicAt(data, p) ==
  /\ Len(data) - p + 1 >= Len(Magic)
  /\ SubSeq(data, p, p + Len(Magic) - 1) = Magic

IsControlRecord(record) == MagicAt(record, 1)

\* The length a fixed-width record starting at p must have.
BlockLen(data, p) == IF MagicAt(data, p) THEN CONTROL_RECORD_LEN ELSE DATA_RECORD_LEN

\* A terminated record has the length its type prescribes.
GeometryOk(line) == Len(line) = BlockLen(line, 1)

\* (Mutant) the framing is not looked at.
StripAnyCr(line, framing) ==
  IF line # <<>> /\ line[Len(line)] = CR THEN SubSeq(line, 1, Len(line) - 1) ELSE line

\* CRLF framing: one carriage return before the line feed is not content.
StripCr(line, framing) ==
  IF framing = TERMINATED_CRLF /\ line # <<>> /\ line[Len(line)] = CR
  THEN SubSeq(line, 1, Len(line) - 1)
  ELSE line

\* The position of the first line feed at or after p, 0 if there is none.
FirstLf(data, p) ==
  LET found == {i \in p..Len(data) : data[i] = LF}
  IN  IF found = {} THEN 0 ELSE CHOOSE i \in found : \A j \in found : i <= j

Prepend(record, rest) == [rest EXCEPT !.records = <<record>> \o @]
Stop(ok) == [ok |-> ok, records |-> <<>>]

-----------------------------------------------------------------------------
(* Splitting an image into records.                                        *)

\* Contiguous fixed-width records; ok is FALSE when a record is cut short.
\* TryWalkFixed discards the records of a failed walk, SplitRecordsLenient
\* keeps them.
WalkFixed(data) ==
  LET walk[p \in 1..(Len(data) + 1)] ==
        LET end == p + BlockLen(data, p) - 1
        IN  IF p > Len(data) THEN Stop(TRUE)
            ELSE IF end > Len(data) THEN Stop(FALSE)
            ELSE Prepend(SubSeq(data, p, end), walk[end + 1])
  IN  walk[1]

\* Lines up to each line feed, checked one by one; what follows the last line
\* feed is taken as a record as it stands.
WalkTerminated(data, framing) ==
  LET walk[p \in 1..(Len(data) + 1)] ==
        LET nl   == FirstLf(data, p)
            line == StripCr(SubSeq(data, p, nl - 1), framing)
        IN  IF p > Len(data) THEN Stop(TRUE)
            ELSE IF nl = 0 THEN Prepend(SubSeq(data, p, Len(data)), Stop(TRUE))
            ELSE IF ~GeometryOk(line) THEN Stop(FALSE)
            ELSE Prepend(line, walk[nl + 1])
  IN  walk[1]

SplitRecords(data, framing) ==
  IF framing = FIXED THEN WalkFixed(data) ELSE WalkTerminated(data, framing)

SplitRecordsLenient(data) == WalkFixed(data).records

Terminator(framing) ==
  CASE framing = FIXED -> <<>>
    [] framing = TERMINATED_LF -> <<LF>>
    [] framing = TERMINATED_CRLF -> <<CR, LF>>

JoinRecords(records, framing) ==
  LET join[i \in 0..Len(records)] ==
        IF i = 0 THEN <<>> ELSE join[i - 1] \o records[i] \o Terminator(framing)
  IN  join[Len(records)]

-----------------------------------------------------------------------------
(* Framing detection.  "undetectable" stands for the exception.            *)

\* From the two bytes that follow the first control record.
TerminatorAfterControl(data) ==
  LET at(i) == IF i <= Len(data) THEN data[i] ELSE "x"
  IN  IF at(CONTROL_RECORD_LEN + 1) = CR /\ at(CONTROL_RECORD_LEN + 2) = LF
      THEN {TERMINATED_CRLF}
      ELSE IF at(CONTROL_RECORD_LEN + 1) = LF THEN {TERMINATED_LF} ELSE {}

DetectFraming(data) ==
  IF Len(data) < CONTROL_RECORD_LEN THEN "undetectable"
  ELSE IF WalkFixed(data).ok THEN FIXED
  ELSE IF TerminatorAfterControl(data) = {} THEN "undetectable"
  ELSE CHOOSE f \in TerminatorAfterControl(data) : TRUE

DetectFramingPrefix(data) ==
  IF Len(data) < CONTROL_RECORD_LEN THEN "undetectable"
  ELSE IF TerminatorAfterControl(data) = {} THEN FIXED
  ELSE CHOOSE f \in TerminatorAfterControl(data) : TRUE

-----------------------------------------------------------------------------
(* Parsed records: every record carries the key of its document (the number *)
(* of control records up to it) and its index in the file.                  *)

Numbered(records) ==
  [i \in DOMAIN records |->
     [document_key |-> Cardinality({j \in 1..i : IsControlRecord(records[j])}),
      record_index |-> i - 1,
      is_control   |-> IsControlRecord(records[i]),
      bytes        |-> records[i]]]

ParseImage(data, framing) ==
  LET split == SplitRecords(data, framing)
  IN  [ok |-> split.ok, records |-> Numbered(split.records)]

ParseImageLenient(data) == Numbered(SplitRecordsLenient(data))

=============================================================================
