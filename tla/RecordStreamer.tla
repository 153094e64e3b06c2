---------------------------- MODULE RecordStreamer ----------------------------
(***************************************************************************)
(* The pull reader that turns the bytes of one file into records in        *)
(* constant memory (RecordStreamer in src/src/idoc/idoc_format.cpp).  The  *)
(* byte source may return any number of bytes up to the size of the read   *)
(* buffer; the consumer calls Next until it returns false or throws.       *)
(*                                                                         *)
(* A call of Next is several steps: it suspends at every call of the byte  *)
(* source (Read) and goes on when Fill has enough bytes or the source is   *)
(* exhausted.  pc names the place of the suspended or next step.           *)
(***************************************************************************)
EXTENDS IdocFormat

CONSTANTS
  ReadSize,   \* sizeof(tmp) in Fill: 8192
  LookAhead,  \* what the terminated loop asks for beyond the buffer: 4096
  Inputs      \* the inputs: [image, framing, lenient], framing may be "auto"

ASSUME StreamerAssumption ==
  /\ ReadSize \in Nat \ {0}
  /\ LookAhead \in Nat \ {0}
  /\ \A in \in Inputs :
       /\ in.image \in Seq(Byte)
       /\ in.framing \in Framing \cup {"auto"}
       /\ in.lenient \in BOOLEAN

-----------------------------------------------------------------------------
(* What a parse of the whole file gives.                                   *)

\* The framing Next works with once it is known, from the image alone: it does
\* not depend on how many bytes the first reads returned.
EffectiveFraming(in) ==
  IF in.framing = "auto" THEN DetectFramingPrefix(in.image) ELSE in.framing

\* What follows the last line feed.
LastLine(image) ==
  LET ends == {0} \cup {i \in DOMAIN image : image[i] = LF}
  IN  SubSeq(image, 1 + CHOOSE i \in ends : \A j \in ends : j <= i, Len(image))

\* The image with the line feed its last line may lack.
Completed(image, fr) ==
  IF fr = FIXED \/ LastLine(image) = <<>> THEN image ELSE Append(image, LF)

\* Streaming promises the parse of the whole file wherever that parse exists: a
\* lenient one is there for fixed-width records only (ParseImageLenient).
Comparable(in) == in.lenient => EffectiveFraming(in) = FIXED

\* The file as the whole-image parse sees it.  An empty file has no records and
\* does not fail; a file too short for detection does.
WholeParse(in) ==
  LET fr == EffectiveFraming(in)
  IN  CASE in.image = <<>> -> Stop(TRUE)
        [] in.image # <<>> /\ fr = "undetectable" -> Stop(FALSE)
        [] in.image # <<>> /\ fr = FIXED /\ in.lenient ->
             [ok |-> TRUE, records |-> ParseImageLenient(in.image)]
        [] OTHER -> ParseImage(Completed(in.image, fr), fr)

-----------------------------------------------------------------------------
VARIABLES
  input,         \* the file, the framing asked for, the lenient flag; and, for
                 \* the properties only, the parse of the whole file
  src_pos,       \* the bytes of the file the source has handed out
  buf,           \* unconsumed bytes
  eof,           \* the source has returned 0
  framing, framing_known,
  document_key, record_index,
  high_water,    \* the largest size buf has had
  need,          \* the size the running Fill wants buf to have
  before,        \* the size of buf when the terminated loop called Fill
  pc,
  out            \* the records handed to the consumer

vars == <<input, src_pos, buf, eof, framing, framing_known, document_key,
          record_index, high_water, need, before, pc, out>>

\* The places of Next where a Fill is running ...
Filling == {"detect", "magic", "block", "more"}
\* ... and where Next has returned for the last time.
Stopped == {"end", "error"}
Pc == Filling \cup Stopped \cup {"idle", "line"}

Init ==
  /\ \E in \in Inputs : input = [image |-> in.image, framing |-> in.framing,
                                lenient |-> in.lenient, whole |-> WholeParse(in)]
  /\ src_pos = 0
  /\ buf = <<>>
  /\ eof = FALSE
  /\ framing = IF input.framing = "auto" THEN FIXED ELSE input.framing
  /\ framing_known = (input.framing # "auto")
  /\ document_key = 0
  /\ record_index = 0
  /\ high_water = 0
  /\ need = 0
  /\ before = 0
  /\ pc = "idle"
  /\ out = <<>>

-----------------------------------------------------------------------------
(* Fill: read until buf has the wanted size or the source is exhausted.    *)

\* (Mutant) one call of the source is taken for all that was asked for.
FillOnce == Len(buf) > 0 \/ eof

FillDone == Len(buf) >= need \/ eof

\* The chunks the source may return.
Chunks == {n \in 1..ReadSize : src_pos + n <= Len(input.image)}

Read ==
  /\ pc \in Filling
  /\ ~FillDone
  /\ IF src_pos = Len(input.image)
     THEN /\ eof' = TRUE
          /\ UNCHANGED <<src_pos, buf, high_water>>
     ELSE /\ \E n \in Chunks :
               /\ buf' = buf \o SubSeq(input.image, src_pos + 1, src_pos + n)
               /\ src_pos' = src_pos + n
          /\ high_water' = IF Len(buf') > high_water THEN Len(buf') ELSE high_water
          /\ UNCHANGED eof
  /\ UNCHANGED <<input, framing, framing_known, document_key, record_index,
                 need, before, pc, out>>

-----------------------------------------------------------------------------
(* Next.                                                                   *)

\* The first step of the branch for framing fr.
EnterFraming(fr) ==
  IF fr = FIXED
  THEN pc' = "magic" /\ need' = Len(Magic)
  ELSE pc' = "line" /\ need' = 0

\* The consumer calls Next.
Call ==
  /\ pc = "idle"
  /\ IF framing_known
     THEN EnterFraming(framing)
     ELSE pc' = "detect" /\ need' = CONTROL_RECORD_LEN + 2
  /\ UNCHANGED <<input, src_pos, buf, eof, framing, framing_known, document_key,
                 record_index, high_water, before, out>>

\* Next returns false or throws; a lenient stop drops what is buffered.
Return(how, rest) ==
  /\ pc' = how
  /\ buf' = rest
  /\ UNCHANGED <<input, src_pos, eof, framing, framing_known, document_key,
                 record_index, high_water, need, before, out>>

\* A record that cannot be completed: dropped when lenient, else an exception.
Malformed == IF input.lenient THEN Return("end", <<>>) ELSE Return("error", buf)

\* (Mutant) the document key is set, not counted.
KeyOnce(record) == IF IsControlRecord(record) THEN 1 ELSE document_key

\* A control record opens the next document.
KeyOf(record) == IF IsControlRecord(record) THEN document_key + 1 ELSE document_key

\* Next returns true with the record; rest stays buffered.
Emit(record, rest) ==
  /\ document_key' = KeyOf(record)
  /\ record_index' = record_index + 1
  /\ out' = Append(out, [document_key |-> KeyOf(record),
                         record_index |-> record_index,
                         is_control   |-> IsControlRecord(record),
                         bytes        |-> record])
  /\ buf' = rest
  /\ pc' = "idle"
  /\ need' = 0
  /\ UNCHANGED <<input, src_pos, eof, framing, framing_known, high_water, before>>

\* (Mutant) the length is not checked before the bytes are looked at.
DetectUnchecked ==
  /\ pc = "detect"
  /\ FillDone
  /\ framing' = DetectFramingPrefix(buf)
  /\ framing_known' = TRUE
  /\ EnterFraming(framing')
  /\ UNCHANGED <<input, src_pos, buf, eof, document_key, record_index, high_water, before, out>>

Detect ==
  /\ pc = "detect"
  /\ FillDone
  /\ CASE buf = <<>> -> Return("end", <<>>)
       [] buf # <<>> /\ Len(buf) < CONTROL_RECORD_LEN -> Return("error", buf)
       [] OTHER -> /\ framing' = DetectFramingPrefix(buf)
                   /\ framing_known' = TRUE
                   /\ EnterFraming(framing')
                   /\ UNCHANGED <<input, src_pos, buf, eof, document_key,
                                  record_index, high_water, before, out>>

\* FIXED, after Fill(6): the end of the file, or the length of the next record.
FixedMagic ==
  /\ pc = "magic"
  /\ FillDone
  /\ CASE buf = <<>> -> Return("end", <<>>)
       [] buf # <<>> /\ Len(buf) < Len(Magic) -> Malformed
       [] OTHER -> /\ pc' = "block"
                   /\ need' = BlockLen(buf, 1)
                   /\ UNCHANGED <<input, src_pos, buf, eof, framing, framing_known,
                                  document_key, record_index, high_water, before, out>>

\* FIXED, after Fill(block): need is the length of the record.
FixedBlock ==
  /\ pc = "block"
  /\ FillDone
  /\ IF Len(buf) < need
     THEN Malformed
     ELSE Emit(SubSeq(buf, 1, need), SubSeq(buf, need + 1, Len(buf)))

\* One line of terminated framing, rest what follows it.
EmitLine(raw, rest) ==
  LET line == StripCr(raw, framing)
  IN  IF ~input.lenient /\ ~GeometryOk(line)
      THEN Return("error", rest)
      ELSE Emit(line, rest)

\* (Mutant) a line may have any length.
NeverTooLong == FALSE

\* No record, with its terminator, is as long as what is buffered.
TooLong == Len(buf) > DATA_RECORD_LEN + 2

\* TERMINATED, the head of the search loop: a line is buffered, or the buffer
\* is longer than any record, or more bytes are asked for.
SearchLine ==
  /\ pc = "line"
  /\ LET nl == FirstLf(buf, 1)
     IN  CASE nl # 0 -> EmitLine(SubSeq(buf, 1, nl - 1), SubSeq(buf, nl + 1, Len(buf)))
           [] nl = 0 /\ TooLong -> Malformed
           [] OTHER -> /\ pc' = "more"
                       /\ before' = Len(buf)
                       /\ need' = Len(buf) + LookAhead
                       /\ UNCHANGED <<input, src_pos, buf, eof, framing, framing_known,
                                      document_key, record_index, high_water, out>>

\* (Mutant) the search ends with the source, not with the bytes.
GrownUntilEof == ~eof

\* (Mutant) the search goes on when nothing came in.
GrownOrEqual == Len(buf) >= before

\* The last Fill brought bytes in.
Grown == Len(buf) > before

\* TERMINATED, after Fill(before + 4096): search again if bytes came in, else
\* what is buffered is the last line.
More ==
  /\ pc = "more"
  /\ FillDone
  /\ CASE Grown -> /\ pc' = "line"
                   /\ UNCHANGED <<input, src_pos, buf, eof, framing, framing_known,
                                  document_key, record_index, high_water, need,
                                  before, out>>
       [] ~Grown /\ buf = <<>> -> Return("end", <<>>)
       [] OTHER -> EmitLine(buf, <<>>)

Step == Read \/ Detect \/ FixedMagic \/ FixedBlock \/ SearchLine \/ More

Next == Call \/ Step

\* The consumer (IdocPeek) calls Next until the file is exhausted, and a call
\* runs to completion.
Spec == Init /\ [][Next]_vars /\ WF_vars(Next)

-----------------------------------------------------------------------------
(* Properties.                                                             *)

IdocRecord ==
  [document_key : Nat, record_index : Nat, is_control : BOOLEAN, bytes : Seq(Byte)]

\* Every variable has the type of its member of RecordStreamer.
TypeOK ==
  /\ input.image \in Seq(Byte)
  /\ input.framing \in Framing \cup {"auto"}
  /\ input.lenient \in BOOLEAN
  /\ src_pos \in 0..Len(input.image)
  /\ buf \in Seq(Byte)
  /\ eof \in BOOLEAN
  /\ framing \in Framing
  /\ framing_known \in BOOLEAN
  /\ document_key \in Nat
  /\ record_index \in Nat
  /\ high_water \in Nat
  /\ need \in Nat
  /\ before \in Nat
  /\ pc \in Pc
  /\ out \in Seq(IdocRecord)

Feed == INSTANCE RecordFeed WITH
          records <- input.whole.records,
          fails   <- ~input.whole.ok,
          feed    <- out,
          outcome <- IF pc \in Stopped THEN pc ELSE "open"

\* Streaming delivers what ParseImage delivers for the whole file (ParseImageLenient
\* when lenient), in the same order, and ends as it ends, whatever the sizes of the
\* reads: every step is one of RecordFeed or none.  Nothing is claimed where the code
\* has no such parse (Comparable), and the file compared with is the Completed one:
\* ParseImage takes a last line without line feed as it stands, Next does not.
ImplementsFeed ==
  /\ Comparable(input) => Feed!Init
  /\ [][Comparable(input) => [Feed!Next]_(Feed!vars)]_vars

\* The buffer never holds more than one record and what one read adds to it:
\* memory is O(record), not O(file).  FIXED needs no more than a record.
BoundedMemory ==
  /\ Len(buf) <= high_water
  /\ high_water <= DATA_RECORD_LEN + 1 + LookAhead + ReadSize
  /\ framing_known /\ framing = FIXED
       => high_water <= DATA_RECORD_LEN - 1 + ReadSize

\* Records are numbered without gaps, and the document key rises by one at each
\* control record and only there.
KeysFollowControls ==
  \A i \in DOMAIN out :
    /\ out[i].record_index = i - 1
    /\ out[i].is_control = IsControlRecord(out[i].bytes)
    /\ out[i].document_key = (IF i = 1 THEN 0 ELSE out[i - 1].document_key)
                               + (IF out[i].is_control THEN 1 ELSE 0)

\* Every line feed ends a line as the framing in use says.
ProperlyTerminated ==
  CASE framing = FIXED -> TRUE
    [] framing = TERMINATED_LF -> LastLine(input.image) = <<>>
    [] framing = TERMINATED_CRLF ->
         /\ LastLine(input.image) = <<>>
         /\ \A i \in DOMAIN input.image : input.image[i] = LF => i > 1 /\ input.image[i - 1] = CR

\* sap_idoc_read_raw, then COPY with the framing of the file, reproduces it byte
\* for byte: no byte of the records is lost, moved or stripped (JoinRecords is
\* the inverse of streaming).
RawRoundTrip ==
  pc = "end" /\ ~input.lenient /\ ProperlyTerminated =>
    JoinRecords([i \in DOMAIN out |-> out[i].bytes], framing) = input.image

\* Every file is read to an end: Next returns false or throws (no endless loop
\* in the terminated search when reads bring nothing).
Terminates == <>(pc \in Stopped)

\* The lines of a terminated file that a strict read would hand out, up to the
\* last line feed.
CompleteLines ==
  LET body == SubSeq(input.image, 1, Len(input.image) - Len(LastLine(input.image)))
  IN  ParseImage(body, framing).records

\* A lenient read of a cut-off terminated file hands out every record that is
\* complete, in order, before anything else (IdocReaders' lenient: "salvage
\* complete records").
SalvagesComplete ==
  input.lenient /\ framing_known /\ framing # FIXED =>
    /\ pc = "end" => Len(out) >= Len(CompleteLines)
    /\ \A i \in DOMAIN out : i <= Len(CompleteLines) => out[i] = CompleteLines[i]

-----------------------------------------------------------------------------
(* What a test says and the code does not do; a run finds the               *)
(* counterexample.                                                          *)

\* test_idoc_format.cpp: "terminated framing round-trips and auto-detects": the
\* detection on the whole image finds the framing the streaming one finds.
DetectionsAgree ==
  input.framing = "auto" /\ framing_known => DetectFraming(input.image) = framing

=============================================================================
