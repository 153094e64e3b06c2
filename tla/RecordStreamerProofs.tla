------------------------- MODULE RecordStreamerProofs -------------------------
(***************************************************************************)
(* The safety properties of RecordStreamer, for every file, every framing, *)
(* all lengths of records and all sizes of reads.                          *)
(***************************************************************************)
EXTENDS RecordStreamer, InductionLemmas, SequenceTheorems, TLAPS

\* What holds at the places of Next: the framing its branch is for, and the size
\* the running Fill was asked for.
Places ==
  /\ ~framing_known => framing = FIXED /\ out = <<>>
  /\ pc = "detect" => ~framing_known /\ need = CONTROL_RECORD_LEN + 2
  /\ pc \in {"magic", "block"} => framing_known /\ framing = FIXED
  /\ pc = "magic" => need = Len(Magic)
  /\ pc = "block" => need \in {CONTROL_RECORD_LEN, DATA_RECORD_LEN}
  /\ pc \in {"line", "more"} => framing_known /\ framing # FIXED
  /\ pc = "more" => before <= DATA_RECORD_LEN + 2 /\ need = before + LookAhead

\* BoundedMemory, and that detection reads no more than the FIXED branch.
Memory ==
  /\ BoundedMemory
  /\ ~framing_known => high_water <= DATA_RECORD_LEN - 1 + ReadSize

\* The counters of the object are those of the last record.
Counters ==
  /\ record_index = Len(out)
  /\ document_key = IF out = <<>> THEN 0 ELSE out[Len(out)].document_key

IndInv ==
  /\ TypeOK
  /\ Places
  /\ Memory
  /\ Counters
  /\ KeysFollowControls

\* The buffer is the part of the file between what is consumed and what is read.
Window ==
  /\ Len(buf) <= src_pos
  /\ \A i \in 1..Len(buf) : buf[i] = input.image[src_pos - Len(buf) + i]

\* What is known of the end of the file, and of the bytes already searched.
Ends ==
  /\ eof => src_pos = Len(input.image)
  /\ pc = "end" /\ ~input.lenient => eof /\ buf = <<>>
  /\ pc = "more" => /\ before <= Len(buf)
                    /\ \A i \in 1..before : buf[i] # LF

\* The bytes of the records handed out.
Bytes(records) == [i \in DOMAIN records |-> records[i].bytes]

\* The records so far, joined, are what is consumed of the file.
Joined ==
  ~input.lenient /\ ProperlyTerminated /\ pc # "error" =>
    LET joined == JoinRecords(Bytes(out), framing)
    IN  /\ Len(joined) = src_pos - Len(buf)
        /\ \A i \in 1..Len(joined) : joined[i] = input.image[i]

RawInv ==
  /\ Window
  /\ Ends
  /\ Joined

-----------------------------------------------------------------------------
(* Facts about the format.                                                 *)

\* The lengths of the magic and of the records.
LEMMA LengthFacts ==
  /\ CONTROL_RECORD_LEN \in Nat /\ DATA_RECORD_LEN \in Nat /\ Len(Magic) \in Nat
  /\ 0 < Len(Magic) /\ Len(Magic) <= CONTROL_RECORD_LEN
  /\ CONTROL_RECORD_LEN + 2 <= DATA_RECORD_LEN
  /\ ReadSize \in Nat /\ ReadSize > 0 /\ LookAhead \in Nat /\ LookAhead > 0
BY FormatAssumption, StreamerAssumption

\* A part of a sequence of bytes is one.
LEMMA PartFacts ==
  ASSUME NEW S, NEW s \in Seq(S), NEW m \in Nat, NEW n \in Nat, m > 0, n <= Len(s)
  PROVE  /\ SubSeq(s, m, n) \in Seq(S)
         /\ Len(SubSeq(s, m, n)) = IF m <= n THEN n - m + 1 ELSE 0
         /\ \A i \in 1..(n - m + 1) : SubSeq(s, m, n)[i] = s[m + i - 1]
<1>1. Len(s) \in Nat
  BY LenProperties
<1>2. \A i \in m..n : s[i] \in S
  BY <1>1, ElementOfSeq
<1> QED
  BY <1>2, SubSeqProperties

\* Detection from enough bytes gives a framing.
LEMMA DetectedFraming ==
  ASSUME NEW data, ~(Len(data) < CONTROL_RECORD_LEN)
  PROVE  DetectFramingPrefix(data) \in Framing
<1>1. TerminatorAfterControl(data) \subseteq Framing
  BY DEF TerminatorAfterControl, Framing
<1> QED
  BY <1>1 DEF DetectFramingPrefix, Framing

\* The first line feed is one, and none is before it.
LEMMA FirstLfFacts ==
  ASSUME NEW data \in Seq(Byte), NEW p \in Nat \ {0}
  PROVE  /\ FirstLf(data, p) \in Nat
         /\ FirstLf(data, p) # 0 =>
              /\ FirstLf(data, p) \in p..Len(data) /\ data[FirstLf(data, p)] = LF
              /\ \A i \in p..(FirstLf(data, p) - 1) : data[i] # LF
         /\ FirstLf(data, p) = 0 => \A i \in p..Len(data) : data[i] # LF
<1> DEFINE found == {i \in p..Len(data) : data[i] = LF}
<1>1. Len(data) \in Nat
  BY LenProperties
<1>2. CASE found = {}
  BY <1>2 DEF FirstLf
<1>3. CASE found # {}
  <2>1. found \in SUBSET Nat
    BY <1>1
  <2>2. \E i \in found : \A j \in found : i <= j
    BY <1>3, <2>1, LeastElement
  <2>3. FirstLf(data, p) \in found /\ \A j \in found : FirstLf(data, p) <= j
    BY <1>3, <2>2 DEF FirstLf
  <2>4. FirstLf(data, p) \in p..Len(data) /\ data[FirstLf(data, p)] = LF
    BY <2>3
  <2>5. \A i \in p..(FirstLf(data, p) - 1) : i \notin found
    BY <1>1, <2>3, <2>4
  <2> QED
    BY <1>1, <2>4, <2>5
<1> QED
  BY <1>2, <1>3

\* Stripping a carriage return leaves a sequence of bytes.
LEMMA StripCrType ==
  ASSUME NEW line \in Seq(Byte), NEW fr
  PROVE  StripCr(line, fr) \in Seq(Byte)
<1>1. Len(line) \in Nat /\ (line # <<>> => Len(line) - 1 \in Nat)
  BY LenProperties, EmptySeq
<1> QED
  BY <1>1, PartFacts DEF StripCr

-----------------------------------------------------------------------------
(* Types.                                                                  *)

\* A record that is emitted has the type of a record, and the rest of the buffer that
\* of a buffer.
LEMMA EmitType ==
  ASSUME TypeOK, NEW record \in Seq(Byte), NEW rest \in Seq(Byte), Emit(record, rest)
  PROVE  TypeOK'
<1>1. KeyOf(record) \in Nat /\ IsControlRecord(record) \in BOOLEAN /\ record_index + 1 \in Nat
  BY DEF TypeOK, KeyOf, IsControlRecord, MagicAt
<1> DEFINE r == [document_key |-> KeyOf(record), record_index |-> record_index,
                 is_control |-> IsControlRecord(record), bytes |-> record]
<1>2. r \in IdocRecord
  BY <1>1 DEF TypeOK, IdocRecord
<1>3. out' = Append(out, r)
  BY DEF Emit
<1> HIDE DEF r
<1>4. out' \in Seq(IdocRecord)
  BY <1>2, <1>3, AppendProperties DEF TypeOK
<1> QED
  BY <1>1, <1>4 DEF Emit, TypeOK, Pc, Filling, Stopped

\* Next returns, or throws, with the rest of the buffer.
LEMMA ReturnType ==
  ASSUME TypeOK, NEW how \in Stopped, NEW rest \in Seq(Byte), Return(how, rest)
  PROVE  TypeOK'
BY DEF Return, TypeOK, Pc

\* The parts of the buffer that Next hands out and keeps.
LEMMA BufferParts ==
  ASSUME TypeOK, NEW n \in Nat, n <= Len(buf)
  PROVE  /\ SubSeq(buf, 1, n) \in Seq(Byte)
         /\ SubSeq(buf, n + 1, Len(buf)) \in Seq(Byte)
         /\ n > 0 => SubSeq(buf, 1, n - 1) \in Seq(Byte)
         /\ Len(SubSeq(buf, n + 1, Len(buf))) = Len(buf) - n
<1>1. buf \in Seq(Byte) /\ Len(buf) \in Nat
  BY LenProperties DEF TypeOK
<1>2. n > 0 => n - 1 \in Nat
  OBVIOUS
<1> QED
  BY <1>1, <1>2, PartFacts

\* A line that is emitted, or refused.
LEMMA EmitLineCases ==
  ASSUME TypeOK, NEW raw \in Seq(Byte), NEW rest \in Seq(Byte), EmitLine(raw, rest)
  PROVE  /\ StripCr(raw, framing) \in Seq(Byte)
         /\ \/ Return("error", rest)
            \/ /\ Emit(StripCr(raw, framing), rest)
               /\ ~input.lenient => GeometryOk(StripCr(raw, framing))
BY StripCrType DEF EmitLine, TypeOK

\* What Read does: it marks the end of the source, or moves bytes to the buffer.
LEMMA ReadCases ==
  ASSUME TypeOK, Read
  PROVE  \/ /\ src_pos = Len(input.image) /\ eof' = TRUE
            /\ UNCHANGED <<src_pos, buf, high_water>>
         \/ \E n \in 1..ReadSize :
              /\ src_pos + n <= Len(input.image)
              /\ src_pos' = src_pos + n
              /\ buf' = buf \o SubSeq(input.image, src_pos + 1, src_pos + n)
              /\ buf' \in Seq(Byte) /\ Len(buf') = Len(buf) + n
              /\ high_water' = IF Len(buf') > high_water THEN Len(buf') ELSE high_water
              /\ eof' = eof
<1>1. CASE src_pos = Len(input.image)
  BY <1>1 DEF Read
<1>2. CASE src_pos # Len(input.image)
  <2>1. PICK n \in Chunks : /\ buf' = buf \o SubSeq(input.image, src_pos + 1, src_pos + n)
                            /\ src_pos' = src_pos + n
    BY <1>2 DEF Read
  <2>2. n \in 1..ReadSize /\ src_pos + n <= Len(input.image) /\ src_pos \in Nat /\ ReadSize \in Nat
    BY LengthFacts, LenProperties DEF Chunks, TypeOK
  <2> DEFINE part == SubSeq(input.image, src_pos + 1, src_pos + n)
  <2>3. part \in Seq(Byte) /\ Len(part) = n
    BY SMTT(30), <2>2, PartFacts DEF TypeOK
  <2>4. buf \o part \in Seq(Byte) /\ Len(buf \o part) = Len(buf) + n
    BY <2>3, ConcatProperties DEF TypeOK
  <2> QED
    BY <1>2, <2>1, <2>2, <2>4 DEF Read
<1> QED
  BY <1>1, <1>2

\* Every step keeps the types.
LEMMA TypeStep == TypeOK /\ [Next]_vars => TypeOK'
<1> SUFFICES ASSUME TypeOK, [Next]_vars
             PROVE  TypeOK'
  OBVIOUS
<1>0. buf \in Seq(Byte) /\ Len(buf) \in Nat /\ <<>> \in Seq(Byte)
  BY LenProperties, EmptySeq DEF TypeOK
<1>1. CASE Call
  BY <1>1, LengthFacts DEF Call, EnterFraming, TypeOK, Pc, Filling, Stopped
<1>2. CASE Read
  <2>1. CASE /\ src_pos = Len(input.image) /\ eof' = TRUE
             /\ UNCHANGED <<src_pos, buf, high_water>>
    BY <1>2, <2>1 DEF Read, TypeOK
  <2>2. ASSUME NEW n \in 1..ReadSize,
               /\ src_pos + n <= Len(input.image)
               /\ src_pos' = src_pos + n
               /\ buf' \in Seq(Byte) /\ Len(buf') = Len(buf) + n
               /\ high_water' = IF Len(buf') > high_water THEN Len(buf') ELSE high_water
               /\ eof' = eof
        PROVE  TypeOK'
    BY <1>0, <1>2, <2>2, LengthFacts, LenProperties DEF Read, TypeOK
  <2> QED
    BY <1>2, <2>1, <2>2, ReadCases
<1>3. CASE Detect
  <2>1. CASE Return("end", <<>>) \/ Return("error", buf)
    BY <1>0, <2>1, ReturnType DEF Stopped
  <2>2. CASE /\ ~(Len(buf) < CONTROL_RECORD_LEN)
             /\ framing' = DetectFramingPrefix(buf)
             /\ framing_known' = TRUE
             /\ EnterFraming(framing')
             /\ UNCHANGED <<input, src_pos, buf, eof, document_key, record_index, high_water, before, out>>
    BY <2>2, DetectedFraming, LengthFacts DEF EnterFraming, TypeOK, Pc, Filling, Stopped
  <2> QED
    BY <1>0, <1>3, <2>1, <2>2, LengthFacts DEF Detect
<1>4. CASE FixedMagic
  <2>1. CASE Return("end", <<>>) \/ Malformed
    BY <1>0, <2>1, ReturnType DEF Malformed, Stopped
  <2>2. CASE /\ pc' = "block" /\ need' = BlockLen(buf, 1)
             /\ UNCHANGED <<input, src_pos, buf, eof, framing, framing_known,
                            document_key, record_index, high_water, before, out>>
    BY <2>2, LengthFacts DEF BlockLen, TypeOK, Pc, Filling
  <2> QED
    BY <1>4, <2>1, <2>2 DEF FixedMagic
<1>5. CASE FixedBlock
  <2>1. CASE Malformed
    BY <1>0, <2>1, ReturnType DEF Malformed, Stopped
  <2>2. CASE need <= Len(buf) /\ Emit(SubSeq(buf, 1, need), SubSeq(buf, need + 1, Len(buf)))
    <3>1. need \in Nat
      BY DEF TypeOK
    <3> QED
      BY <2>2, <3>1, BufferParts, EmitType
  <2> QED
    BY <1>0, <1>5, <2>1, <2>2 DEF FixedBlock, TypeOK
<1>6. CASE SearchLine
  <2> DEFINE nl == FirstLf(buf, 1)
  <2>1. CASE nl # 0 /\ EmitLine(SubSeq(buf, 1, nl - 1), SubSeq(buf, nl + 1, Len(buf)))
    <3>1. nl \in Nat /\ nl > 0 /\ nl <= Len(buf)
      BY <1>0, <2>1, FirstLfFacts
    <3> HIDE DEF nl
    <3>2. SubSeq(buf, 1, nl - 1) \in Seq(Byte) /\ SubSeq(buf, nl + 1, Len(buf)) \in Seq(Byte)
      BY <3>1, BufferParts
    <3> QED
      BY <2>1, <3>2, EmitLineCases, EmitType, ReturnType DEF Stopped
  <2>2. CASE Malformed
    BY <1>0, <2>2, ReturnType DEF Malformed, Stopped
  <2>3. CASE /\ pc' = "more" /\ before' = Len(buf) /\ need' = Len(buf) + LookAhead
             /\ UNCHANGED <<input, src_pos, buf, eof, framing, framing_known,
                            document_key, record_index, high_water, out>>
    BY <1>0, <2>3, LengthFacts DEF TypeOK, Pc, Filling
  <2> QED
    BY <1>6, <2>1, <2>2, <2>3 DEF SearchLine
<1>7. CASE More
  <2>1. CASE Return("end", <<>>)
    BY <1>0, <2>1, ReturnType DEF Stopped
  <2>2. CASE EmitLine(buf, <<>>)
    BY <1>0, <2>2, EmitLineCases, EmitType, ReturnType DEF Stopped
  <2>3. CASE /\ pc' = "line"
             /\ UNCHANGED <<input, src_pos, buf, eof, framing, framing_known,
                            document_key, record_index, high_water, need, before, out>>
    BY <2>3 DEF TypeOK, Pc
  <2> QED
    BY <1>7, <2>1, <2>2, <2>3 DEF More
<1>8. CASE UNCHANGED vars
  BY <1>8 DEF vars, TypeOK
<1> QED
  BY <1>1, <1>2, <1>3, <1>4, <1>5, <1>6, <1>7, <1>8 DEF Next, Step

\* The initial states have the types.
LEMMA InitType == Init => IndInv
<1> SUFFICES ASSUME Init
             PROVE  IndInv
  OBVIOUS
<1>1. PICK in \in Inputs : input = [image |-> in.image, framing |-> in.framing,
                                    lenient |-> in.lenient, whole |-> WholeParse(in)]
  BY DEF Init
<1>2. /\ input.image \in Seq(Byte)
      /\ input.framing \in Framing \cup {"auto"}
      /\ input.lenient \in BOOLEAN
  BY <1>1, StreamerAssumption
<1>3. Len(input.image) \in Nat /\ 0 \in 0..Len(input.image) /\ buf = <<>> /\ Len(buf) = 0
  BY <1>2, LenProperties, EmptySeq DEF Init
<1>4. buf \in Seq(Byte) /\ out \in Seq(IdocRecord) /\ out = <<>> /\ Len(out) = 0
  BY EmptySeq DEF Init
<1>5. TypeOK
  BY <1>2, <1>3, <1>4 DEF Init, TypeOK, Framing, Pc
<1>6. Places
  BY <1>4 DEF Init, Places
<1>7. Memory
  BY <1>3, LengthFacts DEF Init, Memory, BoundedMemory
<1>8. Counters /\ KeysFollowControls
  BY <1>4 DEF Init, Counters, KeysFollowControls
<1> QED
  BY <1>5, <1>6, <1>7, <1>8 DEF IndInv

-----------------------------------------------------------------------------
(* The steps.                                                              *)

\* A step that moves the place, and at detection the framing, and leaves the bytes and
\* the records alone.
Decides ==
  /\ UNCHANGED <<input, src_pos, buf, eof, document_key, record_index, high_water, out>>
  /\ pc' \notin Stopped
  /\ \/ UNCHANGED <<framing, framing_known>>
     \/ /\ pc = "detect" /\ framing_known' = TRUE

\* What may be left of the buffer.
Rests == {<<>>, buf} \cup {SubSeq(buf, n + 1, Len(buf)) : n \in 1..Len(buf)}

\* Next returns false, or throws; a strict read ends only where the file does.
Returns ==
  \E how \in Stopped, rest \in Rests :
    /\ Return(how, rest)
    /\ how = "end" /\ ~input.lenient => eof /\ buf = <<>>

\* A record of FIXED framing.
EmitsBlock ==
  /\ pc = "block"
  /\ need \in 1..Len(buf)
  /\ Emit(SubSeq(buf, 1, need), SubSeq(buf, need + 1, Len(buf)))

\* A line that ends with the line feed at nl.
EmitsLineTo(nl) ==
  /\ pc = "line"
  /\ nl = FirstLf(buf, 1)
  /\ buf[nl] = LF
  /\ Emit(StripCr(SubSeq(buf, 1, nl - 1), framing), SubSeq(buf, nl + 1, Len(buf)))
  /\ ~input.lenient => GeometryOk(StripCr(SubSeq(buf, 1, nl - 1), framing))

EmitsLine == \E nl \in 1..Len(buf) : EmitsLineTo(nl)

\* The last line, which no line feed ends.
EmitsLast ==
  /\ pc = "more"
  /\ FillDone
  /\ ~Grown
  /\ buf # <<>>
  /\ Emit(StripCr(buf, framing), <<>>)
  /\ ~input.lenient => GeometryOk(StripCr(buf, framing))

Emits == EmitsBlock \/ EmitsLine \/ EmitsLast

\* A Fill that was asked for something and has nothing met the end of the source.
LEMMA FillFailed ==
  ASSUME TypeOK, Places, FillDone, pc \in Filling, Len(buf) < need
  PROVE  eof
<1>1. Len(buf) \in Nat /\ need \in Nat
  BY LenProperties DEF TypeOK
<1> QED
  BY <1>1 DEF FillDone, TypeOK

\* Every step is of one of these kinds.
LEMMA StepKinds ==
  ASSUME TypeOK, Places, Next
  PROVE  Read \/ Decides \/ Returns \/ Emits
<1>0. /\ buf \in Seq(Byte) /\ Len(buf) \in Nat /\ <<>> \in Seq(Byte)
      /\ need \in Nat /\ before \in Nat
      /\ buf = <<>> => Len(buf) = 0
  BY LenProperties, EmptySeq DEF TypeOK
<1>1. CASE Call
  BY <1>1 DEF Call, EnterFraming, Decides, Stopped
<1>2. CASE Read
  BY <1>2
<1>a. ASSUME NEW how \in Stopped, NEW rest \in Rests, Return(how, rest),
             how = "end" /\ ~input.lenient => eof /\ buf = <<>>
      PROVE  Returns
  BY <1>a DEF Returns
<1>b. <<>> \in Rests /\ buf \in Rests /\ "end" \in Stopped /\ "error" \in Stopped
      /\ \A n \in 1..Len(buf) : SubSeq(buf, n + 1, Len(buf)) \in Rests
  BY DEF Rests, Stopped
<1>c. Return("error", buf) \/ Malformed => Returns
  BY <1>a, <1>b DEF Malformed
<1>d. ASSUME pc \in Filling, FillDone, buf = <<>>, 0 < need, Return("end", <<>>)
      PROVE  Returns
  BY <1>0, <1>a, <1>b, <1>d, FillFailed
<1>3. CASE Detect
  <2>1. CASE Return("end", <<>>) /\ buf = <<>>
    BY <1>3, <1>d, <2>1, LengthFacts DEF Detect, Filling, Places
  <2>2. CASE /\ framing' = DetectFramingPrefix(buf)
             /\ framing_known' = TRUE
             /\ EnterFraming(framing')
             /\ UNCHANGED <<input, src_pos, buf, eof, document_key, record_index, high_water, before, out>>
    BY <1>3, <2>2 DEF Detect, EnterFraming, Decides, Stopped
  <2> QED
    BY <1>c, <1>3, <2>1, <2>2 DEF Detect
<1>4. CASE FixedMagic
  <2>1. CASE Return("end", <<>>) /\ buf = <<>>
    BY <1>4, <1>d, <2>1, LengthFacts DEF FixedMagic, Filling, Places
  <2> QED
    BY <1>c, <1>4, <2>1 DEF FixedMagic, Decides, Stopped
<1>5. CASE FixedBlock
  <2>1. CASE need <= Len(buf) /\ Emit(SubSeq(buf, 1, need), SubSeq(buf, need + 1, Len(buf)))
    <3>1. need \in 1..Len(buf)
      BY <1>0, <1>5, <2>1, LengthFacts DEF FixedBlock, Places
    <3> QED
      BY <1>5, <2>1, <3>1 DEF FixedBlock, EmitsBlock, Emits
  <2> QED
    BY <1>0, <1>c, <1>5, <2>1 DEF FixedBlock
<1>6. CASE SearchLine
  <2> DEFINE nl == FirstLf(buf, 1)
  <2>1. CASE nl # 0 /\ EmitLine(SubSeq(buf, 1, nl - 1), SubSeq(buf, nl + 1, Len(buf)))
    <3>1. nl \in Nat /\ nl > 0 /\ nl <= Len(buf) /\ nl \in 1..Len(buf) /\ buf[nl] = LF
      BY <1>0, <2>1, FirstLfFacts
    <3>a. nl = FirstLf(buf, 1)
      OBVIOUS
    <3> HIDE DEF nl
    <3>2. SubSeq(buf, 1, nl - 1) \in Seq(Byte) /\ SubSeq(buf, nl + 1, Len(buf)) \in Seq(Byte)
      BY <3>1, BufferParts
    <3>3. CASE Return("error", SubSeq(buf, nl + 1, Len(buf)))
      <4>1. SubSeq(buf, nl + 1, Len(buf)) \in Rests
        BY <1>b, <3>1
      <4> QED
        BY <1>a, <1>b, <3>3, <4>1
    <3>4. CASE /\ Emit(StripCr(SubSeq(buf, 1, nl - 1), framing), SubSeq(buf, nl + 1, Len(buf)))
               /\ ~input.lenient => GeometryOk(StripCr(SubSeq(buf, 1, nl - 1), framing))
      <4>1. EmitsLineTo(nl)
        BY <1>6, <3>a, <3>1, <3>4 DEF SearchLine, EmitsLineTo
      <4> QED
        BY <3>1, <4>1 DEF EmitsLine, Emits
    <3> QED
      BY <2>1, <3>2, <3>3, <3>4, EmitLineCases
  <2>2. CASE /\ pc' = "more" /\ before' = Len(buf) /\ need' = Len(buf) + LookAhead
             /\ UNCHANGED <<input, src_pos, buf, eof, framing, framing_known,
                            document_key, record_index, high_water, out>>
    BY <2>2 DEF Decides, Stopped
  <2> QED
    BY <1>6, <1>c, <2>1, <2>2 DEF SearchLine
<1>7. CASE More
  <2>1. CASE ~Grown /\ buf # <<>> /\ EmitLine(buf, <<>>)
    <3>1. CASE Return("error", <<>>)
      BY <1>a, <1>b, <3>1
    <3>2. CASE Emit(StripCr(buf, framing), <<>>) /\ (~input.lenient => GeometryOk(StripCr(buf, framing)))
      BY <1>7, <2>1, <3>2 DEF More, EmitsLast, Emits
    <3> QED
      BY <1>0, <2>1, <3>1, <3>2, EmitLineCases
  <2>2. CASE /\ pc' = "line"
             /\ UNCHANGED <<input, src_pos, buf, eof, framing, framing_known,
                            document_key, record_index, high_water, need, before, out>>
    BY <2>2 DEF Decides, Stopped
  <2>3. CASE buf = <<>> /\ Return("end", <<>>)
    <3>1. 0 < need
      BY <1>0, <1>7, LengthFacts DEF More, Places
    <3> QED
      BY <1>7, <1>d, <2>3, <3>1 DEF More, Filling
  <2> QED
    BY <1>7, <2>1, <2>2, <2>3 DEF More
<1> QED
  BY <1>1, <1>2, <1>3, <1>4, <1>5, <1>6, <1>7 DEF Next, Step

\* Whatever is emitted is a sequence of bytes.
LEMMA EmitsOne ==
  ASSUME TypeOK, Emits
  PROVE  \E record \in Seq(Byte), rest \in Rests : Emit(record, rest)
<1>0. buf \in Seq(Byte) /\ Len(buf) \in Nat /\ <<>> \in Rests
  BY LenProperties DEF TypeOK, Rests
<1>1. CASE EmitsBlock
  <2>1. need \in Nat /\ need <= Len(buf) /\ SubSeq(buf, need + 1, Len(buf)) \in Rests
    BY <1>0, <1>1 DEF EmitsBlock, Rests
  <2>2. SubSeq(buf, 1, need) \in Seq(Byte)
    BY <2>1, BufferParts
  <2> QED
    BY <1>1, <2>1, <2>2 DEF EmitsBlock
<1>2. CASE EmitsLine
  <2>1. PICK nl \in 1..Len(buf) : EmitsLineTo(nl)
    BY <1>2 DEF EmitsLine
  <2>2. nl \in Nat /\ nl > 0 /\ nl <= Len(buf) /\ SubSeq(buf, nl + 1, Len(buf)) \in Rests
    BY <1>0, <2>1 DEF Rests
  <2>3. StripCr(SubSeq(buf, 1, nl - 1), framing) \in Seq(Byte)
    BY <2>2, BufferParts, StripCrType
  <2> QED
    BY <2>1, <2>2, <2>3 DEF EmitsLineTo
<1>3. CASE EmitsLast
  <2>1. StripCr(buf, framing) \in Seq(Byte)
    BY <1>0, StripCrType
  <2> QED
    BY <1>0, <1>3, <2>1 DEF EmitsLast
<1> QED
  BY <1>1, <1>2, <1>3 DEF Emits

\* What is left of the buffer is no longer than it was.
LEMMA RestShorter ==
  ASSUME TypeOK, NEW rest \in Rests
  PROVE  rest \in Seq(Byte) /\ Len(rest) \in Nat /\ Len(rest) <= Len(buf)
<1>0. buf \in Seq(Byte) /\ Len(buf) \in Nat /\ <<>> \in Seq(Byte) /\ Len(<<>>) = 0
  BY LenProperties, EmptySeq DEF TypeOK
<1>1. CASE rest = <<>>
  BY <1>0, <1>1
<1>3. CASE rest = buf
  BY <1>0, <1>3
<1>2. CASE rest \in {SubSeq(buf, n + 1, Len(buf)) : n \in 1..Len(buf)}
  <2>1. PICK n \in 1..Len(buf) : rest = SubSeq(buf, n + 1, Len(buf))
    BY <1>2
  <2>2. n \in Nat /\ n <= Len(buf)
    BY <1>0
  <2>3. rest \in Seq(Byte) /\ Len(rest) = Len(buf) - n
    BY <2>1, <2>2, BufferParts
  <2> QED
    BY <1>0, <2>2, <2>3
<1> QED
  BY <1>1, <1>2, <1>3 DEF Rests

\* Every step keeps the places consistent.
LEMMA PlacesStep == TypeOK /\ Places /\ [Next]_vars => Places'
<1> SUFFICES ASSUME TypeOK, Places, [Next]_vars
             PROVE  Places'
  OBVIOUS
<1>0. Len(buf) \in Nat /\ need \in Nat
  BY LenProperties DEF TypeOK
<1>1. CASE Call
  BY <1>1, LengthFacts DEF Call, EnterFraming, Places, FIXED
<1>2. CASE Read
  BY <1>2 DEF Read, Places
<1>3. CASE Detect
  BY <1>3, LengthFacts DEF Detect, Return, EnterFraming, Places, FIXED
<1>4. CASE FixedMagic
  BY <1>4, LengthFacts DEF FixedMagic, Malformed, Return, BlockLen, Places, FIXED
<1>5. CASE FixedBlock
  BY <1>5 DEF FixedBlock, Malformed, Return, Emit, Places
<1>6. CASE SearchLine
  <2>1. CASE Malformed
    BY <1>6, <2>1 DEF SearchLine, Malformed, Return, Places
  <2>2. CASE FirstLf(buf, 1) # 0
    BY <1>6, <2>2 DEF SearchLine, EmitLine, Return, Emit, Places
  <2>3. CASE /\ ~TooLong /\ pc' = "more" /\ before' = Len(buf) /\ need' = Len(buf) + LookAhead
             /\ UNCHANGED <<framing, framing_known, out>>
    BY <1>0, <1>6, <2>3, LengthFacts DEF SearchLine, TooLong, Places
  <2> QED
    BY <1>6, <2>1, <2>2, <2>3 DEF SearchLine
<1>7. CASE More
  BY <1>7 DEF More, EmitLine, Return, Emit, Places
<1>8. CASE UNCHANGED vars
  BY <1>8 DEF vars, Places
<1> QED
  BY <1>1, <1>2, <1>3, <1>4, <1>5, <1>6, <1>7, <1>8 DEF Next, Step

\* Only Read adds to the buffer, and it reads no more than one chunk beyond what was
\* asked for.
LEMMA MemoryStep == TypeOK /\ Places /\ Memory /\ [Next]_vars => Memory'
<1> SUFFICES ASSUME TypeOK, Places, Memory, [Next]_vars
             PROVE  Memory'
  OBVIOUS
<1>0. Len(buf) \in Nat /\ need \in Nat /\ high_water \in Nat /\ before \in Nat
  BY LenProperties DEF TypeOK
<1>1. CASE Read
  <2>1. framing_known' = framing_known /\ framing' = framing /\ Len(buf) < need
        /\ pc \in {"detect", "magic", "block", "more"}
    BY <1>0, <1>1 DEF Read, FillDone, Filling, TypeOK
  <2>2. need <= DATA_RECORD_LEN + 2 + LookAhead
        /\ (~framing_known \/ framing = FIXED => need <= DATA_RECORD_LEN)
    BY <2>1, LengthFacts DEF Places, TypeOK
  <2>3. CASE UNCHANGED <<src_pos, buf, high_water>>
    BY <2>1, <2>3 DEF Memory, BoundedMemory
  <2>4. ASSUME NEW n \in 1..ReadSize, Len(buf') = Len(buf) + n,
               high_water' = IF Len(buf') > high_water THEN Len(buf') ELSE high_water
        PROVE  Memory'
    <3>1. Len(buf') <= need - 1 + ReadSize /\ Len(buf') \in Nat
      BY <1>0, <2>1, <2>4, LengthFacts
    <3>2. Len(buf') <= high_water' /\ (high_water' = Len(buf') \/ high_water' = high_water)
      BY <1>0, <2>4, <3>1
    <3> QED
      BY <1>0, <2>1, <2>2, <3>1, <3>2, LengthFacts DEF Memory, BoundedMemory
  <2> QED
    BY <1>1, <2>3, <2>4, ReadCases
<1>2. CASE Decides
  <2>1. buf' = buf /\ high_water' = high_water
    BY <1>2 DEF Decides
  <2>2. CASE UNCHANGED <<framing, framing_known>>
    BY <2>1, <2>2 DEF Memory, BoundedMemory
  <2>3. CASE pc = "detect" /\ framing_known' = TRUE
    BY <2>1, <2>3 DEF Memory, BoundedMemory, Places
  <2> QED
    BY <1>2, <2>2, <2>3 DEF Decides
<1>3. CASE Returns \/ Emits
  <2>1. PICK rest \in Rests : buf' = rest /\ UNCHANGED <<framing, framing_known, high_water>>
    BY <1>3, EmitsOne DEF Returns, Return, Emit
  <2>2. Len(buf') \in Nat /\ Len(buf') <= Len(buf)
    BY <2>1, RestShorter
  <2> QED
    BY <1>0, <2>1, <2>2 DEF Memory, BoundedMemory
<1>4. CASE UNCHANGED vars
  BY <1>4 DEF vars, Memory, BoundedMemory
<1> QED
  BY <1>1, <1>2, <1>3, <1>4, StepKinds

\* A record emitted takes the next index, and its document is the one before it or,
\* for a control record, the next.
LEMMA KeysStep ==
  TypeOK /\ Places /\ Counters /\ KeysFollowControls /\ [Next]_vars
    => Counters' /\ KeysFollowControls'
<1> SUFFICES ASSUME TypeOK, Places, Counters, KeysFollowControls, [Next]_vars
             PROVE  Counters' /\ KeysFollowControls'
  OBVIOUS
<1>0. out \in Seq(IdocRecord) /\ Len(out) \in Nat
  BY LenProperties DEF TypeOK
<1>1. CASE UNCHANGED <<document_key, record_index, out>>
  BY <1>1 DEF Counters, KeysFollowControls
<1>2. ASSUME NEW record \in Seq(Byte), NEW rest, Emit(record, rest)
      PROVE  Counters' /\ KeysFollowControls'
  <2> DEFINE r == [document_key |-> KeyOf(record), record_index |-> record_index,
                   is_control |-> IsControlRecord(record), bytes |-> record]
  <2>1. /\ out' = Append(out, r)
        /\ document_key' = KeyOf(record)
        /\ record_index' = record_index + 1
    BY <1>2 DEF Emit
  <2>2. /\ r.document_key = KeyOf(record)
        /\ r.record_index = record_index
        /\ r.is_control = IsControlRecord(record)
        /\ r.bytes = record
        /\ IsControlRecord(record) \in BOOLEAN
    BY DEF IsControlRecord, MagicAt
  <2>3. r \in IdocRecord
    BY <2>2 DEF IdocRecord, KeyOf, TypeOK
  <2> HIDE DEF r
  <2>4. /\ Len(out') = Len(out) + 1
        /\ \A i \in 1..Len(out) : out'[i] = out[i]
        /\ out'[Len(out) + 1] = r
        /\ DOMAIN out' = 1..(Len(out) + 1) /\ DOMAIN out = 1..Len(out)
        /\ out' # <<>>
    <3>1. Append(out, r) \in Seq(IdocRecord)
      BY <1>0, <2>3, AppendProperties
    <3> QED
      BY <1>0, <2>1, <2>3, <3>1, AppendProperties, LenProperties, EmptySeq
  <2>5. Counters'
    BY <1>0, <2>1, <2>2, <2>4 DEF Counters
  <2>6. document_key = (IF Len(out) + 1 = 1 THEN 0 ELSE out[Len(out)].document_key)
        /\ record_index = Len(out)
    BY <1>0, EmptySeq DEF Counters
  <2>7. ASSUME NEW i \in DOMAIN out'
        PROVE  /\ out'[i].record_index = i - 1
               /\ out'[i].is_control = IsControlRecord(out'[i].bytes)
               /\ out'[i].document_key = (IF i = 1 THEN 0 ELSE out'[i - 1].document_key)
                                           + (IF out'[i].is_control THEN 1 ELSE 0)
    <3>1. CASE i = Len(out) + 1
      <4>1. out'[i] = r /\ (i # 1 => out'[i - 1] = out[Len(out)]) /\ i \in Nat
        BY <1>0, <2>4, <3>1
      <4>2. r.document_key = document_key + (IF r.is_control THEN 1 ELSE 0)
        BY <2>2 DEF KeyOf, TypeOK
      <4> QED
        BY <1>0, <2>2, <2>6, <3>1, <4>1, <4>2
    <3>2. CASE i # Len(out) + 1
      <4>1. i \in DOMAIN out /\ out'[i] = out[i] /\ (i # 1 => out'[i - 1] = out[i - 1])
        BY <1>0, <2>4, <3>2
      <4> QED
        BY <4>1 DEF KeysFollowControls
    <3> QED
      BY <3>1, <3>2
  <2>8. KeysFollowControls'
    BY <2>7 DEF KeysFollowControls
  <2> QED
    BY <2>5, <2>8
<1>3. CASE Read
  BY <1>1, <1>3 DEF Read
<1>4. CASE Decides
  BY <1>1, <1>4 DEF Decides
<1>5. CASE Returns
  BY <1>1, <1>5 DEF Returns, Return
<1>6. CASE Emits
  BY <1>2, <1>6, EmitsOne
<1>7. CASE UNCHANGED vars
  BY <1>1, <1>7 DEF vars
<1> QED
  BY <1>3, <1>4, <1>5, <1>6, <1>7, StepKinds

-----------------------------------------------------------------------------
(* Joining records.                                                        *)

\* A function that joins the records up to each of them.
JoinsUpTo(rs, fr, g) ==
  g = [i \in 0..Len(rs) |-> IF i = 0 THEN <<>> ELSE g[i - 1] \o rs[i] \o Terminator(fr)]

\* Terminators are bytes.
LEMMA TerminatorFacts ==
  ASSUME NEW fr \in Framing
  PROVE  /\ Terminator(fr) \in Seq(Byte)
         /\ fr = FIXED => Terminator(fr) = <<>>
         /\ fr = TERMINATED_LF => Terminator(fr) = <<LF>>
         /\ fr = TERMINATED_CRLF => Terminator(fr) = <<CR, LF>>
         /\ LF \in Byte /\ CR \in Byte /\ CR # LF
<1>1. LF \in Byte /\ CR \in Byte /\ CR # LF
  BY DEF Byte, LF, CR
<1>2. <<LF>> \in Seq(Byte) /\ <<CR, LF>> \in Seq(Byte) /\ <<>> \in Seq(Byte)
  BY <1>1
<1>3. FIXED # TERMINATED_LF /\ FIXED # TERMINATED_CRLF /\ TERMINATED_LF # TERMINATED_CRLF
  BY DEF FIXED, TERMINATED_LF, TERMINATED_CRLF
<1>4. /\ fr = FIXED => Terminator(fr) = <<>>
      /\ fr = TERMINATED_LF => Terminator(fr) = <<LF>>
      /\ fr = TERMINATED_CRLF => Terminator(fr) = <<CR, LF>>
  BY <1>3 DEF Terminator
<1> QED
  BY <1>1, <1>2, <1>4 DEF Framing

\* JoinRecords is the last value of such a function.
LEMMA JoinDef ==
  ASSUME NEW rs \in Seq(Seq(Byte)), NEW fr \in Framing
  PROVE  \E g : /\ JoinsUpTo(rs, fr, g)
                /\ g \in [0..Len(rs) -> Seq(Byte)]
                /\ JoinRecords(rs, fr) = g[Len(rs)]
<1> DEFINE n == Len(rs)
           T == Seq(Byte)
           step == [x \in T \X Nat |->
                      IF x[2] \in 1..n THEN x[1] \o rs[x[2]] \o Terminator(fr) ELSE <<>>]
           J == CHOOSE g : JoinsUpTo(rs, fr, g)
<1>1. n \in Nat /\ <<>> \in T /\ Terminator(fr) \in T
  BY LenProperties, EmptySeq, TerminatorFacts
<1>2. step \in StepFunctions(T)
  <2>1. ASSUME NEW x \in T \X Nat
        PROVE  (IF x[2] \in 1..n THEN x[1] \o rs[x[2]] \o Terminator(fr) ELSE <<>>) \in T
    <3>1. CASE x[2] \in 1..n
      <4>1. x[1] \in T /\ rs[x[2]] \in T
        BY <3>1, ElementOfSeq
      <4>2. x[1] \o rs[x[2]] \in T
        BY <4>1, ConcatProperties
      <4>3. x[1] \o rs[x[2]] \o Terminator(fr) \in T
        BY <1>1, <4>2, ConcatProperties
      <4> QED
        BY <3>1, <4>3
    <3>2. CASE x[2] \notin 1..n
      BY <1>1, <3>2
    <3> QED
      BY <3>1, <3>2
  <2> QED
    BY <2>1 DEF StepFunctions
<1> HIDE DEF step, n, T
<1>3. PICK g : FollowsUpTo(g, n, T, <<>>, step)
  BY <1>1, <1>2, PrimitiveRecursion
<1>4. g \in [0..n -> T] /\ g[0] = <<>> /\ \A i \in 1..n : g[i] = step[<<g[i - 1], i>>]
  BY <1>3 DEF FollowsUpTo
<1>5. \A i \in 0..n : g[i] = IF i = 0 THEN <<>> ELSE g[i - 1] \o rs[i] \o Terminator(fr)
  <2> TAKE i \in 0..n
  <2>1. CASE i = 0
    BY <1>4, <2>1
  <2>2. CASE i # 0
    <3>1. i \in 1..n /\ i - 1 \in 0..n /\ i \in Nat
      BY <1>1, <2>2
    <3>2. <<g[i - 1], i>> \in T \X Nat
      BY <1>4, <3>1
    <3>3. step[<<g[i - 1], i>>] = g[i - 1] \o rs[i] \o Terminator(fr)
      BY <3>1, <3>2 DEF step
    <3> QED
      BY <1>4, <2>2, <3>1, <3>3
  <2> QED
    BY <2>1, <2>2
<1>6. JoinsUpTo(rs, fr, g)
  BY <1>4, <1>5 DEF JoinsUpTo, n
<1>7. JoinsUpTo(rs, fr, J)
  <2>1. \E h : JoinsUpTo(rs, fr, h)
    BY <1>6
  <2> QED
    BY <2>1, Zenon
<1>8. JoinRecords(rs, fr) = J[n]
  BY DEF JoinRecords, JoinsUpTo, n
<1> HIDE DEF J
<1>9. \A i \in 0..n : J[i] = IF i = 0 THEN <<>> ELSE J[i - 1] \o rs[i] \o Terminator(fr)
  BY <1>7 DEF JoinsUpTo, n
<1>10. \A i \in Nat : i \in 0..n => J[i] = g[i]
  <2> DEFINE S == {i \in Nat : i \in 0..n => J[i] = g[i]}
  <2>1. 0 \in S
    BY <1>1, <1>5, <1>9
  <2>2. ASSUME NEW i \in Nat, i \in S
        PROVE  i + 1 \in S
    <3>1. CASE i + 1 \in 0..n
      <4>1. i \in 0..n /\ i + 1 # 0 /\ i + 1 - 1 = i
        BY <1>1, <3>1
      <4>2. J[i] = g[i]
        BY <2>2, <4>1
      <4> QED
        BY <1>5, <1>9, <3>1, <4>1, <4>2
    <3> QED
      BY <3>1
  <2> HIDE DEF S
  <2>3. Nat \subseteq S
    BY <2>1, <2>2, NatSetInduction
  <2> QED
    BY <2>3 DEF S
<1>11. J[n] = g[n]
  BY <1>1, <1>10
<1> QED
  BY <1>4, <1>6, <1>8, <1>11 DEF n, T

\* Joining one more record appends it and its terminator.
LEMMA JoinAppend ==
  ASSUME NEW rs \in Seq(Seq(Byte)), NEW r \in Seq(Byte), NEW fr \in Framing
  PROVE  /\ JoinRecords(<<>>, fr) = <<>>
         /\ JoinRecords(rs, fr) \in Seq(Byte)
         /\ JoinRecords(Append(rs, r), fr) = JoinRecords(rs, fr) \o r \o Terminator(fr)
<1> DEFINE n == Len(rs)
           rr == Append(rs, r)
<1>1. n \in Nat /\ <<>> \in Seq(Seq(Byte))
  BY LenProperties, EmptySeq
<1>2. /\ rr \in Seq(Seq(Byte)) /\ Len(rr) = n + 1
      /\ \A i \in 1..n : rr[i] = rs[i]
      /\ rr[n + 1] = r
  BY AppendProperties
<1> HIDE DEF n, rr
<1>3. PICK g : JoinsUpTo(rs, fr, g) /\ g \in [0..n -> Seq(Byte)] /\ JoinRecords(rs, fr) = g[n]
  BY JoinDef DEF n
<1>4. PICK h : JoinsUpTo(rr, fr, h) /\ JoinRecords(rr, fr) = h[n + 1]
  BY <1>2, JoinDef
<1>5. \A i \in 0..n : g[i] = IF i = 0 THEN <<>> ELSE g[i - 1] \o rs[i] \o Terminator(fr)
  BY <1>3 DEF JoinsUpTo, n
<1>6. \A i \in 0..(n + 1) : h[i] = IF i = 0 THEN <<>> ELSE h[i - 1] \o rr[i] \o Terminator(fr)
  BY <1>2, <1>4 DEF JoinsUpTo
<1>7. \A i \in Nat : i \in 0..n => h[i] = g[i]
  <2> DEFINE S == {i \in Nat : i \in 0..n => h[i] = g[i]}
  <2>1. 0 \in S
    BY <1>1, <1>5, <1>6
  <2>2. ASSUME NEW i \in Nat, i \in S
        PROVE  i + 1 \in S
    <3>1. CASE i + 1 \in 0..n
      <4>1. i \in 0..n /\ i + 1 # 0 /\ i + 1 - 1 = i /\ i + 1 \in 1..n /\ i + 1 \in 0..(n + 1)
        BY <1>1, <3>1
      <4>2. h[i] = g[i] /\ rr[i + 1] = rs[i + 1]
        BY <1>2, <2>2, <4>1
      <4> QED
        BY <1>5, <1>6, <3>1, <4>1, <4>2
    <3> QED
      BY <3>1
  <2> HIDE DEF S
  <2>3. Nat \subseteq S
    BY <2>1, <2>2, NatSetInduction
  <2> QED
    BY <2>3 DEF S
<1>8. h[n + 1] = g[n] \o r \o Terminator(fr)
  <2>0. PICK k \in Nat : k = n + 1
    BY <1>1
  <2>1. k \in 0..(n + 1) /\ k # 0 /\ k - 1 = n /\ n \in 0..n
    BY <1>1, <2>0
  <2>4. h[k] = h[k - 1] \o rr[k] \o Terminator(fr)
    BY <1>6, <2>1, Zenon
  <2>2. h[n + 1] = h[n] \o rr[n + 1] \o Terminator(fr)
    BY <2>0, <2>1, <2>4
  <2>3. h[n] = g[n]
    BY <1>1, <1>7, <2>1
  <2> QED
    BY <1>2, <2>2, <2>3
<1>9. JoinRecords(<<>>, fr) = <<>>
  <2>1. Len(<<>>) = 0
    OBVIOUS
  <2>2. PICK e : JoinsUpTo(<<>>, fr, e) /\ JoinRecords(<<>>, fr) = e[0]
    BY <1>1, <2>1, JoinDef
  <2> QED
    BY <2>1, <2>2 DEF JoinsUpTo
<1>10. JoinRecords(rs, fr) \in Seq(Byte)
  BY <1>1, <1>3
<1> QED
  BY <1>3, <1>4, <1>8, <1>9, <1>10 DEF rr

-----------------------------------------------------------------------------
(* What is handed out is what is read.                                     *)

\* The bytes of the records, one by one.
LEMMA BytesType ==
  ASSUME NEW o \in Seq(IdocRecord)
  PROVE  /\ Bytes(o) \in Seq(Seq(Byte))
         /\ Len(Bytes(o)) = Len(o)
         /\ \A i \in 1..Len(o) : Bytes(o)[i] = o[i].bytes
         /\ o = <<>> <=> Bytes(o) = <<>>
<1> DEFINE n == Len(o)
           b == Bytes(o)
<1>1. n \in Nat /\ o \in [1..n -> IdocRecord]
  BY LenProperties
<1>2. b \in [1..n -> Seq(Byte)] /\ \A i \in 1..n : b[i] = o[i].bytes
  BY <1>1 DEF Bytes, IdocRecord
<1> HIDE DEF b
<1>3. b \in Seq(Seq(Byte)) /\ Len(b) = n
  BY <1>1, <1>2, IsASeq, LenProperties
<1> QED
  BY <1>1, <1>2, <1>3, EmptySeq DEF b

\* The bytes of one more record.
LEMMA BytesAppend ==
  ASSUME NEW o \in Seq(IdocRecord), NEW r \in IdocRecord
  PROVE  Bytes(Append(o, r)) = Append(Bytes(o), r.bytes)
<1> DEFINE n == Len(o)
           b == Bytes(o)
           oo == Append(o, r)
           c == Append(b, r.bytes)
           d == Bytes(oo)
<1>1. n \in Nat /\ r.bytes \in Seq(Byte)
  BY LenProperties DEF IdocRecord
<1>2. b \in Seq(Seq(Byte)) /\ Len(b) = n /\ \A i \in 1..n : b[i] = o[i].bytes
  BY BytesType
<1>a. /\ oo \in Seq(IdocRecord) /\ Len(oo) = n + 1
      /\ \A i \in 1..n : oo[i] = o[i]
      /\ oo[n + 1] = r
  BY AppendProperties
<1>3. d \in Seq(Seq(Byte)) /\ Len(d) = n + 1 /\ \A i \in 1..(n + 1) : d[i] = oo[i].bytes
  <2> HIDE DEF oo
  <2> QED
    BY <1>a, BytesType
<1> HIDE DEF b, oo
<1>4. /\ c \in Seq(Seq(Byte)) /\ Len(c) = n + 1
      /\ \A i \in 1..n : c[i] = b[i]
      /\ c[n + 1] = r.bytes
  BY <1>1, <1>2, AppendProperties
<1> HIDE DEF n, c, d
<1>5. \A i \in 1..(n + 1) : d[i] = c[i]
  <2> TAKE i \in 1..(n + 1)
  <2>1. CASE i = n + 1
    BY <1>a, <1>3, <1>4, <2>1
  <2>2. CASE i # n + 1
    <3>1. i \in 1..n
      BY <1>1, <2>2
    <3> QED
      BY <1>2, <1>a, <1>3, <1>4, <3>1
  <2> QED
    BY <2>1, <2>2
<1>6. d = c
  BY <1>3, <1>4, <1>5, SeqEqual
<1> QED
  BY <1>6 DEF b, c, d, oo

\* The buffer keeps being a part of the file.
LEMMA WindowStep == TypeOK /\ Places /\ Window /\ [Next]_vars => Window'
<1> SUFFICES ASSUME TypeOK, Places, Window, [Next]_vars
             PROVE  Window'
  OBVIOUS
<1>0. /\ buf \in Seq(Byte) /\ Len(buf) \in Nat /\ src_pos \in Nat /\ <<>> \in Seq(Byte)
      /\ input.image \in Seq(Byte) /\ Len(input.image) \in Nat
  BY LenProperties, EmptySeq DEF TypeOK
<1>1. CASE UNCHANGED <<input, src_pos, buf>>
  BY <1>1 DEF Window
<1>2. CASE Read
  <2>1. input' = input
    BY <1>2 DEF Read
  <2>2. ASSUME NEW n \in 1..ReadSize,
               /\ src_pos + n <= Len(input.image)
               /\ src_pos' = src_pos + n
               /\ buf' = buf \o SubSeq(input.image, src_pos + 1, src_pos + n)
               /\ Len(buf') = Len(buf) + n
        PROVE  Window'
    <3> DEFINE part == SubSeq(input.image, src_pos + 1, src_pos + n)
    <3>1. n \in Nat /\ n > 0
      BY LengthFacts
    <3>2. part \in Seq(Byte) /\ Len(part) = n /\ \A i \in 1..n : part[i] = input.image[src_pos + i]
      <4>1. src_pos + 1 \in Nat /\ src_pos + n \in Nat /\ src_pos + 1 > 0
            /\ src_pos + n - (src_pos + 1) + 1 = n
            /\ \A i \in 1..n : src_pos + 1 + i - 1 = src_pos + i
        BY <1>0, <3>1
      <4> QED
        BY <1>0, <2>2, <3>1, <4>1, PartFacts
    <3> HIDE DEF part
    <3>3. \A i \in 1..(Len(buf) + n) :
            buf'[i] = IF i <= Len(buf) THEN buf[i] ELSE part[i - Len(buf)]
      <4>1. buf' = buf \o part
        BY <2>2 DEF part
      <4> QED
        BY <1>0, <3>2, <4>1, ConcatProperties
    <3>4. ASSUME NEW i \in 1..Len(buf')
          PROVE  buf'[i] = input.image[src_pos' - Len(buf') + i]
      <4>0. i \in Nat /\ i \in 1..(Len(buf) + n)
        BY <1>0, <2>2, <3>1
      <4>1. CASE i <= Len(buf)
        BY <1>0, <2>2, <3>1, <3>3, <4>0, <4>1 DEF Window
      <4>2. CASE ~(i <= Len(buf))
        <5>1. i - Len(buf) \in 1..n /\ src_pos + (i - Len(buf)) = src_pos' - Len(buf') + i
          BY <1>0, <2>2, <3>1, <4>0, <4>2
        <5> QED
          BY <3>2, <3>3, <4>0, <4>2, <5>1
      <4> QED
        BY <4>1, <4>2
    <3> QED
      BY <1>0, <2>1, <2>2, <3>1, <3>4 DEF Window
  <2> QED
    BY <1>1, <1>2, <2>1, <2>2, ReadCases
<1>3. CASE Decides
  BY <1>1, <1>3 DEF Decides
<1>4. CASE Returns \/ Emits
  <2>1. PICK rest \in Rests : buf' = rest /\ UNCHANGED <<input, src_pos>>
    BY <1>4, EmitsOne DEF Returns, Return, Emit
  <2>2. CASE rest = buf
    BY <1>1, <2>1, <2>2
  <2>3. CASE rest = <<>>
    BY <1>0, <2>1, <2>3 DEF Window
  <2>4. CASE rest \in {SubSeq(buf, n + 1, Len(buf)) : n \in 1..Len(buf)}
    <3>1. PICK n \in 1..Len(buf) : rest = SubSeq(buf, n + 1, Len(buf))
      BY <2>4
    <3>2. n \in Nat /\ n + 1 \in Nat /\ n + 1 > 0 /\ n <= Len(buf)
          /\ Len(buf) - (n + 1) + 1 = Len(buf) - n
      BY <1>0
    <3>3. Len(rest) = Len(buf) - n /\ \A i \in 1..(Len(buf) - n) : rest[i] = buf[n + 1 + i - 1]
      <4>1. Len(rest) = Len(buf) - n
        BY <3>1, <3>2, BufferParts
      <4>2. \A i \in 1..(Len(buf) - (n + 1) + 1) : rest[i] = buf[n + 1 + i - 1]
        BY <1>0, <3>1, <3>2, PartFacts
      <4> QED
        BY <3>2, <4>1, <4>2
    <3>4. \A i \in 1..(Len(buf) - n) : rest[i] = input.image[src_pos - (Len(buf) - n) + i]
      <4> TAKE i \in 1..(Len(buf) - n)
      <4>1. n + 1 + i - 1 \in 1..Len(buf)
            /\ src_pos - Len(buf) + (n + 1 + i - 1) = src_pos - (Len(buf) - n) + i
        BY <1>0, <3>2
      <4> QED
        BY <3>3, <4>1 DEF Window
    <3> QED
      BY <1>0, <2>1, <3>2, <3>3, <3>4 DEF Window
  <2> QED
    BY <2>2, <2>3, <2>4 DEF Rests
<1>5. CASE UNCHANGED vars
  BY <1>1, <1>5 DEF vars
<1> QED
  BY <1>2, <1>3, <1>4, <1>5, StepKinds

\* What is known of the end of the file stays true.
LEMMA EndsStep == TypeOK /\ Places /\ Ends /\ [Next]_vars => Ends'
<1> SUFFICES ASSUME TypeOK, Places, Ends, [Next]_vars
             PROVE  Ends'
  OBVIOUS
<1>0. buf \in Seq(Byte) /\ Len(buf) \in Nat /\ before \in Nat /\ (Len(buf) = 0 <=> buf = <<>>)
  BY LenProperties, EmptySeq DEF TypeOK
<1>1. CASE Read
  <2>1. /\ UNCHANGED <<input, before, pc>> /\ pc \notin Stopped
        /\ src_pos' = src_pos \/ ~eof
    BY <1>1 DEF Read, FillDone, Filling, Stopped
  <2>2. CASE UNCHANGED <<src_pos, buf, high_water>> /\ src_pos = Len(input.image)
    BY <2>1, <2>2 DEF Ends, Stopped
  <2>3. ASSUME NEW n \in 1..ReadSize,
               /\ src_pos + n <= Len(input.image)
               /\ src_pos' = src_pos + n
               /\ buf' = buf \o SubSeq(input.image, src_pos + 1, src_pos + n)
               /\ Len(buf') = Len(buf) + n
               /\ eof' = eof
        PROVE  Ends'
    <3> DEFINE part == SubSeq(input.image, src_pos + 1, src_pos + n)
    <3>0. src_pos \in Nat /\ n \in Nat /\ n > 0 /\ input.image \in Seq(Byte)
      BY LengthFacts, LenProperties DEF TypeOK
    <3>1. part \in Seq(Byte)
      BY <2>3, <3>0, PartFacts
    <3>2. \A i \in 1..Len(buf) : buf'[i] = buf[i]
      BY <1>0, <2>3, <3>0, <3>1, ConcatProperties
    <3>3. ~eof /\ ~eof'
      BY <2>1, <2>3, <3>0
    <3>4. pc' = "more" => /\ before' <= Len(buf')
                          /\ \A i \in 1..before' : buf'[i] # LF
      BY <1>0, <2>1, <2>3, <3>0, <3>2 DEF Ends
    <3> QED
      BY <2>1, <3>3, <3>4 DEF Ends, Stopped
  <2> QED
    BY <1>1, <2>2, <2>3, ReadCases
<1>2. CASE pc' = "more" /\ pc # "more"
  <2>1. SearchLine /\ FirstLf(buf, 1) = 0 /\ before' = Len(buf)
        /\ UNCHANGED <<input, src_pos, buf, eof>>
    BY <1>2 DEF Next, Step, Call, EnterFraming, Read, Detect, FixedMagic, FixedBlock, SearchLine, More,
                EmitLine, Malformed, Return, Emit, vars
  <2>2. \A i \in 1..Len(buf) : buf[i] # LF
    BY <1>0, <2>1, FirstLfFacts
  <2> QED
    BY <1>0, <1>2, <2>1, <2>2 DEF Ends
<1>3. CASE Decides /\ ~Read /\ Next /\ ~(pc' = "more" /\ pc # "more")
  <2>1. CASE pc' = "more"
    <3>1. pc # "more"
      <4>1. CASE More
        BY <2>1, <4>1 DEF More, EmitLine, Return, Emit
      <4>2. CASE ~More
        BY <1>3, <4>2 DEF Next, Step, Call, Detect, FixedMagic, FixedBlock, SearchLine
      <4> QED
        BY <4>1, <4>2
    <3> QED
      BY <1>3, <2>1, <3>1
  <2> QED
    BY <1>3, <2>1 DEF Decides, Ends, Stopped
<1>4. CASE Returns
  <2>1. PICK how \in Stopped, rest \in Rests :
          Return(how, rest) /\ (how = "end" /\ ~input.lenient => eof /\ buf = <<>>)
    BY <1>4 DEF Returns
  <2>2. pc' = how /\ buf' = rest /\ UNCHANGED <<input, src_pos, eof>>
    BY <2>1 DEF Return
  <2>3. buf = <<>> => rest = <<>>
    <3>1. Len(rest) \in Nat /\ Len(rest) <= Len(buf) /\ rest \in Seq(Byte)
      BY RestShorter
    <3> QED
      BY <1>0, <3>1, EmptySeq
  <2> QED
    BY <2>1, <2>2, <2>3 DEF Ends, Stopped
<1>5. CASE Emits
  <2>1. pc' = "idle" /\ UNCHANGED <<input, src_pos, eof>>
    BY <1>5, EmitsOne DEF Emit
  <2> QED
    BY <2>1 DEF Ends
<1>6. CASE UNCHANGED vars
  BY <1>6 DEF vars, Ends
<1> QED
  BY <1>1, <1>2, <1>3, <1>4, <1>5, <1>6, StepKinds

\* Records of terminated framing, joined, end with a line feed.
LEMMA JoinEndsLine ==
  ASSUME NEW rs \in Seq(Seq(Byte)), rs # <<>>, NEW fr \in Framing \ {FIXED}
  PROVE  LET joined == JoinRecords(rs, fr)
         IN  Len(joined) \in Nat \ {0} /\ joined[Len(joined)] = LF
<1>1. PICK r0 \in Seq(Seq(Byte)), r \in Seq(Byte) : rs = Append(r0, r)
  BY SequenceEmptyOrAppend
<1> DEFINE j == JoinRecords(r0, fr) \o r
           t == Terminator(fr)
<1>2. JoinRecords(rs, fr) = j \o t /\ j \in Seq(Byte)
  BY <1>1, JoinAppend, ConcatProperties
<1>3. t \in Seq(Byte) /\ Len(t) \in Nat \ {0} /\ t[Len(t)] = LF
  <2>1. t = <<LF>> \/ t = <<CR, LF>>
    BY TerminatorFacts DEF Framing
  <2>2. t \in Seq(Byte)
    BY TerminatorFacts
  <2> HIDE DEF t
  <2>3. CASE t = <<LF>>
    BY <2>2, <2>3
  <2>4. CASE t = <<CR, LF>>
    BY <2>2, <2>4
  <2> QED
    BY <2>1, <2>3, <2>4
<1> HIDE DEF j, t
<1>4. /\ Len(j) \in Nat
      /\ Len(j \o t) = Len(j) + Len(t)
      /\ \A i \in 1..(Len(j) + Len(t)) : (j \o t)[i] = IF i <= Len(j) THEN j[i] ELSE t[i - Len(j)]
  BY <1>2, <1>3, ConcatProperties, LenProperties
<1>5. PICK k \in Nat : k = Len(j) + Len(t)
  BY <1>3, <1>4
<1>6. k \in 1..(Len(j) + Len(t)) /\ ~(k <= Len(j)) /\ k - Len(j) = Len(t) /\ k # 0
  BY <1>3, <1>4, <1>5
<1>7. (j \o t)[k] = t[Len(t)]
  BY <1>4, <1>6
<1> QED
  BY <1>2, <1>3, <1>4, <1>5, <1>6, <1>7

\* What is joined so far, with the next bytes of the buffer, is that much more of the
\* file.
LEMMA JoinedGrows ==
  ASSUME TypeOK, Window,
         NEW joined \in Seq(Byte),
         Len(joined) = src_pos - Len(buf),
         \A i \in 1..Len(joined) : joined[i] = input.image[i],
         NEW part \in Seq(Byte), Len(part) <= Len(buf),
         \A i \in 1..Len(part) : part[i] = buf[i]
  PROVE  /\ Len(joined \o part) = src_pos - (Len(buf) - Len(part))
         /\ \A i \in 1..Len(joined \o part) : (joined \o part)[i] = input.image[i]
<1>0. /\ Len(buf) \in Nat /\ src_pos \in Nat /\ Len(joined) \in Nat /\ Len(part) \in Nat
  BY LenProperties DEF TypeOK
<1>1. /\ Len(joined \o part) = Len(joined) + Len(part)
      /\ \A i \in 1..(Len(joined) + Len(part)) :
           (joined \o part)[i] = IF i <= Len(joined) THEN joined[i] ELSE part[i - Len(joined)]
  BY ConcatProperties
<1>2. ASSUME NEW i \in 1..(Len(joined) + Len(part))
      PROVE  (joined \o part)[i] = input.image[i]
  <2>1. CASE i <= Len(joined)
    BY <1>0, <1>1, <2>1
  <2>2. CASE ~(i <= Len(joined))
    <3>0. i \in Nat /\ i - Len(joined) \in Nat
      BY <1>0, <2>2
    <3>1. PICK k \in Nat : k = i - Len(joined)
      BY <3>0
    <3>2. k \in 1..Len(part) /\ k \in 1..Len(buf) /\ src_pos - Len(buf) + k = i
      BY <1>0, <2>2, <3>1
    <3>3. part[k] = input.image[i]
      BY <3>2 DEF Window
    <3> QED
      BY <1>1, <2>2, <3>1, <3>3
  <2> QED
    BY <2>1, <2>2
<1> QED
  BY <1>0, <1>1, <1>2

\* The last line begins after the last line feed.
LEMMA LastLineFacts ==
  ASSUME NEW image \in Seq(Byte)
  PROVE  \E k \in 0..Len(image) :
           /\ LastLine(image) = SubSeq(image, 1 + k, Len(image))
           /\ k = 0 \/ image[k] = LF
           /\ \A i \in (k + 1)..Len(image) : image[i] # LF
<1> DEFINE ends == {0} \cup {i \in DOMAIN image : image[i] = LF}
           last == CHOOSE i \in ends : \A j \in ends : j <= i
<1>1. Len(image) \in Nat /\ DOMAIN image = 1..Len(image)
  BY LenProperties
<1>2. \E i \in ends : \A j \in ends : j <= i
  <2> DEFINE S == {Len(image) - i : i \in ends}
  <2>1. S \in SUBSET Nat /\ S # {}
    BY <1>1
  <2> HIDE DEF S
  <2>2. PICK m \in S : \A k \in S : m <= k
    BY <2>1, LeastElement
  <2>3. PICK i \in ends : m = Len(image) - i
    BY <2>2 DEF S
  <2>4. \A j \in ends : Len(image) - i <= Len(image) - j
    BY <2>2, <2>3 DEF S
  <2>5. \A j \in ends : j \in Int /\ i \in Int
    BY <1>1, <2>3
  <2> QED
    BY <1>1, <2>3, <2>4, <2>5
<1>3. last \in ends /\ \A j \in ends : j <= last
  BY <1>2, Zenon
<1>4. LastLine(image) = SubSeq(image, 1 + last, Len(image))
  BY DEF LastLine
<1> HIDE DEF last
<1>5. last \in 0..Len(image) /\ (last = 0 \/ image[last] = LF)
  BY <1>1, <1>3
<1>6. ASSUME NEW i \in (last + 1)..Len(image), image[i] = LF
      PROVE  FALSE
  <2>1. i \in 1..Len(image) /\ ~(i <= last)
    BY <1>1, <1>5
  <2>2. i \in ends
    BY <1>1, <1>6, <2>1
  <2> QED
    BY <1>3, <2>1, <2>2
<1> QED
  BY <1>4, <1>5, <1>6

\* A file without a last line is empty or ends with a line feed.
LEMMA NoLastLine ==
  ASSUME NEW image \in Seq(Byte), LastLine(image) = <<>>, image # <<>>
  PROVE  image[Len(image)] = LF
<1>1. Len(image) \in Nat /\ Len(image) # 0
  BY LenProperties, EmptySeq
<1>2. PICK k \in 0..Len(image) :
        LastLine(image) = SubSeq(image, 1 + k, Len(image)) /\ (k = 0 \/ image[k] = LF)
  BY LastLineFacts
<1>3. CASE k = Len(image)
  BY <1>1, <1>2, <1>3
<1>4. CASE k # Len(image)
  <2>1. 1 + k \in Nat /\ 1 + k > 0 /\ 1 + k <= Len(image)
    BY <1>1, <1>4
  <2>a. Len(SubSeq(image, 1 + k, Len(image))) = Len(image) - (1 + k) + 1
    BY <1>1, <2>1, PartFacts
  <2>2. Len(LastLine(image)) = Len(image) - (1 + k) + 1
    BY <1>2, <2>a
  <2>3. Len(image) - (1 + k) + 1 # 0
    BY <1>1, <2>1
  <2> QED
    BY <2>2, <2>3, EmptySeq
<1> QED
  BY <1>3, <1>4

\* A line with its terminator is what the buffer starts with.
LEMMA LineAndTerminator ==
  ASSUME TypeOK, NEW nl \in 1..Len(buf), buf[nl] = LF,
         framing \in {TERMINATED_LF, TERMINATED_CRLF},
         framing = TERMINATED_CRLF => nl > 1 /\ buf[nl - 1] = CR
  PROVE  LET part == StripCr(SubSeq(buf, 1, nl - 1), framing) \o Terminator(framing)
         IN  /\ part \in Seq(Byte)
             /\ Len(part) = nl
             /\ \A i \in 1..nl : part[i] = buf[i]
<1> DEFINE raw == SubSeq(buf, 1, nl - 1)
<1>0. /\ buf \in Seq(Byte) /\ Len(buf) \in Nat /\ nl \in Nat /\ nl > 0 /\ nl <= Len(buf)
      /\ LF \in Byte /\ CR \in Byte
  BY LenProperties DEF TypeOK, Byte
<1>1. raw \in Seq(Byte) /\ Len(raw) = nl - 1 /\ \A i \in 1..(nl - 1) : raw[i] = buf[i]
  <2>1. PICK m \in Nat : m = nl - 1
    BY <1>0
  <2>2. m <= Len(buf) /\ m - 1 + 1 = m /\ \A i \in 1..m : 1 + i - 1 = i
    BY <1>0, <2>1
  <2>3. /\ SubSeq(buf, 1, m) \in Seq(Byte)
        /\ Len(SubSeq(buf, 1, m)) = IF 1 <= m THEN m - 1 + 1 ELSE 0
        /\ \A i \in 1..(m - 1 + 1) : SubSeq(buf, 1, m)[i] = buf[1 + i - 1]
    BY <1>0, <2>2, PartFacts
  <2> QED
    BY <2>1, <2>2, <2>3
<1> HIDE DEF raw
<1>2. CASE framing = TERMINATED_LF
  <2>1. StripCr(raw, framing) = raw /\ Terminator(framing) = <<LF>>
    BY <1>2, TerminatorFacts DEF StripCr, TERMINATED_LF, TERMINATED_CRLF, TypeOK
  <2> DEFINE part == raw \o <<LF>>
  <2>2. <<LF>> \in Seq(Byte) /\ Len(<<LF>>) = 1 /\ <<LF>>[1] = LF
    BY <1>0
  <2>3. /\ part \in Seq(Byte) /\ Len(part) = nl
        /\ \A i \in 1..nl : part[i] = IF i <= nl - 1 THEN raw[i] ELSE <<LF>>[i - (nl - 1)]
    <3>1. /\ part \in Seq(Byte) /\ Len(part) = Len(raw) + 1
          /\ \A i \in 1..(Len(raw) + 1) : part[i] = IF i <= Len(raw) THEN raw[i] ELSE <<LF>>[i - Len(raw)]
      BY <1>1, <2>2, ConcatProperties
    <3>2. nl - 1 + 1 = nl
      BY <1>0
    <3> HIDE DEF part
    <3> QED
      BY <1>1, <3>1, <3>2
  <2> HIDE DEF part
  <2>4. ASSUME NEW i \in 1..nl
        PROVE  part[i] = buf[i]
    <3>1. CASE i <= nl - 1
      BY <1>0, <1>1, <2>3, <3>1
    <3>2. CASE ~(i <= nl - 1)
      <4>1. i = nl /\ i - (nl - 1) = 1
        BY <1>0, <3>2
      <4> QED
        BY <1>0, <2>2, <2>3, <3>2, <4>1
    <3> QED
      BY <3>1, <3>2
  <2> QED
    BY <2>1, <2>3, <2>4 DEF part, raw
<1>3. CASE framing = TERMINATED_CRLF
  <2>0. nl > 1 /\ buf[nl - 1] = CR /\ nl - 1 \in 1..(nl - 1) /\ nl - 2 \in Nat
    BY <1>0, <1>3
  <2>1. raw # <<>> /\ raw[Len(raw)] = CR
    BY <1>0, <1>1, <2>0
  <2>2. StripCr(raw, framing) = SubSeq(raw, 1, nl - 2) /\ Terminator(framing) = <<CR, LF>>
    <3>1. Len(raw) - 1 = nl - 2
      BY <1>0, <1>1
    <3> QED
      BY <1>3, <2>1, <3>1, TerminatorFacts DEF StripCr, TypeOK
  <2> DEFINE line == SubSeq(raw, 1, nl - 2)
             part == line \o <<CR, LF>>
  <2>3. line \in Seq(Byte) /\ Len(line) = nl - 2 /\ \A i \in 1..(nl - 2) : line[i] = buf[i]
    <3>1. PICK m \in Nat : m = nl - 2
      BY <2>0
    <3>2. m <= Len(raw) /\ m - 1 + 1 = m /\ \A i \in 1..m : 1 + i - 1 = i /\ i \in 1..(nl - 1)
      BY <1>0, <1>1, <3>1
    <3>3. /\ SubSeq(raw, 1, m) \in Seq(Byte)
          /\ Len(SubSeq(raw, 1, m)) = IF 1 <= m THEN m - 1 + 1 ELSE 0
          /\ \A i \in 1..(m - 1 + 1) : SubSeq(raw, 1, m)[i] = raw[1 + i - 1]
      BY <1>1, <3>2, PartFacts
    <3> QED
      BY <1>1, <3>1, <3>2, <3>3
  <2> HIDE DEF line
  <2>4. <<CR, LF>> \in Seq(Byte) /\ Len(<<CR, LF>>) = 2 /\ <<CR, LF>>[1] = CR /\ <<CR, LF>>[2] = LF
    BY <1>0
  <2>5. /\ part \in Seq(Byte) /\ Len(part) = nl
        /\ \A i \in 1..nl : part[i] = IF i <= nl - 2 THEN line[i] ELSE <<CR, LF>>[i - (nl - 2)]
    <3>1. /\ part \in Seq(Byte) /\ Len(part) = Len(line) + 2
          /\ \A i \in 1..(Len(line) + 2) :
               part[i] = IF i <= Len(line) THEN line[i] ELSE <<CR, LF>>[i - Len(line)]
      BY <2>3, <2>4, ConcatProperties
    <3>2. nl - 2 + 2 = nl
      BY <1>0
    <3> HIDE DEF part
    <3> QED
      BY <2>3, <3>1, <3>2
  <2> HIDE DEF part
  <2>6. ASSUME NEW i \in 1..nl
        PROVE  part[i] = buf[i]
    <3>1. CASE i <= nl - 2
      BY <1>0, <2>3, <2>5, <3>1
    <3>2. CASE i = nl - 1
      <4>1. i - (nl - 2) = 1 /\ ~(i <= nl - 2)
        BY <1>0, <3>2
      <4> QED
        BY <2>0, <2>4, <2>5, <3>2, <4>1
    <3>3. CASE i = nl
      <4>1. i - (nl - 2) = 2 /\ ~(i <= nl - 2)
        BY <1>0, <3>3
      <4> QED
        BY <1>0, <2>4, <2>5, <3>3, <4>1
    <3>4. i <= nl - 2 \/ i = nl - 1 \/ i = nl
      BY <1>0
    <3> QED
      BY <3>1, <3>2, <3>3, <3>4
  <2> QED
    BY <2>2, <2>5, <2>6 DEF part, line, raw
<1> QED
  BY <1>2, <1>3

\* A record handed out, with its terminator, is what the buffer loses.
LEMMA EmitsWhatIsRead ==
  ASSUME TypeOK, Places, Window, Ends, Joined, Emits,
         ~input.lenient, ProperlyTerminated, pc # "error"
  PROVE  \E record \in Seq(Byte), rest \in Rests :
           LET part == record \o Terminator(framing)
           IN  /\ Emit(record, rest)
               /\ part \in Seq(Byte)
               /\ Len(part) <= Len(buf)
               /\ \A i \in 1..Len(part) : part[i] = buf[i]
               /\ Len(rest) = Len(buf) - Len(part)
<1>0. /\ buf \in Seq(Byte) /\ Len(buf) \in Nat /\ framing \in Framing /\ src_pos \in Nat
      /\ input.image \in Seq(Byte) /\ Len(input.image) \in Nat
  BY LenProperties DEF TypeOK
<1>1. CASE EmitsBlock
  <2> DEFINE record == SubSeq(buf, 1, need)
             rest == SubSeq(buf, need + 1, Len(buf))
  <2>1. need \in 1..Len(buf) /\ Emit(record, rest) /\ framing = FIXED
    BY <1>1 DEF EmitsBlock, Places
  <2>2. need \in Nat /\ need > 0 /\ need <= Len(buf) /\ need - 1 + 1 = need
        /\ \A i \in 1..need : 1 + i - 1 = i
    BY <1>0, <2>1
  <2>3. record \in Seq(Byte) /\ Len(record) = need /\ \A i \in 1..need : record[i] = buf[i]
    <3>1. /\ Len(record) = IF 1 <= need THEN need - 1 + 1 ELSE 0
          /\ record \in Seq(Byte)
          /\ \A i \in 1..(need - 1 + 1) : record[i] = buf[1 + i - 1]
      BY <1>0, <2>2, PartFacts
    <3> QED
      BY <2>2, <3>1
  <2>4. rest \in Rests /\ Len(rest) = Len(buf) - need
    BY <2>1, <2>2, BufferParts DEF Rests
  <2> HIDE DEF record, rest
  <2>5. record \o Terminator(framing) = record
    BY <1>0, <2>1, <2>3, TerminatorFacts, ConcatEmptySeq
  <2> QED
    BY <2>1, <2>2, <2>3, <2>4, <2>5
<1>2. CASE EmitsLine
  <2>1. PICK nl \in 1..Len(buf) : EmitsLineTo(nl)
    BY <1>2 DEF EmitsLine
  <2> DEFINE record == StripCr(SubSeq(buf, 1, nl - 1), framing)
             rest == SubSeq(buf, nl + 1, Len(buf))
             part == record \o Terminator(framing)
             joined == JoinRecords(Bytes(out), framing)
  <2>2. framing \in {TERMINATED_LF, TERMINATED_CRLF} /\ buf[nl] = LF /\ Emit(record, rest)
        /\ nl \in Nat /\ nl > 0 /\ nl <= Len(buf)
    BY <1>0, <2>1 DEF EmitsLineTo, Places, Framing
  <2>3. framing = TERMINATED_CRLF => nl > 1 /\ buf[nl - 1] = CR
    <3> SUFFICES ASSUME framing = TERMINATED_CRLF
                 PROVE  nl > 1 /\ buf[nl - 1] = CR
      OBVIOUS
    <3>1. PICK p \in Nat : p = src_pos - Len(buf)
      BY <1>0 DEF Window
    <3>2. /\ p + nl \in 1..Len(input.image) /\ input.image[p + nl] = LF
          /\ \A i \in 1..Len(buf) : buf[i] = input.image[p + i]
      BY <1>0, <2>2, <3>1 DEF Window, TypeOK
    <3>3. p + nl > 1 /\ input.image[p + nl - 1] = CR
      <4>1. \A i \in DOMAIN input.image : input.image[i] = LF => i > 1 /\ input.image[i - 1] = CR
        BY DEF ProperlyTerminated, FIXED, TERMINATED_LF, TERMINATED_CRLF
      <4>2. DOMAIN input.image = 1..Len(input.image)
        BY <1>0, LenProperties
      <4>3. PICK k \in DOMAIN input.image : k = p + nl
        BY <3>2, <4>2
      <4>4. k > 1 /\ input.image[k - 1] = CR
        BY <3>2, <4>1, <4>3
      <4> QED
        BY <4>3, <4>4
    <3>4. CASE nl > 1
      <4>1. nl - 1 \in 1..Len(buf) /\ p + (nl - 1) = p + nl - 1
        BY <1>0, <2>2, <3>1, <3>4
      <4> QED
        BY <3>2, <3>3, <3>4, <4>1
    <3>5. CASE ~(nl > 1)
      <4>1. nl = 1 /\ p \in Nat \ {0} /\ p + nl - 1 = p
        BY <1>0, <2>2, <3>1, <3>3, <3>5
      <4>2. Len(joined) = p /\ \A i \in 1..Len(joined) : joined[i] = input.image[i]
        BY <3>1 DEF Joined
      <4>3. Bytes(out) \in Seq(Seq(Byte))
        BY BytesType DEF TypeOK
      <4>4. CASE Bytes(out) = <<>>
        <5>1. joined = <<>>
          BY <1>0, <4>3, <4>4, JoinAppend, EmptySeq
        <5> QED
          BY <4>1, <4>2, <5>1
      <4>5. CASE Bytes(out) # <<>>
        <5>1. Len(joined) \in Nat \ {0} /\ joined[Len(joined)] = LF
          BY <1>0, <4>3, <4>5, JoinEndsLine DEF FIXED, TERMINATED_CRLF
        <5> HIDE DEF joined
        <5>2. p \in 1..Len(joined) /\ joined[p] = LF
          BY <4>1, <4>2, <5>1
        <5> QED
          BY <1>0, <3>3, <4>1, <4>2, <5>2, TerminatorFacts
      <4> QED
        BY <4>4, <4>5
    <3> QED
      BY <3>4, <3>5
  <2>4. part \in Seq(Byte) /\ Len(part) = nl /\ \A i \in 1..nl : part[i] = buf[i]
    BY <2>1, <2>2, <2>3, LineAndTerminator
  <2>5. rest \in Rests /\ Len(rest) = Len(buf) - nl
    BY <2>1, <2>2, BufferParts DEF Rests
  <2>6. record \in Seq(Byte)
    BY <2>2, BufferParts, StripCrType
  <2> HIDE DEF record, rest
  <2> QED
    BY <2>2, <2>4, <2>5, <2>6
<1>3. CASE EmitsLast
  <2>1. pc = "more" /\ ~Grown /\ buf # <<>> /\ FillDone /\ framing # FIXED
    BY <1>3 DEF EmitsLast, Places
  <2>2. eof /\ Len(buf) = before /\ Len(buf) # 0
    <3>1. need = before + LookAhead /\ before <= Len(buf) /\ before \in Nat
      BY <2>1 DEF Places, Ends, TypeOK
    <3>2. Len(buf) < need /\ Len(buf) = before
      BY <1>0, <2>1, <3>1, LengthFacts DEF Grown
    <3>3. pc \in Filling
      BY <2>1 DEF Filling
    <3> QED
      BY <1>0, <2>1, <3>2, <3>3, FillFailed, EmptySeq
  <2>3. src_pos = Len(input.image) /\ Len(buf) \in 1..before /\ buf[Len(buf)] # LF
    BY <1>0, <2>1, <2>2 DEF Ends
  <2>4. buf[Len(buf)] = input.image[Len(input.image)] /\ input.image # <<>>
    <3>1. Len(buf) \in 1..Len(buf) /\ src_pos - Len(buf) + Len(buf) = src_pos /\ Len(buf) <= src_pos
      BY <1>0, <2>2 DEF Window
    <3>2. Len(input.image) # 0
      BY <1>0, <2>2, <2>3, <3>1
    <3> QED
      BY <1>0, <2>3, <3>1, <3>2, EmptySeq DEF Window
  <2>5. LastLine(input.image) = <<>>
    BY <1>0, <2>1 DEF ProperlyTerminated, Framing, FIXED, TERMINATED_LF, TERMINATED_CRLF
  <2> QED
    BY <1>0, <2>3, <2>4, <2>5, NoLastLine
<1> QED
  BY <1>1, <1>2, <1>3 DEF Emits

\* The records joined stay what is consumed.
LEMMA JoinedStep ==
  TypeOK /\ Places /\ Window /\ Ends /\ Joined /\ [Next]_vars => Joined'
<1> SUFFICES ASSUME TypeOK, Places, Window, Ends, Joined, [Next]_vars,
                    ~input'.lenient, ProperlyTerminated', pc' # "error"
             PROVE  LET joined == JoinRecords(Bytes(out'), framing')
                    IN  /\ Len(joined) = src_pos' - Len(buf')
                        /\ \A i \in 1..Len(joined) : joined[i] = input'.image[i]
  BY DEF Joined
<1> DEFINE joined == JoinRecords(Bytes(out), framing)
<1>0. /\ buf \in Seq(Byte) /\ Len(buf) \in Nat /\ framing \in Framing /\ src_pos \in Nat
      /\ out \in Seq(IdocRecord) /\ Bytes(out) \in Seq(Seq(Byte))
      /\ FIXED \in Framing
  BY LenProperties, BytesType DEF TypeOK, Framing
<1>1. input' = input
  BY DEF Next, Step, Call, Read, Detect, FixedMagic, FixedBlock, SearchLine, More,
         EmitLine, Malformed, Return, Emit, vars
<1>2. pc # "error"
  BY DEF Next, Step, Call, Read, Filling, Detect, FixedMagic, FixedBlock, SearchLine, More, vars
<1>3. ASSUME UNCHANGED <<framing, out>>,
             src_pos' - Len(buf') = src_pos - Len(buf)
      PROVE  LET j == JoinRecords(Bytes(out'), framing')
             IN  /\ Len(j) = src_pos' - Len(buf')
                 /\ \A i \in 1..Len(j) : j[i] = input'.image[i]
  BY <1>1, <1>2, <1>3 DEF Joined, ProperlyTerminated
<1>4. CASE Read
  <2>1. UNCHANGED <<framing, out>>
    BY <1>4 DEF Read
  <2>2. src_pos' - Len(buf') = src_pos - Len(buf)
    <3>1. CASE UNCHANGED <<src_pos, buf, high_water>>
      BY <3>1
    <3>2. ASSUME NEW n \in 1..ReadSize, src_pos' = src_pos + n, Len(buf') = Len(buf) + n
          PROVE  src_pos' - Len(buf') = src_pos - Len(buf)
      BY <1>0, <3>2, LengthFacts
    <3> QED
      BY <1>4, <3>1, <3>2, ReadCases
  <2> QED
    BY <1>3, <2>1, <2>2
<1>5. CASE Decides
  <2>1. UNCHANGED <<src_pos, buf, out>>
    BY <1>5 DEF Decides
  <2>2. CASE UNCHANGED <<framing, framing_known>>
    BY <1>3, <2>1, <2>2
  <2>3. CASE pc = "detect"
    <3>1. framing = FIXED /\ Bytes(out) = <<>>
      BY <1>0, <2>3, BytesType DEF Places
    <3>2. framing' \in Framing
      BY TypeStep DEF TypeOK
    <3>3. joined = <<>> /\ JoinRecords(Bytes(out'), framing') = <<>>
      <4>1. \E r : r \in Seq(Byte)
        BY EmptySeq
      <4> QED
        BY <1>0, <2>1, <3>1, <3>2, <4>1, JoinAppend
    <3>4. Len(joined) = src_pos - Len(buf)
      <4>1. ProperlyTerminated
        BY <3>1 DEF ProperlyTerminated, FIXED, TERMINATED_LF, TERMINATED_CRLF
      <4> QED
        BY <1>1, <1>2, <4>1 DEF Joined
    <3> QED
      BY <2>1, <3>3, <3>4
  <2> QED
    BY <1>5, <2>2, <2>3 DEF Decides
<1>6. CASE Returns
  <2>1. PICK how \in Stopped, rest \in Rests :
          Return(how, rest) /\ (how = "end" /\ ~input.lenient => eof /\ buf = <<>>)
    BY <1>6 DEF Returns
  <2>2. UNCHANGED <<src_pos, framing, out>> /\ how = "end" /\ buf' = rest
    BY <2>1 DEF Return, Stopped
  <2>3. buf = <<>> /\ rest = <<>>
    <3>1. Len(rest) \in Nat /\ Len(rest) <= Len(buf) /\ rest \in Seq(Byte) /\ buf = <<>>
      BY <1>1, <2>1, <2>2, RestShorter
    <3> QED
      BY <1>0, <3>1, EmptySeq
  <2> QED
    BY <1>3, <2>2, <2>3
<1>7. CASE Emits
  <2>1. framing' = framing
    BY <1>7, EmitsOne DEF Emit
  <2>2. ~input.lenient /\ ProperlyTerminated
    BY <1>1, <2>1 DEF ProperlyTerminated
  <2>3. PICK record \in Seq(Byte), rest \in Rests :
          LET part == record \o Terminator(framing)
          IN  /\ Emit(record, rest)
              /\ part \in Seq(Byte)
              /\ Len(part) <= Len(buf)
              /\ \A i \in 1..Len(part) : part[i] = buf[i]
              /\ Len(rest) = Len(buf) - Len(part)
    BY <1>2, <1>7, <2>2, EmitsWhatIsRead
  <2> DEFINE part == record \o Terminator(framing)
             r == [document_key |-> KeyOf(record), record_index |-> record_index,
                   is_control |-> IsControlRecord(record), bytes |-> record]
  <2>4. out' = Append(out, r) /\ buf' = rest /\ src_pos' = src_pos
    BY <2>3 DEF Emit
  <2>5. r \in IdocRecord /\ r.bytes = record
    BY DEF IdocRecord, KeyOf, IsControlRecord, MagicAt, TypeOK
  <2> HIDE DEF r
  <2>6. Bytes(out') = Append(Bytes(out), record)
    BY <1>0, <2>4, <2>5, BytesAppend
  <2>7. JoinRecords(Bytes(out'), framing') = joined \o part /\ joined \in Seq(Byte)
    <3>1. /\ JoinRecords(Append(Bytes(out), record), framing) = joined \o record \o Terminator(framing)
          /\ joined \in Seq(Byte)
      BY <1>0, JoinAppend
    <3>2. joined \o record \o Terminator(framing) = joined \o part
      <4>1. Terminator(framing) \in Seq(Byte)
        BY <1>0, TerminatorFacts
      <4> HIDE DEF joined
      <4> QED
        BY <3>1, <4>1, ConcatAssociative
    <3> QED
      BY <2>1, <2>6, <3>1, <3>2
  <2>8. Len(joined) = src_pos - Len(buf) /\ \A i \in 1..Len(joined) : joined[i] = input.image[i]
    BY <1>2, <2>2 DEF Joined
  <2> HIDE DEF joined, part
  <2>9. /\ part \in Seq(Byte) /\ Len(part) <= Len(buf)
        /\ \A i \in 1..Len(part) : part[i] = buf[i]
        /\ Len(rest) = Len(buf) - Len(part)
    BY <2>3 DEF part
  <2>10. /\ Len(joined \o part) = src_pos - (Len(buf) - Len(part))
         /\ \A i \in 1..Len(joined \o part) : (joined \o part)[i] = input.image[i]
    BY <2>7, <2>8, <2>9, JoinedGrows
  <2> QED
    BY <1>1, <2>4, <2>7, <2>9, <2>10
<1>8. CASE UNCHANGED vars
  BY <1>3, <1>8 DEF vars
<1> QED
  BY <1>4, <1>5, <1>6, <1>7, <1>8, StepKinds

\* In the initial states nothing is read.
LEMMA RawInit == Init => RawInv
<1> SUFFICES ASSUME Init
             PROVE  RawInv
  OBVIOUS
<1>0. TypeOK
  BY InitType DEF IndInv
<1>1. buf = <<>> /\ Len(buf) = 0 /\ src_pos = 0 /\ eof = FALSE /\ pc = "idle" /\ out = <<>>
  BY DEF Init
<1>2. Window
  BY <1>1 DEF Window
<1>3. Ends
  BY <1>1 DEF Ends
<1>4. Joined
  <2>1. Bytes(out) = <<>> /\ Bytes(out) \in Seq(Seq(Byte)) /\ framing \in Framing
    BY <1>0, <1>1, BytesType DEF TypeOK
  <2>2. JoinRecords(Bytes(out), framing) = <<>>
    <3>1. \E r : r \in Seq(Byte)
      BY EmptySeq
    <3> QED
      BY <2>1, <3>1, JoinAppend
  <2> QED
    BY <1>1, <2>2 DEF Joined
<1> QED
  BY <1>2, <1>3, <1>4 DEF RawInv

-----------------------------------------------------------------------------
(* The theorems.                                                           *)

\* The invariant is inductive.
THEOREM StreamerInvariant == Spec => []IndInv
<1>1. IndInv /\ [Next]_vars => IndInv'
  BY TypeStep, PlacesStep, MemoryStep, KeysStep DEF IndInv
<1> QED
  BY <1>1, InitType, PTL DEF Spec

\* Every variable keeps its type (the members of RecordStreamer).
THEOREM StreamerTypeCorrect == Spec => []TypeOK
<1>1. IndInv => TypeOK
  BY DEF IndInv
<1> QED
  BY <1>1, StreamerInvariant, PTL

\* The buffer never holds more than one record and what one read adds to it (Fill),
\* for every file and any sizes of records and reads.
THEOREM StreamerBoundedMemory == Spec => []BoundedMemory
<1>1. IndInv => BoundedMemory
  BY DEF IndInv, Memory
<1> QED
  BY <1>1, StreamerInvariant, PTL

\* Records are numbered without gaps and the document key rises at control records
\* only (Emit).
THEOREM StreamerKeysFollowControls == Spec => []KeysFollowControls
<1>1. IndInv => KeysFollowControls
  BY DEF IndInv
<1> QED
  BY <1>1, StreamerInvariant, PTL

\* sap_idoc_read_raw, then COPY with the framing of the file, reproduces it byte for
\* byte (Next, JoinRecords): for every file whose lines end as the framing says.
THEOREM StreamerRawRoundTrip == Spec => []RawRoundTrip
<1>1. IndInv /\ RawInv /\ [Next]_vars => RawInv'
  BY WindowStep, EndsStep, JoinedStep DEF IndInv, RawInv
<1>2. Spec => []RawInv
  BY <1>1, RawInit, StreamerInvariant, PTL DEF Spec
<1>3. IndInv /\ RawInv => RawRoundTrip
  <2> SUFFICES ASSUME TypeOK, Ends, Joined, pc = "end", ~input.lenient, ProperlyTerminated
               PROVE  JoinRecords(Bytes(out), framing) = input.image
    BY DEF IndInv, RawInv, RawRoundTrip, Bytes
  <2> DEFINE joined == JoinRecords(Bytes(out), framing)
  <2>1. eof /\ buf = <<>> /\ src_pos = Len(input.image) /\ Len(buf) = 0
    BY DEF Ends
  <2>2. joined \in Seq(Byte)
    <3>1. Bytes(out) \in Seq(Seq(Byte)) /\ framing \in Framing /\ \E r : r \in Seq(Byte)
      BY BytesType, EmptySeq DEF TypeOK
    <3> QED
      BY <3>1, JoinAppend
  <2>3. Len(joined) = src_pos - Len(buf) /\ \A i \in 1..Len(joined) : joined[i] = input.image[i]
    BY DEF Joined
  <2>4. input.image \in Seq(Byte) /\ Len(input.image) \in Nat
    BY LenProperties DEF TypeOK
  <2> HIDE DEF joined
  <2>5. joined = input.image
    BY <2>1, <2>2, <2>3, <2>4, SeqEqual
  <2> QED
    BY <2>5 DEF joined
<1> QED
  BY <1>2, <1>3, StreamerInvariant, PTL

=============================================================================
