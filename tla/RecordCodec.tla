----------------------------- MODULE RecordCodec -----------------------------
(***************************************************************************)
(* One record on its way through the codec: field values are put into an   *)
(* SDATA (sap_idoc_encode_sdata), the SDATA and a header into a data       *)
(* record (sap_idoc_encode_data_record) or 36 values into a control record *)
(* (sap_idoc_encode_control), and the record's bytes are read back by      *)
(* sap_idoc_read, sap_idoc_read_segment or sap_idoc_read_control.  The     *)
(* bytes of an SDATA may also come from a file somebody else wrote.        *)
(*                                                                         *)
(* src/src/idoc_encoder.cpp, src/src/idoc/idoc_format.cpp,                 *)
(* src/src/idoc_reader.cpp, src/src/idoc_typed_reader.cpp.                 *)
(***************************************************************************)
EXTENDS TypedValue

CONSTANTS
  SDATA_LEN,   \* the bytes of an SDATA (1000)
  Cases        \* what is encoded and how it is read, in groups: a sequence of sets

\* A field of a fixed record: its first byte, counted from 0, and its length.
Field(offset, length) == [offset |-> offset, length |-> length]

EDI_DD40_FIELDS ==
  [SEGNAM |-> Field(0, 30), MANDT |-> Field(30, 3), DOCNUM |-> Field(33, 16),
   SEGNUM |-> Field(49, 6), PSGNUM |-> Field(55, 6), HLEVEL |-> Field(61, 2),
   SDATA |-> Field(63, SDATA_LEN)]

\* The 36 fields of a control record.
ControlOffsets ==
  << 0, 10, 13, 29, 33, 35, 36, 37, 38, 39, 69, 99, 129, 132, 135, 136, 142, 148,
     158, 160, 162, 172, 193, 263, 273, 275, 277, 287, 308, 378, 386, 392, 406, 420, 434, 504 >>

ControlLengths ==
  << 10, 3, 16, 4, 2, 1, 1, 1, 1, 30, 30, 30, 3, 3, 1, 6, 6, 10,
     2, 2, 10, 21, 70, 10, 2, 2, 10, 21, 70, 8, 6, 14, 14, 14, 70, 20 >>

EDI_DC40_FIELDS == [i \in 1..36 |-> Field(ControlOffsets[i], ControlLengths[i])]

DATA_RECORD_LEN == 63 + SDATA_LEN
CONTROL_RECORD_LEN == 524

\* The letters of "EDI_DC", which every control record starts with.
Magic == <<69, 68, 73, 95, 68, 67>>
IsControlRecord(record) == IsPrefix(Magic, record)

Text == Seq(Byte)
Rule == [offset : Int, length : Int, datatype : STRING, decimals : Int]
Header == [SEGNAM : Text, MANDT : Text, DOCNUM : Int, SEGNUM : Int, PSGNUM : Int, HLEVEL : Int]

ASSUME CodecAssumption ==
  /\ SDATA_LEN \in Nat \ {0}
  /\ \A g \in DOMAIN Cases : \A c \in Cases[g] :
       /\ c.origin \in {"sql", "file", "control"}
       /\ c.rules \in Seq(Rule)
       /\ c.values \in Seq(Text)
       /\ c.header \in Header
       /\ c.encoding \in TextEncodings
       /\ c.typed \in BOOLEAN /\ c.strict \in BOOLEAN
       \* SQL text is UTF-8; the SDATA of a file is any SDATA_LEN bytes.
       /\ c.origin # "file" => \A i \in DOMAIN c.values : WellFormed(c.values[i])
       /\ c.origin = "file" => Len(c.values) = 1 /\ Len(c.values[1]) = SDATA_LEN

-----------------------------------------------------------------------------
(* Fields of a record.                                                     *)

Blanks(n) == [i \in 1..n |-> Blank]

GetFieldRaw(record, f) == SubSeq(record, f.offset + 1, f.offset + f.length)

\* (Mutant) the loop starts one byte early.
SetFromBefore(record, f, value) ==
  [b \in DOMAIN record |->
     IF b - f.offset \in 0..f.length
     THEN IF b - f.offset \in DOMAIN value THEN value[b - f.offset] ELSE Blank
     ELSE record[b]]

\* The value from the left, cut at the field's length, then blanks.
SetFieldRaw(record, f, value) ==
  [b \in DOMAIN record |->
     IF b - f.offset \in 1..f.length
     THEN IF b - f.offset \in DOMAIN value THEN value[b - f.offset] ELSE Blank
     ELSE record[b]]

\* The low-order digits of n; a negative number is 0.
ZeroPad(n, width) ==
  [i \in 1..width |-> 48 + (WithoutDigits(Larger(n, 0), width - i) % 10)]

EncodeDataRecord(header, sdata) ==
  LET D == EDI_DD40_FIELDS
      put(record, name, value) == SetFieldRaw(record, D[name], value)
      number(record, name) == put(record, name, ZeroPad(header[name], D[name].length))
      texts == put(put(Blanks(DATA_RECORD_LEN), "SEGNAM", header.SEGNAM), "MANDT", header.MANDT)
      numbers == number(number(number(number(texts, "DOCNUM"), "SEGNUM"), "PSGNUM"), "HLEVEL")
  IN  put(numbers, "SDATA", sdata)

\* Values beyond the 36th are dropped.
EncodeControl(values) ==
  LET put[n \in 0..36] ==
        IF n = 0 THEN Blanks(CONTROL_RECORD_LEN)
        ELSE IF n \in DOMAIN values THEN SetFieldRaw(put[n - 1], EDI_DC40_FIELDS[n], values[n])
        ELSE put[n - 1]
  IN  put[36]

\* The bounds check of EncodeSdata and ReadSegmentBind.
InBounds(r) ==
  /\ r.offset >= 0
  /\ r.length >= 0
  /\ r.offset <= SDATA_LEN
  /\ r.length <= SDATA_LEN - r.offset

-----------------------------------------------------------------------------
VARIABLES
  case,    \* what is encoded and how it is read; constant
  sdata,   \* the SDATA being composed
  record,  \* the encoded record
  row,     \* sap_idoc_read: the columns of the record; sap_idoc_read_control: its 36
  next,    \* the field the current loop is at
  cells,   \* sap_idoc_read_segment: the values of the fields read so far
  pc

vars == <<case, sdata, record, row, next, cells, pc>>

Init ==
  /\ \E g \in DOMAIN Cases : case \in Cases[g]
  /\ sdata = IF case.origin = "file" THEN case.values[1] ELSE Blanks(SDATA_LEN)
  /\ record = <<>>
  /\ row = <<>>
  /\ next = 1
  /\ cells = <<>>
  /\ pc = CASE case.origin = "sql" -> "sdata"
            [] case.origin = "file" -> "record"
            [] case.origin = "control" -> "control"

\* EncodeSdata, one field; the lists are of one length.
EncodeField ==
  /\ pc = "sdata"
  /\ Len(case.rules) = Len(case.values)
  /\ next \in DOMAIN case.rules
  /\ InBounds(case.rules[next])
  /\ sdata' = SetFieldRaw(sdata, case.rules[next], case.values[next])
  /\ next' = next + 1
  /\ UNCHANGED <<case, record, row, cells, pc>>

\* EncodeSdata throws, or the SDATA becomes a VARCHAR and the library refuses what
\* is not UTF-8.
SdataRefused ==
  \/ Len(case.rules) # Len(case.values)
  \/ next \in DOMAIN case.rules /\ ~InBounds(case.rules[next])
  \/ next > Len(case.rules) /\ ~WellFormed(sdata)

RefuseSdata ==
  /\ pc = "sdata"
  /\ SdataRefused
  /\ pc' = "not_encoded"
  /\ UNCHANGED <<case, sdata, record, row, next, cells>>

EncodedSdata ==
  /\ pc = "sdata"
  /\ Len(case.rules) = Len(case.values)
  /\ next > Len(case.rules)
  /\ WellFormed(sdata)
  /\ pc' = "record"
  /\ UNCHANGED <<case, sdata, record, row, next, cells>>

\* EncodeDataRecordFun, or the same bytes in a file.
EncodeRecord ==
  /\ pc = "record"
  /\ record' = EncodeDataRecord(case.header, sdata)
  /\ pc' = IF IsControlRecord(record') THEN "skipped" ELSE "read"
  /\ UNCHANGED <<case, sdata, row, next, cells>>

\* sap_idoc_read: the header as it stands, the SDATA decoded.  The query fails, and
\* row stays empty, when the SDATA does not decode or a header field is no UTF-8.
Column(name) == RTrim(GetFieldRaw(record, EDI_DD40_FIELDS[name]))

ReadIdocScan ==
  /\ pc = "read"
  /\ LET raw == GetFieldRaw(record, EDI_DD40_FIELDS.SDATA)
         header == DOMAIN EDI_DD40_FIELDS \ {"SDATA"}
     IN  row' = IF Decodes(raw, case.encoding) /\ \A name \in header : WellFormed(Column(name))
                THEN [name \in DOMAIN EDI_DD40_FIELDS |->
                        IF name = "SDATA" THEN DecodeText(raw, case.encoding) ELSE Column(name)]
                ELSE <<>>
  /\ next' = 1
  /\ pc' = "fields"
  /\ UNCHANGED <<case, sdata, record, cells>>

\* ReadSegmentScan: the bytes of a field, and what they are read as.
Slice(i) == GetFieldRaw(GetFieldRaw(record, EDI_DD40_FIELDS.SDATA), case.rules[i])
TextOf(i) == DecodeText(Slice(i), case.encoding)
KindOf(i) == IF case.typed THEN Kind(case.rules[i]) ELSE "text"
Parsed(i) == ParseTypedValue(case.rules[i], TextOf(i))

\* A field that does not decode, or in strict mode is no value of its type, ends
\* the query.  (ReadSegmentBind has refused rules out of bounds.)
FieldThrows(i) ==
  \/ ~InBounds(case.rules[i])
  \/ ~Decodes(Slice(i), case.encoding)
  \/ KindOf(i) # "text" /\ case.strict /\ ~Parsed(i).ok

ReadField ==
  /\ pc = "fields"
  /\ next \in DOMAIN case.rules
  /\ ~FieldThrows(next)
  /\ cells' = Append(cells, IF KindOf(next) = "text" THEN RTrim(TextOf(next))
                            ELSE IF Parsed(next).ok THEN Parsed(next)
                            ELSE NullValue)
  /\ next' = next + 1
  /\ UNCHANGED <<case, sdata, record, row, pc>>

RefuseField ==
  /\ pc = "fields"
  /\ next \in DOMAIN case.rules
  /\ FieldThrows(next)
  /\ pc' = "refused"
  /\ UNCHANGED <<case, sdata, record, row, next, cells>>

ReadDone ==
  /\ pc = "fields"
  /\ next \notin DOMAIN case.rules
  /\ pc' = "done"
  /\ UNCHANGED <<case, sdata, record, row, next, cells>>

EncodeControlRecord ==
  /\ pc = "control"
  /\ record' = EncodeControl(case.values)
  /\ pc' = IF IsControlRecord(record') THEN "read_control" ELSE "skipped"
  /\ UNCHANGED <<case, sdata, row, next, cells>>

\* sap_idoc_read_control: every field decoded and trimmed; one that does not
\* decode ends the query.
ReadIdocControlScan ==
  /\ pc = "read_control"
  /\ LET raw(i) == GetFieldRaw(record, EDI_DC40_FIELDS[i])
         decodes == \A i \in 1..36 : Decodes(raw(i), case.encoding)
     IN  /\ row' = IF decodes THEN [i \in 1..36 |-> RTrim(DecodeText(raw(i), case.encoding))]
                   ELSE <<>>
         /\ pc' = IF decodes THEN "done" ELSE "refused"
  /\ UNCHANGED <<case, sdata, record, next, cells>>

Next ==
  \/ EncodeField \/ RefuseSdata \/ EncodedSdata \/ EncodeRecord
  \/ ReadIdocScan \/ ReadField \/ RefuseField \/ ReadDone
  \/ EncodeControlRecord \/ ReadIdocControlScan

Spec == Init /\ [][Next]_vars

-----------------------------------------------------------------------------
(* Properties.                                                             *)

TypeOK ==
  /\ Len(sdata) = SDATA_LEN
  /\ Len(record) \in {0, DATA_RECORD_LEN, CONTROL_RECORD_LEN}
  /\ next \in 1..(Len(case.rules) + 1)
  /\ Len(cells) < Len(case.rules) + 1
  /\ \A i \in DOMAIN case.rules : KindOf(i) = "decimal" =>
       case.rules[i].decimals \in 0..(Width(case.rules[i]) - 1)
  /\ pc \in {"sdata", "not_encoded", "record", "skipped", "read", "fields", "refused", "done",
             "control", "read_control"}

\* What fits into n bytes of a text.
Cut(s, n) == SubSeq(s, 1, IF Len(s) < n THEN Len(s) ELSE n)

\* No two of the rules share a byte.
BytesOf(r) == (r.offset + 1)..(r.offset + r.length)
Disjoint ==
  \A i, j \in DOMAIN case.rules :
    i # j => BytesOf(case.rules[i]) \cap BytesOf(case.rules[j]) = {}

\* A number that is not negative and has at most width digits.
FitsIn(n, width) == n >= 0 /\ WithoutDigits(n, width) = 0

\* What was written is what is read: the text of a field up to the field's length,
\* the numbers of the header that fit their fields, the 36 values of a control
\* record, whatever stands next to them.  Only trailing blanks are lost.
WrittenReadsBack ==
  /\ pc = "done" /\ case.origin = "sql" /\ case.encoding = UTF8 /\ Disjoint =>
       \A i \in DOMAIN cells : KindOf(i) = "text" =>
         cells[i] = RTrim(Cut(case.values[i], case.rules[i].length))
  /\ pc = "done" /\ case.origin # "control" /\ row # <<>> =>
       /\ \A name \in {"DOCNUM", "SEGNUM", "PSGNUM", "HLEVEL"} :
            FitsIn(case.header[name], EDI_DD40_FIELDS[name].length) =>
              Number(row[name]) = case.header[name]
       /\ row.SEGNAM = RTrim(Cut(case.header.SEGNAM, 30))
       /\ row.MANDT = RTrim(Cut(case.header.MANDT, 3))
  /\ pc = "done" /\ case.origin = "control" /\ case.encoding = UTF8 =>
       \A i \in 1..36 :
         row[i] = IF i \in DOMAIN case.values
                  THEN RTrim(Cut(case.values[i], ControlLengths[i])) ELSE <<>>

\* The bytes that stand for code point cp: those of the table, or cp itself.
BytesFor(cp, e) ==
  IF e = CP1252
  THEN {127 + k : k \in {k \in DOMAIN CP1252_HIGH : CP1252_HIGH[k] = cp}}
         \cup ({cp} \cap (0..127 \cup 160..255))
  ELSE {cp}

\* The code points of a well-formed text.
CodePoints(s) ==
  LET from[i \in 1..(Len(s) + 4)] ==
        IF i > Len(s) \/ SequenceLength(s[i]) = 0 THEN <<>>
        ELSE LET len == SequenceLength(s[i])
             IN  <<CodePointAt(s, i, len)>> \o from[i + len]
  IN  from[1]

\* From the text of a field its bytes can be had back: UTF-8 and ASCII text is the
\* field's bytes, and each character of a code page stands for one byte only.
TextLossless ==
  \A i \in DOMAIN cells : KindOf(i) = "text" =>
    LET slice == RTrim(Slice(i))
    IN  IF case.encoding \in {UTF8, ASCII} THEN cells[i] = slice
        ELSE LET cps == CodePoints(cells[i])
             IN  /\ Len(cps) = Len(slice)
                 /\ \A k \in DOMAIN slice : BytesFor(cps[k], case.encoding) = {slice[k]}

\* A slice that is no text in its encoding.
Malformed(slice) ==
  \/ case.encoding = UTF8 /\ ~WellFormed(slice)
  \/ case.encoding = ASCII /\ \E i \in DOMAIN slice : slice[i] > 127

\* Delivered text is well-formed UTF-8 as the Unicode standard has it, and only
\* what is no text, no value or out of bounds is refused.  An SDATA is refused by
\* the encoder only where a character was cut at the end of its field.
RefusesExactlyMalformed ==
  /\ \A i \in DOMAIN cells : KindOf(i) = "text" => WellFormed(cells[i])
  /\ pc = "refused" /\ case.origin # "control" =>
       \/ ~InBounds(case.rules[next])
       \/ Malformed(Slice(next))
       \/ KindOf(next) # "text" /\ case.strict
  /\ pc = "refused" /\ case.origin = "control" =>
       \E i \in 1..36 : Malformed(GetFieldRaw(record, EDI_DC40_FIELDS[i]))
  /\ pc = "not_encoded" =>
       \/ Len(case.rules) # Len(case.values)
       \/ ~Disjoint
       \/ \E i \in DOMAIN case.rules :
            \/ ~InBounds(case.rules[i])
            \/ ~WellFormed(Cut(case.values[i], case.rules[i].length))

\* The number n is what the text of a typed field denotes: a date of the calendar,
\* a time from 000000 to 235959, a decimal of the column's width.
Denotes(rule, text, n) ==
  CASE Kind(rule) = "date" ->
         text = ZeroPad(n, 8) /\ IsDate(n \div 10000, (n \div 100) % 100, n % 100)
    [] Kind(rule) = "time" ->
         text = ZeroPad(n, 6) /\ n <= 235959 /\ (n \div 100) % 100 < 60 /\ n % 100 < 60
    [] Kind(rule) = "decimal" ->
         IsDecimal(text, rule.decimals) /\ IsWritten(n, text, rule.decimals, Width(rule))

IsValue(rule, text) ==
  IF Kind(rule) = "decimal"
  THEN IsDecimal(text, rule.decimals) /\ HasRoom(text, rule.decimals, Width(rule))
  ELSE AllDigits(text) /\ Denotes(rule, text, Number(text))

\* A typed column holds exactly what the text denotes, never a rounded or
\* misread value.  NULL stands for a blank field or the date of zeros, without
\* strict also for text that is no value; strict refuses only such text.
TypedExact ==
  /\ \A i \in DOMAIN cells : KindOf(i) # "text" =>
       LET text == Trimmed(TextOf(i))
           rule == case.rules[i]
       IN  IF cells[i].null
           THEN \/ text = <<>>
                \/ text = Zeros(8) /\ Kind(rule) = "date"
                \/ ~case.strict /\ ~IsValue(rule, text)
           ELSE Denotes(rule, text, cells[i].of)
  /\ pc = "refused" /\ case.origin # "control"
     /\ KindOf(next) # "text" /\ InBounds(case.rules[next]) /\ ~Malformed(Slice(next)) =>
         ~IsValue(case.rules[next], Trimmed(TextOf(next)))

\* A decimal written with all the digits its scale has fits its column, however
\* full the field: the width of the column follows from the field's length.
FullScale(rule, text) ==
  /\ IsDecimal(text, rule.decimals)
  /\ Cardinality({i \in Digits(text) : i > PointAt(text)}) = rule.decimals

FullScaleFits ==
  \A i \in DOMAIN case.rules :
    /\ case.origin # "control" /\ KindOf(i) = "decimal"
    /\ i \in DOMAIN cells \/ (pc = "refused" /\ next = i)
    /\ InBounds(case.rules[i])
    /\ ~Malformed(Slice(i))
    /\ FullScale(case.rules[i], Trimmed(TextOf(i)))
    => i \in DOMAIN cells /\ ~cells[i].null

=============================================================================
