-------------------------- MODULE SegmentDictionary --------------------------
(***************************************************************************)
(* A segment dictionary's way into use: it is imported from SAP's field    *)
(* list (sap_idoc_dict_from_fields) or its offsets are computed            *)
(* (sap_idoc_dict_offsets), it is validated (sap_idoc_dict_validate), a    *)
(* reader binds it (sap_idoc_read_segment, sap_idoc_read_fields), and an   *)
(* SDATA is encoded field by field (EncodeSdata).                          *)
(*                                                                         *)
(* src/src/idoc_dict.cpp, src/src/idoc_typed_reader.cpp,                   *)
(* src/src/idoc_xml_funcs.cpp, src/src/idoc/idoc_format.cpp.               *)
(***************************************************************************)
EXTENDS Integers, Sequences, FiniteSets

CONSTANTS
  SDATA_LEN,     \* the bytes of an SDATA (1000)
  INT64_MAX,     \* the largest int64_t
  INT32_MAX,     \* the largest int32_t
  Dictionaries   \* the dictionaries, or field lists of SAP, that are put to use

Int64 == (-INT64_MAX - 1)..INT64_MAX

\* A row of a dictionary; a segment name by its rank in the order of names.  The
\* number of a column that is NULL is 0 (ToI64).
DictRow ==
  [segnam : Nat, field_pos : Int64, offset : Int64, length : Int64,
   null : SUBSET {"offset", "length"}]

ASSUME DictionaryAssumption ==
  /\ SDATA_LEN \in Nat \ {0}
  /\ INT32_MAX \in Nat
  /\ INT64_MAX \in Nat
  /\ SDATA_LEN <= INT32_MAX
  /\ 2 * INT32_MAX <= INT64_MAX
  /\ \A d \in Dictionaries :
       /\ d \in Seq(DictRow)
       /\ \A i \in DOMAIN d : \A column \in d[i].null : d[i][column] = 0

\* LoadRows: stably sorted by segment and field position.
Precedes(d, i, j) ==
  \/ d[i].segnam < d[j].segnam
  \/ d[i].segnam = d[j].segnam /\ d[i].field_pos < d[j].field_pos
  \/ d[i].segnam = d[j].segnam /\ d[i].field_pos = d[j].field_pos /\ i < j

LoadRows(d) ==
  LET rank(i) == Cardinality({j \in DOMAIN d : Precedes(d, j, i)}) + 1
  IN  [k \in DOMAIN d |-> d[CHOOSE i \in DOMAIN d : rank(i) = k]]

\* The conversion of an int64_t to an int32_t.
Narrowed(n) == ((n + INT32_MAX + 1) % (2 * (INT32_MAX + 1))) - INT32_MAX - 1

\* int64_t addition as the build does it.
Wrapped(n) ==
  IF n > INT64_MAX THEN n - 2 * (INT64_MAX + 1)
  ELSE IF n < -INT64_MAX - 1 THEN n + 2 * (INT64_MAX + 1)
  ELSE n

-----------------------------------------------------------------------------
VARIABLES
  given,     \* (history) the dictionary as it was given, sorted
  origin,    \* (history) "table", "offsets" were computed, or "fields" of SAP
  rows,
  next,      \* the row the current loop is at
  running,   \* OffsetsInit: the width of the segment so far
  prev_end,  \* ValidateInit: the end of the previous field, or -1
  seen_pos,  \* ValidateInit: the field positions of the segment so far
  problems,  \* ValidateInit: [row, problem]
  sdata,     \* EncodeSdata: which field each byte belongs to, 0 for a blank
  segment,   \* the segment that is encoded
  pc

vars == <<given, origin, rows, next, running, prev_end, seen_pos, problems, sdata,
          segment, pc>>

Blank == [b \in 1..SDATA_LEN |-> 0]

Init ==
  /\ origin \in {"table", "offsets", "fields"}
  /\ \E d \in Dictionaries : given = IF origin = "fields" THEN d ELSE LoadRows(d)
  /\ rows = given
  /\ next = 1
  /\ running = 0
  /\ prev_end = -1
  /\ seen_pos = {}
  /\ problems = {}
  /\ sdata = Blank
  /\ segment = 0
  /\ pc = CASE origin = "fields" -> "import"
            [] origin = "offsets" -> "offsets"
            [] OTHER -> "validate"

\* (Mutant) the segments are not told apart.
FirstOfDictionary(n) == n = 1

\* The row before this one is of another segment (or there is none).
FirstOfSegment(n) == n = 1 \/ rows[n - 1].segnam # rows[n].segnam

\* DictFromFieldsFun, one field: its numbers become INTEGERs, a NULL stays.
ImportField ==
  /\ pc = "import"
  /\ next \in DOMAIN rows
  /\ rows' = [rows EXCEPT ![next].field_pos = Narrowed(@), ![next].offset = Narrowed(@),
                          ![next].length = Narrowed(@)]
  /\ next' = next + 1
  /\ UNCHANGED <<given, origin, running, prev_end, seen_pos, problems, sdata, segment, pc>>

\* OffsetsInit, one row: the offset is the width of the fields before it.
Offset ==
  /\ pc = "offsets"
  /\ next \in DOMAIN rows
  /\ LET start == IF FirstOfSegment(next) THEN 0 ELSE running
     IN  /\ rows' = [rows EXCEPT ![next].offset = start, ![next].null = {}]
         /\ running' = Wrapped(start + rows[next].length)
  /\ next' = next + 1
  /\ UNCHANGED <<given, origin, prev_end, seen_pos, problems, sdata, segment, pc>>

\* The rows are written to a dictionary, which is validated.
Validate ==
  /\ pc \in {"import", "offsets"}
  /\ next \notin DOMAIN rows
  /\ rows' = LoadRows(rows)
  /\ next' = 1
  /\ pc' = "validate"
  /\ UNCHANGED <<given, origin, running, prev_end, seen_pos, problems, sdata, segment>>

\* ValidateInit: what is wrong with a row, given what came before it.
BadBounds(r) == r.offset < 0 \/ r.length <= 0

\* (Mutant) only the offset is compared with the SDATA.
ExceedsByOffset(r) == r.offset > SDATA_LEN

Exceeds(r) == Wrapped(r.offset + r.length) > SDATA_LEN

\* (Mutant) the end is taken for the last byte.
OverlapsByTwo(r, end) == end >= 0 /\ r.offset < end - 1

Overlaps(r, end) == end >= 0 /\ r.offset < end

ProblemsOf(r, end, seen) ==
  (IF BadBounds(r) THEN {"offset<0 or length<=0"} ELSE {}) \cup
  (IF Exceeds(r) THEN {"field exceeds SDATA"} ELSE {}) \cup
  (IF Overlaps(r, end) THEN {"overlaps the previous field"} ELSE {}) \cup
  (IF r.field_pos \in seen THEN {"duplicate field_pos in segment"} ELSE {})

\* (Mutant) the rows are counted from 0.
FoundBefore(n, r, end, seen) == {[row |-> n - 1, problem |-> p] : p \in ProblemsOf(r, end, seen)}

Found(n, r, end, seen) == {[row |-> n, problem |-> p] : p \in ProblemsOf(r, end, seen)}

\* ValidateInit, one row.
CheckRow ==
  /\ pc = "validate"
  /\ next \in DOMAIN rows
  /\ LET r == rows[next]
         end == IF FirstOfSegment(next) THEN -1 ELSE prev_end
         seen == IF FirstOfSegment(next) THEN {} ELSE seen_pos
     IN  /\ problems' = problems \cup Found(next, r, end, seen)
         /\ seen_pos' = seen \cup {r.field_pos}
         /\ prev_end' = Wrapped(r.offset + r.length)
  /\ next' = next + 1
  /\ UNCHANGED <<given, origin, rows, running, sdata, segment, pc>>

\* A reader binds the dictionary, whatever validation said.
Bind ==
  /\ pc = "validate"
  /\ next \notin DOMAIN rows
  /\ next' = 1
  /\ pc' = "bind"
  /\ UNCHANGED <<given, origin, rows, running, prev_end, seen_pos, problems, sdata, segment>>

\* The bounds check of ReadSegmentBind, ReadFieldsBind and EncodeSdata; it never
\* forms offset + length.
InBounds(r) ==
  /\ r.offset >= 0
  /\ r.length >= 0
  /\ r.offset <= SDATA_LEN
  /\ r.length <= SDATA_LEN - r.offset

\* (Mutant) the sum is compared as it is, with its sign.
SlicesSigned(r) == r.offset >= 0 /\ r.length >= 0 /\ Wrapped(r.offset + r.length) <= SDATA_LEN

\* The check of sap_idoc_to_xml, which forms offset + length and compares it as a
\* size_t: a negative sum is greater than any length.
Slices(r) ==
  /\ r.offset >= 0
  /\ r.length >= 0
  /\ Wrapped(r.offset + r.length) \in 0..SDATA_LEN

\* ReadFieldsBind, one row (ReadSegmentBind: those of its segment).  A NULL column
\* has no number to read, and the bind fails.
BindRow ==
  /\ pc = "bind"
  /\ next \in DOMAIN rows
  /\ IF rows[next].null = {} /\ InBounds(rows[next])
     THEN next' = next + 1 /\ UNCHANGED pc
     ELSE pc' = "refused" /\ UNCHANGED next
  /\ UNCHANGED <<given, origin, rows, running, prev_end, seen_pos, problems, sdata, segment>>

\* A segment is encoded with the bound dictionary.
Encode ==
  /\ pc = "bind"
  /\ next \notin DOMAIN rows
  /\ next' = 1
  /\ segment' \in {rows[n].segnam : n \in DOMAIN rows}
  /\ pc' = "encode"
  /\ UNCHANGED <<given, origin, rows, running, prev_end, seen_pos, problems, sdata>>

\* SetFieldRaw: the bytes of a field.
BytesOf(r) == (r.offset + 1)..(r.offset + r.length)

\* (Mutant) the rows of every segment are passed to EncodeSdata.
EncodeEveryField ==
  /\ pc = "encode"
  /\ next \in DOMAIN rows
  /\ sdata' = [b \in 1..SDATA_LEN |-> IF b \in BytesOf(rows[next]) THEN next ELSE sdata[b]]
  /\ next' = next + 1
  /\ UNCHANGED <<given, origin, rows, running, prev_end, seen_pos, problems, segment, pc>>

\* EncodeSdata, one field; rows of other segments are not passed to it.
EncodeField ==
  /\ pc = "encode"
  /\ next \in DOMAIN rows
  /\ sdata' = IF rows[next].segnam = segment
              THEN [b \in 1..SDATA_LEN |-> IF b \in BytesOf(rows[next]) THEN next ELSE sdata[b]]
              ELSE sdata
  /\ next' = next + 1
  /\ UNCHANGED <<given, origin, rows, running, prev_end, seen_pos, problems, segment, pc>>

Encoded ==
  /\ pc = "encode"
  /\ next \notin DOMAIN rows
  /\ pc' = "done"
  /\ UNCHANGED <<given, origin, rows, next, running, prev_end, seen_pos, problems, sdata, segment>>

Next ==
  \/ ImportField \/ Offset \/ Validate \/ CheckRow \/ Bind \/ BindRow \/ Encode \/ EncodeField \/ Encoded

Spec == Init /\ [][Next]_vars

-----------------------------------------------------------------------------
(* Properties.                                                             *)

\* Validation has seen every row.
Validated == pc \in {"bind", "refused", "encode", "done"}

\* Two fields of a segment share a byte.
Share(i, j) ==
  /\ rows[i].segnam = rows[j].segnam
  /\ BytesOf(rows[i]) \cap BytesOf(rows[j]) # {}

\* Every field lies within the SDATA and has a byte, no two of a segment share
\* one, and the positions of a segment are distinct.
Sound ==
  /\ \A i \in DOMAIN rows : InBounds(rows[i]) /\ rows[i].length > 0
  /\ \A i, j \in DOMAIN rows : i # j => ~Share(i, j)
  /\ \A i, j \in DOMAIN rows :
       i # j /\ rows[i].segnam = rows[j].segnam => rows[i].field_pos # rows[j].field_pos

TypeOK ==
  /\ rows \in Seq(DictRow)
  /\ Len(rows) = Len(given)
  /\ next \in 1..(Len(rows) + 1)
  /\ running \in Int64
  /\ prev_end \in Int64
  /\ seen_pos \subseteq {rows[i].field_pos : i \in DOMAIN rows}
  /\ \A p \in problems : p.row \in DOMAIN rows
  /\ sdata \in [1..SDATA_LEN -> 0..Len(rows)]
  /\ origin = "fields" /\ pc # "import" =>
       \A i \in DOMAIN rows : rows[i].offset <= INT32_MAX /\ rows[i].length <= INT32_MAX
  /\ pc \in {"import", "offsets", "validate", "bind", "refused", "encode", "done"}

\* Every field ends within int64_t.
NoOverflow == \A i \in DOMAIN rows : rows[i].offset + rows[i].length <= INT64_MAX

\* A dictionary validation finds nothing wrong with is sound: it compares a field
\* only with the one before it, and yet no two fields overlap.  (With a field
\* whose end wraps around, validation may find nothing wrong; the INTEGERs of an
\* imported dictionary cannot.)
EmptyMeansSound ==
  Validated /\ (NoOverflow \/ origin = "fields") /\ problems = {} => Sound

\* What validation passes, the readers accept, but for a NULL, which validation
\* takes for 0.
ValidatedBinds ==
  pc = "refused" /\ (NoOverflow \/ origin = "fields") =>
    problems # {} \/ \E i \in DOMAIN rows : rows[i].null # {}

\* The converter to XML slices exactly the fields the readers accept, although it
\* adds offset and length: a sum that wraps around is not taken for a short one.
XmlSlicesAgree == \A i \in DOMAIN rows : Slices(rows[i]) <=> InBounds(rows[i])

\* The width of a segment in the first rows of a dictionary, for each number of rows.
Widths(d, segnam) ==
  LET width[n \in 0..Len(d)] ==
        IF n = 0 THEN 0
        ELSE width[n - 1] + (IF d[n].segnam = segnam THEN d[n].length ELSE 0)
  IN  width

Fits(segnam) == Widths(given, segnam)[Len(given)] <= SDATA_LEN

\* Computed offsets pass validation, if the widths are positive, fit and the
\* positions are distinct.
OffsetsPass ==
  /\ Validated
  /\ origin = "offsets"
  /\ \A i \in DOMAIN given : given[i].length > 0 /\ Fits(given[i].segnam)
  /\ \A i, j \in DOMAIN given :
       i # j /\ given[i].segnam = given[j].segnam => given[i].field_pos # given[j].field_pos
  => problems = {}

\* What is encoded with a dictionary that passed validation reads back: every
\* byte of a field still belongs to it when all fields are written.
EncodedReadsBack ==
  pc = "done" /\ problems = {} =>
    \A i \in DOMAIN rows : rows[i].segnam = segment =>
      \A b \in BytesOf(rows[i]) : sdata[b] = i

=============================================================================
