---------------------------- MODULE XmlConversion ----------------------------
(***************************************************************************)
(* A flat IDoc file is converted to IDoc-XML and back: sap_idoc_to_xml,    *)
(* EmitIdocXml, ParseIdocXml, sap_idoc_read_xml and                        *)
(* sap_idoc_xml_to_records                                                 *)
(* (src/src/idoc_xml_funcs.cpp, src/src/idoc/idoc_xml.cpp).                *)
(*                                                                         *)
(* The hierarchy of the segments is the HLEVEL of a flat record, the       *)
(* nesting of an XML element, and PSGNUM, which is recomputed.  A segment  *)
(* has one field F, the SDATA it covers being the payload; "" stands for   *)
(* blanks.  Of a control record the model keeps TABNAM and IDOCTYP.        *)
(***************************************************************************)
EXTENDS Integers, Sequences, FiniteSets

CONSTANTS
  Inputs,      \* the flat files, as sequences of records
  Dictionary,  \* the segments that have slicing rules
  ElementNames \* the names that are valid as XML element names

\* A control record has a basic type, a data record a segment name, a level, a
\* payload and the number of its parent segment.
IsControl(r) == "idoctyp" \in DOMAIN r
ControlRecord == [idoctyp : STRING]
DataRecord == [segnam : STRING, level : Nat, payload : STRING, psgnum : Nat]

\* A record that starts like a control record is one, so no segment is called so.
ASSUME XmlAssumption ==
  /\ \A file \in Inputs :
       /\ file \in Seq(ControlRecord \cup DataRecord)
       /\ \A i \in DOMAIN file : ~IsControl(file[i]) => file[i].segnam # "EDI_DC40"
  /\ "IDOC" \in ElementNames

\* What the provers do not know of a literal.
ASSUME LiteralsAreStrings ==
  {"", "IDOC", "EDI_DC40", "TABNAM", "IDOCTYP", "F"} \subseteq STRING

-----------------------------------------------------------------------------
VARIABLES
  records,      \* the flat file
  read,         \* the records taken from it (the loop of ToXmlInit)
  idocs,        \* by document: [control, segments], as read or as parsed
  doc,          \* the document a loop is at
  seg,          \* the segment of that document a loop is at
  open_levels,  \* EmitIdocXml: the levels of the open segments
  xml,          \* the tags written, a leaf field being part of its element's
  parsed,       \* ParseIdocXml: the tags read
  elements,     \* ParseIdocXml: the open elements
  last_at_level,\* XmlToRecInit: the last segment number of each level
  out,          \* XmlToRecInit: the flat records
  pc

vars == <<records, read, idocs, doc, seg, open_levels, xml, parsed, elements,
          last_at_level, out, pc>>

NewIdoc == [control |-> {}, segments |-> <<>>]

Init ==
  /\ records \in Inputs
  /\ read = 0
  /\ idocs = <<>>
  /\ doc = 0
  /\ seg = 0
  /\ open_levels = <<>>
  /\ xml = <<>>
  /\ parsed = 0
  /\ elements = <<>>
  /\ last_at_level = <<>>
  /\ out = <<>>
  /\ pc = "group"

\* The fields of an element: blank ones are left out.
Fields(name, value) == IF value = "" THEN {} ELSE {[name |-> name, value |-> value]}

\* XmlFieldValue.
FieldValue(fields, name) ==
  IF \E f \in fields : f.name = name THEN (CHOOSE f \in fields : f.name = name).value ELSE ""

ControlFields(r) == Fields("TABNAM", "EDI_DC40") \cup Fields("IDOCTYP", r.idoctyp)

emitting == <<open_levels, xml>>
parsing == <<parsed, elements>>
flattening == <<last_at_level, out>>

LastOf(s) == s[Len(s)]

-----------------------------------------------------------------------------
(* sap_idoc_to_xml, the records.                                           *)

\* ToXmlInit, one record: a control record begins a document; data before the
\* first one has a document of its own (document_key 0).  A segment with data
\* that the dictionary does not know is refused.
Group ==
  /\ pc = "group"
  /\ read < Len(records)
  /\ LET r == records[read + 1]
         began == IF IsControl(r) \/ idocs = <<>> THEN Append(idocs, NewIdoc) ELSE idocs
         unknown == ~IsControl(r) /\ r.segnam \notin Dictionary
     IN  IF unknown /\ r.payload # ""
         THEN pc' = "refused" /\ UNCHANGED idocs
         ELSE /\ idocs' = IF IsControl(r)
                          THEN [began EXCEPT ![Len(began)].control = ControlFields(r)]
                          ELSE [began EXCEPT ![Len(began)].segments =
                                  Append(@, [segnam |-> r.segnam, hlevel |-> r.level,
                                             fields |-> Fields("F", r.payload)])]
              /\ UNCHANGED pc
  /\ read' = read + 1
  /\ UNCHANGED <<records, doc, seg, emitting, parsing, flattening>>

-----------------------------------------------------------------------------
(* EmitIdocXml.                                                            *)

\* The basic type of a document; a blank one is called IDOC.
TypeName(idoc) ==
  LET idoctyp == FieldValue(idoc.control, "IDOCTYP")
  IN  IF idoctyp = "" THEN "IDOC" ELSE idoctyp

Open(name, fields) == [tag |-> "open", name |-> name, fields |-> fields]
Shut(name) == [tag |-> "close", name |-> name, fields |-> {}]

\* One root for all documents, which have to agree on the basic type.
OpenRoot ==
  /\ pc = "group"
  /\ read = Len(records)
  /\ IF /\ idocs # <<>>
        /\ \A d \in DOMAIN idocs : TypeName(idocs[d]) = TypeName(idocs[1])
        /\ TypeName(idocs[1]) \in ElementNames
     THEN xml' = <<Open(TypeName(idocs[1]), {})>> /\ pc' = "documents"
     ELSE pc' = "refused" /\ UNCHANGED xml
  /\ UNCHANGED <<records, read, idocs, doc, seg, open_levels, parsing, flattening>>

\* The next document and its control record, or the end of the root.
OpenDocument ==
  /\ pc = "documents"
  /\ IF doc < Len(idocs)
     THEN /\ doc' = doc + 1
          /\ seg' = 0
          /\ xml' = xml \o <<Open("IDOC", {}), Open("EDI_DC40", idocs[doc + 1].control),
                             Shut("EDI_DC40")>>
          /\ pc' = "segments"
     ELSE /\ xml' = Append(xml, Shut(TypeName(idocs[1])))
          /\ doc' = 0
          /\ pc' = "parse"
          /\ UNCHANGED seg
  /\ UNCHANGED <<records, read, idocs, open_levels, parsing, flattening>>

\* (Mutant) a segment of the same level stays open.
ClosesDeeper(level) == open_levels # <<>> /\ LastOf(open_levels).level > level

\* close_to: an open segment of the level or a deeper one.
Closes(level) == open_levels # <<>> /\ LastOf(open_levels).level >= level

CloseLevel(level) ==
  /\ Closes(level)
  /\ xml' = Append(xml, Shut(LastOf(open_levels).segnam))
  /\ open_levels' = SubSeq(open_levels, 1, Len(open_levels) - 1)

\* A segment is opened after the segments it does not nest in are closed.
CloseSegment ==
  /\ pc = "segments"
  /\ seg < Len(idocs[doc].segments)
  /\ CloseLevel(idocs[doc].segments[seg + 1].hlevel)
  /\ UNCHANGED <<records, read, idocs, doc, seg, parsing, flattening, pc>>

OpenSegment ==
  /\ pc = "segments"
  /\ seg < Len(idocs[doc].segments)
  /\ LET s == idocs[doc].segments[seg + 1]
     IN  /\ ~Closes(s.hlevel)
         /\ IF s.segnam \in ElementNames
            THEN /\ xml' = Append(xml, Open(s.segnam, s.fields))
                 /\ open_levels' = Append(open_levels, [segnam |-> s.segnam, level |-> s.hlevel])
                 /\ seg' = seg + 1
                 /\ UNCHANGED pc
            ELSE pc' = "refused" /\ UNCHANGED <<xml, open_levels, seg>>
  /\ UNCHANGED <<records, read, idocs, doc, parsing, flattening>>

\* close_to(1) at the end of the document, one segment of it.
CloseRest ==
  /\ pc = "segments"
  /\ seg = Len(idocs[doc].segments)
  /\ CloseLevel(1)
  /\ UNCHANGED <<records, read, idocs, doc, seg, parsing, flattening, pc>>

\* The stacks are locals of the document.
CloseDocument ==
  /\ pc = "segments"
  /\ seg = Len(idocs[doc].segments)
  /\ ~Closes(1)
  /\ xml' = Append(xml, Shut("IDOC"))
  /\ open_levels' = <<>>
  /\ pc' = "documents"
  /\ UNCHANGED <<records, read, idocs, doc, seg, parsing, flattening>>

-----------------------------------------------------------------------------
(* ParseIdocXml.                                                           *)

\* The root is the IDoc itself if it is called so.
RootIsIdoc == xml[1].name = "IDOC"
IdocDepth == IF RootIsIdoc THEN 0 ELSE 1

\* (Mutant) CollectSegment does not go down.
CollectedFlat(tag, depth) ==
  IF depth = IdocDepth THEN Append(idocs, NewIdoc)
  ELSE IF depth > IdocDepth + 1 THEN idocs
  ELSE IF tag.name = "EDI_DC40" THEN [idocs EXCEPT ![Len(idocs)].control = tag.fields]
  ELSE [idocs EXCEPT ![Len(idocs)].segments =
          Append(@, [segnam |-> tag.name, hlevel |-> 1, fields |-> tag.fields])]

\* An opened element, by what it is in: an IDOC begins a document, EDI_DC40 in it
\* is its control record, and all else in it is a segment.
Collected(tag, depth) ==
  IF depth = IdocDepth THEN Append(idocs, NewIdoc)
  ELSE IF depth = IdocDepth + 1 /\ tag.name = "EDI_DC40"
  THEN [idocs EXCEPT ![Len(idocs)].control = tag.fields]
  ELSE [idocs EXCEPT ![Len(idocs)].segments =
          Append(@, [segnam |-> tag.name, hlevel |-> depth - IdocDepth, fields |-> tag.fields])]

\* One tag.  CollectSegment takes a segment before the segments in it, so the
\* segments come in the order of their opening tags.
ParseOpen ==
  /\ pc = "parse"
  /\ parsed < Len(xml)
  /\ xml[parsed + 1].tag = "open"
  /\ idocs' = IF parsed > 0 THEN Collected(xml[parsed + 1], Len(elements))
              ELSE IF RootIsIdoc THEN <<NewIdoc>>
              ELSE <<>>
  /\ elements' = Append(elements, xml[parsed + 1].name)
  /\ parsed' = parsed + 1
  /\ UNCHANGED <<records, read, doc, seg, emitting, flattening, pc>>

\* A closing tag has to close the element that was opened last.
ParseClose ==
  /\ pc = "parse"
  /\ parsed < Len(xml)
  /\ xml[parsed + 1].tag = "close"
  /\ IF elements # <<>> /\ LastOf(elements) = xml[parsed + 1].name
     THEN elements' = SubSeq(elements, 1, Len(elements) - 1) /\ UNCHANGED pc
     ELSE pc' = "malformed" /\ UNCHANGED elements
  /\ parsed' = parsed + 1
  /\ UNCHANGED <<records, read, idocs, doc, seg, emitting, flattening>>

\* A document has a control record or a segment.
Parsed ==
  /\ pc = "parse"
  /\ parsed = Len(xml)
  /\ IF \A d \in DOMAIN idocs : idocs[d].control # {} \/ idocs[d].segments # <<>>
     THEN /\ doc' = 0
          /\ seg' = 0
          /\ pc' = "flatten"
     ELSE pc' = "refused" /\ UNCHANGED <<doc, seg>>
  /\ UNCHANGED <<records, read, idocs, emitting, parsing, flattening>>

-----------------------------------------------------------------------------
(* sap_idoc_read_xml.                                                      *)

\* ReadXmlInit: a row for each field of the element seq of a document, and one for
\* a segment without fields.
RowsOf(document, seq, segnam, hlevel, fields) ==
  {[document_key |-> document, seq |-> seq, segnam |-> segnam, hlevel |-> hlevel, value |-> value] :
     value \in {f.value : f \in fields} \cup (IF fields = {} /\ seq > 0 THEN {""} ELSE {})}

XmlLongRows ==
  (UNION {RowsOf(d, 0, "EDI_DC40", 0, idocs[d].control) : d \in DOMAIN idocs})
  \cup (UNION {UNION {RowsOf(d, n, idocs[d].segments[n].segnam, idocs[d].segments[n].hlevel,
                            idocs[d].segments[n].fields) : n \in DOMAIN idocs[d].segments} :
                d \in DOMAIN idocs})

-----------------------------------------------------------------------------
(* sap_idoc_xml_to_records.                                                *)

SegmentsLeft == doc # 0 /\ seg < Len(idocs[doc].segments)

\* XmlToRecInit, the control record of the next document.
FlattenDocument ==
  /\ pc = "flatten"
  /\ ~SegmentsLeft
  /\ IF doc < Len(idocs)
     THEN /\ doc' = doc + 1
          /\ seg' = 0
          /\ out' = Append(out, [idoctyp |-> FieldValue(idocs[doc + 1].control, "IDOCTYP")])
          /\ last_at_level' = <<>>
          /\ UNCHANGED pc
     ELSE pc' = "done" /\ UNCHANGED <<doc, seg, out, last_at_level>>
  /\ UNCHANGED <<records, read, idocs, emitting, parsing>>

\* (Mutant) the first segment of a level stays its last one.
PutOnce(map, key, value) ==
  [k \in DOMAIN map \cup {key} |-> IF k \in DOMAIN map THEN map[k] ELSE value]

\* last_at_level as a map: a function on the levels that occurred.
Put(map, key, value) ==
  [k \in DOMAIN map \cup {key} |-> IF k = key THEN value ELSE map[k]]

\* (Mutant) the parent is the segment before.
ParentBefore(hlevel) == IF hlevel > 1 THEN seg ELSE 0

\* (Mutant) a segment without parent has parent -1.
ParentOrMinusOne(hlevel) ==
  IF hlevel > 1 /\ hlevel - 1 \in DOMAIN last_at_level THEN last_at_level[hlevel - 1] ELSE -1

\* The parent is the last segment of the level above.
ParentOf(hlevel) ==
  IF hlevel > 1 /\ hlevel - 1 \in DOMAIN last_at_level THEN last_at_level[hlevel - 1] ELSE 0

\* XmlToRecInit, one segment; one with fields the dictionary does not know is
\* refused.
FlattenSegment ==
  /\ pc = "flatten"
  /\ SegmentsLeft
  /\ LET s == idocs[doc].segments[seg + 1]
     IN  IF s.segnam \notin Dictionary /\ s.fields # {}
         THEN pc' = "refused" /\ UNCHANGED <<seg, last_at_level, out>>
         ELSE /\ seg' = seg + 1
              /\ last_at_level' = Put(last_at_level, s.hlevel, seg + 1)
              /\ out' = Append(out, [segnam |-> s.segnam, level |-> s.hlevel,
                                     payload |-> FieldValue(s.fields, "F"), psgnum |-> ParentOf(s.hlevel)])
              /\ UNCHANGED pc
  /\ UNCHANGED <<records, read, idocs, doc, emitting, parsing>>

Next ==
  \/ Group \/ OpenRoot \/ OpenDocument \/ CloseSegment \/ OpenSegment \/ CloseRest
  \/ CloseDocument \/ ParseOpen \/ ParseClose \/ Parsed \/ FlattenDocument \/ FlattenSegment

Spec == Init /\ [][Next]_vars

-----------------------------------------------------------------------------
(* Properties.                                                             *)

\* The position of the control record a data record belongs to, 0 if none.
ControlOf(file, i) ==
  LET controls == {c \in 1..i : IsControl(file[c])}
  IN  IF controls = {} THEN 0 ELSE CHOOSE c \in controls : \A e \in controls : e <= c

\* The segment a data record is in: the nearest record before it, of the same
\* document, with a lower level; 0 if there is none.
ParentRecord(file, i) ==
  LET above == {k \in (ControlOf(file, i) + 1)..(i - 1) : file[k].level < file[i].level}
  IN  IF above = {} THEN 0 ELSE CHOOSE k \in above : \A l \in above : l <= k

\* Its number in the document.
ParentNumber(file, i) ==
  IF ParentRecord(file, i) = 0 THEN 0 ELSE ParentRecord(file, i) - ControlOf(file, i)

\* The segment idoc_xml.hpp says a data record nests in: the last record before it, of
\* the same document, of the level above; 0 if there is none.
LevelAbove(file, i) ==
  LET above == {k \in (ControlOf(file, i) + 1)..(i - 1) : file[k].level = file[i].level - 1}
  IN  IF above = {} THEN 0 ELSE CHOOSE k \in above : \A l \in above : l <= k

NumberAbove(file, i) ==
  IF LevelAbove(file, i) = 0 THEN 0 ELSE LevelAbove(file, i) - ControlOf(file, i)

\* No level is left out in the document of record i, up to it.
Gapless(file, i) ==
  \A k \in (ControlOf(file, i) + 1)..i :
    /\ file[k].level >= 1
    /\ file[k].level <= IF k = ControlOf(file, i) + 1 THEN 1 ELSE file[k - 1].level + 1

\* A file of documents of one named type, its levels without gaps, its PSGNUM
\* consistent with them.
Canonical(file) ==
  /\ file # <<>>
  /\ IsControl(file[1])
  /\ \A i \in DOMAIN file :
       IF IsControl(file[i])
       THEN file[i].idoctyp = file[1].idoctyp /\ file[i].idoctyp \in ElementNames \ {"", "IDOC"}
       ELSE /\ file[i].level >= 1
            /\ file[i].level <= IF IsControl(file[i - 1]) THEN 1 ELSE file[i - 1].level + 1
            /\ file[i].psgnum = ParentNumber(file, i)
            /\ file[i].segnam \in Dictionary \cap ElementNames

TypeOK ==
  /\ read \in 0..Len(records)
  /\ doc \in 0..Len(idocs)
  /\ seg \in Nat
  /\ open_levels \in Seq([segnam : STRING, level : Nat])
  /\ \A n \in DOMAIN xml : xml[n].tag \in {"open", "close"} /\ xml[n].name \in STRING
  /\ parsed \in 0..Len(xml)
  /\ elements \in Seq(STRING)
  /\ out \in Seq(ControlRecord \cup DataRecord)
  /\ pc \in {"group", "documents", "segments", "parse", "flatten", "done", "refused", "malformed"}

\* flat -> xml -> flat is the identity on canonical files.
RoundTrip ==
  Canonical(records) => pc \notin {"refused", "malformed"} /\ (pc = "done" => out = records)

\* The file begins with a control record and has a basic type of its own.
Typed(file) == file # <<>> /\ IsControl(file[1]) /\ file[1].idoctyp \notin {"", "IDOC"}

\* No segment is lost, moved or emptied: whatever the levels are, the data
\* records that come back carry the same segments and payloads in order, and
\* sap_idoc_read_xml shows each of them once, under its document and number.
Carried(file) ==
  [i \in DOMAIN file |->
     IF IsControl(file[i]) THEN file[i] ELSE [segnam |-> file[i].segnam, payload |-> file[i].payload]]

Shown(file) ==
  {[document_key |-> Cardinality({c \in 1..i : IsControl(file[c])}), seq |-> i - ControlOf(file, i),
    segnam |-> file[i].segnam, hlevel |-> out[i].level, value |-> file[i].payload] :
     i \in {i \in DOMAIN file : ~IsControl(file[i])}}

SegmentsSurvive ==
  pc = "done" /\ Typed(records) =>
    /\ Carried(out) = Carried(records)
    /\ {r \in XmlLongRows : r.seq > 0} = Shown(records)

\* The hierarchy survives.  As long as no level is left out, a segment is in the
\* last one of the level above, as idoc_xml.hpp says.  Where one is left out that may
\* be a segment already closed (NestsInLevelAbove); the segment is then in the nearest
\* one before it of any lower level, and becomes one level deeper than that.
HierarchySurvives ==
  pc = "done" /\ Typed(records) =>
    \A i \in DOMAIN out : ~IsControl(out[i]) =>
      /\ Gapless(records, i) => out[i].psgnum = NumberAbove(records, i)
      /\ out[i].psgnum = ParentNumber(records, i)
      /\ out[i].level = IF ParentRecord(records, i) = 0 THEN 1
                        ELSE out[ParentRecord(records, i)].level + 1

\* The levels of the open segments increase: a tag is never closed before one
\* opened inside it.
OpenLevelsIncrease ==
  \A i, j \in DOMAIN open_levels : i < j => open_levels[i].level < open_levels[j].level

\* (Documentation) "a segment at level L nests inside the most recent preceding segment
\* at level L-1", wherever there is such a segment.
NestsInLevelAbove ==
  pc = "done" /\ Typed(records) =>
    \A i \in DOMAIN out :
      ~IsControl(out[i]) /\ LevelAbove(records, i) # 0 => out[i].psgnum = NumberAbove(records, i)

=============================================================================
