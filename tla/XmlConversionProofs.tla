-------------------------- MODULE XmlConversionProofs --------------------------
(***************************************************************************)
(* The safety properties of XmlConversion, for files of any number of      *)
(* records, with any segments and levels.                                  *)
(*                                                                         *)
(* The argument goes from phase to phase.  Grouping lays the documents out *)
(* in the file.  While tags are written, the parser is run beside them     *)
(* (Run): what it has open is what the emitter has open, and what it has   *)
(* gathered mirrors what was emitted, with the depth of a segment for its  *)
(* level.  Hence what is parsed is laid out in the file as well, nested by *)
(* the levels of its records, and is flattened record by record.           *)
(***************************************************************************)
EXTENDS XmlConversion, InductionLemmas, SequenceTheorems, FiniteSetTheorems, TLAPS

FieldSets == SUBSET [name : STRING, value : STRING]
SegmentsOf(Levels) == [segnam : STRING, hlevel : Levels, fields : FieldSets]
IdocsOf(Levels) == [control : FieldSets, segments : Seq(SegmentsOf(Levels))]
Tags == [tag : {"open", "close"}, name : STRING, fields : FieldSets]
OpenLevels == [segnam : STRING, level : Nat]

Emitting == {"documents", "segments"}

\* The variables have their types, and are at rest outside their phase.
Types ==
  /\ records \in Inputs
  /\ read \in 0..Len(records)
  /\ idocs \in Seq(IdocsOf(Nat))
  /\ doc \in 0..Len(idocs)
  /\ seg \in Nat
  /\ open_levels \in Seq(OpenLevels)
  /\ xml \in Seq(Tags)
  /\ parsed \in 0..Len(xml)
  /\ elements \in Seq(STRING)
  /\ \A l \in DOMAIN last_at_level : last_at_level[l] \in Nat
  /\ out \in Seq(ControlRecord \cup DataRecord)
  /\ pc \in {"group", "documents", "segments", "parse", "flatten", "done", "refused", "malformed"}

Phases ==
  /\ pc = "group" => doc = 0 /\ xml = <<>>
  /\ pc \in {"group", "documents", "parse"} => open_levels = <<>>
  /\ pc \in {"group"} \cup Emitting => parsed = 0 /\ elements = <<>>
  /\ pc \in {"group", "parse"} \cup Emitting => out = <<>>
  /\ pc \in {"parse"} \cup Emitting => xml # <<>> /\ read = Len(records)
  /\ pc = "segments" => doc \in 1..Len(idocs) /\ seg <= Len(idocs[doc].segments)
  /\ pc = "parse" => doc = 0
  /\ pc = "flatten" /\ doc # 0 => seg <= Len(idocs[doc].segments)

-----------------------------------------------------------------------------
(* The parser beside the emitter.                                          *)

States == [ok : BOOLEAN, elements : Seq(STRING), idocs : Seq(IdocsOf(Int))]

Start == [ok |-> TRUE, elements |-> <<>>, idocs |-> <<>>]

\* Documents of which document d has one more segment, or its control record.
WithSegment(docs, d, s) == [docs EXCEPT ![d].segments = Append(@, s)]
WithControl(docs, d, c) == [docs EXCEPT ![d].control = c]

\* What Collected makes of an element, under a root that is not called IDOC.
Gather(docs, tag, depth) ==
  IF depth = 1 THEN Append(docs, NewIdoc)
  ELSE IF depth = 2 /\ tag.name = "EDI_DC40"
  THEN WithControl(docs, Len(docs), tag.fields)
  ELSE WithSegment(docs, Len(docs), [segnam |-> tag.name, hlevel |-> depth - 1, fields |-> tag.fields])

\* The state of the parser after one more tag.
Parse(s, tag, first) ==
  IF ~s.ok THEN s
  ELSE IF tag.tag = "open"
  THEN [ok |-> TRUE, elements |-> Append(s.elements, tag.name),
        idocs |-> IF first THEN <<>> ELSE Gather(s.idocs, tag, Len(s.elements))]
  ELSE IF s.elements # <<>> /\ LastOf(s.elements) = tag.name
  THEN [ok |-> TRUE, elements |-> SubSeq(s.elements, 1, Len(s.elements) - 1), idocs |-> s.idocs]
  ELSE [ok |-> FALSE, elements |-> s.elements, idocs |-> s.idocs]

\* Its states from the first tag of x to the last.
IsRun(x, run) ==
  run = [k \in 0..Len(x) |-> IF k = 0 THEN Start ELSE Parse(run[k - 1], x[k], k = 1)]

Run(x) == CHOOSE run : IsRun(x, run)

After(x) == Run(x)[Len(x)]

-----------------------------------------------------------------------------
(* Documents, levels and the hierarchy.                                    *)

Levels(segments) == [k \in DOMAIN segments |-> segments[k].hlevel]

\* Segment p is the nearest before n with a lower level, or there is none and p is 0.
IsParent(levels, p, n) ==
  /\ p \in 0..(n - 1)
  /\ p # 0 => levels[p] < levels[n]
  /\ \A m \in (p + 1)..(n - 1) : levels[m] >= levels[n]

\* The depth of segment n is one more than its parent's.
NestedAt(levels, depths, n) ==
  \E p \in 0..(n - 1) :
    IsParent(levels, p, n) /\ depths[n] = IF p = 0 THEN 1 ELSE depths[p] + 1

\* idoc is what the parser gathers from the first n segments of original.
Mirrors(idoc, original, n) ==
  /\ idoc.control = original.control
  /\ Len(idoc.segments) = n
  /\ \A k \in 1..n :
       /\ idoc.segments[k].segnam = original.segments[k].segnam
       /\ idoc.segments[k].fields = original.segments[k].fields
       /\ NestedAt(Levels(original.segments), Levels(idoc.segments), k)

\* The open segments are the ancestors of what comes next: each is the nearest before
\* the next one with a lower level, and nothing after the last is below limit.
IsChain(at, stack, levels, n, limit) ==
  /\ at \in [0..Len(stack) -> 0..n]
  /\ at[0] = 0
  /\ \A k \in 1..Len(stack) :
       /\ at[k - 1] < at[k]
       /\ levels[at[k]] = stack[k].level
       /\ \A m \in (at[k - 1] + 1)..at[k] : levels[m] >= stack[k].level
  /\ \A m \in (at[Len(stack)] + 1)..n : levels[m] >= limit

\* A document is the records from its control record first on.
IsAt(first, idoc) ==
  /\ IsControl(records[first])
  /\ idoc.control = ControlFields(records[first])
  /\ \A k \in 1..Len(idoc.segments) :
       /\ ~IsControl(records[first + k])
       /\ idoc.segments[k].segnam = records[first + k].segnam
       /\ idoc.segments[k].fields = Fields("F", records[first + k].payload)

\* The documents cover the first n records: document d begins at begin[d].
IsLayout(begin, docs, n) ==
  /\ begin \in [1..(Len(docs) + 1) -> Nat]
  /\ begin[1] = 1
  /\ begin[Len(docs) + 1] = n + 1
  /\ \A d \in 1..Len(docs) :
       /\ begin[d + 1] = begin[d] + Len(docs[d].segments) + 1
       /\ IsAt(begin[d], docs[d])

\* The levels of the segments of a document in the file.
LevelsFrom(first, segments) == [k \in DOMAIN segments |-> records[first + k].level]

\* They are those of a document.
HasLevels(first, idoc) ==
  \A k \in 1..Len(idoc.segments) : idoc.segments[k].hlevel = records[first + k].level

\* A record of level 0, which the emitter leaves open.
LevelZero == \E i \in 1..Len(records) : ~IsControl(records[i]) /\ records[i].level = 0

-----------------------------------------------------------------------------
(* The inductive invariant.                                                *)

\* What is read is grouped into documents, with the levels of the records.
Grouped ==
  pc \in {"group"} \cup Emitting /\ Typed(records) =>
    IF read = 0 THEN idocs = <<>>
    ELSE \E begin : /\ IsLayout(begin, idocs, read)
                    /\ \A d \in 1..Len(idocs) : HasLevels(begin[d], idocs[d])

\* A segment of level 0 in a document.
ZeroIn(docs) == \E d \in 1..Len(docs) : \E k \in 1..Len(docs[d].segments) : docs[d].segments[k].hlevel = 0

\* The elements below the segments of the document: the root, or also an IDOC that
\* a segment of level 0 left open.
Below(stack, n) ==
  /\ n >= 1
  /\ IF n = 1 THEN stack[1] = xml[1].name ELSE stack[n] = "IDOC" /\ ZeroIn(idocs)

\* What the parser has open is what the emitter has open.
SameOpen ==
  pc \in Emitting =>
    LET now == After(xml)
        n   == Len(now.elements) - Len(open_levels) - 1
    IN  IF ~now.ok THEN ZeroIn(idocs)
        ELSE IF pc = "documents" THEN Below(now.elements, Len(now.elements))
        ELSE /\ Below(now.elements, n)
             /\ now.elements[n + 1] = "IDOC"
             /\ \A k \in 1..Len(open_levels) : now.elements[n + 1 + k] = open_levels[k].segnam

\* The root is named by the first document.
Rooted == pc \in Emitting => idocs # <<>> /\ xml[1].name = TypeName(idocs[1])

\* No segment of the file is called like a control record.
Named ==
  pc \in {"group"} \cup Emitting =>
    \A d \in 1..Len(idocs) : \A k \in 1..Len(idocs[d].segments) :
      idocs[d].segments[k].segnam # "EDI_DC40"

\* The root stays open until the last tag.
RootStays(x) == \A k \in 1..(Len(x) - 1) : Run(x)[k].ok => Run(x)[k].elements # <<>>

RootOpen == RootStays(xml)

\* What the parser has gathered mirrors what was emitted.
SameContent ==
  pc \in Emitting =>
    LET now == After(xml)
        n   == Len(now.elements) - Len(open_levels) - IF pc = "documents" THEN 0 ELSE 1
        s   == idocs[doc].segments
    IN  /\ pc = "segments" =>
             \E at : /\ IsChain(at, open_levels, Levels(s), seg,
                                IF seg < Len(s) THEN s[seg + 1].hlevel ELSE 1)
                     /\ now.ok /\ n = 1 => \A k \in 1..Len(open_levels) :
                                             now.idocs[doc].segments[at[k]].hlevel = k
        /\ now.ok /\ n = 1 =>
             /\ Len(now.idocs) = doc
             /\ \A d \in 1..doc :
                  Mirrors(now.idocs[d], idocs[d],
                          IF d = doc /\ pc = "segments" THEN seg ELSE Len(idocs[d].segments))

\* The levels of the open segments increase.
Increasing == OpenLevelsIncrease

\* Documents laid out in the file, nested by the levels of its records.
IsNested(begin, docs) ==
  /\ IsLayout(begin, docs, Len(records))
  /\ \A d \in 1..Len(docs) : \A k \in 1..Len(docs[d].segments) :
       NestedAt(LevelsFrom(begin[d], docs[d].segments), Levels(docs[d].segments), k)

\* What the parser will have gathered, and what it has.
ParsedSoFar ==
  pc = "parse" =>
    LET end == After(xml)
        now == Run(xml)[parsed]
    IN  /\ now.ok
        /\ elements = now.elements
        /\ Typed(records) =>
             /\ ~end.ok => LevelZero
             /\ xml[1].name # "IDOC"
             /\ end.ok => \E begin : IsNested(begin, end.idocs)
             /\ parsed > 0 => idocs = now.idocs

\* The record that a segment is flattened to.
IsFlat(flat, r, segments, levels, k) ==
  \E p \in 0..(k - 1) :
    /\ IsParent(levels, p, k)
    /\ flat = [segnam |-> r.segnam, level |-> segments[k].hlevel, payload |-> r.payload, psgnum |-> p]

\* A document is flattened up to its segment n, from its control record on.
IsWritten(first, idoc, n) ==
  /\ out[first] = records[first]
  /\ \A k \in 1..n : IsFlat(out[first + k], records[first + k], idoc.segments,
                            LevelsFrom(first, idoc.segments), k)

\* Of each level the last one of the first n segments is known.
LastKnown(segments, n) ==
  /\ DOMAIN last_at_level = {segments[k].hlevel : k \in 1..n}
  /\ \A l \in DOMAIN last_at_level :
       /\ last_at_level[l] \in 1..n
       /\ segments[last_at_level[l]].hlevel = l
       /\ \A k \in (last_at_level[l] + 1)..n : segments[k].hlevel # l

\* The documents and segments before the current place are flattened, in order.
IsFlattened(begin) ==
  /\ IsNested(begin, idocs)
  /\ Len(out) = IF doc = 0 THEN 0 ELSE begin[doc] + seg
  /\ \A d \in 1..doc :
       IsWritten(begin[d], idocs[d], IF d = doc THEN seg ELSE Len(idocs[d].segments))
  /\ doc # 0 => LastKnown(idocs[doc].segments, seg)

Flattened ==
  pc \in {"flatten", "done"} /\ Typed(records) =>
    \E begin : /\ IsFlattened(begin)
               /\ pc = "done" => /\ doc = Len(idocs)
                                 /\ doc # 0 => seg = Len(idocs[doc].segments)

\* Nothing is wrong with a canonical file.
Accepted == Canonical(records) => pc \notin {"refused", "malformed"}

IndInv ==
  /\ Types
  /\ Phases
  /\ Increasing
  /\ Named
  /\ Rooted
  /\ RootOpen
  /\ SameOpen
  /\ SameContent
  /\ Grouped
  /\ ParsedSoFar
  /\ Flattened
  /\ Accepted

-----------------------------------------------------------------------------
(* Sequences of documents, tags and levels.                                *)

\* The last element, and what is before it.
LEMMA FrontFacts ==
  ASSUME NEW S, NEW s \in Seq(S), s # <<>>
  PROVE  /\ Len(s) \in Nat \ {0} /\ LastOf(s) = s[Len(s)] /\ LastOf(s) \in S
         /\ SubSeq(s, 1, Len(s) - 1) \in Seq(S)
         /\ Len(SubSeq(s, 1, Len(s) - 1)) = Len(s) - 1
         /\ \A i \in 1..(Len(s) - 1) : SubSeq(s, 1, Len(s) - 1)[i] = s[i]
<1>1. Len(s) \in Nat \ {0} /\ \A i \in 1..Len(s) : s[i] \in S
  BY EmptySeq, ElementOfSeq
<1>2. PICK n \in Nat : n = Len(s) - 1
  BY <1>1
<1>3. \A i \in 1..n : s[i] \in S
  BY <1>1, <1>2
<1>4. /\ SubSeq(s, 1, n) \in Seq(S) /\ Len(SubSeq(s, 1, n)) = IF 1 <= n THEN n - 1 + 1 ELSE 0
      /\ \A i \in 1..(n - 1 + 1) : SubSeq(s, 1, n)[i] = s[1 + i - 1]
  BY <1>3, SubSeqProperties
<1>5. Len(SubSeq(s, 1, n)) = n /\ \A i \in 1..n : SubSeq(s, 1, n)[i] = s[i]
  BY <1>4
<1> QED
  BY <1>1, <1>2, <1>4, <1>5 DEF LastOf

\* What the documents are after that.
HasSegment(more, docs, d, s) ==
  /\ Len(more) = Len(docs)
  /\ \A e \in 1..Len(docs) : e # d => more[e] = docs[e]
  /\ more[d].control = docs[d].control
  /\ more[d].segments = Append(docs[d].segments, s)

HasControl(more, docs, d, c) ==
  /\ Len(more) = Len(docs)
  /\ \A e \in 1..Len(docs) : e # d => more[e] = docs[e]
  /\ more[d].control = c
  /\ more[d].segments = docs[d].segments

\* A document with other segments, or another control record.
LEMMA DocumentUpdated ==
  ASSUME NEW L, NEW idoc \in IdocsOf(L), NEW v
  PROVE  /\ [idoc EXCEPT !.segments = v] = [control |-> idoc.control, segments |-> v]
         /\ [idoc EXCEPT !.control = v] = [control |-> v, segments |-> idoc.segments]
BY DEF IdocsOf

\* A document with one more segment.
LEMMA SegmentAppended ==
  ASSUME NEW L, NEW docs \in Seq(IdocsOf(L)), NEW d \in 1..Len(docs), NEW s \in SegmentsOf(L)
  PROVE  WithSegment(docs, d, s) \in Seq(IdocsOf(L)) /\ HasSegment(WithSegment(docs, d, s), docs, d, s)
<1>1. docs[d] \in IdocsOf(L)
  BY ElementOfSeq
<1>2. docs[d].segments \in Seq(SegmentsOf(L)) /\ docs[d].control \in FieldSets
  BY <1>1 DEF IdocsOf
<1>3. PICK longer : longer = Append(docs[d].segments, s)
  OBVIOUS
<1>4. PICK grown : grown = [control |-> docs[d].control, segments |-> longer]
  OBVIOUS
<1>5. grown \in IdocsOf(L)
  BY <1>2, <1>3, <1>4, AppendProperties DEF IdocsOf
<1>6. WithSegment(docs, d, s) = [docs EXCEPT ![d] = [docs[d] EXCEPT !.segments = longer]]
  BY <1>3 DEF WithSegment
<1>7. [docs[d] EXCEPT !.segments = longer] = grown
  BY <1>1, <1>4, DocumentUpdated
<1>8. WithSegment(docs, d, s) = [docs EXCEPT ![d] = grown]
  BY <1>6, <1>7
<1>9. /\ WithSegment(docs, d, s) \in Seq(IdocsOf(L)) /\ Len(WithSegment(docs, d, s)) = Len(docs)
      /\ \A e \in 1..Len(docs) : WithSegment(docs, d, s)[e] = IF e = d THEN grown ELSE docs[e]
  BY <1>5, <1>8, ExceptSeq
<1>10. WithSegment(docs, d, s)[d] = grown
  BY <1>9
<1> QED
  BY <1>3, <1>4, <1>9, <1>10 DEF HasSegment

\* A document with its control record.
LEMMA ControlSet ==
  ASSUME NEW L, NEW docs \in Seq(IdocsOf(L)), NEW d \in 1..Len(docs), NEW c \in FieldSets
  PROVE  WithControl(docs, d, c) \in Seq(IdocsOf(L)) /\ HasControl(WithControl(docs, d, c), docs, d, c)
<1>1. docs[d] \in IdocsOf(L)
  BY ElementOfSeq
<1>2. docs[d].segments \in Seq(SegmentsOf(L))
  BY <1>1 DEF IdocsOf
<1>3. PICK set : set = [control |-> c, segments |-> docs[d].segments]
  OBVIOUS
<1>4. set \in IdocsOf(L)
  BY <1>2, <1>3 DEF IdocsOf
<1>5. WithControl(docs, d, c) = [docs EXCEPT ![d] = [docs[d] EXCEPT !.control = c]]
  BY DEF WithControl
<1>6. [docs[d] EXCEPT !.control = c] = set
  BY <1>1, <1>3, DocumentUpdated
<1>7. WithControl(docs, d, c) = [docs EXCEPT ![d] = set]
  BY <1>5, <1>6
<1>8. /\ WithControl(docs, d, c) \in Seq(IdocsOf(L)) /\ Len(WithControl(docs, d, c)) = Len(docs)
      /\ \A e \in 1..Len(docs) : WithControl(docs, d, c)[e] = IF e = d THEN set ELSE docs[e]
  BY <1>4, <1>7, ExceptSeq
<1>9. WithControl(docs, d, c)[d] = set
  BY <1>8
<1> QED
  BY <1>3, <1>8, <1>9 DEF HasControl

\* An update beyond the end of a sequence changes nothing.
LEMMA NothingUpdated ==
  ASSUME NEW L, NEW docs \in Seq(IdocsOf(L)), docs = <<>>, NEW c, NEW s
  PROVE  WithControl(docs, Len(docs), c) = docs /\ WithSegment(docs, Len(docs), s) = docs
<1>1. Len(docs) = 0 /\ DOMAIN docs = {}
  BY EmptySeq
<1> QED
  BY <1>1 DEF WithControl, WithSegment

\* The parts of a document and of its segments.
LEMMA IdocFacts ==
  ASSUME NEW L, NEW docs \in Seq(IdocsOf(L))
  PROVE  /\ Len(docs) \in Nat /\ DOMAIN docs = 1..Len(docs)
         /\ docs # <<>> => Len(docs) >= 1
         /\ \A d \in 1..Len(docs) :
              /\ docs[d] \in IdocsOf(L) /\ docs[d].control \in FieldSets
              /\ docs[d].segments \in Seq(SegmentsOf(L))
              /\ Len(docs[d].segments) \in Nat
              /\ DOMAIN docs[d].segments = 1..Len(docs[d].segments)
              /\ \A k \in 1..Len(docs[d].segments) :
                   /\ docs[d].segments[k].segnam \in STRING
                   /\ docs[d].segments[k].hlevel \in L
                   /\ docs[d].segments[k].fields \in FieldSets
<1>1. Len(docs) \in Nat /\ DOMAIN docs = 1..Len(docs) /\ (docs # <<>> => Len(docs) >= 1)
  BY LenProperties, EmptySeq
<1>2. ASSUME NEW d \in 1..Len(docs)
      PROVE  /\ docs[d] \in IdocsOf(L) /\ docs[d].control \in FieldSets
             /\ docs[d].segments \in Seq(SegmentsOf(L))
  <2>1. docs[d] \in IdocsOf(L)
    BY ElementOfSeq
  <2> QED
    BY <2>1 DEF IdocsOf
<1>3. ASSUME NEW d \in 1..Len(docs)
      PROVE  /\ Len(docs[d].segments) \in Nat
             /\ DOMAIN docs[d].segments = 1..Len(docs[d].segments)
             /\ \A k \in 1..Len(docs[d].segments) : docs[d].segments[k] \in SegmentsOf(L)
  BY <1>2, LenProperties, ElementOfSeq
<1>4. \A s \in SegmentsOf(L) : s.segnam \in STRING /\ s.hlevel \in L /\ s.fields \in FieldSets
  BY DEF SegmentsOf
<1> QED
  BY <1>1, <1>2, <1>3, <1>4

\* The documents the parser gathers have their type.
LEMMA GatherType ==
  ASSUME NEW docs \in Seq(IdocsOf(Int)), NEW tag \in Tags, NEW depth \in Nat
  PROVE  Gather(docs, tag, depth) \in Seq(IdocsOf(Int))
<1>1. tag.name \in STRING /\ tag.fields \in FieldSets
  BY DEF Tags
<1>2. CASE depth = 1
  <2>1. NewIdoc \in IdocsOf(Int)
    BY EmptySeq DEF NewIdoc, IdocsOf, FieldSets
  <2> QED
    BY <1>2, <2>1, AppendProperties DEF Gather
<1>3. CASE docs = <<>> /\ depth # 1
  BY <1>3, NothingUpdated DEF Gather
<1>4. CASE docs # <<>> /\ depth # 1
  <2> DEFINE s == [segnam |-> tag.name, hlevel |-> depth - 1, fields |-> tag.fields]
  <2>1. s \in SegmentsOf(Int)
    BY <1>1 DEF SegmentsOf
  <2>2. Len(docs) \in 1..Len(docs)
    BY <1>4, IdocFacts
  <2>3. WithControl(docs, Len(docs), tag.fields) \in Seq(IdocsOf(Int))
    BY <1>1, <2>2, ControlSet
  <2> HIDE DEF s
  <2>4. WithSegment(docs, Len(docs), s) \in Seq(IdocsOf(Int))
    BY <2>1, <2>2, SegmentAppended
  <2> QED
    BY <1>4, <2>3, <2>4 DEF Gather, s
<1> QED
  BY <1>2, <1>3, <1>4

\* The parser's state keeps its type.
LEMMA ParseType ==
  ASSUME NEW s \in States, NEW tag \in Tags, NEW first \in BOOLEAN
  PROVE  Parse(s, tag, first) \in States
<1>1. s.elements \in Seq(STRING) /\ s.idocs \in Seq(IdocsOf(Int)) /\ s.ok \in BOOLEAN
      /\ tag.name \in STRING
  BY DEF States, Tags
<1>2. Append(s.elements, tag.name) \in Seq(STRING) /\ Len(s.elements) \in Nat
  BY <1>1, AppendProperties, LenProperties
<1>3. Gather(s.idocs, tag, Len(s.elements)) \in Seq(IdocsOf(Int)) /\ <<>> \in Seq(IdocsOf(Int))
  BY <1>1, <1>2, GatherType, EmptySeq
<1>4. s.elements # <<>> => SubSeq(s.elements, 1, Len(s.elements) - 1) \in Seq(STRING)
  BY <1>1, FrontFacts
<1> QED
  BY <1>1, <1>2, <1>3, <1>4 DEF Parse, States

-----------------------------------------------------------------------------
(* Runs of the parser.                                                     *)

\* There is a run over every sequence of tags.
LEMMA RunFacts ==
  ASSUME NEW x \in Seq(Tags)
  PROVE  /\ Run(x) \in [0..Len(x) -> States]
         /\ Run(x)[0] = Start
         /\ \A k \in 1..Len(x) : Run(x)[k] = Parse(Run(x)[k - 1], x[k], k = 1)
<1> DEFINE n == Len(x)
           step == [y \in States \X Nat |->
                      IF y[2] \in 1..n THEN Parse(y[1], x[y[2]], y[2] = 1) ELSE y[1]]
<1>1. n \in Nat /\ \A k \in 1..n : x[k] \in Tags
  BY LenProperties, ElementOfSeq
<1>2. Start \in States
  BY EmptySeq DEF Start, States
<1>3. step \in StepFunctions(States)
  <2>1. \A s \in States, k \in 1..n : Parse(s, x[k], k = 1) \in States
    BY <1>1, ParseType
  <2> QED
    BY <2>1 DEF StepFunctions
<1>4. \A s \in States, k \in 1..n : step[<<s, k>>] = Parse(s, x[k], k = 1)
  <2> TAKE s \in States, k \in 1..n
  <2>1. <<s, k>> \in States \X Nat
    BY <1>1
  <2> QED
    BY <2>1
<1> HIDE DEF step, n
<1>5. PICK g : FollowsUpTo(g, n, States, Start, step)
  BY <1>1, <1>2, <1>3, PrimitiveRecursion
<1>6. /\ g \in [0..n -> States] /\ g[0] = Start
      /\ \A k \in 1..n : g[k] = Parse(g[k - 1], x[k], k = 1)
  <2>1. /\ g \in [0..n -> States] /\ g[0] = Start
        /\ \A k \in 1..n : g[k] = step[<<g[k - 1], k>>]
    BY <1>5 DEF FollowsUpTo
  <2>2. \A k \in 1..n : g[k - 1] \in States
    BY <1>1, <2>1
  <2> QED
    BY <1>4, <2>1, <2>2
<1>7. IsRun(x, g)
  <2>1. \A k \in 0..n : g[k] = IF k = 0 THEN Start ELSE Parse(g[k - 1], x[k], k = 1)
    BY <1>1, <1>6
  <2>2. g = [k \in 0..n |-> g[k]]
    BY <1>6
  <2> QED
    BY <2>1, <2>2 DEF IsRun, n
<1>8. IsRun(x, Run(x))
  BY <1>7 DEF Run
<1>9. \A k \in 0..n : Run(x)[k] = g[k]
  <2> DEFINE S == {k \in Nat : k \in 0..n => Run(x)[k] = g[k]}
  <2>0. \A k \in 0..n : Run(x)[k] = IF k = 0 THEN Start ELSE Parse(Run(x)[k - 1], x[k], k = 1)
    <3> DEFINE r == Run(x)
    <3>1. r = [k \in 0..n |-> IF k = 0 THEN Start ELSE Parse(r[k - 1], x[k], k = 1)]
      BY <1>8 DEF IsRun, n
    <3> HIDE DEF r
    <3>2. \A k \in 0..n : r[k] = IF k = 0 THEN Start ELSE Parse(r[k - 1], x[k], k = 1)
      BY <3>1
    <3> QED
      BY <3>2 DEF r
  <2>1. 0 \in S
    BY <1>1, <1>6, <2>0
  <2>2. ASSUME NEW k \in Nat, k \in S
        PROVE  k + 1 \in S
    <3> SUFFICES ASSUME k + 1 \in 0..n
                 PROVE  Run(x)[k + 1] = g[k + 1]
      OBVIOUS
    <3>1. k \in 0..n /\ k + 1 # 0 /\ (k + 1) - 1 = k /\ k + 1 \in 1..n
      BY <1>1
    <3>2. Run(x)[k] = g[k]
      BY <2>2, <3>1
    <3>3. g[k + 1] = Parse(g[k], x[k + 1], k + 1 = 1)
      BY <1>6, <3>1
    <3>4. Run(x)[k + 1] = Parse(Run(x)[k], x[k + 1], k + 1 = 1)
      BY <2>0, <3>1
    <3> QED
      BY <3>2, <3>3, <3>4
  <2> HIDE DEF S
  <2>3. Nat \subseteq S
    BY <2>1, <2>2, NatSetInduction
  <2> QED
    BY <1>1, <2>3 DEF S
<1>10. Run(x) = g
  <2>1. \E e : Run(x) = [k \in 0..n |-> e[k]]
    <3> DEFINE r == Run(x)
               e == [k \in 0..n |-> IF k = 0 THEN Start ELSE Parse(r[k - 1], x[k], k = 1)]
    <3>1. r = e
      BY <1>8 DEF IsRun, n
    <3>2. e = [k \in 0..n |-> e[k]]
      OBVIOUS
    <3> QED
      BY <3>1, <3>2
  <2>2. PICK e : Run(x) = [k \in 0..n |-> e[k]]
    BY <2>1
  <2>3. DOMAIN Run(x) = 0..n /\ Run(x) = [k \in 0..n |-> Run(x)[k]]
    BY <2>2
  <2>4. g = [k \in 0..n |-> g[k]]
    BY <1>6
  <2> QED
    BY <1>9, <2>3, <2>4
<1> QED
  BY <1>6, <1>10 DEF n

\* A run over one more tag is the run so far and one more state.
LEMMA RunAppend ==
  ASSUME NEW x \in Seq(Tags), NEW tag \in Tags
  PROVE  /\ Append(x, tag) \in Seq(Tags) /\ Len(Append(x, tag)) = Len(x) + 1
         /\ \A k \in 1..Len(x) : Append(x, tag)[k] = x[k]
         /\ Append(x, tag)[Len(x) + 1] = tag
         /\ \A k \in 0..Len(x) : Run(Append(x, tag))[k] = Run(x)[k]
         /\ After(Append(x, tag)) = Parse(After(x), tag, Len(x) = 0)
<1> DEFINE y == Append(x, tag)
<1>1. /\ y \in Seq(Tags) /\ Len(y) = Len(x) + 1 /\ Len(x) \in Nat
      /\ \A k \in 1..Len(x) : y[k] = x[k]
      /\ y[Len(x) + 1] = tag
  BY AppendProperties, LenProperties
<1> HIDE DEF y
<1>2. /\ Run(x)[0] = Start /\ Run(y)[0] = Start
      /\ \A k \in 1..Len(x) : Run(x)[k] = Parse(Run(x)[k - 1], x[k], k = 1)
      /\ \A k \in 1..Len(y) : Run(y)[k] = Parse(Run(y)[k - 1], y[k], k = 1)
  BY <1>1, RunFacts
<1> DEFINE S == {k \in Nat : k <= Len(x) => Run(y)[k] = Run(x)[k]}
<1>3. 0 \in S
  BY <1>2
<1>4. ASSUME NEW k \in Nat, k \in S
      PROVE  k + 1 \in S
  <2> SUFFICES ASSUME k + 1 <= Len(x)
               PROVE  Run(y)[k + 1] = Run(x)[k + 1]
    OBVIOUS
  <2>1. PICK n \in Nat : n = k + 1
    OBVIOUS
  <2>2. n \in 1..Len(x) /\ n \in 1..Len(y) /\ n - 1 = k
    BY <1>1, <2>1
  <2>3. Run(y)[k] = Run(x)[k] /\ y[n] = x[n]
    BY <1>1, <1>4, <2>2
  <2>4. /\ Run(x)[n] = Parse(Run(x)[n - 1], x[n], n = 1)
        /\ Run(y)[n] = Parse(Run(y)[n - 1], y[n], n = 1)
    BY <1>2, <2>2
  <2> QED
    BY <2>1, <2>2, <2>3, <2>4
<1> HIDE DEF S
<1>5. \A k \in 0..Len(x) : Run(y)[k] = Run(x)[k]
  <2>1. Nat \subseteq S
    BY <1>3, <1>4, NatSetInduction
  <2> QED
    BY <1>1, <2>1 DEF S
<1>6. After(y) = Parse(After(x), tag, Len(x) = 0)
  <2>1. PICK n \in Nat : n = Len(x) + 1
    BY <1>1
  <2>2. n \in 1..Len(y) /\ n - 1 = Len(x) /\ y[n] = tag /\ Len(x) \in 0..Len(x)
        /\ (n = 1 <=> Len(x) = 0) /\ Len(y) = n
    BY <1>1, <2>1
  <2>3. Run(y)[n] = Parse(Run(y)[n - 1], y[n], n = 1)
    BY <1>2, <2>2
  <2>4. Run(y)[Len(x)] = Run(x)[Len(x)]
    BY <1>5, <2>2
  <2> QED
    BY <2>2, <2>3, <2>4 DEF After
<1> QED
  BY <1>1, <1>5, <1>6 DEF y

\* The run before its last state.
LEMMA AfterFacts ==
  ASSUME NEW x \in Seq(Tags)
  PROVE  /\ After(x) \in States /\ After(x).ok \in BOOLEAN
         /\ After(x).elements \in Seq(STRING) /\ Len(After(x).elements) \in Nat
         /\ After(x).idocs \in Seq(IdocsOf(Int))
         /\ Len(x) \in Nat
         /\ \A k \in 0..Len(x) : /\ Run(x)[k] \in States /\ Run(x)[k].ok \in BOOLEAN
                                 /\ Run(x)[k].elements \in Seq(STRING)
                                 /\ Run(x)[k].idocs \in Seq(IdocsOf(Int))
<1>1. Len(x) \in Nat /\ Run(x) \in [0..Len(x) -> States]
  BY RunFacts, LenProperties
<1>2. \A s \in States : s.ok \in BOOLEAN /\ s.elements \in Seq(STRING) /\ s.idocs \in Seq(IdocsOf(Int))
  BY DEF States
<1>3. \A k \in 0..Len(x) : Run(x)[k] \in States
  BY <1>1
<1>4. After(x) \in States
  BY <1>1, <1>3 DEF After
<1> QED
  BY <1>1, <1>2, <1>3, <1>4, LenProperties

\* The root stays open while a tag is added.
LEMMA OpenAppend ==
  ASSUME NEW x \in Seq(Tags), x # <<>>, NEW tag \in Tags,
         RootStays(x), After(x).ok => After(x).elements # <<>>
  PROVE  RootStays(Append(x, tag))
<1>1. Len(x) \in Nat \ {0}
  BY EmptySeq
<1>2. /\ Len(Append(x, tag)) = Len(x) + 1
      /\ \A k \in 0..Len(x) : Run(Append(x, tag))[k] = Run(x)[k]
  BY RunAppend
<1>3. ASSUME NEW k \in 1..Len(x), Run(x)[k].ok
      PROVE  Run(x)[k].elements # <<>>
  <2>1. CASE k = Len(x)
    BY <1>3, <2>1 DEF After
  <2>2. CASE k # Len(x)
    <3>1. k \in 1..(Len(x) - 1)
      BY <1>1, <2>2
    <3> QED
      BY <1>3, <3>1 DEF RootStays
  <2> QED
    BY <2>1, <2>2
<1>4. 1..(Len(Append(x, tag)) - 1) = 1..Len(x)
  BY <1>1, <1>2
<1> QED
  BY <1>2, <1>3, <1>4 DEF RootStays

-----------------------------------------------------------------------------
(* Types.                                                                  *)

\* The records of a file.
LEMMA RecordFacts ==
  ASSUME NEW file \in Inputs, NEW i \in 1..Len(file)
  PROVE  /\ Len(file) \in Nat /\ DOMAIN file = 1..Len(file)
         /\ file[i] \in ControlRecord \cup DataRecord
         /\ IsControl(file[i]) => file[i] \in ControlRecord /\ file[i].idoctyp \in STRING
         /\ ~IsControl(file[i]) => /\ file[i] \in DataRecord
                                   /\ file[i].segnam \in STRING /\ file[i].level \in Nat
                                   /\ file[i].payload \in STRING /\ file[i].psgnum \in Nat
                                   /\ file[i].segnam # "EDI_DC40"
<1>1. /\ file \in Seq(ControlRecord \cup DataRecord)
      /\ \A j \in DOMAIN file : ~IsControl(file[j]) => file[j].segnam # "EDI_DC40"
  BY XmlAssumption
<1>2. Len(file) \in Nat /\ DOMAIN file = 1..Len(file)
  BY <1>1, LenProperties
<1>3. file[i] \in ControlRecord \cup DataRecord
  BY <1>1, ElementOfSeq
<1>4. \A r \in ControlRecord : IsControl(r) /\ r.idoctyp \in STRING
  BY DEF ControlRecord, IsControl
<1>5. \A r \in DataRecord : /\ r.segnam \in STRING /\ r.level \in Nat
                            /\ r.payload \in STRING /\ r.psgnum \in Nat
  BY DEF DataRecord
<1>6. \A r \in DataRecord : ~IsControl(r)
  BY DEF DataRecord, IsControl
<1> QED
  BY <1>1, <1>2, <1>3, <1>4, <1>5, <1>6

\* The fields of an element and their values.
LEMMA FieldFacts ==
  /\ \A name, value \in STRING : Fields(name, value) \in FieldSets
  /\ \A value \in STRING : FieldValue(Fields("F", value), "F") = value
  /\ \A r \in ControlRecord : /\ ControlFields(r) \in FieldSets
                              /\ FieldValue(ControlFields(r), "IDOCTYP") = r.idoctyp
                              /\ ControlFields(r) # {}
  /\ \A fields \in FieldSets, name \in STRING : FieldValue(fields, name) \in STRING
<1>1. ASSUME NEW name \in STRING, NEW value \in STRING
      PROVE  Fields(name, value) \in FieldSets
  <2>1. CASE value = ""
    BY <2>1 DEF Fields, FieldSets
  <2>2. CASE value # ""
    <3>1. [name |-> name, value |-> value] \in [name : STRING, value : STRING]
      OBVIOUS
    <3> QED
      BY <2>2, <3>1 DEF Fields, FieldSets
  <2> QED
    BY <2>1, <2>2
<1>2. ASSUME NEW value \in STRING
      PROVE  FieldValue(Fields("F", value), "F") = value
  <2>1. CASE value = ""
    BY <2>1 DEF Fields, FieldValue
  <2>2. CASE value # ""
    <3> DEFINE f == [name |-> "F", value |-> value]
    <3>1. Fields("F", value) = {f} /\ f.name = "F" /\ f.value = value
      BY <2>2 DEF Fields
    <3> HIDE DEF f
    <3>2. (CHOOSE g \in Fields("F", value) : g.name = "F") = f
      BY <3>1
    <3> QED
      BY <3>1, <3>2 DEF FieldValue
  <2> QED
    BY <2>1, <2>2
<1>3. ASSUME NEW fields \in FieldSets, NEW name \in STRING
      PROVE  FieldValue(fields, name) \in STRING
  <2>1. \A f \in fields : f.value \in STRING
    BY DEF FieldSets
  <2>2. CASE \E f \in fields : f.name = name
    <3> DEFINE g == CHOOSE f \in fields : f.name = name
    <3>1. g \in fields
      BY <2>2
    <3> HIDE DEF g
    <3>2. g.value \in STRING
      BY <2>1, <3>1
    <3> QED
      BY <2>2, <3>2 DEF FieldValue, g
  <2>3. CASE ~ \E f \in fields : f.name = name
    BY <2>3, LiteralsAreStrings DEF FieldValue
  <2> QED
    BY <2>2, <2>3
<1>4. ASSUME NEW r \in ControlRecord
      PROVE  /\ ControlFields(r) \in FieldSets
             /\ FieldValue(ControlFields(r), "IDOCTYP") = r.idoctyp
             /\ ControlFields(r) # {}
  <2>1. r.idoctyp \in STRING
    BY DEF ControlRecord
  <2>2. Fields("TABNAM", "EDI_DC40") = {[name |-> "TABNAM", value |-> "EDI_DC40"]}
    BY DEF Fields
  <2>3. ControlFields(r) \in FieldSets
    <3>1. Fields("TABNAM", "EDI_DC40") \in FieldSets /\ Fields("IDOCTYP", r.idoctyp) \in FieldSets
      BY <1>1, <2>1, LiteralsAreStrings
    <3> QED
      BY <3>1 DEF ControlFields, FieldSets
  <2>4. CASE r.idoctyp = ""
    <3>1. ControlFields(r) = {[name |-> "TABNAM", value |-> "EDI_DC40"]}
      BY <2>2, <2>4 DEF ControlFields, Fields
    <3>2. \A f \in ControlFields(r) : f.name # "IDOCTYP"
      BY <3>1
    <3> QED
      BY <2>3, <2>4, <3>1, <3>2 DEF FieldValue
  <2>5. CASE r.idoctyp # ""
    <3> DEFINE t == [name |-> "TABNAM", value |-> "EDI_DC40"]
               i == [name |-> "IDOCTYP", value |-> r.idoctyp]
    <3>1. ControlFields(r) = {t, i}
      BY <2>2, <2>5 DEF ControlFields, Fields
    <3>2. t.name = "TABNAM" /\ i.name = "IDOCTYP" /\ i.value = r.idoctyp
      OBVIOUS
    <3> HIDE DEF t, i
    <3>3. \A f \in ControlFields(r) : f.name = "IDOCTYP" => f = i
      BY <3>1, <3>2
    <3>4. i \in ControlFields(r)
      BY <3>1
    <3>5. (CHOOSE f \in ControlFields(r) : f.name = "IDOCTYP") = i
      BY <3>2, <3>3, <3>4
    <3> QED
      BY <2>3, <3>2, <3>4, <3>5 DEF FieldValue
  <2> QED
    BY <2>4, <2>5
<1> QED
  BY <1>1, <1>2, <1>3, <1>4

\* The name of a document.
LEMMA TypeNameFacts ==
  \A idoc \in IdocsOf(Nat) : TypeName(idoc) \in STRING
<1>1. \A idoc \in IdocsOf(Nat) : idoc.control \in FieldSets
  BY DEF IdocsOf
<1>2. \A idoc \in IdocsOf(Nat) : FieldValue(idoc.control, "IDOCTYP") \in STRING
  <2>1. "IDOCTYP" \in STRING
    BY LiteralsAreStrings
  <2> QED
    BY <1>1, <2>1, FieldFacts
<1> QED
  BY <1>2, LiteralsAreStrings DEF TypeName

\* A single tag.
LEMMA SingleTag ==
  ASSUME NEW tag \in Tags
  PROVE  <<tag>> \in Seq(Tags) /\ Len(<<tag>>) = 1 /\ <<tag>>[1] = tag /\ <<tag>> = Append(<<>>, tag)
OBVIOUS

\* The tags of an element.
LEMMA TagFacts ==
  ASSUME NEW name \in STRING, NEW fields \in FieldSets
  PROVE  Open(name, fields) \in Tags /\ Shut(name) \in Tags
BY DEF Open, Shut, Tags, FieldSets

\* What the parser collects has its type, below the root.
LEMMA CollectedType ==
  ASSUME idocs \in Seq(IdocsOf(Nat)), NEW tag \in Tags, NEW depth \in Nat \ {0}
  PROVE  Collected(tag, depth) \in Seq(IdocsOf(Nat))
<1>1. tag.name \in STRING /\ tag.fields \in FieldSets
  BY DEF Tags
<1>2. IdocDepth \in {0, 1} /\ depth - IdocDepth \in Nat
  BY DEF IdocDepth
<1>3. CASE depth = IdocDepth
  <2>1. NewIdoc \in IdocsOf(Nat)
    BY EmptySeq DEF NewIdoc, IdocsOf, FieldSets
  <2> QED
    BY <1>3, <2>1, AppendProperties DEF Collected
<1>4. CASE idocs = <<>> /\ depth # IdocDepth
  BY <1>4, NothingUpdated DEF Collected, WithControl, WithSegment
<1>5. CASE idocs # <<>> /\ depth # IdocDepth
  <2> DEFINE s == [segnam |-> tag.name, hlevel |-> depth - IdocDepth, fields |-> tag.fields]
  <2>1. s \in SegmentsOf(Nat)
    BY <1>1, <1>2 DEF SegmentsOf
  <2>2. Len(idocs) \in 1..Len(idocs)
    BY <1>5, IdocFacts
  <2>3. WithControl(idocs, Len(idocs), tag.fields) \in Seq(IdocsOf(Nat))
    BY <1>1, <2>2, ControlSet
  <2> HIDE DEF s
  <2>4. WithSegment(idocs, Len(idocs), s) \in Seq(IdocsOf(Nat))
    BY <2>1, <2>2, SegmentAppended
  <2> QED
    BY <1>5, <2>3, <2>4 DEF Collected, WithControl, WithSegment, s
<1> QED
  BY <1>3, <1>4, <1>5

\* The documents that the next record finds.
Begun(r) == IF IsControl(r) \/ idocs = <<>> THEN Append(idocs, NewIdoc) ELSE idocs

\* The segment of a data record.
SegmentOf(r) == [segnam |-> r.segnam, hlevel |-> r.level, fields |-> Fields("F", r.payload)]

\* A record begins a document, is added to the last one, or is refused.
LEMMA GroupStep ==
  ASSUME Types, Phases, Group, NEW r, r = records[read + 1], NEW began, began = Begun(r)
  PROVE  /\ read + 1 \in 1..Len(records)
         /\ began \in Seq(IdocsOf(Nat)) /\ Len(began) \in Nat \ {0}
         /\ IsControl(r) => r \in ControlRecord
         /\ ~IsControl(r) => SegmentOf(r) \in SegmentsOf(Nat)
         /\ idocs' \in Seq(IdocsOf(Nat))
         /\ \/ pc' = "refused" /\ idocs' = idocs /\ ~IsControl(r) /\ r.segnam \notin Dictionary
            \/ /\ pc' = pc /\ Len(idocs') = Len(began)
               /\ \A e \in 1..Len(began) : e # Len(began) => idocs'[e] = began[e]
               /\ IF IsControl(r)
                  THEN /\ idocs'[Len(began)].control = ControlFields(r)
                       /\ idocs'[Len(began)].segments = began[Len(began)].segments
                  ELSE /\ idocs'[Len(began)].control = began[Len(began)].control
                       /\ idocs'[Len(began)].segments = Append(began[Len(began)].segments, SegmentOf(r))
<1>1. records \in Inputs /\ read \in 0..Len(records) /\ idocs \in Seq(IdocsOf(Nat))
  BY DEF Types
<1>2. Len(records) \in Nat
  <2>1. records \in Seq(ControlRecord \cup DataRecord)
    BY <1>1, XmlAssumption
  <2> QED
    BY <2>1, LenProperties
<1>3. read + 1 \in 1..Len(records)
  <2>1. read < Len(records)
    BY DEF Group
  <2> QED
    BY <1>1, <1>2, <2>1
<1>4. /\ IsControl(r) => r \in ControlRecord
      /\ ~IsControl(r) => r.segnam \in STRING /\ r.level \in Nat /\ r.payload \in STRING
  BY <1>1, <1>3, RecordFacts
<1>5. NewIdoc \in IdocsOf(Nat)
  BY EmptySeq DEF NewIdoc, IdocsOf, FieldSets
<1>6. began \in Seq(IdocsOf(Nat)) /\ Len(began) \in Nat \ {0}
  <2>1. CASE IsControl(r) \/ idocs = <<>>
    BY <1>1, <1>5, <2>1, AppendProperties, EmptySeq DEF Begun
  <2>2. CASE ~(IsControl(r) \/ idocs = <<>>)
    BY <1>1, <2>2, EmptySeq DEF Begun
  <2> QED
    BY <2>1, <2>2
<1>7. Len(began) \in 1..Len(began)
  BY <1>6
<1>8. ~IsControl(r) => SegmentOf(r) \in SegmentsOf(Nat)
  <2> SUFFICES ASSUME ~IsControl(r)
               PROVE  SegmentOf(r) \in SegmentsOf(Nat)
    OBVIOUS
  <2>1. Fields("F", r.payload) \in FieldSets
    BY <1>4, FieldFacts, LiteralsAreStrings
  <2> QED
    BY <1>4, <2>1 DEF SegmentOf, SegmentsOf
<1>9. CASE ~IsControl(r) /\ r.segnam \notin Dictionary /\ r.payload # ""
  <2>1. pc' = "refused" /\ idocs' = idocs
    BY <1>9 DEF Group
  <2> QED
    BY <1>1, <1>3, <1>4, <1>6, <1>8, <1>9, <2>1
<1>10. CASE IsControl(r)
  <2>1. pc' = pc /\ idocs' = WithControl(began, Len(began), ControlFields(r))
    BY <1>10 DEF Group, Begun, WithControl
  <2>2. ControlFields(r) \in FieldSets
    BY <1>4, <1>10, FieldFacts
  <2>3. idocs' \in Seq(IdocsOf(Nat)) /\ HasControl(idocs', began, Len(began), ControlFields(r))
    BY <1>6, <1>7, <2>1, <2>2, ControlSet
  <2> QED
    BY <1>3, <1>4, <1>6, <1>10, <2>1, <2>3 DEF HasControl
<1>11. CASE ~IsControl(r) /\ ~(r.segnam \notin Dictionary /\ r.payload # "")
  <2>1. pc' = pc /\ idocs' = WithSegment(began, Len(began), SegmentOf(r))
    BY <1>11 DEF Group, Begun, SegmentOf, WithSegment
  <2>2. idocs' \in Seq(IdocsOf(Nat)) /\ HasSegment(idocs', began, Len(began), SegmentOf(r))
    BY <1>6, <1>7, <1>8, <1>11, <2>1, SegmentAppended
  <2> QED
    BY <1>3, <1>4, <1>6, <1>8, <1>11, <2>1, <2>2 DEF HasSegment
<1> QED
  BY <1>9, <1>10, <1>11

\* The level of the last open segment, and the stack without it.
LEMMA CloseLevelFacts ==
  ASSUME Types, xml # <<>>, NEW level \in Nat, CloseLevel(level)
  PROVE  /\ Len(open_levels) \in Nat \ {0}
         /\ open_levels[Len(open_levels)].segnam \in STRING
         /\ open_levels[Len(open_levels)].level \in Nat
         /\ open_levels[Len(open_levels)].level >= level
         /\ Shut(open_levels[Len(open_levels)].segnam) \in Tags
         /\ xml' = Append(xml, Shut(open_levels[Len(open_levels)].segnam))
         /\ xml' \in Seq(Tags) /\ xml' # <<>>
         /\ open_levels' \in Seq(OpenLevels) /\ Len(open_levels') = Len(open_levels) - 1
         /\ \A k \in 1..(Len(open_levels) - 1) : open_levels'[k] = open_levels[k]
<1>1. open_levels \in Seq(OpenLevels) /\ xml \in Seq(Tags) /\ open_levels # <<>>
  BY DEF Types, CloseLevel, Closes
<1>2. LastOf(open_levels) = open_levels[Len(open_levels)] /\ LastOf(open_levels) \in OpenLevels
      /\ Len(open_levels) \in Nat \ {0}
  BY <1>1, FrontFacts
<1>3. open_levels[Len(open_levels)].segnam \in STRING /\ open_levels[Len(open_levels)].level \in Nat
  BY <1>2 DEF OpenLevels
<1>4. Shut(open_levels[Len(open_levels)].segnam) \in Tags
  BY <1>3, TagFacts DEF FieldSets
<1>5. xml' = Append(xml, Shut(open_levels[Len(open_levels)].segnam))
      /\ open_levels[Len(open_levels)].level >= level
  BY <1>2 DEF CloseLevel, Closes
<1>6. open_levels' = SubSeq(open_levels, 1, Len(open_levels) - 1)
  BY DEF CloseLevel
<1>7. /\ open_levels' \in Seq(OpenLevels) /\ Len(open_levels') = Len(open_levels) - 1
      /\ \A k \in 1..(Len(open_levels) - 1) : open_levels'[k] = open_levels[k]
  BY <1>1, <1>6, FrontFacts
<1> QED
  BY <1>1, <1>2, <1>3, <1>4, <1>5, <1>7, AppendProperties

\* What the types say of the documents and the tags.
LEMMA TypeFacts ==
  ASSUME Types
  PROVE  /\ records \in Inputs /\ Len(records) \in Nat /\ DOMAIN records = 1..Len(records)
         /\ read \in Nat /\ read <= Len(records)
         /\ idocs \in Seq(IdocsOf(Nat)) /\ Len(idocs) \in Nat /\ DOMAIN idocs = 1..Len(idocs)
         /\ \A d \in 1..Len(idocs) :
              /\ idocs[d] \in IdocsOf(Nat) /\ idocs[d].control \in FieldSets
              /\ idocs[d].segments \in Seq(SegmentsOf(Nat)) /\ Len(idocs[d].segments) \in Nat
              /\ DOMAIN idocs[d].segments = 1..Len(idocs[d].segments)
              /\ \A k \in 1..Len(idocs[d].segments) :
                   /\ idocs[d].segments[k].segnam \in STRING
                   /\ idocs[d].segments[k].hlevel \in Nat
                   /\ idocs[d].segments[k].fields \in FieldSets
              /\ TypeName(idocs[d]) \in STRING
         /\ doc \in Nat /\ doc <= Len(idocs) /\ seg \in Nat
         /\ open_levels \in Seq(OpenLevels) /\ Len(open_levels) \in Nat
         /\ xml \in Seq(Tags) /\ Len(xml) \in Nat /\ DOMAIN xml = 1..Len(xml)
         /\ \A n \in 1..Len(xml) : /\ xml[n] \in Tags /\ xml[n].tag \in {"open", "close"}
                                   /\ xml[n].name \in STRING /\ xml[n].fields \in FieldSets
         /\ parsed \in Nat /\ parsed <= Len(xml)
         /\ elements \in Seq(STRING)
         /\ out \in Seq(ControlRecord \cup DataRecord)
<1>1. records \in Seq(ControlRecord \cup DataRecord)
  BY XmlAssumption DEF Types
<1>2. Len(records) \in Nat /\ DOMAIN records = 1..Len(records)
  BY <1>1, LenProperties
<1>3. xml \in Seq(Tags) /\ Len(xml) \in Nat /\ DOMAIN xml = 1..Len(xml)
      /\ \A n \in 1..Len(xml) : xml[n] \in Tags
  BY LenProperties, ElementOfSeq DEF Types
<1>4. \A t \in Tags : t.tag \in {"open", "close"} /\ t.name \in STRING /\ t.fields \in FieldSets
  BY DEF Tags
<1>5. open_levels \in Seq(OpenLevels) /\ Len(open_levels) \in Nat
  BY LenProperties DEF Types
<1>6. idocs \in Seq(IdocsOf(Nat))
  BY DEF Types
<1>7. /\ Len(idocs) \in Nat /\ DOMAIN idocs = 1..Len(idocs)
      /\ \A d \in 1..Len(idocs) :
           /\ idocs[d] \in IdocsOf(Nat) /\ idocs[d].control \in FieldSets
           /\ idocs[d].segments \in Seq(SegmentsOf(Nat)) /\ Len(idocs[d].segments) \in Nat
           /\ DOMAIN idocs[d].segments = 1..Len(idocs[d].segments)
           /\ \A k \in 1..Len(idocs[d].segments) :
                /\ idocs[d].segments[k].segnam \in STRING
                /\ idocs[d].segments[k].hlevel \in Nat
                /\ idocs[d].segments[k].fields \in FieldSets
  BY <1>6, IdocFacts
<1>8. \A d \in 1..Len(idocs) : TypeName(idocs[d]) \in STRING
  BY <1>7, TypeNameFacts
<1>9. read \in Nat /\ read <= Len(records) /\ doc \in Nat /\ doc <= Len(idocs) /\ seg \in Nat
      /\ parsed \in Nat /\ parsed <= Len(xml)
  BY <1>2, <1>3, <1>7 DEF Types
<1> QED
  BY <1>2, <1>3, <1>4, <1>5, <1>6, <1>7, <1>8, <1>9 DEF Types

\* What the next document writes.
LEMMA OpenDocumentStep ==
  ASSUME Types, OpenDocument, doc < Len(idocs)
  PROVE  /\ doc + 1 \in 1..Len(idocs) /\ doc' = doc + 1 /\ seg' = 0 /\ pc' = "segments"
         /\ Open("IDOC", {}) \in Tags /\ Shut("EDI_DC40") \in Tags
         /\ Open("EDI_DC40", idocs[doc + 1].control) \in Tags
         /\ xml' = Append(Append(Append(xml, Open("IDOC", {})),
                                 Open("EDI_DC40", idocs[doc + 1].control)), Shut("EDI_DC40"))
         /\ xml' \in Seq(Tags) /\ xml' # <<>>
<1>1. doc + 1 \in 1..Len(idocs)
  BY TypeFacts
<1>2. idocs[doc + 1].control \in FieldSets
  BY <1>1, TypeFacts
<1> DEFINE a == Open("IDOC", {})
           b == Open("EDI_DC40", idocs[doc + 1].control)
           c == Shut("EDI_DC40")
<1>3. {} \in FieldSets
  BY DEF FieldSets
<1>4. a \in Tags /\ b \in Tags /\ c \in Tags
  BY <1>2, <1>3, TagFacts, LiteralsAreStrings
<1>5. xml' = xml \o <<a, b, c>> /\ doc' = doc + 1 /\ seg' = 0 /\ pc' = "segments"
  BY DEF OpenDocument
<1> HIDE DEF a, b, c
<1>6. xml \in Seq(Tags)
  BY TypeFacts
<1>7. /\ Append(xml, a) \in Seq(Tags)
      /\ Append(Append(xml, a), b) \in Seq(Tags)
      /\ Append(Append(Append(xml, a), b), c) \in Seq(Tags)
      /\ Append(Append(Append(xml, a), b), c) # <<>>
  BY <1>4, <1>6, AppendProperties
<1>8. xml' = Append(Append(Append(xml, a), b), c)
  BY <1>4, <1>5, <1>6
<1> QED
  BY <1>1, <1>4, <1>5, <1>7, <1>8 DEF a, b, c

\* What the next segment writes.
LEMMA OpenSegmentStep ==
  ASSUME Types, Phases, OpenSegment, pc' # "refused", NEW s, s = idocs[doc].segments[seg + 1]
  PROVE  /\ doc \in 1..Len(idocs) /\ seg + 1 \in 1..Len(idocs[doc].segments)
         /\ s.segnam \in STRING /\ s.hlevel \in Nat /\ s.fields \in FieldSets
         /\ Open(s.segnam, s.fields) \in Tags
         /\ [segnam |-> s.segnam, level |-> s.hlevel] \in OpenLevels
         /\ xml' = Append(xml, Open(s.segnam, s.fields)) /\ xml' \in Seq(Tags) /\ xml' # <<>>
         /\ open_levels' = Append(open_levels, [segnam |-> s.segnam, level |-> s.hlevel])
         /\ open_levels' \in Seq(OpenLevels) /\ Len(open_levels') = Len(open_levels) + 1
         /\ seg' = seg + 1 /\ pc' = pc
<1>1. doc \in 1..Len(idocs) /\ seg + 1 \in 1..Len(idocs[doc].segments)
  <2>1. doc \in 1..Len(idocs)
    BY DEF Phases, OpenSegment
  <2>2. seg < Len(idocs[doc].segments)
    BY DEF OpenSegment
  <2> QED
    BY <2>1, <2>2, TypeFacts
<1>2. s.segnam \in STRING /\ s.hlevel \in Nat /\ s.fields \in FieldSets
  BY <1>1, TypeFacts
<1>3. Open(s.segnam, s.fields) \in Tags
  BY <1>2, TagFacts
<1>4. PICK o \in OpenLevels : o = [segnam |-> s.segnam, level |-> s.hlevel]
  BY <1>2 DEF OpenLevels
<1>5. /\ xml' = Append(xml, Open(s.segnam, s.fields))
      /\ open_levels' = Append(open_levels, [segnam |-> s.segnam, level |-> s.hlevel])
      /\ seg' = seg + 1 /\ pc' = pc
  BY DEF OpenSegment
<1>6. open_levels' \in Seq(OpenLevels) /\ Len(open_levels') = Len(open_levels) + 1
  BY <1>4, <1>5, TypeFacts, AppendProperties
<1>7. xml' \in Seq(Tags) /\ xml' # <<>>
  BY SMTT(30), <1>3, <1>5, TypeFacts, AppendProperties
<1> QED
  BY <1>1, <1>2, <1>3, <1>4, <1>5, <1>6, <1>7

\* The name of the root is that of the first document.
LEMMA OpenRootStep ==
  ASSUME Types, OpenRoot, pc' # "refused"
  PROVE  /\ idocs # <<>> /\ 1 \in 1..Len(idocs) /\ pc' = "documents"
         /\ \A d \in 1..Len(idocs) : TypeName(idocs[d]) = TypeName(idocs[1])
         /\ Open(TypeName(idocs[1]), {}) \in Tags
         /\ xml' = <<Open(TypeName(idocs[1]), {})>> /\ xml' \in Seq(Tags) /\ Len(xml') = 1
         /\ xml' # <<>> /\ xml'[1].name = TypeName(idocs[1]) /\ xml'[1].tag = "open"
         /\ xml' = Append(<<>>, Open(TypeName(idocs[1]), {}))
<1>1. /\ idocs # <<>> /\ pc' = "documents"
      /\ \A d \in DOMAIN idocs : TypeName(idocs[d]) = TypeName(idocs[1])
      /\ xml' = <<Open(TypeName(idocs[1]), {})>>
  BY DEF OpenRoot
<1>2. 1 \in 1..Len(idocs)
  BY <1>1, TypeFacts, EmptySeq
<1>3. PICK tag \in Tags : tag = Open(TypeName(idocs[1]), {})
  <2>1. {} \in FieldSets
    BY DEF FieldSets
  <2> QED
    BY <1>2, <2>1, TypeFacts, TagFacts
<1>4. /\ <<tag>> \in Seq(Tags) /\ Len(<<tag>>) = 1 /\ <<tag>>[1] = tag /\ <<tag>> = Append(<<>>, tag)
  BY SingleTag
<1>5. <<tag>> # <<>>
  OBVIOUS
<1>6. tag.name = TypeName(idocs[1]) /\ tag.tag = "open"
  BY <1>3 DEF Open
<1> QED
  BY <1>1, <1>2, <1>3, <1>4, <1>5, <1>6, TypeFacts

\* Every step keeps the types and the phases apart.
LEMMA TypesStep ==
  ASSUME Types, Phases, Rooted, RootOpen, ParsedSoFar, [Next]_vars
  PROVE  Types' /\ Phases'
<1> USE DEF emitting, parsing, flattening, Emitting
<1>1. CASE Group
  <2>1. PICK r : r = records[read + 1]
    OBVIOUS
  <2>2. PICK began : began = Begun(r)
    OBVIOUS
  <2>3. /\ read + 1 \in 1..Len(records) /\ idocs' \in Seq(IdocsOf(Nat))
        /\ pc' = "refused" \/ pc' = pc
    BY <1>1, <2>1, <2>2, GroupStep
  <2>4. /\ pc = "group" /\ read' = read + 1
        /\ UNCHANGED <<records, doc, seg, open_levels, xml, parsed, elements, last_at_level, out>>
    BY <1>1 DEF Group
  <2>5. doc = 0 /\ Len(idocs') \in Nat
    BY <2>3, <2>4, LenProperties DEF Phases
  <2>6. Types'
    BY <2>3, <2>4, <2>5, TypeFacts DEF Types
  <2> QED
    BY <2>3, <2>4, <2>5, <2>6 DEF Phases
<1>2. CASE OpenRoot
  <2>1. /\ pc = "group" /\ read = Len(records)
        /\ UNCHANGED <<records, read, idocs, doc, seg, open_levels, parsed, elements, last_at_level, out>>
    BY <1>2 DEF OpenRoot
  <2>2. CASE pc' = "refused"
    <3>1. xml' = xml
      BY <1>2, <2>2 DEF OpenRoot
    <3> QED
      BY <2>1, <2>2, <3>1 DEF Types, Phases
  <2>3. CASE pc' # "refused"
    <3>1. pc' = "documents" /\ xml' \in Seq(Tags) /\ Len(xml') = 1 /\ xml' # <<>>
      BY <1>2, <2>3, OpenRootStep
    <3>2. parsed = 0
      BY <2>1 DEF Phases
    <3>3. Types'
      BY <2>1, <3>1, <3>2 DEF Types
    <3> QED
      BY <2>1, <3>1, <3>3 DEF Phases
  <2> QED
    BY <2>2, <2>3
<1>3. CASE OpenDocument
  <2>1. /\ pc = "documents"
        /\ UNCHANGED <<records, read, idocs, open_levels, parsed, elements, last_at_level, out>>
    BY <1>3 DEF OpenDocument
  <2>2. parsed = 0 /\ elements = <<>> /\ out = <<>> /\ open_levels = <<>> /\ xml # <<>> /\ read = Len(records)
    BY <2>1 DEF Phases
  <2>3. CASE doc < Len(idocs)
    <3>1. doc + 1 \in 1..Len(idocs) /\ doc' = doc + 1 /\ seg' = 0 /\ pc' = "segments"
          /\ xml' \in Seq(Tags) /\ xml' # <<>>
      BY <1>3, <2>3, OpenDocumentStep
    <3>2. Len(xml') \in Nat /\ Len(idocs[doc'].segments) \in Nat
      BY <3>1, TypeFacts, LenProperties
    <3>3. Types'
      BY <2>1, <2>2, <3>1, <3>2, TypeFacts DEF Types
    <3> QED
      BY <2>1, <2>2, <3>1, <3>2, <3>3 DEF Phases
  <2>4. CASE ~(doc < Len(idocs))
    <3>1. xml' = Append(xml, Shut(TypeName(idocs[1]))) /\ doc' = 0 /\ pc' = "parse" /\ seg' = seg
      BY <1>3, <2>4 DEF OpenDocument
    <3>2. Shut(TypeName(idocs[1])) \in Tags
      <4>1. 1 \in 1..Len(idocs)
        BY <2>1, TypeFacts, EmptySeq DEF Rooted
      <4>2. {} \in FieldSets
        BY DEF FieldSets
      <4> QED
        BY <4>1, <4>2, TypeFacts, TagFacts
    <3>3. xml' \in Seq(Tags) /\ xml' # <<>> /\ Len(xml') \in Nat
      BY <3>1, <3>2, TypeFacts, AppendProperties, LenProperties
    <3>4. Types'
      BY <2>1, <2>2, <3>1, <3>3, TypeFacts DEF Types
    <3> QED
      BY <2>1, <2>2, <3>1, <3>3, <3>4 DEF Phases
  <2> QED
    BY <2>3, <2>4
<1>4. CASE CloseSegment \/ CloseRest
  <2>1. PICK level \in Nat : CloseLevel(level)
    <3>1. CASE CloseSegment
      <4>1. doc \in 1..Len(idocs) /\ seg + 1 \in 1..Len(idocs[doc].segments)
        <5>1. doc \in 1..Len(idocs)
          BY <3>1 DEF Phases, CloseSegment
        <5>2. seg < Len(idocs[doc].segments)
          BY <3>1 DEF CloseSegment
        <5> QED
          BY <5>1, <5>2, TypeFacts
      <4>2. idocs[doc].segments[seg + 1].hlevel \in Nat
        BY <4>1, TypeFacts
      <4> QED
        BY <3>1, <4>2 DEF CloseSegment
    <3>2. CASE CloseRest
      BY <3>2 DEF CloseRest
    <3> QED
      BY <1>4, <3>1, <3>2
  <2>2. /\ pc = "segments" /\ pc' = pc
        /\ UNCHANGED <<records, read, idocs, doc, seg, parsed, elements, last_at_level, out>>
    BY <1>4 DEF CloseSegment, CloseRest
  <2>3. xml # <<>> /\ parsed = 0
    BY <2>2 DEF Phases
  <2>4. xml' \in Seq(Tags) /\ xml' # <<>> /\ open_levels' \in Seq(OpenLevels)
    BY <2>1, <2>3, CloseLevelFacts
  <2>5. Len(xml') \in Nat
    BY <2>4, LenProperties
  <2>6. Types'
    BY <2>2, <2>3, <2>4, <2>5 DEF Types
  <2> QED
    BY <2>2, <2>3, <2>4, <2>6 DEF Phases
<1>5. CASE OpenSegment
  <2>1. /\ pc = "segments"
        /\ UNCHANGED <<records, read, idocs, doc, parsed, elements, last_at_level, out>>
    BY <1>5 DEF OpenSegment
  <2>2. CASE pc' = "refused"
    <3>1. UNCHANGED <<xml, open_levels, seg>>
      BY <1>5, <2>1, <2>2 DEF OpenSegment
    <3> QED
      BY <2>1, <2>2, <3>1 DEF Types, Phases
  <2>3. CASE pc' # "refused"
    <3>1. /\ doc \in 1..Len(idocs) /\ seg + 1 \in 1..Len(idocs[doc].segments)
          /\ xml' \in Seq(Tags) /\ xml' # <<>> /\ open_levels' \in Seq(OpenLevels)
          /\ seg' = seg + 1 /\ pc' = pc
      BY <1>5, <2>3, OpenSegmentStep
    <3>2. Len(xml') \in Nat /\ parsed = 0
      BY <2>1, <3>1, LenProperties DEF Phases
    <3>3. Types'
      BY <2>1, <3>1, <3>2, TypeFacts DEF Types
    <3> QED
      BY <2>1, <3>1, <3>3, TypeFacts DEF Phases
  <2> QED
    BY <2>2, <2>3
<1>6. CASE CloseDocument
  <2>1. /\ pc = "segments" /\ pc' = "documents" /\ open_levels' = <<>>
        /\ xml' = Append(xml, Shut("IDOC"))
        /\ UNCHANGED <<records, read, idocs, doc, seg, parsed, elements, last_at_level, out>>
    BY <1>6 DEF CloseDocument
  <2>2. xml' \in Seq(Tags) /\ xml' # <<>> /\ Len(xml') \in Nat
    <3>1. PICK tag \in Tags : tag = Shut("IDOC")
      BY TagFacts, LiteralsAreStrings DEF FieldSets
    <3>2. xml \in Seq(Tags)
      BY TypeFacts
    <3>3. xml' \in Seq(Tags) /\ xml' # <<>>
      BY <2>1, <3>1, <3>2, AppendProperties
    <3> QED
      BY <3>3, LenProperties
  <2>3. parsed = 0 /\ open_levels' \in Seq(OpenLevels)
    BY <2>1, EmptySeq DEF Phases
  <2>4. Types'
    BY <2>1, <2>2, <2>3 DEF Types
  <2> QED
    BY <2>1, <2>2, <2>4 DEF Phases
<1>7. CASE ParseOpen
  <2>1. /\ pc = "parse" /\ pc' = pc /\ parsed < Len(xml) /\ parsed' = parsed + 1
        /\ elements' = Append(elements, xml[parsed + 1].name)
        /\ idocs' = IF parsed > 0 THEN Collected(xml[parsed + 1], Len(elements))
                    ELSE IF RootIsIdoc THEN <<NewIdoc>> ELSE <<>>
        /\ UNCHANGED <<records, read, doc, seg, open_levels, xml, last_at_level, out>>
    BY <1>7 DEF ParseOpen
  <2>2. parsed + 1 \in 1..Len(xml) /\ xml[parsed + 1] \in Tags /\ xml[parsed + 1].name \in STRING
    BY <2>1, TypeFacts
  <2>3. elements' \in Seq(STRING)
    BY <2>1, <2>2, TypeFacts, AppendProperties
  <2>4. parsed > 0 => Len(elements) \in Nat \ {0}
    <3> SUFFICES ASSUME parsed > 0
                 PROVE  elements # <<>>
      BY TypeFacts, EmptySeq
    <3>1. parsed \in 1..(Len(xml) - 1)
      BY <2>1, TypeFacts
    <3> QED
      BY <2>1, <3>1 DEF RootOpen, RootStays, ParsedSoFar
  <2>5. idocs' \in Seq(IdocsOf(Nat))
    <3>1. CASE parsed > 0
      BY <2>1, <2>2, <2>4, <3>1, TypeFacts, CollectedType
    <3>2. CASE ~(parsed > 0)
      <4>1. NewIdoc \in IdocsOf(Nat)
        BY EmptySeq DEF NewIdoc, IdocsOf, FieldSets
      <4>2. <<NewIdoc>> \in Seq(IdocsOf(Nat)) /\ <<>> \in Seq(IdocsOf(Nat))
        BY <4>1
      <4> QED
        BY <2>1, <3>2, <4>2
    <3> QED
      BY <3>1, <3>2
  <2>6. doc = 0 /\ Len(idocs') \in Nat
    BY <2>1, <2>5, LenProperties DEF Phases
  <2>7. Types'
    BY <2>1, <2>2, <2>3, <2>5, <2>6 DEF Types
  <2> QED
    BY <2>1, <2>6, <2>7 DEF Phases
<1>8. CASE ParseClose
  <2>1. /\ pc = "parse" /\ parsed < Len(xml) /\ parsed' = parsed + 1
        /\ UNCHANGED <<records, read, idocs, doc, seg, open_levels, xml, last_at_level, out>>
    BY <1>8 DEF ParseClose
  <2>2. elements' \in Seq(STRING) /\ pc' \in {"parse", "malformed"}
    <3>1. CASE elements # <<>> /\ LastOf(elements) = xml[parsed + 1].name
      <4>1. elements' = SubSeq(elements, 1, Len(elements) - 1) /\ pc' = pc
        BY <1>8, <3>1 DEF ParseClose
      <4> QED
        BY <2>1, <3>1, <4>1, TypeFacts, FrontFacts
    <3>2. CASE ~(elements # <<>> /\ LastOf(elements) = xml[parsed + 1].name)
      <4>1. elements' = elements /\ pc' = "malformed"
        BY <1>8, <3>2 DEF ParseClose
      <4> QED
        BY <4>1, TypeFacts
    <3> QED
      BY <3>1, <3>2
  <2>3. parsed' \in 0..Len(xml')
    BY <2>1, TypeFacts
  <2>4. Types'
    BY <2>1, <2>2, <2>3 DEF Types
  <2> QED
    BY <2>1, <2>2, <2>4 DEF Phases
<1>9. CASE Parsed
  <2>1. /\ pc = "parse"
        /\ UNCHANGED <<records, read, idocs, open_levels, xml, parsed, elements, last_at_level, out>>
        /\ \/ pc' = "flatten" /\ doc' = 0 /\ seg' = 0
           \/ pc' = "refused" /\ doc' = doc /\ seg' = seg
    BY <1>9 DEF Parsed
  <2>2. doc' \in 0..Len(idocs')
    BY <2>1, TypeFacts
  <2>3. Types'
    BY <2>1, <2>2 DEF Types
  <2> QED
    BY <2>1, <2>3 DEF Phases
<1>10. CASE FlattenDocument
  <2>1. /\ pc = "flatten"
        /\ UNCHANGED <<records, read, idocs, open_levels, xml, parsed, elements>>
    BY <1>10 DEF FlattenDocument
  <2>2. CASE doc < Len(idocs)
    <3>1. /\ doc' = doc + 1 /\ seg' = 0 /\ last_at_level' = <<>> /\ pc' = pc
          /\ out' = Append(out, [idoctyp |-> FieldValue(idocs[doc + 1].control, "IDOCTYP")])
      BY <1>10, <2>2 DEF FlattenDocument
    <3>2. doc + 1 \in 1..Len(idocs) /\ idocs[doc + 1].control \in FieldSets
      BY <2>2, TypeFacts
    <3>3. FieldValue(idocs[doc + 1].control, "IDOCTYP") \in STRING
      BY <3>2, FieldFacts, LiteralsAreStrings
    <3>4. out' \in Seq(ControlRecord \cup DataRecord)
      <4>1. PICK c \in ControlRecord : c = [idoctyp |-> FieldValue(idocs[doc + 1].control, "IDOCTYP")]
        BY <3>3 DEF ControlRecord
      <4> QED
        BY <3>1, <4>1, TypeFacts, AppendProperties
    <3>5. \A l \in DOMAIN last_at_level' : last_at_level'[l] \in Nat
      BY <3>1
    <3>6. Types'
      BY <2>1, <3>1, <3>2, <3>4, <3>5 DEF Types
    <3>7. Len(idocs[doc + 1].segments) \in Nat
      BY <3>2, TypeFacts
    <3> QED
      BY <2>1, <3>1, <3>6, <3>7 DEF Phases
  <2>3. CASE ~(doc < Len(idocs))
    <3>1. pc' = "done" /\ UNCHANGED <<doc, seg, out, last_at_level>>
      BY <1>10, <2>3 DEF FlattenDocument
    <3> QED
      BY <2>1, <3>1 DEF Types, Phases
  <2> QED
    BY <2>2, <2>3
<1>11. CASE FlattenSegment
  <2>1. /\ pc = "flatten" /\ doc # 0 /\ seg < Len(idocs[doc].segments)
        /\ UNCHANGED <<records, read, idocs, doc, open_levels, xml, parsed, elements>>
    BY <1>11 DEF FlattenSegment, SegmentsLeft
  <2>2. PICK s : s = idocs[doc].segments[seg + 1]
    OBVIOUS
  <2>3. /\ doc \in 1..Len(idocs) /\ seg + 1 \in 1..Len(idocs[doc].segments)
        /\ s.segnam \in STRING /\ s.hlevel \in Nat /\ s.fields \in FieldSets
    <3>1. doc \in 1..Len(idocs)
      BY <2>1, TypeFacts
    <3>2. seg + 1 \in 1..Len(idocs[doc].segments)
      BY <2>1, <3>1, TypeFacts
    <3> QED
      BY <2>2, <3>1, <3>2, TypeFacts
  <2>4. CASE s.segnam \notin Dictionary /\ s.fields # {}
    <3>1. pc' = "refused" /\ UNCHANGED <<seg, last_at_level, out>>
      BY <1>11, <2>2, <2>4 DEF FlattenSegment
    <3> QED
      BY <2>1, <3>1 DEF Types, Phases
  <2>5. CASE ~(s.segnam \notin Dictionary /\ s.fields # {})
    <3>1. /\ seg' = seg + 1 /\ pc' = pc
          /\ last_at_level' = Put(last_at_level, s.hlevel, seg + 1)
          /\ out' = Append(out, [segnam |-> s.segnam, level |-> s.hlevel,
                                 payload |-> FieldValue(s.fields, "F"), psgnum |-> ParentOf(s.hlevel)])
      BY <1>11, <2>2, <2>5 DEF FlattenSegment
    <3>2. \A l \in DOMAIN last_at_level : last_at_level[l] \in Nat
      BY DEF Types
    <3>3. \A l \in DOMAIN last_at_level' : last_at_level'[l] \in Nat
      BY SMTT(30), <2>3, <3>1, <3>2, TypeFacts DEF Put
    <3>4. ParentOf(s.hlevel) \in Nat
      BY <3>2 DEF ParentOf
    <3>5. FieldValue(s.fields, "F") \in STRING
      BY <2>3, FieldFacts, LiteralsAreStrings
    <3>6. out' \in Seq(ControlRecord \cup DataRecord)
      <4>1. PICK r \in DataRecord :
              r = [segnam |-> s.segnam, level |-> s.hlevel,
                   payload |-> FieldValue(s.fields, "F"), psgnum |-> ParentOf(s.hlevel)]
        BY <2>3, <3>4, <3>5 DEF DataRecord
      <4> QED
        BY <3>1, <4>1, TypeFacts, AppendProperties
    <3>7. Types'
      BY <2>1, <2>3, <3>1, <3>3, <3>6, TypeFacts DEF Types
    <3>8. seg + 1 <= Len(idocs[doc].segments)
      BY <2>3
    <3> QED
      BY <2>1, <3>1, <3>7, <3>8 DEF Phases
  <2> QED
    BY <2>4, <2>5
<1>12. CASE UNCHANGED vars
  BY <1>12 DEF vars, Types, Phases
<1> QED
  BY <1>1, <1>2, <1>3, <1>4, <1>5, <1>6, <1>7, <1>8, <1>9, <1>10, <1>11, <1>12 DEF Next

-----------------------------------------------------------------------------
(* What is emitted, and the parser beside it.                              *)

\* The steps that do not emit leave what is emitted alone.
LEMMA EmitFrame ==
  ASSUME [Next]_vars,
         ~Group, ~OpenRoot, ~OpenDocument, ~CloseSegment, ~OpenSegment, ~CloseRest, ~CloseDocument
  PROVE  UNCHANGED <<records, read, open_levels, xml>> /\ (pc' \in Emitting => UNCHANGED vars)
<1>1. CASE ParseOpen
  BY <1>1 DEF ParseOpen, emitting, Emitting
<1>2. CASE ParseClose
  BY <1>2 DEF ParseClose, emitting, Emitting
<1>3. CASE Parsed
  BY <1>3 DEF Parsed, emitting, Emitting
<1>4. CASE FlattenDocument
  BY <1>4 DEF FlattenDocument, emitting, Emitting
<1>5. CASE FlattenSegment
  BY <1>5 DEF FlattenSegment, emitting, Emitting
<1>6. CASE UNCHANGED vars
  BY <1>6 DEF vars
<1> QED
  BY <1>1, <1>2, <1>3, <1>4, <1>5, <1>6 DEF Next

\* A segment is opened on a lower level, and the last opened is closed first.
LEMMA IncreasingStep ==
  ASSUME Types, Phases, Increasing, [Next]_vars
  PROVE  Increasing'
<1> USE DEF emitting, Increasing
<1>0. DOMAIN open_levels = 1..Len(open_levels)
  BY LenProperties DEF Types
<1>1. CASE open_levels' = open_levels
  BY <1>1 DEF OpenLevelsIncrease
<1>2. CASE CloseSegment \/ CloseRest
  <2>1. PICK level \in Nat : CloseLevel(level)
    <3>1. CASE CloseSegment
      <4>1. doc \in 1..Len(idocs) /\ seg < Len(idocs[doc].segments)
        BY <3>1 DEF Phases, CloseSegment
      <4>2. seg + 1 \in 1..Len(idocs[doc].segments)
        BY <4>1, TypeFacts
      <4>3. idocs[doc].segments[seg + 1].hlevel \in Nat
        BY <4>1, <4>2, TypeFacts
      <4> QED
        BY <3>1, <4>3 DEF CloseSegment
    <3>2. CASE CloseRest
      BY <3>2 DEF CloseRest
    <3> QED
      BY <1>2, <3>1, <3>2
  <2>2. xml # <<>>
    BY <1>2 DEF Phases, CloseSegment, CloseRest, Emitting
  <2>3. /\ open_levels' \in Seq(OpenLevels) /\ Len(open_levels') = Len(open_levels) - 1
        /\ \A k \in 1..(Len(open_levels) - 1) : open_levels'[k] = open_levels[k]
    BY <2>1, <2>2, CloseLevelFacts
  <2>4. DOMAIN open_levels' = 1..(Len(open_levels) - 1)
    BY <2>3, LenProperties
  <2>5. \A k \in 1..(Len(open_levels) - 1) : k \in 1..Len(open_levels)
    BY TypeFacts
  <2> QED
    BY <1>0, <2>3, <2>4, <2>5 DEF OpenLevelsIncrease
<1>3. CASE OpenSegment /\ pc' # "refused"
  <2>1. PICK s : s = idocs[doc].segments[seg + 1]
    OBVIOUS
  <2>2. PICK o : o = [segnam |-> s.segnam, level |-> s.hlevel]
    OBVIOUS
  <2>3. /\ o \in OpenLevels /\ o.level = s.hlevel /\ s.hlevel \in Nat
        /\ open_levels' = Append(open_levels, o)
    BY <1>3, <2>1, <2>2, OpenSegmentStep
  <2>4. open_levels # <<>> => open_levels[Len(open_levels)].level < s.hlevel
    <3>1. ~Closes(s.hlevel)
      BY <1>3, <2>1 DEF OpenSegment
    <3>2. open_levels # <<>> => open_levels[Len(open_levels)].level \in Nat
      <4> SUFFICES ASSUME open_levels # <<>>
                   PROVE  open_levels[Len(open_levels)].level \in Nat
        OBVIOUS
      <4>1. LastOf(open_levels) \in OpenLevels
        BY TypeFacts, FrontFacts
      <4> QED
        BY <4>1 DEF LastOf, OpenLevels
    <3> QED
      BY <2>3, <3>1, <3>2 DEF Closes, LastOf
  <2>5. /\ open_levels' \in Seq(OpenLevels) /\ Len(open_levels') = Len(open_levels) + 1
        /\ \A k \in 1..Len(open_levels) : open_levels'[k] = open_levels[k]
        /\ open_levels'[Len(open_levels) + 1] = o
    BY <2>3, TypeFacts, AppendProperties
  <2>6. PICK n \in Nat : n = Len(open_levels)
    BY TypeFacts
  <2>7. DOMAIN open_levels' = 1..(n + 1)
    BY <2>5, <2>6, LenProperties
  <2>8. \A k \in 1..n : open_levels[k].level \in Nat
    <3>1. \A k \in 1..n : open_levels[k] \in OpenLevels
      BY <2>6, TypeFacts, ElementOfSeq
    <3> QED
      BY <3>1 DEF OpenLevels
  <2>9. \A i \in 1..n : open_levels[i].level < s.hlevel
    <3> TAKE i \in 1..n
    <3>1. open_levels # <<>> /\ n \in 1..n
      BY <2>6, TypeFacts, EmptySeq
    <3>2. i = n \/ open_levels[i].level < open_levels[n].level
      <4>1. i \in DOMAIN open_levels /\ n \in DOMAIN open_levels
        BY <1>0, <2>6, <3>1
      <4>2. i = n \/ i < n
        OBVIOUS
      <4> QED
        BY <4>1, <4>2 DEF OpenLevelsIncrease
    <3> QED
      BY <2>3, <2>4, <2>6, <2>8, <3>1, <3>2
  <2>10. ASSUME NEW i \in 1..(n + 1), NEW j \in 1..(n + 1), i < j
         PROVE  open_levels'[i].level < open_levels'[j].level
    <3>1. i \in 1..n /\ open_levels'[i] = open_levels[i]
      BY <2>5, <2>6, <2>10
    <3>2. CASE j = n + 1
      BY <2>3, <2>5, <2>6, <2>9, <3>1, <3>2
    <3>3. CASE j # n + 1
      <4>1. j \in 1..n /\ open_levels'[j] = open_levels[j]
        BY <2>5, <2>6, <3>3
      <4> QED
        BY <1>0, <2>6, <2>10, <3>1, <4>1 DEF OpenLevelsIncrease
    <3> QED
      BY <3>2, <3>3
  <2> QED
    BY <2>7, <2>10 DEF OpenLevelsIncrease
<1>4. CASE CloseDocument
  <2>1. open_levels' = <<>>
    BY <1>4 DEF CloseDocument
  <2>2. DOMAIN open_levels' = {}
    BY <2>1
  <2> QED
    BY <2>2 DEF OpenLevelsIncrease
<1>5. CASE Group \/ OpenRoot \/ OpenDocument
  <2>1. open_levels' = open_levels
    BY <1>5 DEF Group, OpenRoot, OpenDocument
  <2> QED
    BY <1>1, <2>1
<1>6. CASE OpenSegment /\ pc' = "refused"
  <2>1. open_levels' = open_levels
    <3>1. pc = "segments"
      BY <1>6 DEF OpenSegment
    <3> QED
      BY <1>6, <3>1 DEF OpenSegment
  <2> QED
    BY <1>1, <2>1
<1> QED
  BY <1>1, <1>2, <1>3, <1>4, <1>5, <1>6, EmitFrame

\* No segment of the file is called like a control record, and the root is named by the
\* first document.
LEMMA NamesStep ==
  ASSUME Types, Phases, Named, Rooted, [Next]_vars
  PROVE  Named' /\ Rooted'
<1> USE DEF emitting, parsing, flattening, Emitting
<1>1. CASE Group
  <2>1. PICK r : r = records[read + 1]
    OBVIOUS
  <2>2. PICK began : began = Begun(r)
    OBVIOUS
  <2>3. /\ read + 1 \in 1..Len(records) /\ began \in Seq(IdocsOf(Nat)) /\ Len(began) \in Nat \ {0}
        /\ ~IsControl(r) => SegmentOf(r) \in SegmentsOf(Nat)
        /\ \/ pc' = "refused"
           \/ /\ pc' = pc /\ Len(idocs') = Len(began)
              /\ \A e \in 1..Len(began) : e # Len(began) => idocs'[e] = began[e]
              /\ IF IsControl(r)
                 THEN idocs'[Len(began)].segments = began[Len(began)].segments
                 ELSE idocs'[Len(began)].segments = Append(began[Len(began)].segments, SegmentOf(r))
    BY <1>1, <2>1, <2>2, GroupStep
  <2>4. pc = "group" /\ (~IsControl(r) => SegmentOf(r).segnam # "EDI_DC40")
    BY <1>1, <2>1, <2>3, TypeFacts, RecordFacts DEF Group, SegmentOf
  <2>5. \A d \in 1..Len(began) : \A k \in 1..Len(began[d].segments) :
          began[d].segments[k].segnam # "EDI_DC40"
    <3>1. CASE began = idocs
      BY <2>4, <3>1 DEF Named
    <3>2. CASE began # idocs
      <4>1. began = Append(idocs, NewIdoc)
        BY <2>2, <3>2 DEF Begun
      <4>2. NewIdoc \in IdocsOf(Nat) /\ Len(NewIdoc.segments) = 0
        BY EmptySeq DEF NewIdoc, IdocsOf, FieldSets
      <4>3. /\ Len(began) = Len(idocs) + 1 /\ began[Len(idocs) + 1] = NewIdoc
            /\ \A d \in 1..Len(idocs) : began[d] = idocs[d]
        BY <4>1, <4>2, TypeFacts, AppendProperties
      <4>4. ASSUME NEW d \in 1..Len(began), NEW k \in 1..Len(began[d].segments)
            PROVE  began[d].segments[k].segnam # "EDI_DC40"
        <5>1. CASE d = Len(idocs) + 1
          BY <4>2, <4>3, <4>4, <5>1
        <5>2. CASE d # Len(idocs) + 1
          <6>1. d \in 1..Len(idocs) /\ began[d] = idocs[d]
            BY <4>3, <5>2, TypeFacts
          <6> QED
            BY <2>4, <4>4, <6>1 DEF Named
        <5> QED
          BY <5>1, <5>2
      <4> QED
        BY <4>4
    <3> QED
      BY <3>1, <3>2
  <2>6. ASSUME pc' # "refused", NEW d \in 1..Len(idocs'), NEW k \in 1..Len(idocs'[d].segments)
        PROVE  idocs'[d].segments[k].segnam # "EDI_DC40"
    <3>1. CASE d # Len(began) \/ IsControl(r)
      <4>1. d \in 1..Len(began) /\ idocs'[d].segments = began[d].segments
        BY <2>3, <2>6, <3>1
      <4> QED
        BY <2>5, <2>6, <4>1
    <3>2. CASE d = Len(began) /\ ~IsControl(r)
      <4>1. d \in 1..Len(began) /\ began[d].segments \in Seq(SegmentsOf(Nat))
            /\ idocs'[d].segments = Append(began[d].segments, SegmentOf(r))
        BY <2>3, <2>6, <3>2, IdocFacts
      <4>2. /\ Len(idocs'[d].segments) = Len(began[d].segments) + 1
            /\ idocs'[d].segments[Len(began[d].segments) + 1] = SegmentOf(r)
            /\ \A j \in 1..Len(began[d].segments) : idocs'[d].segments[j] = began[d].segments[j]
            /\ Len(began[d].segments) \in Nat
        BY <2>3, <3>2, <4>1, AppendProperties, LenProperties
      <4>3. CASE k = Len(began[d].segments) + 1
        BY <2>4, <3>2, <4>2, <4>3
      <4>4. CASE k # Len(began[d].segments) + 1
        <5>1. k \in 1..Len(began[d].segments)
          BY <2>6, <4>2, <4>4
        <5> QED
          BY <2>5, <4>1, <4>2, <5>1
      <4> QED
        BY <4>3, <4>4
    <3> QED
      BY <3>1, <3>2
  <2>7. pc' \notin {"documents", "segments"}
    BY <2>3, <2>4
  <2>8. pc' = "refused" \/ pc' = "group"
    BY <2>3, <2>4
  <2> QED
    BY <2>6, <2>7, <2>8 DEF Named, Rooted
<1>2. CASE OpenRoot
  <2>1. pc = "group" /\ idocs' = idocs
    BY <1>2 DEF OpenRoot
  <2>2. Named'
    BY <2>1 DEF Named
  <2>3. CASE pc' = "refused"
    BY <2>2, <2>3 DEF Rooted
  <2>4. CASE pc' # "refused"
    <3>1. idocs # <<>> /\ xml'[1].name = TypeName(idocs[1])
      BY <1>2, <2>4, OpenRootStep
    <3>2. TypeName(idocs[1])' = TypeName(idocs[1])
      BY <2>1 DEF TypeName
    <3> QED
      BY <2>1, <2>2, <3>1, <3>2 DEF Rooted
  <2> QED
    BY <2>3, <2>4
<1>3. CASE OpenDocument \/ CloseSegment \/ OpenSegment \/ CloseRest \/ CloseDocument
  <2>1. pc \in {"documents", "segments"} /\ idocs' = idocs
    BY <1>3 DEF OpenDocument, CloseSegment, OpenSegment, CloseRest, CloseDocument
  <2>2. Named'
    BY <2>1 DEF Named
  <2>3. pc' \in {"documents", "segments"} => xml'[1] = xml[1]
    <3> SUFFICES ASSUME pc' \in {"documents", "segments"}
                 PROVE  xml'[1] = xml[1]
      OBVIOUS
    <3>1. xml \in Seq(Tags) /\ xml # <<>> /\ Len(xml) \in Nat \ {0}
      BY <2>1, TypeFacts, EmptySeq DEF Phases
    <3>2. \A t \in Tags : Append(xml, t) \in Seq(Tags) /\ Append(xml, t) # <<>> /\ Append(xml, t)[1] = xml[1]
      BY <3>1, AppendProperties
    <3>3. CASE OpenDocument
      <4>1. doc < Len(idocs)
        BY <3>3 DEF OpenDocument
      <4>2. PICK a \in Tags, b \in Tags, c \in Tags : xml' = Append(Append(Append(xml, a), b), c)
        BY <3>3, <4>1, OpenDocumentStep
      <4>3. Append(Append(xml, a), b) \in Seq(Tags) /\ Append(xml, a) \in Seq(Tags)
            /\ Append(xml, a)[1] = xml[1] /\ Len(Append(xml, a)) \in Nat \ {0}
        BY <3>1, <3>2, AppendProperties
      <4>4. Append(Append(xml, a), b)[1] = xml[1] /\ Len(Append(Append(xml, a), b)) \in Nat \ {0}
        BY <4>3, AppendProperties
      <4> QED
        BY <4>2, <4>3, <4>4, AppendProperties
    <3>4. CASE ~OpenDocument
      <4>1. PICK t \in Tags : xml' = Append(xml, t)
        <5>1. CASE CloseSegment
          <6>1. doc \in 1..Len(idocs) /\ seg < Len(idocs[doc].segments)
            BY <5>1 DEF Phases, CloseSegment
          <6>2. seg + 1 \in 1..Len(idocs[doc].segments)
            BY <6>1, TypeFacts
          <6>3. idocs[doc].segments[seg + 1].hlevel \in Nat
            BY <6>1, <6>2, TypeFacts
          <6> QED
            BY <3>1, <5>1, <6>3, CloseLevelFacts DEF CloseSegment
        <5>2. CASE CloseRest
          <6>1. CloseLevel(1) /\ 1 \in Nat
            BY <5>2 DEF CloseRest
          <6> QED
            BY <3>1, <6>1, CloseLevelFacts
        <5>3. CASE OpenSegment
          BY <5>3, OpenSegmentStep
        <5>4. CASE CloseDocument
          <6>1. Shut("IDOC") \in Tags
            BY TagFacts, LiteralsAreStrings DEF FieldSets
          <6> QED
            BY <5>4, <6>1 DEF CloseDocument
        <5> QED
          BY <1>3, <3>4, <5>1, <5>2, <5>3, <5>4
      <4> QED
        BY <3>2, <4>1
    <3> QED
      BY <3>3, <3>4
  <2>4. TypeName(idocs[1])' = TypeName(idocs[1])
    BY <2>1 DEF TypeName
  <2> QED
    BY <2>1, <2>2, <2>3, <2>4 DEF Rooted
<1>4. CASE ~(Group \/ OpenRoot \/ OpenDocument \/ CloseSegment \/ OpenSegment \/ CloseRest \/ CloseDocument)
  <2>1. pc' \in Emitting => UNCHANGED vars
    BY <1>4, EmitFrame
  <2>2. pc' # "group" \/ UNCHANGED vars
    BY <1>4 DEF Next, ParseOpen, ParseClose, Parsed, FlattenDocument, FlattenSegment
  <2>3. CASE UNCHANGED vars
    BY <2>3 DEF vars, Named, Rooted, TypeName
  <2>4. CASE ~UNCHANGED vars
    BY <2>1, <2>2, <2>4 DEF Named, Rooted
  <2> QED
    BY <2>3, <2>4
<1> QED
  BY <1>1, <1>2, <1>3, <1>4

\* More tags.
Opening(x, name, fields) == Append(x, Open(name, fields))
Closing(x, name) == Append(x, Shut(name))

\* The tags y are x with an opening tag, below the root, and what the parser makes of it.
IsOpened(y, x, name, fields) ==
  /\ y \in Seq(Tags) /\ y # <<>> /\ y[1] = x[1]
  /\ After(y).ok <=> After(x).ok
  /\ After(x).ok =>
       /\ Len(After(y).elements) = Len(After(x).elements) + 1
       /\ \A k \in 1..Len(After(x).elements) : After(y).elements[k] = After(x).elements[k]
       /\ After(y).elements[Len(After(x).elements) + 1] = name
       /\ After(y).elements # <<>>
       /\ After(y).idocs = Gather(After(x).idocs, Open(name, fields), Len(After(x).elements))
  /\ RootStays(x) /\ (After(x).ok => After(x).elements # <<>>) => RootStays(y)

\* The tags y are x with a closing tag.
IsClosed(y, x, name) ==
  /\ y \in Seq(Tags) /\ y # <<>> /\ y[1] = x[1]
  /\ After(y).ok <=> /\ After(x).ok /\ After(x).elements # <<>>
                     /\ After(x).elements[Len(After(x).elements)] = name
  /\ After(y).ok =>
       /\ Len(After(y).elements) = Len(After(x).elements) - 1
       /\ \A k \in 1..(Len(After(x).elements) - 1) : After(y).elements[k] = After(x).elements[k]
       /\ After(y).idocs = After(x).idocs
  /\ RootStays(x) /\ (After(x).ok => After(x).elements # <<>>) => RootStays(y)

\* The parser after an opening tag.
LEMMA AfterOpening ==
  ASSUME NEW x \in Seq(Tags), x # <<>>, NEW name \in STRING, NEW fields \in FieldSets
  PROVE  IsOpened(Opening(x, name, fields), x, name, fields)
<1> DEFINE y == Opening(x, name, fields)
<1>1. Open(name, fields) \in Tags /\ Len(x) \in Nat \ {0}
  BY TagFacts, EmptySeq
<1>2. After(y) = Parse(After(x), Open(name, fields), FALSE)
  <2>1. After(y) = Parse(After(x), Open(name, fields), Len(x) = 0)
    BY <1>1, RunAppend DEF Opening
  <2>2. (Len(x) = 0) = FALSE
    BY <1>1
  <2> QED
    BY <2>1, <2>2
<1>3. Open(name, fields).tag = "open" /\ Open(name, fields).name = name
  BY DEF Open
<1>4. After(x).elements \in Seq(STRING) /\ After(x).ok \in BOOLEAN
  BY AfterFacts
<1>5. /\ y \in Seq(Tags) /\ y # <<>> /\ y[1] = x[1]
  <2>1. PICK tag \in Tags : tag = Open(name, fields)
    BY <1>1
  <2>2. y = Append(x, tag)
    BY <2>1 DEF Opening
  <2>3. 1 \in 1..Len(x)
    BY <1>1
  <2> QED
    BY <2>2, <2>3, AppendProperties
<1>6. RootStays(x) /\ (After(x).ok => After(x).elements # <<>>) => RootStays(y)
  BY <1>1, OpenAppend DEF Opening
<1> HIDE DEF y
<1>7. /\ After(y).ok <=> After(x).ok
      /\ After(x).ok =>
           /\ Len(After(y).elements) = Len(After(x).elements) + 1
           /\ \A k \in 1..Len(After(x).elements) : After(y).elements[k] = After(x).elements[k]
           /\ After(y).elements[Len(After(x).elements) + 1] = name
           /\ After(y).elements # <<>>
           /\ After(y).idocs = Gather(After(x).idocs, Open(name, fields), Len(After(x).elements))
  <2>1. CASE After(x).ok
    <3>1. /\ After(y).ok /\ After(y).elements = Append(After(x).elements, name)
          /\ After(y).idocs = Gather(After(x).idocs, Open(name, fields), Len(After(x).elements))
      BY <1>2, <1>3, <2>1 DEF Parse
    <3> QED
      BY SMTT(30), <1>4, <2>1, <3>1, AppendProperties
  <2>2. CASE ~After(x).ok
    BY <1>2, <2>2 DEF Parse
  <2> QED
    BY <2>1, <2>2
<1> QED
  BY <1>5, <1>6, <1>7 DEF y, IsOpened

\* The parser after a closing tag.
LEMMA AfterClosing ==
  ASSUME NEW x \in Seq(Tags), x # <<>>, NEW name \in STRING
  PROVE  IsClosed(Closing(x, name), x, name)
<1> DEFINE y == Closing(x, name)
<1>1. Shut(name) \in Tags /\ Len(x) \in Nat \ {0}
  BY TagFacts, EmptySeq DEF FieldSets
<1>2. After(y) = Parse(After(x), Shut(name), FALSE)
  <2>1. After(y) = Parse(After(x), Shut(name), Len(x) = 0)
    BY <1>1, RunAppend DEF Closing
  <2>2. (Len(x) = 0) = FALSE
    BY <1>1
  <2> QED
    BY <2>1, <2>2
<1>3. Shut(name).tag = "close" /\ Shut(name).name = name
  BY DEF Shut
<1>4. After(x).elements \in Seq(STRING) /\ After(x).ok \in BOOLEAN
  BY AfterFacts
<1>5. /\ y \in Seq(Tags) /\ y # <<>> /\ y[1] = x[1]
  <2>1. PICK tag \in Tags : tag = Shut(name)
    BY <1>1
  <2>2. y = Append(x, tag)
    BY <2>1 DEF Closing
  <2>3. 1 \in 1..Len(x)
    BY <1>1
  <2> QED
    BY <2>2, <2>3, AppendProperties
<1>6. RootStays(x) /\ (After(x).ok => After(x).elements # <<>>) => RootStays(y)
  BY <1>1, OpenAppend DEF Closing
<1> HIDE DEF y
<1>7. CASE ~After(x).ok
  <2>1. ~After(y).ok
    BY <1>2, <1>7 DEF Parse
  <2> QED
    BY <1>5, <1>6, <1>7, <2>1 DEF y, IsClosed
<1>8. CASE After(x).ok /\ After(x).elements # <<>> /\ LastOf(After(x).elements) = name
  <2>1. /\ After(y).ok /\ After(y).idocs = After(x).idocs
        /\ After(y).elements = SubSeq(After(x).elements, 1, Len(After(x).elements) - 1)
    BY <1>2, <1>3, <1>8 DEF Parse
  <2>2. /\ Len(SubSeq(After(x).elements, 1, Len(After(x).elements) - 1)) = Len(After(x).elements) - 1
        /\ \A k \in 1..(Len(After(x).elements) - 1) :
             SubSeq(After(x).elements, 1, Len(After(x).elements) - 1)[k] = After(x).elements[k]
    BY <1>4, <1>8, FrontFacts
  <2> QED
    BY <1>5, <1>6, <1>8, <2>1, <2>2 DEF LastOf, y, IsClosed
<1>9. CASE After(x).ok /\ ~(After(x).elements # <<>> /\ LastOf(After(x).elements) = name)
  <2>1. ~After(y).ok
    BY <1>2, <1>3, <1>9 DEF Parse
  <2> QED
    BY <1>5, <1>6, <1>9, <2>1 DEF LastOf, y, IsClosed
<1> QED
  BY <1>7, <1>8, <1>9

\* The parser after the root, below which there is nothing yet.
LEMMA AfterRoot ==
  ASSUME NEW name \in STRING, NEW fields \in FieldSets, NEW y, y = Append(<<>>, Open(name, fields))
  PROVE  After(y).ok /\ After(y).elements = <<name>> /\ After(y).idocs = <<>>
<1>1. Open(name, fields) \in Tags /\ <<>> \in Seq(Tags) /\ Len(<<>>) = 0
  BY TagFacts, EmptySeq
<1>2. PICK x \in Seq(Tags) : x = <<>>
  BY <1>1
<1>3. After(y) = Parse(After(x), Open(name, fields), Len(x) = 0)
  BY <1>1, <1>2, RunAppend
<1>4. Len(x) = 0 /\ Run(x)[0] = Start
  BY <1>1, <1>2, RunFacts
<1>5. After(x) = Start
  BY <1>4 DEF After
<1>6. (Len(x) = 0) = TRUE
  BY <1>4
<1>7. After(y) = Parse(Start, Open(name, fields), TRUE)
  BY <1>3, <1>5, <1>6
<1>8. Start.ok /\ Start.elements = <<>>
  BY DEF Start
<1>9. Open(name, fields).tag = "open" /\ Open(name, fields).name = name
  BY DEF Open
<1>10. After(y).ok /\ After(y).elements = Append(<<>>, name) /\ After(y).idocs = <<>>
  BY <1>7, <1>8, <1>9 DEF Parse
<1>11. Append(<<>>, name) = <<name>>
  OBVIOUS
<1> QED
  BY <1>10, <1>11

\* While a document is written, its segments and the stack.
LEMMA StackFacts ==
  ASSUME Types, Phases, SameOpen, pc \in Emitting
  PROVE  /\ xml \in Seq(Tags) /\ xml # <<>>
         /\ After(xml).ok => After(xml).elements # <<>>
<1>1. xml \in Seq(Tags) /\ xml # <<>>
  BY TypeFacts DEF Phases, Emitting
<1>2. After(xml).elements \in Seq(STRING) /\ Len(After(xml).elements) \in Nat /\ Len(open_levels) \in Nat
  BY <1>1, AfterFacts, TypeFacts
<1>3. ASSUME After(xml).ok
      PROVE  Len(After(xml).elements) # 0
  <2>1. CASE pc = "documents"
    BY <1>3, <2>1 DEF SameOpen, Below
  <2>2. CASE pc # "documents"
    <3>1. Below(After(xml).elements, Len(After(xml).elements) - Len(open_levels) - 1)
      BY <1>3, <2>2 DEF SameOpen
    <3>2. Len(After(xml).elements) - Len(open_levels) - 1 >= 1
      BY <3>1 DEF Below
    <3> QED
      BY <1>2, <3>2
  <2> QED
    BY <2>1, <2>2
<1> QED
  BY <1>1, <1>3

\* Opening the root.
LEMMA RootEmitted ==
  ASSUME Types, Phases, OpenRoot, pc' # "refused"
  PROVE  RootOpen' /\ SameOpen' /\ SameContent'
<1>1. PICK name \in STRING : name = TypeName(idocs[1])
  <2>1. 1 \in 1..Len(idocs)
    BY OpenRootStep
  <2> QED
    BY <2>1, TypeFacts
<1>2. /\ pc' = "documents" /\ Len(xml') = 1 /\ xml'[1].name = name
      /\ xml' = Append(<<>>, Open(name, {}))
  BY <1>1, OpenRootStep
<1>3. PICK next : next = After(xml')
  OBVIOUS
<1>4. next.ok /\ next.elements = <<name>> /\ next.idocs = <<>>
  <2>1. {} \in FieldSets
    BY DEF FieldSets
  <2> QED
    BY <1>2, <1>3, <2>1, AfterRoot
<1>5. Len(next.elements) = 1 /\ next.elements[1] = name
  BY <1>4
<1>6. doc' = 0 /\ open_levels' = <<>> /\ Len(open_levels') = 0 /\ Len(next.idocs) = 0
  <2>1. doc' = 0 /\ open_levels' = <<>>
    BY DEF OpenRoot, Phases
  <2> QED
    BY <1>4, <2>1, EmptySeq
<1>7. RootOpen'
  BY <1>2 DEF RootOpen, RootStays
<1>8. SameOpen'
  BY <1>2, <1>3, <1>4, <1>5 DEF SameOpen, Below
<1>9. SameContent'
  BY <1>2, <1>3, <1>4, <1>5, <1>6 DEF SameContent
<1> QED
  BY <1>7, <1>8, <1>9

\* Opening a document.
LEMMA DocumentEmitted ==
  ASSUME Types, Phases, RootOpen, SameOpen, SameContent, OpenDocument, doc < Len(idocs)
  PROVE  RootOpen' /\ SameOpen' /\ SameContent'
<1>1. /\ pc = "documents" /\ pc' = "segments" /\ doc' = doc + 1 /\ seg' = 0
      /\ doc \in Nat /\ doc + 1 \in 1..Len(idocs) /\ idocs' = idocs
      /\ open_levels = <<>> /\ open_levels' = <<>> /\ Len(open_levels) = 0
      /\ xml \in Seq(Tags) /\ xml # <<>> /\ idocs[doc + 1].control \in FieldSets
  <2>1. pc = "documents" /\ open_levels' = open_levels /\ idocs' = idocs
    BY DEF OpenDocument
  <2>2. open_levels = <<>> /\ xml # <<>>
    BY <2>1 DEF Phases, Emitting
  <2>3. Len(open_levels) = 0
    BY <2>2, EmptySeq
  <2> QED
    BY <2>1, <2>2, <2>3, TypeFacts, OpenDocumentStep
<1>2. PICK control \in FieldSets : control = idocs[doc + 1].control
  BY <1>1
<1>3. PICK none \in FieldSets : none = {}
  BY DEF FieldSets
<1>4. PICK idoc \in STRING, dc40 \in STRING : idoc = "IDOC" /\ dc40 = "EDI_DC40"
  BY LiteralsAreStrings
<1>5. PICK x1 : x1 = Opening(xml, idoc, none)
  OBVIOUS
<1>6. PICK x2 : x2 = Opening(x1, dc40, control)
  OBVIOUS
<1>7. xml' = Closing(x2, dc40)
  BY <1>2, <1>3, <1>4, <1>5, <1>6, OpenDocumentStep DEF Opening, Closing
<1>8. PICK now, one, two, next :
        now = After(xml) /\ one = After(x1) /\ two = After(x2) /\ next = After(xml')
  OBVIOUS
<1>9. PICK n \in Nat : n = Len(now.elements)
  BY <1>1, <1>8, AfterFacts
<1>10. now.ok \in BOOLEAN /\ now.idocs \in Seq(IdocsOf(Int)) /\ (now.ok => now.elements # <<>>)
  BY <1>1, <1>8, AfterFacts, StackFacts DEF Emitting
<1>11. /\ x1 \in Seq(Tags) /\ x1 # <<>> /\ x1[1] = xml[1]
       /\ one.ok <=> now.ok
       /\ now.ok => /\ one.elements # <<>> /\ Len(one.elements) = n + 1 /\ one.elements[n + 1] = idoc
                    /\ \A k \in 1..n : one.elements[k] = now.elements[k]
                    /\ one.idocs = Gather(now.idocs, Open(idoc, none), n)
       /\ RootStays(xml) => RootStays(x1)
  <2>1. IsOpened(x1, xml, idoc, none)
    BY <1>1, <1>5, AfterOpening
  <2> QED
    BY <1>8, <1>9, <1>10, <2>1 DEF IsOpened
<1>12. /\ x2 \in Seq(Tags) /\ x2 # <<>> /\ x2[1] = x1[1]
       /\ two.ok <=> one.ok
       /\ one.ok => /\ two.elements # <<>> /\ Len(two.elements) = Len(one.elements) + 1
                    /\ two.elements[Len(one.elements) + 1] = dc40
                    /\ \A k \in 1..Len(one.elements) : two.elements[k] = one.elements[k]
                    /\ two.idocs = Gather(one.idocs, Open(dc40, control), Len(one.elements))
       /\ RootStays(x1) => RootStays(x2)
  <2>1. IsOpened(x2, x1, dc40, control)
    BY <1>6, <1>11, AfterOpening
  <2> QED
    BY <1>8, <1>11, <2>1 DEF IsOpened
<1>13. /\ xml'[1] = x2[1]
       /\ next.ok <=> two.ok /\ two.elements # <<>> /\ two.elements[Len(two.elements)] = dc40
       /\ next.ok => /\ Len(next.elements) = Len(two.elements) - 1
                     /\ \A k \in 1..(Len(two.elements) - 1) : next.elements[k] = two.elements[k]
                     /\ next.idocs = two.idocs
       /\ RootStays(x2) => RootStays(xml')
  <2>1. IsClosed(xml', x2, dc40)
    BY <1>7, <1>12, AfterClosing
  <2> QED
    BY <1>8, <1>11, <1>12, <2>1 DEF IsClosed
<1>14. xml'[1] = xml[1] /\ RootOpen'
  <2>1. RootStays(xml)
    BY DEF RootOpen
  <2> QED
    BY <1>11, <1>12, <1>13, <2>1 DEF RootOpen
<1>15. next.ok <=> now.ok
  <2>1. now.ok => one.ok /\ two.ok /\ two.elements[Len(two.elements)] = dc40
    BY <1>11, <1>12
  <2> QED
    BY <1>11, <1>12, <1>13, <2>1
<1>16. ASSUME now.ok
       PROVE  /\ Len(next.elements) = n + 1 /\ next.elements[n + 1] = "IDOC"
              /\ \A k \in 1..n : next.elements[k] = now.elements[k]
              /\ next.idocs = Gather(one.idocs, Open(dc40, control), n + 1)
              /\ one.idocs = Gather(now.idocs, Open(idoc, none), n)
  <2>1. one.ok /\ two.ok /\ next.ok /\ Len(one.elements) = n + 1 /\ Len(two.elements) = n + 2
    BY <1>11, <1>12, <1>15, <1>16
  <2>2. Len(two.elements) - 1 = n + 1
    BY <2>1
  <2>3. \A k \in 1..(n + 1) : next.elements[k] = two.elements[k] /\ two.elements[k] = one.elements[k]
    BY <1>12, <1>13, <2>1, <2>2
  <2>4. \A k \in 1..n : next.elements[k] = now.elements[k]
    BY <1>11, <1>16, <2>3
  <2>5. next.elements[n + 1] = "IDOC"
    BY <1>4, <1>11, <1>16, <2>3
  <2> QED
    BY <1>11, <1>12, <1>13, <1>16, <2>1, <2>2, <2>4, <2>5
<1>17. /\ ~now.ok => ZeroIn(idocs)
       /\ now.ok => Below(now.elements, n)
  BY <1>1, <1>8, <1>9 DEF SameOpen, Emitting
<1>18. SameOpen'
  <2>1. CASE ~now.ok
    BY <1>1, <1>8, <1>15, <1>17, <2>1 DEF SameOpen
  <2>2. CASE now.ok
    <3>1. n >= 1 /\ next.elements[1] = now.elements[1] /\ next.elements[n] = now.elements[n]
      BY <1>16, <1>17, <2>2 DEF Below
    <3>2. Below(next.elements, n)'
      BY <1>1, <1>14, <1>17, <2>2, <3>1 DEF Below
    <3>3. Len(next.elements) - Len(open_levels') - 1 = n /\ Len(open_levels') = 0
      BY <1>1, <1>16, <2>2
    <3> QED
      BY <1>1, <1>8, <1>15, <1>16, <2>2, <3>2, <3>3 DEF SameOpen
  <2> QED
    BY <1>10, <2>1, <2>2
<1>19. ASSUME now.ok, n = 1
       PROVE  /\ Len(next.idocs) = doc + 1
              /\ \A d \in 1..(doc + 1) :
                   Mirrors(next.idocs[d], idocs[d], IF d = doc + 1 THEN 0 ELSE Len(idocs[d].segments))
  <2>1. /\ Len(now.idocs) = doc
        /\ \A d \in 1..doc : Mirrors(now.idocs[d], idocs[d], Len(idocs[d].segments))
    BY <1>1, <1>8, <1>9, <1>19 DEF SameContent, Emitting
  <2>2. one.idocs = Append(now.idocs, NewIdoc)
    BY <1>16, <1>19 DEF Gather
  <2>3. NewIdoc \in IdocsOf(Int) /\ Len(NewIdoc.segments) = 0
    BY EmptySeq DEF NewIdoc, IdocsOf, FieldSets
  <2>4. PICK c \in Nat \ {0} : c = doc + 1
    BY <1>1
  <2>5. /\ one.idocs \in Seq(IdocsOf(Int)) /\ Len(one.idocs) = c
        /\ one.idocs[c] = NewIdoc
        /\ \A d \in 1..doc : one.idocs[d] = now.idocs[d]
    BY <1>10, <2>1, <2>2, <2>3, <2>4, AppendProperties
  <2>6. next.idocs = WithControl(one.idocs, c, control)
    <3>1. Open(dc40, control).name = "EDI_DC40" /\ Open(dc40, control).fields = control
      BY <1>4 DEF Open
    <3> QED
      BY <1>16, <1>19, <2>5, <3>1 DEF Gather
  <2>7. /\ Len(next.idocs) = c
        /\ \A d \in 1..c : d # c => next.idocs[d] = one.idocs[d]
        /\ next.idocs[c].control = control
        /\ next.idocs[c].segments = one.idocs[c].segments
    <3>1. c \in 1..Len(one.idocs)
      BY <2>5
    <3>2. HasControl(next.idocs, one.idocs, c, control)
      BY <2>5, <2>6, <3>1, ControlSet
    <3> QED
      BY <2>5, <3>2 DEF HasControl
  <2>8. Mirrors(next.idocs[c], idocs[c], 0)
    BY <1>2, <2>3, <2>4, <2>5, <2>7 DEF Mirrors
  <2>9. \A d \in 1..doc : next.idocs[d] = now.idocs[d]
    <3> TAKE d \in 1..doc
    <3>1. d \in 1..c /\ d # c
      BY <1>1, <2>4
    <3> QED
      BY <2>5, <2>7, <3>1
  <2>10. \A d \in 1..(doc + 1) : d = c \/ (d \in 1..doc /\ d # c)
    <3>1. doc \in Nat
      BY <1>1
    <3> QED
      BY <2>4, <3>1
  <2> QED
    BY <2>1, <2>4, <2>7, <2>8, <2>9, <2>10
<1>20. SameContent'
  <2>1. PICK at : at = [k \in 0..0 |-> 0]
    OBVIOUS
  <2>2. ASSUME NEW levels, NEW limit
        PROVE  IsChain(at, <<>>, levels, 0, limit)
    BY <2>1 DEF IsChain
  <2>3. Len(open_levels') = 0 /\ (now.ok => Len(next.elements) - Len(open_levels') - 1 = n)
    BY <1>1, <1>16
  <2>4. \E chain : /\ IsChain(chain, open_levels', Levels(idocs'[doc'].segments), seg',
                              IF seg' < Len(idocs'[doc'].segments)
                              THEN idocs'[doc'].segments[seg' + 1].hlevel ELSE 1)
                   /\ \A k \in 1..Len(open_levels') : next.idocs[doc'].segments[chain[k]].hlevel = k
    <3>1. IsChain(at, open_levels', Levels(idocs'[doc'].segments), seg',
                  IF seg' < Len(idocs'[doc'].segments) THEN idocs'[doc'].segments[seg' + 1].hlevel ELSE 1)
      <4>1. PICK levels : levels = Levels(idocs'[doc'].segments)
        OBVIOUS
      <4>2. PICK limit : limit = IF seg' < Len(idocs'[doc'].segments)
                                 THEN idocs'[doc'].segments[seg' + 1].hlevel ELSE 1
        OBVIOUS
      <4>3. IsChain(at, open_levels', levels, seg', limit)
        BY <1>1, <2>2
      <4> QED
        BY <4>1, <4>2, <4>3, Zenon
    <3>2. \A k \in 1..Len(open_levels') : next.idocs[doc'].segments[at[k]].hlevel = k
      BY <2>3
    <3> QED
      BY <3>1, <3>2
  <2>5. ASSUME NEW d \in 1..doc'
        PROVE  (IF d = doc' /\ pc' = "segments" THEN seg' ELSE Len(idocs'[d].segments))
                 = IF d = doc + 1 THEN 0 ELSE Len(idocs[d].segments)
    BY <1>1
  <2> QED
    BY <1>1, <1>8, <1>15, <1>19, <2>3, <2>4, <2>5 DEF SameContent
<1> QED
  BY <1>14, <1>18, <1>20

\* Closing a segment.
LEMMA LevelEmitted ==
  ASSUME Types, Phases, RootOpen, SameOpen, SameContent, CloseSegment \/ CloseRest
  PROVE  RootOpen' /\ SameOpen' /\ SameContent'
<1>1. /\ pc = "segments" /\ pc' = pc /\ doc' = doc /\ seg' = seg /\ idocs' = idocs
      /\ doc \in 1..Len(idocs) /\ seg \in Nat /\ seg <= Len(idocs[doc].segments)
      /\ xml \in Seq(Tags) /\ xml # <<>>
  <2>1. pc = "segments" /\ pc' = pc /\ doc' = doc /\ seg' = seg /\ idocs' = idocs
    BY DEF CloseSegment, CloseRest
  <2> QED
    BY <2>1, TypeFacts DEF Phases, Emitting
<1>2. PICK s : s = idocs[doc].segments
  OBVIOUS
<1>3. PICK limit \in Nat : /\ limit = IF seg < Len(s) THEN s[seg + 1].hlevel ELSE 1
                           /\ CloseLevel(limit)
  <2>1. Len(s) \in Nat
    BY <1>1, <1>2, TypeFacts
  <2>2. CASE seg < Len(s)
    <3>1. seg + 1 \in 1..Len(s)
      BY <1>1, <2>1, <2>2
    <3>2. s[seg + 1].hlevel \in Nat
      BY <1>1, <1>2, <3>1, TypeFacts
    <3>3. CloseLevel(s[seg + 1].hlevel)
      BY <1>1, <1>2, <2>1, <2>2 DEF CloseSegment, CloseRest
    <3> QED
      BY <2>2, <3>2, <3>3
  <2>3. CASE ~(seg < Len(s))
    <3>1. CloseLevel(1)
      BY <1>1, <1>2, <2>1, <2>3 DEF CloseSegment, CloseRest
    <3> QED
      BY <2>3, <3>1
  <2> QED
    BY <2>2, <2>3
<1>4. PICK m \in Nat \ {0}, name \in STRING :
        /\ m = Len(open_levels) /\ name = open_levels[m].segnam
        /\ open_levels[m].level \in Nat /\ open_levels[m].level >= limit
        /\ xml' = Closing(xml, name)
        /\ Len(open_levels') = m - 1
        /\ \A k \in 1..(m - 1) : open_levels'[k] = open_levels[k]
  <2>1. /\ Len(open_levels) \in Nat \ {0}
        /\ open_levels[Len(open_levels)].segnam \in STRING
        /\ open_levels[Len(open_levels)].level \in Nat
        /\ open_levels[Len(open_levels)].level >= limit
        /\ xml' = Append(xml, Shut(open_levels[Len(open_levels)].segnam))
        /\ Len(open_levels') = Len(open_levels) - 1
        /\ \A k \in 1..(Len(open_levels) - 1) : open_levels'[k] = open_levels[k]
    BY <1>1, <1>3, CloseLevelFacts
  <2> QED
    BY <2>1 DEF Closing
<1>5. PICK now, next : now = After(xml) /\ next = After(xml')
  OBVIOUS
<1>6. PICK l \in Nat : l = Len(now.elements)
  BY <1>1, <1>5, AfterFacts
<1>7. now.ok \in BOOLEAN /\ (now.ok => now.elements # <<>>)
  BY <1>1, <1>5, AfterFacts, StackFacts DEF Emitting
<1>8. IsClosed(xml', xml, name)
  BY <1>1, <1>4, AfterClosing
<1>9. /\ xml'[1] = xml[1]
      /\ next.ok <=> now.ok /\ now.elements # <<>> /\ now.elements[l] = name
      /\ next.ok => /\ Len(next.elements) = l - 1
                    /\ \A k \in 1..(l - 1) : next.elements[k] = now.elements[k]
                    /\ next.idocs = now.idocs
      /\ RootStays(xml')
  BY <1>5, <1>6, <1>7, <1>8 DEF IsClosed, RootOpen
<1>10. PICK n \in Int : n = l - m - 1
  OBVIOUS
<1>11. /\ ~now.ok => ZeroIn(idocs)
       /\ now.ok => /\ Below(now.elements, n) /\ now.elements[n + 1] = "IDOC"
                    /\ \A k \in 1..m : now.elements[n + 1 + k] = open_levels[k].segnam
  BY <1>1, <1>4, <1>5, <1>6, <1>10 DEF SameOpen, Emitting
<1>12. next.ok <=> now.ok
  <2>1. n + 1 + m = l /\ m \in 1..m
    BY <1>10
  <2> QED
    BY <1>4, <1>7, <1>9, <1>11, <2>1
<1>13. SameOpen'
  <2>1. CASE ~now.ok
    BY <1>1, <1>5, <1>11, <1>12, <2>1 DEF SameOpen
  <2>2. CASE now.ok
    <3>1. n >= 1
      BY <1>11, <2>2 DEF Below
    <3>2. /\ next.elements[1] = now.elements[1] /\ next.elements[n] = now.elements[n]
          /\ next.elements[n + 1] = now.elements[n + 1]
          /\ \A k \in 1..(m - 1) : next.elements[n + 1 + k] = now.elements[n + 1 + k]
      <4>1. 1 \in 1..(l - 1) /\ n \in 1..(l - 1) /\ n + 1 \in 1..(l - 1)
            /\ \A k \in 1..(m - 1) : n + 1 + k \in 1..(l - 1)
        BY <1>10, <3>1
      <4> QED
        BY <1>9, <1>12, <2>2, <4>1
    <3>3. Below(next.elements, n)'
      BY <1>1, <1>9, <1>11, <2>2, <3>2 DEF Below
    <3>4. Len(next.elements) - Len(open_levels') - 1 = n
      BY <1>4, <1>9, <1>10, <1>12, <2>2
    <3>5. \A k \in 1..(m - 1) : next.elements[n + 1 + k] = open_levels'[k].segnam
      <4> TAKE k \in 1..(m - 1)
      <4>1. k \in 1..m
        OBVIOUS
      <4>2. open_levels'[k] = open_levels[k] /\ next.elements[n + 1 + k] = now.elements[n + 1 + k]
        BY <1>4, <3>2
      <4> QED
        BY <1>11, <2>2, <4>1, <4>2
    <3>6. next.ok /\ pc' = "segments" /\ Len(open_levels') = m - 1 /\ next.elements[n + 1] = "IDOC"
      BY <1>1, <1>4, <1>11, <1>12, <2>2, <3>2
    <3> QED
      BY SMTT(30), <1>5, <3>3, <3>4, <3>5, <3>6 DEF SameOpen
  <2> QED
    BY <1>7, <2>1, <2>2
<1>14. PICK at :
         /\ IsChain(at, open_levels, Levels(s), seg, limit)
         /\ now.ok /\ n = 1 => \A k \in 1..m : now.idocs[doc].segments[at[k]].hlevel = k
  BY <1>1, <1>2, <1>3, <1>4, <1>5, <1>6, <1>10 DEF SameContent, Emitting
<1>15. PICK chain : chain = [k \in 0..(m - 1) |-> at[k]]
  OBVIOUS
<1>16. IsChain(chain, open_levels', Levels(s), seg, limit)
  <2>0. PICK levels : levels = Levels(s)
    OBVIOUS
  <2>1. /\ at \in [0..m -> 0..seg] /\ at[0] = 0
        /\ \A k \in 1..m : /\ at[k - 1] < at[k]
                           /\ levels[at[k]] = open_levels[k].level
                           /\ \A j \in (at[k - 1] + 1)..at[k] : levels[j] >= open_levels[k].level
        /\ \A j \in (at[m] + 1)..seg : levels[j] >= limit
    BY <1>4, <1>14, <2>0 DEF IsChain
  <2>2. /\ chain \in [0..(m - 1) -> 0..seg]
        /\ \A k \in 0..(m - 1) : chain[k] = at[k]
    BY <1>15, <2>1
  <2>3. \A k \in 1..(m - 1) : /\ k - 1 \in 0..(m - 1) /\ k \in 0..(m - 1) /\ k \in 1..m
    OBVIOUS
  <2>4. \A k \in 1..(m - 1) :
          /\ chain[k - 1] < chain[k]
          /\ levels[chain[k]] = open_levels'[k].level
          /\ \A j \in (chain[k - 1] + 1)..chain[k] : levels[j] >= open_levels'[k].level
    BY <1>4, <2>1, <2>2, <2>3
  <2>5. ASSUME NEW j \in (chain[m - 1] + 1)..seg
        PROVE  levels[j] >= limit
    <3>1. chain[m - 1] = at[m - 1] /\ at[m - 1] \in 0..seg /\ at[m] \in 0..seg /\ m \in 1..m
      BY <2>1, <2>2
    <3>2. CASE j <= at[m]
      <4>1. j \in (at[m - 1] + 1)..at[m]
        BY <2>5, <3>1, <3>2
      <4>2. levels[j] >= open_levels[m].level
        BY <2>1, <3>1, <4>1
      <4>3. levels[j] \in Nat
        <5>1. j \in 1..Len(s)
          <6>1. seg \in Nat /\ Len(s) \in Nat /\ seg <= Len(s)
            BY <1>1, <1>2, TypeFacts
          <6> QED
            BY <3>1, <6>1
        <5> QED
          BY <1>1, <1>2, <2>0, <5>1, TypeFacts DEF Levels
      <4> QED
        BY <1>4, <4>2, <4>3
    <3>3. CASE ~(j <= at[m])
      <4>1. j \in (at[m] + 1)..seg
        BY <2>5, <3>1, <3>3
      <4> QED
        BY <2>1, <4>1
    <3> QED
      BY <3>2, <3>3
  <2>6. chain[0] = 0
    BY <2>1, <2>2
  <2> QED
    BY <1>4, <2>0, <2>2, <2>4, <2>5, <2>6 DEF IsChain
<1>17. SameContent'
  <2>1. limit = (IF seg < Len(idocs[doc].segments) THEN idocs[doc].segments[seg + 1].hlevel ELSE 1)'
    BY <1>1, <1>2, <1>3
  <2>2. Levels(s) = Levels(idocs[doc].segments)'
    BY <1>1, <1>2
  <2>3. next.ok => Len(next.elements) - Len(open_levels') - 1 = n /\ next.idocs = now.idocs
    BY <1>4, <1>9, <1>10
  <2>4. next.ok /\ n = 1 => \A k \in 1..(m - 1) : next.idocs[doc].segments[chain[k]].hlevel = k
    BY <1>12, <1>14, <1>15, <2>3
  <2>5. next.ok /\ n = 1 =>
          /\ Len(next.idocs) = doc
          /\ \A d \in 1..doc :
               Mirrors(next.idocs[d], idocs[d],
                       IF d = doc /\ pc = "segments" THEN seg ELSE Len(idocs[d].segments))
    BY <1>1, <1>4, <1>5, <1>6, <1>10, <1>12, <2>3 DEF SameContent, Emitting
  <2> QED
    BY <1>1, <1>4, <1>5, <1>16, <2>1, <2>2, <2>3, <2>4, <2>5 DEF SameContent
<1> QED
  BY <1>9, <1>13, <1>17 DEF RootOpen

\* Whether a segment is nested depends on the depths up to it.
LEMMA NestedAlike ==
  ASSUME NEW levels, NEW depths, NEW same, NEW k \in Nat \ {0},
         NestedAt(levels, depths, k), \A j \in 1..k : same[j] = depths[j]
  PROVE  NestedAt(levels, same, k)
<1>1. PICK p \in 0..(k - 1) : IsParent(levels, p, k) /\ depths[k] = IF p = 0 THEN 1 ELSE depths[p] + 1
  BY DEF NestedAt
<1>2. k \in 1..k /\ (p # 0 => p \in 1..k)
  OBVIOUS
<1>3. same[k] = IF p = 0 THEN 1 ELSE same[p] + 1
  BY <1>1, <1>2
<1> QED
  BY <1>1, <1>3 DEF NestedAt

\* Opening a segment.
LEMMA SegmentEmitted ==
  ASSUME Types, Phases, Named, RootOpen, SameOpen, SameContent, OpenSegment, pc' # "refused"
  PROVE  RootOpen' /\ SameOpen' /\ SameContent'
<1>1. /\ pc = "segments" /\ pc' = pc /\ doc' = doc /\ seg' = seg + 1 /\ idocs' = idocs
      /\ doc \in 1..Len(idocs) /\ seg \in Nat
      /\ xml \in Seq(Tags) /\ xml # <<>>
  <2>1. pc = "segments" /\ doc' = doc /\ idocs' = idocs
    BY DEF OpenSegment
  <2>2. pc' = pc /\ seg' = seg + 1
    BY OpenSegmentStep
  <2> QED
    BY <2>1, <2>2, TypeFacts DEF Phases, Emitting
<1>2. PICK s : s = idocs[doc].segments
  OBVIOUS
<1>3. PICK c \in Nat \ {0} : c = seg + 1 /\ c \in 1..Len(s) /\ Len(s) \in Nat
  <2>1. seg + 1 \in 1..Len(s)
    BY <1>2, OpenSegmentStep
  <2>2. Len(s) \in Nat
    BY <1>1, <1>2, TypeFacts
  <2> QED
    BY <1>1, <2>1, <2>2
<1>4. PICK name \in STRING, level \in Nat, fields \in FieldSets, m \in Nat :
        /\ name = s[c].segnam /\ level = s[c].hlevel /\ fields = s[c].fields
        /\ m = Len(open_levels)
        /\ xml' = Opening(xml, name, fields)
        /\ Len(open_levels') = m + 1
        /\ \A k \in 1..m : open_levels'[k] = open_levels[k]
        /\ open_levels'[m + 1].segnam = name /\ open_levels'[m + 1].level = level
  <2>1. PICK o : o = [segnam |-> s[c].segnam, level |-> s[c].hlevel]
    OBVIOUS
  <2>2. /\ s[c].segnam \in STRING /\ s[c].hlevel \in Nat /\ s[c].fields \in FieldSets
        /\ o \in OpenLevels
        /\ xml' = Append(xml, Open(s[c].segnam, s[c].fields))
        /\ open_levels' = Append(open_levels, o)
    BY <1>2, <1>3, <2>1, OpenSegmentStep
  <2>3. /\ Len(open_levels) \in Nat /\ Len(open_levels') = Len(open_levels) + 1
        /\ \A k \in 1..Len(open_levels) : open_levels'[k] = open_levels[k]
        /\ open_levels'[Len(open_levels) + 1] = o
    BY <2>2, TypeFacts, AppendProperties
  <2>4. o.segnam = s[c].segnam /\ o.level = s[c].hlevel
    BY <2>1
  <2> QED
    BY <2>2, <2>3, <2>4 DEF Opening
<1>5. PICK now, next : now = After(xml) /\ next = After(xml')
  OBVIOUS
<1>6. PICK l \in Nat : l = Len(now.elements)
  BY <1>1, <1>5, AfterFacts
<1>7. /\ now.ok \in BOOLEAN /\ now.idocs \in Seq(IdocsOf(Int))
      /\ now.ok => now.elements # <<>>
  BY <1>1, <1>5, AfterFacts, StackFacts DEF Emitting
<1>8. IsOpened(xml', xml, name, fields)
  BY <1>1, <1>4, AfterOpening
<1>9. /\ xml'[1] = xml[1]
      /\ next.ok <=> now.ok
      /\ now.ok => /\ Len(next.elements) = l + 1
                   /\ \A k \in 1..l : next.elements[k] = now.elements[k]
                   /\ next.elements[l + 1] = name
                   /\ next.idocs = Gather(now.idocs, Open(name, fields), l)
      /\ RootStays(xml')
  BY <1>5, <1>6, <1>7, <1>8 DEF IsOpened, RootOpen
<1>10. PICK n \in Int : n = l - m - 1
  OBVIOUS
<1>11. /\ ~now.ok => ZeroIn(idocs)
       /\ now.ok => /\ Below(now.elements, n) /\ now.elements[n + 1] = "IDOC"
                    /\ \A k \in 1..m : now.elements[n + 1 + k] = open_levels[k].segnam
  BY <1>1, <1>4, <1>5, <1>6, <1>10 DEF SameOpen, Emitting
<1>12. SameOpen'
  <2>1. CASE ~now.ok
    BY <1>1, <1>5, <1>9, <1>11, <2>1 DEF SameOpen
  <2>2. CASE now.ok
    <3>1. n >= 1
      BY <1>11, <2>2 DEF Below
    <3>2. /\ next.elements[1] = now.elements[1] /\ next.elements[n] = now.elements[n]
          /\ next.elements[n + 1] = now.elements[n + 1]
          /\ \A k \in 1..m : next.elements[n + 1 + k] = now.elements[n + 1 + k]
      <4>1. 1 \in 1..l /\ n \in 1..l /\ n + 1 \in 1..l /\ \A k \in 1..m : n + 1 + k \in 1..l
        BY <1>10, <3>1
      <4> QED
        BY <1>9, <2>2, <4>1
    <3>3. Below(next.elements, n)'
      BY <1>1, <1>9, <1>11, <2>2, <3>2 DEF Below
    <3>4. Len(next.elements) - Len(open_levels') - 1 = n
      BY <1>4, <1>9, <1>10, <2>2
    <3>5. \A k \in 1..(m + 1) : next.elements[n + 1 + k] = open_levels'[k].segnam
      <4> TAKE k \in 1..(m + 1)
      <4>1. CASE k = m + 1
        <5>1. n + 1 + k = l + 1
          BY <1>10, <4>1
        <5> QED
          BY <1>4, <1>9, <2>2, <4>1, <5>1
      <4>2. CASE k # m + 1
        <5>1. k \in 1..m
          BY <4>2
        <5>2. open_levels'[k] = open_levels[k] /\ next.elements[n + 1 + k] = now.elements[n + 1 + k]
          BY <1>4, <3>2, <5>1
        <5> QED
          BY <1>11, <2>2, <5>1, <5>2
      <4> QED
        BY <4>1, <4>2
    <3> QED
      <4>1. next.ok /\ pc' = "segments" /\ next.elements[n + 1] = "IDOC"
        BY <1>1, <1>9, <1>11, <2>2, <3>2
      <4>2. \A k \in 1..Len(open_levels') : next.elements[n + 1 + k] = open_levels'[k].segnam
        BY <1>4, <3>5
      <4> QED
        BY <1>5, <3>3, <3>4, <4>1, <4>2 DEF SameOpen
  <2> QED
    BY <1>7, <2>1, <2>2
<1>13. PICK levels : levels = Levels(s)
  OBVIOUS
<1>14. levels[c] = level /\ \A j \in 1..Len(s) : levels[j] \in Nat
  BY <1>1, <1>2, <1>3, <1>4, <1>13, TypeFacts DEF Levels
<1>15. PICK at :
         /\ IsChain(at, open_levels, levels, seg, level)
         /\ now.ok /\ n = 1 => \A k \in 1..m : now.idocs[doc].segments[at[k]].hlevel = k
  <2>1. seg < Len(s)
    BY <1>1, <1>3
  <2> QED
    BY <1>1, <1>2, <1>3, <1>4, <1>5, <1>6, <1>10, <1>13, <2>1 DEF SameContent, Emitting
<1>16. /\ at \in [0..m -> 0..seg] /\ at[0] = 0
       /\ \A k \in 1..m : /\ at[k - 1] < at[k]
                          /\ levels[at[k]] = open_levels[k].level
                          /\ \A j \in (at[k - 1] + 1)..at[k] : levels[j] >= open_levels[k].level
       /\ \A j \in (at[m] + 1)..seg : levels[j] >= level
  BY <1>4, <1>15 DEF IsChain
<1>17. PICK chain : chain = [k \in 0..(m + 1) |-> IF k = m + 1 THEN c ELSE at[k]]
  OBVIOUS
<1>18. /\ chain \in [0..(m + 1) -> 0..c] /\ chain[m + 1] = c
       /\ \A k \in 0..m : chain[k] = at[k]
  <2>1. \A k \in 0..m : at[k] \in 0..c
    <3>1. \A k \in 0..m : at[k] \in 0..seg
      BY <1>16
    <3>2. \A j \in 0..seg : j \in 0..c
      BY <1>1, <1>3
    <3> QED
      BY <3>1, <3>2
  <2>2. \A k \in 0..(m + 1) : k # m + 1 => k \in 0..m
    OBVIOUS
  <2>3. c \in 0..c
    OBVIOUS
  <2> QED
    BY <1>17, <2>1, <2>2, <2>3
<1>19. ASSUME NEW limit
       PROVE  IsChain(chain, open_levels', levels, c, limit)
  <2>1. chain[0] = 0
    BY <1>16, <1>18
  <2>2. ASSUME NEW k \in 1..(m + 1)
        PROVE  /\ chain[k - 1] < chain[k]
               /\ levels[chain[k]] = open_levels'[k].level
               /\ \A j \in (chain[k - 1] + 1)..chain[k] : levels[j] >= open_levels'[k].level
    <3>1. CASE k = m + 1
      <4>1. chain[k - 1] = at[m] /\ chain[k] = c /\ at[m] \in 0..seg /\ open_levels'[k].level = level
        BY <1>4, <1>16, <1>18, <3>1
      <4>2. ASSUME NEW j \in (at[m] + 1)..c
            PROVE  levels[j] >= level
        <5>1. j = c \/ j \in (at[m] + 1)..seg
          BY <1>3, <1>1, <4>1
        <5> QED
          BY <1>14, <1>16, <5>1
      <4> QED
        BY <1>1, <1>3, <1>14, <4>1, <4>2
    <3>2. CASE k # m + 1
      <4>1. k \in 1..m /\ k - 1 \in 0..m /\ k \in 0..m
        BY <3>2
      <4>2. chain[k - 1] = at[k - 1] /\ chain[k] = at[k] /\ open_levels'[k] = open_levels[k]
        BY <1>4, <1>18, <4>1
      <4> QED
        BY <1>16, <4>1, <4>2
    <3> QED
      BY <3>1, <3>2
  <2>3. \A j \in (chain[m + 1] + 1)..c : levels[j] >= limit
    BY <1>18
  <2> QED
    BY <1>4, <1>18, <2>1, <2>2, <2>3 DEF IsChain
<1>20. ASSUME now.ok, n = 1
       PROVE  /\ Len(next.idocs) = doc
              /\ \A d \in 1..doc :
                   Mirrors(next.idocs[d], idocs[d], IF d = doc THEN c ELSE Len(idocs[d].segments))
              /\ \A k \in 1..(m + 1) : next.idocs[doc].segments[chain[k]].hlevel = k
  <2>1. /\ Len(now.idocs) = doc
        /\ \A d \in 1..doc :
             Mirrors(now.idocs[d], idocs[d], IF d = doc THEN seg ELSE Len(idocs[d].segments))
    BY <1>1, <1>4, <1>5, <1>6, <1>10, <1>20 DEF SameContent, Emitting
  <2>2. PICK t \in SegmentsOf(Int) : t = [segnam |-> name, hlevel |-> m + 1, fields |-> fields]
    <3>1. m + 1 \in Int
      OBVIOUS
    <3> QED
      BY <3>1 DEF SegmentsOf
  <2>3. t.segnam = name /\ t.hlevel = m + 1 /\ t.fields = fields
    BY <2>2
  <2>4. next.idocs = WithSegment(now.idocs, doc, t)
    <3>1. name # "EDI_DC40"
      BY <1>1, <1>2, <1>3, <1>4 DEF Named, Emitting
    <3>2. l # 1 /\ l - 1 = m + 1
      BY <1>10, <1>20
    <3>3. Open(name, fields).name = name /\ Open(name, fields).fields = fields
      BY DEF Open
    <3> QED
      BY <1>9, <1>20, <2>1, <2>2, <3>1, <3>2, <3>3 DEF Gather
  <2>5. doc \in 1..Len(now.idocs) /\ doc \in 1..doc
    BY <1>1, <2>1, TypeFacts
  <2>6. HasSegment(next.idocs, now.idocs, doc, t)
    BY <1>7, <2>4, <2>5, SegmentAppended
  <2>7. PICK old \in Seq(SegmentsOf(Int)) : old = now.idocs[doc].segments
    BY <1>7, <2>5, IdocFacts
  <2>8. /\ Len(old) = seg /\ now.idocs[doc].control = idocs[doc].control
        /\ \A k \in 1..seg : /\ old[k].segnam = s[k].segnam /\ old[k].fields = s[k].fields
                             /\ NestedAt(levels, Levels(old), k)
    BY <1>2, <1>13, <2>1, <2>5, <2>7 DEF Mirrors
  <2>9. PICK new : new = Append(old, t)
    OBVIOUS
  <2>10. /\ new \in Seq(SegmentsOf(Int)) /\ Len(new) = c /\ new[c] = t
         /\ \A k \in 1..seg : new[k] = old[k]
    BY <1>3, <2>8, <2>9, AppendProperties
  <2>11. /\ Len(next.idocs) = doc
         /\ \A d \in 1..doc : d # doc => next.idocs[d] = now.idocs[d]
         /\ next.idocs[doc].control = idocs[doc].control
         /\ next.idocs[doc].segments = new
    BY <2>1, <2>6, <2>7, <2>8, <2>9 DEF HasSegment
  <2>12. /\ \A k \in 1..seg : Levels(new)[k] = Levels(old)[k] /\ Levels(old)[k] = old[k].hlevel
         /\ Levels(new)[c] = m + 1
    <3>1. DOMAIN new = 1..c /\ DOMAIN old = 1..seg
      BY <2>7, <2>8, <2>10, LenProperties
    <3>2. \A k \in 1..seg : k \in 1..c
      BY <1>1, <1>3
    <3>3. c \in 1..c
      OBVIOUS
    <3> QED
      BY <2>3, <2>10, <3>1, <3>2, <3>3 DEF Levels
  <2>13. \A k \in 1..m : at[k] \in 1..seg /\ old[at[k]].hlevel = k /\ new[at[k]] = old[at[k]]
    <3> TAKE k \in 1..m
    <3>1. at[k - 1] \in 0..seg /\ at[k] \in 0..seg /\ at[k - 1] < at[k]
      BY <1>16
    <3>2. at[k] \in 1..seg
      BY <1>1, <3>1
    <3> QED
      BY <1>15, <1>20, <2>7, <2>10, <3>2
  <2>14. \A k \in 1..(m + 1) : next.idocs[doc].segments[chain[k]].hlevel = k
    <3> TAKE k \in 1..(m + 1)
    <3>1. CASE k = m + 1
      BY <1>18, <2>3, <2>10, <2>11, <3>1
    <3>2. CASE k # m + 1
      <4>1. k \in 1..m /\ k \in 0..m
        BY <3>2
      <4> QED
        BY SMTT(30), <1>18, <2>11, <2>13, <4>1
    <3> QED
      BY <3>1, <3>2
  <2>15. NestedAt(levels, Levels(new), c)
    <3>1. PICK p \in 0..seg : p = at[m]
      BY <1>16
    <3>2. p = 0 <=> m = 0
      <4>1. CASE m = 0
        BY <1>16, <3>1, <4>1
      <4>2. CASE m # 0
        <5>1. m \in 1..m
          BY <4>2
        <5> QED
          BY <2>13, <3>1, <4>2, <5>1
      <4> QED
        BY <4>1, <4>2
    <3>3. p # 0 => levels[p] < levels[c]
      <4> SUFFICES ASSUME p # 0
                   PROVE  levels[p] < levels[c]
        OBVIOUS
      <4>1. m \in 1..m
        BY <3>2
      <4>2. levels[p] = open_levels[m].level
        BY <1>16, <3>1, <4>1
      <4>3. ~Closes(level)
        BY <1>2, <1>3, <1>4 DEF OpenSegment
      <4>4. levels[p] \in Nat
        <5>1. p \in 1..Len(s)
          BY <1>1, <1>3, <3>1
        <5> QED
          BY <1>14, <5>1
      <4>5. open_levels # <<>>
        BY <1>4, <4>1, EmptySeq
      <4>6. ~(open_levels[m].level >= level)
        BY <1>4, <4>3, <4>5 DEF Closes, LastOf
      <4> QED
        BY <1>14, <4>2, <4>4, <4>6
    <3>4. p \in 0..(c - 1) /\ c - 1 = seg
      BY <1>1, <1>3
    <3>5. IsParent(levels, p, c)
      BY <1>14, <1>16, <3>1, <3>3, <3>4 DEF IsParent
    <3>6. Levels(new)[c] = IF p = 0 THEN 1 ELSE Levels(new)[p] + 1
      <4>1. CASE p = 0
        BY <2>12, <3>2, <4>1
      <4>2. CASE p # 0
        <5>1. p \in 1..seg /\ m \in 1..m
          BY <1>1, <3>2, <4>2
        <5>2. Levels(new)[p] = m
          BY <2>12, <2>13, <3>1, <5>1
        <5> QED
          BY <2>12, <4>2, <5>2
      <4> QED
        BY <4>1, <4>2
    <3> QED
      BY <3>4, <3>5, <3>6 DEF NestedAt
  <2>16. ASSUME NEW k \in 1..c
         PROVE  /\ new[k].segnam = s[k].segnam /\ new[k].fields = s[k].fields
                /\ NestedAt(levels, Levels(new), k)
    <3>1. CASE k = c
      BY <1>4, <2>3, <2>10, <2>15, <3>1
    <3>2. CASE k # c
      <4>1. k \in 1..seg /\ k \in Nat \ {0}
        BY <1>1, <1>3, <3>2
      <4>2. NestedAt(levels, Levels(new), k)
        <5>1. \A j \in 1..k : j \in 1..seg
          BY <1>1, <4>1
        <5>2. \A j \in 1..k : Levels(new)[j] = Levels(old)[j]
          BY <2>12, <5>1
        <5> QED
          BY <2>8, <4>1, <5>2, NestedAlike
      <4> QED
        BY <2>8, <2>10, <4>1, <4>2
    <3> QED
      BY <3>1, <3>2
  <2>17. Mirrors(next.idocs[doc], idocs[doc], c)
    BY <1>2, <1>13, <2>10, <2>11, <2>16 DEF Mirrors
  <2> QED
    BY <2>1, <2>11, <2>14, <2>17
<1>21. SameContent'
  <2>1. next.ok => Len(next.elements) - Len(open_levels') - 1 = n
    <3>1. next.ok => Len(next.elements) = l + 1 /\ Len(open_levels') = m + 1
      BY <1>4, <1>9
    <3>2. (l + 1) - (m + 1) - 1 = n
      BY <1>10
    <3> QED
      BY <3>1, <3>2
  <2>2. IsChain(chain, open_levels', Levels(idocs'[doc'].segments), seg',
                IF seg' < Len(idocs'[doc'].segments) THEN idocs'[doc'].segments[seg' + 1].hlevel ELSE 1)
    <3>1. PICK limit : limit = IF seg' < Len(idocs'[doc'].segments)
                               THEN idocs'[doc'].segments[seg' + 1].hlevel ELSE 1
      OBVIOUS
    <3>2. levels = Levels(idocs'[doc'].segments) /\ seg' = c
      BY <1>1, <1>2, <1>3, <1>13
    <3>3. IsChain(chain, open_levels', levels, c, limit)
      BY <1>19
    <3> QED
      BY <3>1, <3>2, <3>3, Zenon
  <2>3. ASSUME NEW d \in 1..doc'
        PROVE  (IF d = doc' /\ pc' = "segments" THEN seg' ELSE Len(idocs'[d].segments))
                 = IF d = doc THEN c ELSE Len(idocs[d].segments)
    BY <1>1, <1>3
  <2> QED
    BY <1>1, <1>4, <1>5, <1>9, <1>20, <2>1, <2>2, <2>3 DEF SameContent
<1> QED
  BY <1>9, <1>12, <1>21 DEF RootOpen

\* Closing a document, with a segment of level 0 left open or none.
LEMMA DocumentClosed ==
  ASSUME Types, Phases, Increasing, RootOpen, SameOpen, SameContent, CloseDocument
  PROVE  RootOpen' /\ SameOpen' /\ SameContent'
<1>1. /\ pc = "segments" /\ pc' = "documents" /\ doc' = doc /\ idocs' = idocs
      /\ doc \in 1..Len(idocs) /\ seg = Len(idocs[doc].segments) /\ seg \in Nat
      /\ open_levels' = <<>> /\ Len(open_levels') = 0
      /\ xml \in Seq(Tags) /\ xml # <<>>
  <2>1. pc = "segments" /\ pc' = "documents" /\ doc' = doc /\ idocs' = idocs
        /\ seg = Len(idocs[doc].segments) /\ open_levels' = <<>>
    BY DEF CloseDocument
  <2> QED
    BY <2>1, TypeFacts, EmptySeq DEF Phases, Emitting
<1>2. PICK s : s = idocs[doc].segments
  OBVIOUS
<1>3. PICK m \in Nat : m = Len(open_levels)
  BY TypeFacts
<1>4. PICK name \in STRING : name = "IDOC" /\ xml' = Closing(xml, name)
  BY LiteralsAreStrings DEF CloseDocument, Closing
<1>5. PICK now, next : now = After(xml) /\ next = After(xml')
  OBVIOUS
<1>6. PICK l \in Nat : l = Len(now.elements)
  BY <1>1, <1>5, AfterFacts
<1>7. now.ok \in BOOLEAN /\ (now.ok => now.elements # <<>>)
  BY <1>1, <1>5, AfterFacts, StackFacts DEF Emitting
<1>8. IsClosed(xml', xml, name)
  BY <1>1, <1>4, AfterClosing
<1>9. /\ xml'[1] = xml[1]
      /\ next.ok <=> now.ok /\ now.elements # <<>> /\ now.elements[l] = "IDOC"
      /\ next.ok => /\ Len(next.elements) = l - 1
                    /\ \A k \in 1..(l - 1) : next.elements[k] = now.elements[k]
                    /\ next.idocs = now.idocs
      /\ RootStays(xml')
  BY <1>4, <1>5, <1>6, <1>7, <1>8 DEF IsClosed, RootOpen
<1>10. PICK n \in Int : n = l - m - 1
  OBVIOUS
<1>11. /\ ~now.ok => ZeroIn(idocs)
       /\ now.ok => Below(now.elements, n) /\ now.elements[n + 1] = "IDOC"
  BY <1>1, <1>3, <1>5, <1>6, <1>10 DEF SameOpen, Emitting
<1>12. m # 0 => ZeroIn(idocs) /\ m = 1
  <2> SUFFICES ASSUME m # 0
               PROVE  ZeroIn(idocs) /\ m = 1
    OBVIOUS
  <2>1. open_levels \in Seq(OpenLevels) /\ m \in 1..m /\ 1 \in 1..m /\ DOMAIN open_levels = 1..m
    BY <1>3, TypeFacts, LenProperties
  <2>2. \A k \in 1..m : open_levels[k].level \in Nat
    <3>1. \A k \in 1..m : open_levels[k] \in OpenLevels
      BY <1>3, <2>1, ElementOfSeq
    <3> QED
      BY <3>1 DEF OpenLevels
  <2>3. open_levels[m].level = 0
    <3>1. ~Closes(1)
      BY DEF CloseDocument
    <3>2. open_levels # <<>>
      BY <1>3, EmptySeq
    <3>3. ~(open_levels[m].level >= 1)
      BY <1>3, <3>1, <3>2 DEF Closes, LastOf
    <3>4. open_levels[m].level \in Nat
      BY <2>1, <2>2
    <3> QED
      BY <3>3, <3>4
  <2>4. m = 1
    <3> SUFFICES ASSUME m # 1
                 PROVE  FALSE
      OBVIOUS
    <3>1. open_levels[1].level < open_levels[m].level
      BY <2>1 DEF Increasing, OpenLevelsIncrease
    <3>2. open_levels[1].level \in Nat
      BY <2>1, <2>2
    <3> QED
      BY <2>3, <3>1, <3>2
  <2>5. PICK at : IsChain(at, open_levels, Levels(s), seg, 1)
    <3>1. ~(seg < Len(s))
      BY <1>1, <1>2
    <3>2. \E at : IsChain(at, open_levels, Levels(s), seg, IF seg < Len(s) THEN s[seg + 1].hlevel ELSE 1)
      BY <1>1, <1>2 DEF SameContent, Emitting
    <3> QED
      BY <3>1, <3>2
  <2>6. /\ at \in [0..m -> 0..seg] /\ at[0] = 0 /\ at[m - 1] < at[m]
        /\ Levels(s)[at[m]] = open_levels[m].level
    BY <1>3, <2>1, <2>5 DEF IsChain
  <2>7. at[m] \in 1..seg
    <3>1. at[m] \in 0..seg /\ at[m - 1] \in 0..seg
      BY <2>1, <2>6
    <3> QED
      BY <1>1, <2>6, <3>1
  <2>8. s[at[m]].hlevel = 0
    <3>1. at[m] \in DOMAIN s
      BY <1>1, <1>2, <2>7, TypeFacts
    <3> QED
      BY <2>3, <2>6, <3>1 DEF Levels
  <2> QED
    BY <1>1, <1>2, <2>4, <2>7, <2>8 DEF ZeroIn
<1>13. SameOpen'
  <2>1. CASE ~next.ok
    <3>1. ZeroIn(idocs)
      <4>1. CASE ~now.ok
        BY <1>11, <4>1
      <4>2. CASE now.ok /\ m = 0
        <5>1. n + 1 = l
          BY <1>10, <4>2
        <5> QED
          BY <1>7, <1>9, <1>11, <2>1, <4>2, <5>1
      <4>3. CASE m # 0
        BY <1>12, <4>3
      <4> QED
        BY <1>7, <4>1, <4>2, <4>3
    <3> QED
      BY <1>1, <1>5, <2>1, <3>1 DEF SameOpen
  <2>2. CASE next.ok
    <3>1. now.ok /\ n >= 1 /\ n \in Nat
      BY <1>9, <1>11, <2>2 DEF Below
    <3>2. PICK e \in Nat : e = l - 1
      BY <1>10, <3>1
    <3>3. Len(next.elements) = e /\ \A k \in 1..e : next.elements[k] = now.elements[k]
      BY <1>9, <2>2, <3>2
    <3>4. Below(next.elements, e)'
      <4>1. CASE m = 0
        <5>1. e = n /\ 1 \in 1..e /\ e \in 1..e
          BY <1>10, <3>1, <3>2, <4>1
        <5>2. next.elements[1] = now.elements[1] /\ next.elements[e] = now.elements[n]
          BY <3>3, <5>1
        <5> QED
          BY <1>1, <1>9, <1>11, <3>1, <5>1, <5>2 DEF Below
      <4>2. CASE m # 0
        <5>1. m = 1 /\ ZeroIn(idocs)
          BY <1>12, <4>2
        <5>2. e = n + 1 /\ e \in 1..e /\ e > 1
          BY <1>10, <3>1, <3>2, <5>1
        <5>3. next.elements[e] = "IDOC"
          BY <1>11, <3>1, <3>3, <5>2
        <5> QED
          BY <1>1, <5>1, <5>2, <5>3 DEF Below
      <4> QED
        BY <4>1, <4>2
    <3> QED
      BY <1>1, <1>5, <2>2, <3>3, <3>4 DEF SameOpen
  <2>3. next.ok \in BOOLEAN
    BY <1>5, <1>8, AfterFacts DEF IsClosed
  <2> QED
    BY <2>1, <2>2, <2>3
<1>14. ASSUME next.ok, Len(next.elements) = 1
       PROVE  /\ Len(next.idocs) = doc
              /\ \A d \in 1..doc : Mirrors(next.idocs[d], idocs[d], Len(idocs[d].segments))
  <2>1. now.ok /\ l - 1 = 1 /\ n >= 1
    BY <1>9, <1>11, <1>14 DEF Below
  <2>2. n = 1
    BY <1>10, <1>12, <2>1
  <2>3. /\ Len(now.idocs) = doc
        /\ \A d \in 1..doc :
             Mirrors(now.idocs[d], idocs[d], IF d = doc THEN seg ELSE Len(idocs[d].segments))
    BY <1>1, <1>3, <1>5, <1>6, <1>10, <2>1, <2>2 DEF SameContent, Emitting
  <2>4. \A d \in 1..doc : (IF d = doc THEN seg ELSE Len(idocs[d].segments)) = Len(idocs[d].segments)
    BY <1>1
  <2>5. next.idocs = now.idocs
    BY <1>9, <1>14
  <2> QED
    BY <2>3, <2>4, <2>5
<1>15. SameContent'
  <2>1. next.ok => Len(next.elements) - Len(open_levels') - 0 = Len(next.elements)
    BY <1>1, <1>6, <1>9
  <2> QED
    BY <1>1, <1>5, <1>14, <2>1 DEF SameContent
<1> QED
  BY <1>9, <1>13, <1>15 DEF RootOpen

\* Closing the root.
LEMMA RootClosed ==
  ASSUME Types, Phases, Rooted, RootOpen, SameOpen, OpenDocument, ~(doc < Len(idocs))
  PROVE  /\ pc' = "parse" /\ RootOpen'
         /\ TypeName(idocs[1]) \in STRING
         /\ IsClosed(xml', xml, TypeName(idocs[1]))
<1>1. pc = "documents" /\ pc' = "parse" /\ xml' = Closing(xml, TypeName(idocs[1]))
  BY DEF OpenDocument, Closing
<1>2. PICK name \in STRING : name = TypeName(idocs[1])
  <2>1. 1 \in 1..Len(idocs)
    BY <1>1, TypeFacts, EmptySeq DEF Rooted, Emitting
  <2> QED
    BY <2>1, TypeFacts
<1>3. IsClosed(xml', xml, name)
  BY <1>1, <1>2, StackFacts, AfterClosing DEF Emitting
<1>4. After(xml).ok => After(xml).elements # <<>>
  BY <1>1, StackFacts DEF Emitting
<1>5. RootOpen'
  BY <1>3, <1>4 DEF IsClosed, RootOpen
<1> QED
  BY <1>1, <1>2, <1>3, <1>5

\* The parser beside the emitter, at every step.
LEMMA EmitStep ==
  ASSUME Types, Phases, Increasing, Named, Rooted, RootOpen, SameOpen, SameContent, [Next]_vars
  PROVE  RootOpen' /\ SameOpen' /\ SameContent'
<1>1. ASSUME xml' = xml, pc' \notin Emitting
      PROVE  RootOpen' /\ SameOpen' /\ SameContent'
  BY <1>1 DEF RootOpen, SameOpen, SameContent
<1>2. CASE Group
  <2>1. pc = "group" /\ xml' = xml
    BY <1>2 DEF Group, emitting
  <2>2. pc' = "group" \/ pc' = "refused"
    BY <1>2, <2>1 DEF Group
  <2> QED
    BY <1>1, <2>1, <2>2 DEF Emitting
<1>3. CASE (OpenRoot \/ OpenSegment) /\ pc' = "refused"
  <2>1. pc \in {"group", "segments"}
    BY <1>3 DEF OpenRoot, OpenSegment
  <2>2. xml' = xml
    BY <1>3, <2>1 DEF OpenRoot, OpenSegment
  <2> QED
    BY <1>1, <1>3, <2>2 DEF Emitting
<1>4. CASE OpenRoot /\ pc' # "refused"
  BY <1>4, RootEmitted
<1>5. CASE OpenSegment /\ pc' # "refused"
  BY <1>5, SegmentEmitted
<1>6. CASE OpenDocument /\ doc < Len(idocs)
  BY <1>6, DocumentEmitted
<1>7. CASE OpenDocument /\ ~(doc < Len(idocs))
  <2>1. pc' = "parse" /\ RootOpen'
    BY <1>7, RootClosed
  <2> QED
    BY <2>1 DEF SameOpen, SameContent, Emitting
<1>8. CASE CloseSegment \/ CloseRest
  BY <1>8, LevelEmitted
<1>9. CASE CloseDocument
  BY <1>9, DocumentClosed
<1>10. CASE ~(Group \/ OpenRoot \/ OpenDocument \/ CloseSegment \/ OpenSegment \/ CloseRest \/ CloseDocument)
  <2>1. xml' = xml /\ (pc' \in Emitting => UNCHANGED vars)
    BY <1>10, EmitFrame
  <2>2. CASE UNCHANGED vars
    BY <2>2 DEF vars, RootOpen, SameOpen, SameContent, Below
  <2>3. CASE ~UNCHANGED vars
    BY <1>1, <2>1, <2>3
  <2> QED
    BY <2>2, <2>3
<1> QED
  BY <1>2, <1>3, <1>4, <1>5, <1>6, <1>7, <1>8, <1>9, <1>10

-----------------------------------------------------------------------------
(* The documents in the file.                                              *)

\* A document alone in the file has its layout.
LEMMA FirstDocument ==
  ASSUME NEW docs, Len(docs) = 1, Len(docs[1].segments) = 0, IsControl(records[1]),
         docs[1].control = ControlFields(records[1])
  PROVE  \E begin : IsLayout(begin, docs, 1) /\ \A d \in 1..Len(docs) : HasLevels(begin[d], docs[d])
<1>1. PICK begin : begin = [d \in 1..2 |-> d]
  OBVIOUS
<1>2. begin \in [1..(Len(docs) + 1) -> Nat] /\ begin[1] = 1 /\ begin[2] = 2 /\ Len(docs) + 1 = 2
  BY <1>1
<1>3. IsAt(1, docs[1]) /\ HasLevels(1, docs[1])
  BY DEF IsAt, HasLevels
<1>4. \A d \in 1..Len(docs) : d = 1
  OBVIOUS
<1>5. IsLayout(begin, docs, 1)
  BY <1>2, <1>3, <1>4 DEF IsLayout
<1> QED
  BY <1>2, <1>3, <1>4, <1>5

\* A control record begins another document.
LEMMA AnotherDocument ==
  ASSUME NEW docs, NEW more, NEW begin, NEW m \in Nat, NEW n \in Nat,
         m = Len(docs), Len(more) = m + 1, \A d \in 1..m : more[d] = docs[d],
         IsLayout(begin, docs, n), \A d \in 1..m : HasLevels(begin[d], docs[d]),
         IsControl(records[n + 1]), more[m + 1].control = ControlFields(records[n + 1]),
         Len(more[m + 1].segments) = 0
  PROVE  \E b : IsLayout(b, more, n + 1) /\ \A d \in 1..Len(more) : HasLevels(b[d], more[d])
<1>1. PICK b : b = [d \in 1..(m + 2) |-> IF d = m + 2 THEN n + 2 ELSE begin[d]]
  OBVIOUS
<1>2. /\ begin \in [1..(m + 1) -> Nat] /\ begin[1] = 1 /\ begin[m + 1] = n + 1
      /\ \A d \in 1..m : /\ begin[d + 1] = begin[d] + Len(docs[d].segments) + 1
                         /\ IsAt(begin[d], docs[d])
  BY DEF IsLayout
<1>3. \A d \in 1..(m + 2) : d # m + 2 => d \in 1..(m + 1)
  OBVIOUS
<1>4. /\ b \in [1..(m + 2) -> Nat] /\ b[m + 2] = n + 2
      /\ \A d \in 1..(m + 1) : b[d] = begin[d]
  BY <1>1, <1>2, <1>3
<1>5. IsAt(n + 1, more[m + 1]) /\ HasLevels(n + 1, more[m + 1])
  BY DEF IsAt, HasLevels
<1>6. ASSUME NEW d \in 1..(m + 1)
      PROVE  /\ b[d + 1] = b[d] + Len(more[d].segments) + 1
             /\ IsAt(b[d], more[d]) /\ HasLevels(b[d], more[d])
  <2>1. CASE d = m + 1
    <3>1. d + 1 = m + 2 /\ b[d] = n + 1 /\ b[d + 1] = n + 2
      BY <1>2, <1>4, <2>1
    <3>2. Len(more[d].segments) = 0 /\ n + 2 = n + 1 + 0 + 1
      BY <2>1
    <3>3. IsAt(b[d], more[d]) /\ HasLevels(b[d], more[d])
      BY <1>5, <2>1, <3>1
    <3> QED
      BY <3>1, <3>2, <3>3
  <2>2. CASE d # m + 1
    <3>1. d \in 1..m /\ d + 1 \in 1..(m + 1)
      BY <2>2
    <3> QED
      BY <1>2, <1>4, <3>1
  <2> QED
    BY <2>1, <2>2
<1>7. Len(more) + 1 = m + 2 /\ b[1] = 1 /\ (n + 1) + 1 = n + 2
  BY <1>2, <1>4
<1>8. IsLayout(b, more, n + 1)
  BY <1>4, <1>6, <1>7 DEF IsLayout
<1> QED
  BY <1>6, <1>8

\* A data record is one more segment of the last document.
LEMMA AnotherSegment ==
  ASSUME NEW docs \in Seq(IdocsOf(Nat)), NEW more, NEW begin, NEW m \in Nat \ {0}, NEW n \in Nat,
         m = Len(docs), Len(more) = m, \A d \in 1..m : d # m => more[d] = docs[d],
         IsLayout(begin, docs, n), \A d \in 1..m : HasLevels(begin[d], docs[d]),
         ~IsControl(records[n + 1]), SegmentOf(records[n + 1]) \in SegmentsOf(Nat),
         more[m].control = docs[m].control,
         more[m].segments = Append(docs[m].segments, SegmentOf(records[n + 1]))
  PROVE  \E b : IsLayout(b, more, n + 1) /\ \A d \in 1..Len(more) : HasLevels(b[d], more[d])
<1>1. PICK b : b = [d \in 1..(m + 1) |-> IF d = m + 1 THEN n + 2 ELSE begin[d]]
  OBVIOUS
<1>2. /\ begin \in [1..(m + 1) -> Nat] /\ begin[1] = 1 /\ begin[m + 1] = n + 1
      /\ \A d \in 1..m : /\ begin[d + 1] = begin[d] + Len(docs[d].segments) + 1
                         /\ IsAt(begin[d], docs[d])
  BY DEF IsLayout
<1>3. b \in [1..(m + 1) -> Nat] /\ b[m + 1] = n + 2 /\ \A d \in 1..m : b[d] = begin[d] /\ d # m + 1
  <2>1. \A d \in 1..m : d \in 1..(m + 1) /\ d # m + 1
    OBVIOUS
  <2>2. m + 1 \in 1..(m + 1)
    OBVIOUS
  <2> QED
    BY <1>1, <1>2, <2>1, <2>2
<1>4. PICK l \in Nat : l = Len(docs[m].segments) /\ docs[m].segments \in Seq(SegmentsOf(Nat))
  <2>1. m \in 1..Len(docs)
    OBVIOUS
  <2> QED
    BY <2>1, IdocFacts
<1>5. PICK first \in Nat : first = begin[m] /\ first + l = n
  <2>1. m \in 1..m /\ m \in 1..(m + 1)
    OBVIOUS
  <2>2. begin[m] \in Nat /\ begin[m + 1] = begin[m] + l + 1 /\ begin[m + 1] = n + 1
    BY <1>2, <1>4, <2>1
  <2>3. \A i \in Nat : n + 1 = i + l + 1 => i + l = n
    OBVIOUS
  <2> QED
    BY <2>2, <2>3
<1>6. /\ Len(more[m].segments) = l + 1 /\ more[m].segments[l + 1] = SegmentOf(records[n + 1])
      /\ \A k \in 1..l : more[m].segments[k] = docs[m].segments[k]
  BY <1>4, AppendProperties
<1>7. /\ SegmentOf(records[n + 1]).segnam = records[n + 1].segnam
      /\ SegmentOf(records[n + 1]).hlevel = records[n + 1].level
      /\ SegmentOf(records[n + 1]).fields = Fields("F", records[n + 1].payload)
  BY DEF SegmentOf
<1>8. IsAt(first, docs[m]) /\ HasLevels(first, docs[m])
  BY <1>2, <1>5
<1>9. ASSUME NEW k \in 1..(l + 1)
      PROVE  /\ ~IsControl(records[first + k])
             /\ more[m].segments[k].segnam = records[first + k].segnam
             /\ more[m].segments[k].fields = Fields("F", records[first + k].payload)
             /\ more[m].segments[k].hlevel = records[first + k].level
  <2>1. CASE k = l + 1
    <3>0. \A x, y \in Nat : x + y = n => x + (y + 1) = n + 1
      OBVIOUS
    <3>1. first + k = n + 1
      BY <1>5, <2>1, <3>0
    <3> QED
      BY <1>6, <1>7, <2>1, <3>1
  <2>2. CASE k # l + 1
    <3>1. k \in 1..l
      BY <2>2
    <3> QED
      BY <1>4, <1>6, <1>8, <3>1 DEF IsAt, HasLevels
  <2> QED
    BY <2>1, <2>2
<1>10. IsAt(first, more[m]) /\ HasLevels(first, more[m])
  BY <1>6, <1>8, <1>9 DEF IsAt, HasLevels
<1>11. ASSUME NEW d \in 1..m
       PROVE  /\ b[d + 1] = b[d] + Len(more[d].segments) + 1
              /\ IsAt(b[d], more[d]) /\ HasLevels(b[d], more[d])
  <2>1. CASE d = m
    <3>1. b[d + 1] = n + 2 /\ b[d] = first
      BY <1>3, <1>5, <2>1
    <3>2. n + 2 = first + (l + 1) + 1
      BY SMTT(30), <1>5
    <3> QED
      BY <1>6, <1>10, <2>1, <3>1, <3>2
  <2>2. CASE d # m
    <3>1. d + 1 \in 1..m
      BY <2>2
    <3> QED
      BY <1>2, <1>3, <2>2, <3>1
  <2> QED
    BY <2>1, <2>2
<1>12. b[1] = 1 /\ b[m + 1] = (n + 1) + 1
  <2>1. 1 \in 1..m
    OBVIOUS
  <2> QED
    BY <1>2, <1>3, <2>1
<1>13. IsLayout(b, more, n + 1)
  BY <1>3, <1>11, <1>12 DEF IsLayout
<1> QED
  BY <1>11, <1>13

\* Every record has its place in a document.
LEMMA GroupedStep ==
  ASSUME Types, Phases, Grouped, [Next]_vars
  PROVE  Grouped'
<1>1. CASE Group
  <2>1. PICK r : r = records[read + 1]
    OBVIOUS
  <2>2. PICK began : began = Begun(r)
    OBVIOUS
  <2>3. pc = "group" /\ records' = records /\ read' = read + 1 /\ read \in Nat
    BY <1>1, TypeFacts DEF Group
  <2>4. SUFFICES ASSUME pc' # "refused", Typed(records)
                 PROVE  \E b : IsLayout(b, idocs', read + 1) /\ \A d \in 1..Len(idocs') : HasLevels(b[d], idocs'[d])
    <3>1. pc' = "refused" \/ pc' = "group"
      BY <1>1, <2>3 DEF Group
    <3>2. read' # 0
      BY <2>3
    <3>3. ASSUME NEW b, IsLayout(b, idocs', read + 1), \A d \in 1..Len(idocs') : HasLevels(b[d], idocs'[d])
          PROVE  /\ IsLayout(b, idocs, read)'
                 /\ \A d \in 1..Len(idocs') : HasLevels(b[d], idocs[d])'
      BY <2>3, <3>3 DEF IsLayout, IsAt, HasLevels
    <3> QED
      BY <2>3, <3>1, <3>2, <3>3 DEF Grouped, Typed, Emitting
  <2>5. /\ began \in Seq(IdocsOf(Nat)) /\ Len(began) \in Nat \ {0}
        /\ ~IsControl(r) => SegmentOf(r) \in SegmentsOf(Nat)
        /\ Len(idocs') = Len(began)
        /\ \A e \in 1..Len(began) : e # Len(began) => idocs'[e] = began[e]
        /\ IF IsControl(r)
           THEN /\ idocs'[Len(began)].control = ControlFields(r)
                /\ idocs'[Len(began)].segments = began[Len(began)].segments
           ELSE /\ idocs'[Len(began)].control = began[Len(began)].control
                /\ idocs'[Len(began)].segments = Append(began[Len(began)].segments, SegmentOf(r))
    BY <1>1, <2>1, <2>2, <2>4, GroupStep
  <2>6. NewIdoc \in IdocsOf(Nat) /\ NewIdoc.segments = <<>> /\ Len(<<>>) = 0
    BY EmptySeq DEF NewIdoc, IdocsOf, FieldSets
  <2>7. PICK m \in Nat : m = Len(idocs) /\ idocs \in Seq(IdocsOf(Nat))
    BY TypeFacts
  <2>8. began = Append(idocs, NewIdoc) =>
          /\ Len(began) = m + 1 /\ began[m + 1] = NewIdoc
          /\ \A d \in 1..m : began[d] = idocs[d]
    BY <2>6, <2>7, AppendProperties
  <2>9. CASE read = 0
    <3>0. read + 1 = 1 /\ Len(<<>>) = 0
      BY <2>9, EmptySeq
    <3>1. idocs = <<>> /\ IsControl(records[1]) /\ r = records[1] /\ m = 0
      <4>1. idocs = <<>>
        BY <2>3, <2>4, <2>9 DEF Grouped
      <4>2. IsControl(records[1])
        BY <2>4 DEF Typed
      <4> QED
        BY <2>1, <2>7, <3>0, <4>1, <4>2
    <3>2. began = Append(idocs, NewIdoc)
      BY <2>2, <3>1 DEF Begun
    <3>3. Len(began) = 1 /\ Len(began[1].segments) = 0
      BY <2>6, <2>8, <3>1, <3>2
    <3>4. Len(idocs') = 1 /\ Len(idocs'[1].segments) = 0 /\ idocs'[1].control = ControlFields(records[1])
      BY <2>5, <3>1, <3>3
    <3> QED
      BY <2>9, <3>1, <3>4, FirstDocument
  <2>10. CASE read # 0
    <3>1. PICK begin : IsLayout(begin, idocs, read) /\ \A d \in 1..Len(idocs) : HasLevels(begin[d], idocs[d])
      BY <2>3, <2>4, <2>10 DEF Grouped
    <3>2. m # 0
      BY <2>3, <2>7, <2>10, <3>1 DEF IsLayout
    <3>3. CASE IsControl(r)
      <4>1. began = Append(idocs, NewIdoc)
        BY <2>2, <3>3 DEF Begun
      <4>2. Len(idocs') = m + 1 /\ \A d \in 1..m : idocs'[d] = idocs[d]
        <5>1. \A d \in 1..m : d \in 1..(m + 1) /\ d # m + 1
          BY <2>7
        <5> QED
          BY <2>5, <2>8, <4>1, <5>1
      <4>3. idocs'[m + 1].control = ControlFields(records[read + 1]) /\ Len(idocs'[m + 1].segments) = 0
        BY <2>1, <2>5, <2>6, <2>8, <3>3, <4>1
      <4> QED
        BY <2>1, <2>3, <2>7, <3>1, <3>3, <4>2, <4>3, AnotherDocument
    <3>4. CASE ~IsControl(r)
      <4>1. began = idocs
        BY <2>2, <2>7, <3>2, <3>4, EmptySeq DEF Begun
      <4>2. /\ Len(idocs') = m /\ \A d \in 1..m : d # m => idocs'[d] = idocs[d]
            /\ idocs'[m].control = idocs[m].control
            /\ idocs'[m].segments = Append(idocs[m].segments, SegmentOf(records[read + 1]))
            /\ SegmentOf(records[read + 1]) \in SegmentsOf(Nat)
        BY <2>1, <2>5, <2>7, <3>4, <4>1
      <4> QED
        BY <2>1, <2>3, <2>7, <3>1, <3>2, <3>4, <4>2, AnotherSegment
    <3> QED
      BY <3>3, <3>4
  <2> QED
    BY <2>9, <2>10
<1>2. ASSUME pc \in {"group"} \cup Emitting \/ UNCHANGED vars, UNCHANGED <<records, read, idocs>>
      PROVE  Grouped'
  <2>1. CASE pc' \notin {"group"} \cup Emitting
    BY <2>1 DEF Grouped
  <2>2. CASE pc' \in {"group"} \cup Emitting
    <3>1. pc \in {"group"} \cup Emitting
      BY <1>2, <2>2 DEF vars
    <3>2. ASSUME NEW b, IsLayout(b, idocs, read), \A d \in 1..Len(idocs) : HasLevels(b[d], idocs[d])
          PROVE  /\ IsLayout(b, idocs, read)'
                 /\ \A d \in 1..Len(idocs') : HasLevels(b[d], idocs[d])'
      BY <1>2, <3>2 DEF IsLayout, IsAt, HasLevels
    <3> QED
      BY <1>2, <3>1, <3>2 DEF Grouped, Typed
  <2> QED
    BY <2>1, <2>2
<1>3. CASE OpenRoot \/ OpenDocument \/ CloseSegment \/ OpenSegment \/ CloseRest \/ CloseDocument
  BY <1>2, <1>3 DEF OpenRoot, OpenDocument, CloseSegment, OpenSegment, CloseRest, CloseDocument, Emitting
<1>4. CASE ~(Group \/ OpenRoot \/ OpenDocument \/ CloseSegment \/ OpenSegment \/ CloseRest \/ CloseDocument)
  <2>1. pc' \in Emitting => UNCHANGED vars
    BY <1>4, EmitFrame
  <2>2. pc' # "group" \/ UNCHANGED vars
    BY <1>4 DEF Next, ParseOpen, ParseClose, Parsed, FlattenDocument, FlattenSegment
  <2>3. CASE UNCHANGED vars
    <3>1. UNCHANGED <<records, read, idocs>>
      BY <2>3 DEF vars
    <3> QED
      BY <1>2, <2>3, <3>1
  <2>4. CASE ~UNCHANGED vars
    BY <2>1, <2>2, <2>4 DEF Grouped
  <2> QED
    BY <2>3, <2>4
<1> QED
  BY <1>1, <1>3, <1>4

\* The documents follow each other.
LEMMA LayoutFacts ==
  ASSUME NEW L, NEW docs \in Seq(IdocsOf(L)), NEW begin, NEW n \in Nat, IsLayout(begin, docs, n)
  PROVE  /\ \A d \in 1..(Len(docs) + 1) : begin[d] \in Nat
         /\ \A d \in 1..Len(docs), e \in 1..(Len(docs) + 1) :
              d < e => begin[d] + Len(docs[d].segments) + 1 <= begin[e]
         /\ \A d \in 1..Len(docs) : begin[d] >= 1 /\ begin[d] + Len(docs[d].segments) <= n
<1>1. PICK m \in Nat : m = Len(docs)
  BY LenProperties
<1>2. /\ begin \in [1..(m + 1) -> Nat] /\ begin[1] = 1 /\ begin[m + 1] = n + 1
      /\ \A d \in 1..m : begin[d + 1] = begin[d] + Len(docs[d].segments) + 1
  BY <1>1 DEF IsLayout
<1>3. \A d \in 1..m : Len(docs[d].segments) \in Nat
  BY <1>1, IdocFacts
<1>4. \A d \in 1..(m + 1) : begin[d] \in Nat
  BY <1>2
<1> DEFINE S == {e \in Nat : e <= m + 1 => \A d \in 1..m : d < e => begin[d] + Len(docs[d].segments) + 1 <= begin[e]}
<1>5. 0 \in S
  OBVIOUS
<1>6. ASSUME NEW e \in Nat, e \in S
      PROVE  e + 1 \in S
  <2> SUFFICES ASSUME e + 1 <= m + 1, NEW d \in 1..m, d < e + 1
               PROVE  begin[d] + Len(docs[d].segments) + 1 <= begin[e + 1]
    OBVIOUS
  <2>1. e \in 1..m
    OBVIOUS
  <2>2. begin[e + 1] = begin[e] + Len(docs[e].segments) + 1 /\ Len(docs[e].segments) \in Nat
    BY <1>2, <1>3, <2>1
  <2>3. CASE d = e
    BY <1>3, <1>4, <2>2, <2>3
  <2>4. CASE d # e
    <3>1. begin[d] + Len(docs[d].segments) + 1 <= begin[e]
      BY <1>6, <2>1, <2>4
    <3>2. begin[e] \in Nat /\ begin[d] \in Nat /\ Len(docs[d].segments) \in Nat
      BY <1>3, <1>4, <2>1
    <3>3. \A a, b, l, k \in Nat : a + l + 1 <= b => a + l + 1 <= b + k + 1
      OBVIOUS
    <3> QED
      BY <2>2, <3>1, <3>2, <3>3
  <2> QED
    BY <2>3, <2>4
<1> HIDE DEF S
<1>7. \A d \in 1..m, e \in 1..(m + 1) : d < e => begin[d] + Len(docs[d].segments) + 1 <= begin[e]
  <2>1. Nat \subseteq S
    BY <1>5, <1>6, NatSetInduction
  <2>2. \A e \in 1..(m + 1) : e \in S /\ e <= m + 1
    BY <2>1
  <2> QED
    BY <2>2 DEF S
<1>8. ASSUME NEW d \in 1..m
      PROVE  begin[d] >= 1 /\ begin[d] + Len(docs[d].segments) <= n
  <2>1. begin[d] \in Nat /\ Len(docs[d].segments) \in Nat
    BY <1>3, <1>4
  <2>2. begin[d] + Len(docs[d].segments) + 1 <= n + 1
    BY <1>2, <1>7
  <2>3. begin[d] >= 1
    <3>1. CASE d = 1
      BY <1>2, <3>1
    <3>2. CASE d # 1
      <4>1. 1 \in 1..m /\ 1 < d
        BY <3>2
      <4>2. begin[1] + Len(docs[1].segments) + 1 <= begin[d] /\ Len(docs[1].segments) \in Nat
        BY <1>3, <1>7, <4>1
      <4> QED
        BY <1>2, <2>1, <4>2
    <3> QED
      BY <3>1, <3>2
  <2> QED
    BY <2>1, <2>2, <2>3
<1> QED
  BY <1>1, <1>4, <1>7, <1>8

\* A file that begins with a control record of a type of its own is laid out whole, and
\* the root is not called IDOC.
LEMMA TypedRoot ==
  ASSUME Types, Phases, Rooted, Grouped, Typed(records), pc \in Emitting
  PROVE  /\ TypeName(idocs[1]) # "IDOC" /\ xml[1].name # "IDOC"
         /\ \E begin : /\ IsLayout(begin, idocs, Len(records))
                       /\ \A d \in 1..Len(idocs) : HasLevels(begin[d], idocs[d])
<1>1. read = Len(records) /\ read # 0 /\ idocs # <<>> /\ xml[1].name = TypeName(idocs[1])
  <2>1. records \in Seq(ControlRecord \cup DataRecord) /\ records # <<>>
    BY XmlAssumption DEF Types, Typed
  <2>2. Len(records) # 0
    BY <2>1, EmptySeq
  <2> QED
    BY <2>2 DEF Phases, Rooted
<1>2. PICK begin : /\ IsLayout(begin, idocs, Len(records))
                   /\ \A d \in 1..Len(idocs) : HasLevels(begin[d], idocs[d])
  BY <1>1 DEF Grouped
<1>3. 1 \in 1..Len(idocs) /\ 1 \in 1..Len(records)
  BY <1>1, TypeFacts, EmptySeq
<1>4. idocs[1].control = ControlFields(records[1])
  BY <1>2, <1>3 DEF IsLayout, IsAt
<1>5. records[1] \in ControlRecord /\ records[1].idoctyp \notin {"", "IDOC"}
  BY <1>3, TypeFacts, RecordFacts DEF Typed
<1>6. FieldValue(idocs[1].control, "IDOCTYP") = records[1].idoctyp
  BY <1>4, <1>5, FieldFacts
<1>7. TypeName(idocs[1]) # "IDOC"
  BY <1>5, <1>6 DEF TypeName
<1> QED
  BY <1>1, <1>2, <1>7

\* What mirrors documents of the file is nested in the file.
LEMMA MirroredInFile ==
  ASSUME NEW docs \in Seq(IdocsOf(Nat)), NEW more \in Seq(IdocsOf(Int)), NEW begin,
         IsLayout(begin, docs, Len(records)), \A d \in 1..Len(docs) : HasLevels(begin[d], docs[d]),
         Len(more) = Len(docs),
         \A d \in 1..Len(docs) : Mirrors(more[d], docs[d], Len(docs[d].segments))
  PROVE  IsNested(begin, more)
<1>1. /\ begin \in [1..(Len(docs) + 1) -> Nat] /\ begin[1] = 1
      /\ begin[Len(docs) + 1] = Len(records) + 1
      /\ \A d \in 1..Len(docs) : /\ begin[d + 1] = begin[d] + Len(docs[d].segments) + 1
                                 /\ IsAt(begin[d], docs[d])
  BY DEF IsLayout
<1>2. ASSUME NEW d \in 1..Len(docs)
      PROVE  /\ Len(more[d].segments) = Len(docs[d].segments)
             /\ IsAt(begin[d], more[d])
             /\ \A k \in 1..Len(more[d].segments) :
                  NestedAt(LevelsFrom(begin[d], more[d].segments), Levels(more[d].segments), k)
  <2>1. Mirrors(more[d], docs[d], Len(docs[d].segments)) /\ IsAt(begin[d], docs[d]) /\ HasLevels(begin[d], docs[d])
    BY <1>1
  <2>2. Len(more[d].segments) = Len(docs[d].segments)
    BY <2>1 DEF Mirrors
  <2>3. IsAt(begin[d], more[d])
    BY <2>1 DEF Mirrors, IsAt
  <2>4. LevelsFrom(begin[d], more[d].segments) = Levels(docs[d].segments)
    <3>1. DOMAIN more[d].segments = 1..Len(docs[d].segments) /\ DOMAIN docs[d].segments = 1..Len(docs[d].segments)
      BY <2>2, IdocFacts
    <3>2. \A k \in 1..Len(docs[d].segments) : docs[d].segments[k].hlevel = records[begin[d] + k].level
      BY <2>1 DEF HasLevels
    <3> QED
      BY <3>1, <3>2 DEF LevelsFrom, Levels
  <2>5. \A k \in 1..Len(docs[d].segments) :
          NestedAt(Levels(docs[d].segments), Levels(more[d].segments), k)
    BY <2>1 DEF Mirrors
  <2> QED
    BY <2>2, <2>3, <2>4, <2>5
<1>3. IsLayout(begin, more, Len(records))
  BY <1>1, <1>2 DEF IsLayout
<1> QED
  BY <1>2, <1>3 DEF IsNested

\* When the root is closed, the parser has the documents of the file, or there is a record of
\* level 0.
LEMMA RootParsed ==
  ASSUME Types, Phases, Rooted, RootOpen, SameOpen, SameContent, Grouped, Typed(records),
         OpenDocument, ~(doc < Len(idocs))
  PROVE  /\ xml'[1].name # "IDOC"
         /\ ~After(xml').ok => LevelZero
         /\ After(xml').ok => \E begin : IsNested(begin, After(xml').idocs)
<1>1. pc = "documents" /\ doc = Len(idocs) /\ xml \in Seq(Tags) /\ open_levels = <<>> /\ Len(open_levels) = 0
  <2>1. pc = "documents"
    BY DEF OpenDocument
  <2>2. open_levels = <<>>
    BY <2>1 DEF Phases
  <2>3. doc = Len(idocs) /\ xml \in Seq(Tags)
    BY TypeFacts
  <2> QED
    BY <2>1, <2>2, <2>3, EmptySeq
<1>2. PICK now, end : now = After(xml) /\ end = After(xml')
  OBVIOUS
<1>3. PICK name \in STRING : name = TypeName(idocs[1])
  BY RootClosed
<1>4. PICK n \in Nat : n = Len(now.elements)
  BY <1>1, <1>2, AfterFacts
<1>5. /\ xml'[1] = xml[1]
      /\ end.ok <=> now.ok /\ now.elements # <<>> /\ now.elements[n] = name
      /\ end.ok => end.idocs = now.idocs
  <2>1. IsClosed(xml', xml, name)
    BY <1>3, RootClosed
  <2> QED
    BY <1>2, <1>4, <2>1 DEF IsClosed
<1>6. name # "IDOC" /\ xml[1].name = name
  BY <1>1, <1>3, TypedRoot DEF Rooted, Emitting
<1>7. PICK begin : /\ IsLayout(begin, idocs, Len(records))
                   /\ \A d \in 1..Len(idocs) : HasLevels(begin[d], idocs[d])
  BY <1>1, TypedRoot DEF Emitting
<1>8. ZeroIn(idocs) => LevelZero
  <2> SUFFICES ASSUME NEW d \in 1..Len(idocs), NEW k \in 1..Len(idocs[d].segments),
                      idocs[d].segments[k].hlevel = 0
               PROVE  LevelZero
    BY DEF ZeroIn
  <2>1. records[begin[d] + k].level = 0 /\ ~IsControl(records[begin[d] + k])
    BY <1>7 DEF HasLevels, IsLayout, IsAt
  <2>2. /\ begin[d] \in Nat /\ begin[d] >= 1 /\ begin[d] + Len(idocs[d].segments) <= Len(records)
        /\ Len(idocs[d].segments) \in Nat /\ Len(records) \in Nat
    <3>1. idocs \in Seq(IdocsOf(Nat)) /\ Len(records) \in Nat /\ Len(idocs) \in Nat
          /\ Len(idocs[d].segments) \in Nat
      BY TypeFacts
    <3>2. /\ \A e \in 1..(Len(idocs) + 1) : begin[e] \in Nat
          /\ \A e \in 1..Len(idocs) : begin[e] >= 1 /\ begin[e] + Len(idocs[e].segments) <= Len(records)
      BY <1>7, <3>1, LayoutFacts
    <3> QED
      BY <3>1, <3>2
  <2>3. begin[d] + k \in 1..Len(records)
    BY <2>2
  <2> QED
    BY <2>1, <2>3 DEF LevelZero
<1>9. /\ ~now.ok => ZeroIn(idocs)
      /\ now.ok => Below(now.elements, n)
  BY <1>1, <1>2, <1>4 DEF SameOpen, Emitting
<1>10. now.ok => now.elements # <<>> /\ now.ok \in BOOLEAN
  BY <1>1, <1>2, StackFacts, AfterFacts DEF Emitting
<1>11. ASSUME ~end.ok
       PROVE  ZeroIn(idocs)
  <2>1. CASE now.ok
    <3>1. now.elements[n] # name /\ Below(now.elements, n)
      BY <1>5, <1>9, <1>10, <1>11, <2>1
    <3> QED
      BY <1>6, <3>1 DEF Below
  <2>2. CASE ~now.ok
    BY <1>9, <2>2
  <2> QED
    BY <2>1, <2>2
<1>12. ASSUME end.ok
       PROVE  IsNested(begin, end.idocs)
  <2>1. now.ok /\ n = 1
    BY <1>5, <1>6, <1>9, <1>12 DEF Below
  <2>2. /\ Len(now.idocs) = Len(idocs)
        /\ \A d \in 1..Len(idocs) : Mirrors(now.idocs[d], idocs[d], Len(idocs[d].segments))
    BY <1>1, <1>2, <1>4, <2>1 DEF SameContent, Emitting
  <2>3. now.idocs \in Seq(IdocsOf(Int)) /\ idocs \in Seq(IdocsOf(Nat))
    BY <1>1, <1>2, AfterFacts, TypeFacts
  <2> QED
    BY <1>5, <1>7, <1>12, <2>2, <2>3, MirroredInFile
<1> QED
  BY <1>2, <1>5, <1>6, <1>8, <1>11, <1>12

\* The parser's next state, and what it does with a tag.
LEMMA ParsedTag ==
  ASSUME Types, parsed < Len(xml)
  PROVE  /\ parsed + 1 \in 1..Len(xml) /\ xml[parsed + 1] \in Tags
         /\ Run(xml)[parsed + 1] = Parse(Run(xml)[parsed], xml[parsed + 1], parsed = 0)
         /\ Run(xml)[0] = Start
<1>1. parsed \in Nat /\ parsed + 1 \in 1..Len(xml) /\ xml \in Seq(Tags) /\ xml[parsed + 1] \in Tags
  BY TypeFacts
<1>2. PICK n \in Nat : n = parsed + 1
  BY <1>1
<1>3. n \in 1..Len(xml) /\ n - 1 = parsed /\ (n = 1 <=> parsed = 0)
  BY <1>1, <1>2
<1>4. Run(xml)[n] = Parse(Run(xml)[n - 1], xml[n], n = 1) /\ Run(xml)[0] = Start
  BY <1>1, <1>3, RunFacts
<1>5. (n = 1) = (parsed = 0)
  BY <1>3
<1> QED
  BY <1>1, <1>2, <1>3, <1>4, <1>5

\* What is parsed so far is a state of the parser's run.
LEMMA ParsedStep ==
  ASSUME Types, Phases, Rooted, RootOpen, SameOpen, SameContent, Grouped, ParsedSoFar, [Next]_vars
  PROVE  ParsedSoFar'
<1> USE DEF emitting, parsing, flattening
<1>1. CASE OpenDocument
  <2>1. CASE doc < Len(idocs)
    BY <1>1, <2>1 DEF OpenDocument, ParsedSoFar
  <2>2. CASE ~(doc < Len(idocs))
    <3>1. pc = "documents" /\ UNCHANGED <<records, parsed, elements>>
      BY <1>1 DEF OpenDocument
    <3>2. parsed' = 0 /\ elements' = <<>>
      BY <3>1 DEF Phases, Emitting
    <3>3. xml' \in Seq(Tags)
      BY <1>1, <2>2, RootClosed DEF IsClosed
    <3>4. Run(xml')[0] = Start
      BY <3>3, RunFacts
    <3>5. Start.ok /\ Start.elements = <<>>
      BY DEF Start
    <3>6. Typed(records) => /\ xml'[1].name # "IDOC"
                            /\ ~After(xml').ok => LevelZero
                            /\ After(xml').ok => \E begin : IsNested(begin, After(xml').idocs)
      BY <1>1, <2>2, RootParsed
    <3>7. LevelZero' = LevelZero /\ Typed(records)' = Typed(records)
      BY <3>1 DEF LevelZero, Typed
    <3>8. \A begin, docs : IsNested(begin, docs) => IsNested(begin, docs)'
      BY <3>1 DEF IsNested, IsLayout, IsAt, LevelsFrom
    <3>9. PICK end : end = After(xml')
      OBVIOUS
    <3>10. Typed(records)' => /\ ~end.ok => LevelZero'
                              /\ xml'[1].name # "IDOC"
                              /\ end.ok => \E begin : IsNested(begin, end.idocs)'
      BY <3>6, <3>7, <3>8, <3>9
    <3> QED
      BY <3>1, <3>2, <3>4, <3>5, <3>9, <3>10 DEF ParsedSoFar
  <2> QED
    BY <2>1, <2>2
<1>2. ASSUME UNCHANGED <<records, xml>>, pc = "parse", pc' = "parse",
             Run(xml)[parsed'].ok, elements' = Run(xml)[parsed'].elements,
             Typed(records) /\ xml[1].name # "IDOC" /\ parsed' > 0 => idocs' = Run(xml)[parsed'].idocs
      PROVE  ParsedSoFar'
  <2>1. Typed(records) => /\ xml[1].name # "IDOC"
                          /\ ~After(xml).ok => LevelZero
                          /\ After(xml).ok => \E begin : IsNested(begin, After(xml).idocs)
    BY <1>2 DEF ParsedSoFar
  <2>2. \A begin, docs : IsNested(begin, docs) => IsNested(begin, docs)'
    BY <1>2 DEF IsNested, IsLayout, IsAt, LevelsFrom
  <2>3. LevelZero' = LevelZero /\ Typed(records)' = Typed(records) /\ xml' = xml /\ records' = records
    BY <1>2 DEF LevelZero, Typed
  <2>4. PICK end : end = After(xml)
    OBVIOUS
  <2>5. Typed(records)' => /\ ~end.ok => LevelZero'
                           /\ xml[1].name # "IDOC"
                           /\ end.ok => \E begin : IsNested(begin, end.idocs)'
    BY <2>1, <2>2, <2>3, <2>4
  <2>6. Typed(records)' => (parsed' > 0 => idocs' = Run(xml)[parsed'].idocs)
    BY <1>2, <2>3, <2>5
  <2> QED
    BY <1>2, <2>3, <2>4, <2>5, <2>6 DEF ParsedSoFar
<1>3. CASE ParseOpen
  <2>1. /\ pc = "parse" /\ pc' = "parse" /\ UNCHANGED <<records, xml>> /\ parsed' = parsed + 1
        /\ parsed < Len(xml) /\ parsed \in Nat
        /\ elements' = Append(elements, xml[parsed + 1].name)
        /\ xml[parsed + 1].tag = "open"
        /\ idocs' = IF parsed > 0 THEN Collected(xml[parsed + 1], Len(elements))
                    ELSE IF RootIsIdoc THEN <<NewIdoc>>
                    ELSE <<>>
    BY <1>3, TypeFacts DEF ParseOpen
  <2>2. PICK tag : tag = xml[parsed + 1]
    OBVIOUS
  <2>3. PICK now, next : now = Run(xml)[parsed] /\ next = Run(xml)[parsed + 1]
    OBVIOUS
  <2>4. now.ok /\ elements = now.elements /\ (Typed(records) /\ parsed > 0 => idocs = now.idocs)
    BY <2>1, <2>3 DEF ParsedSoFar
  <2>5. next = Parse(now, tag, parsed = 0)
    BY <2>1, <2>2, <2>3, ParsedTag
  <2>6. /\ next.ok /\ next.elements = Append(now.elements, tag.name)
        /\ next.idocs = IF parsed = 0 THEN <<>> ELSE Gather(now.idocs, tag, Len(now.elements))
    BY <2>1, <2>2, <2>4, <2>5 DEF Parse
  <2>7. ASSUME Typed(records), xml[1].name # "IDOC"
        PROVE  idocs' = next.idocs
    <3>1. ~RootIsIdoc /\ IdocDepth = 1
      BY <2>7 DEF RootIsIdoc, IdocDepth
    <3>2. CASE parsed = 0
      BY <2>1, <2>6, <3>1, <3>2
    <3>3. CASE parsed # 0
      <4>1. parsed > 0
        BY <2>1, <3>3
      <4>2. idocs' = Collected(tag, Len(elements)) /\ next.idocs = Gather(idocs, tag, Len(elements))
        BY <2>1, <2>2, <2>4, <2>6, <2>7, <3>3, <4>1
      <4>3. Collected(tag, Len(elements)) = Gather(idocs, tag, Len(elements))
        BY <3>1 DEF Collected, Gather, WithControl, WithSegment
      <4> QED
        BY <4>2, <4>3
    <3> QED
      BY <3>2, <3>3
  <2> QED
    BY <1>2, <2>1, <2>2, <2>3, <2>4, <2>6, <2>7
<1>4. CASE ParseClose
  <2>1. /\ pc = "parse" /\ UNCHANGED <<records, xml, idocs>> /\ parsed' = parsed + 1
        /\ parsed < Len(xml) /\ parsed \in Nat
        /\ xml[parsed + 1].tag = "close"
    BY <1>4, TypeFacts DEF ParseClose
  <2>2. CASE ~(elements # <<>> /\ LastOf(elements) = xml[parsed + 1].name)
    BY <1>4, <2>2 DEF ParseClose, ParsedSoFar
  <2>3. CASE elements # <<>> /\ LastOf(elements) = xml[parsed + 1].name
    <3>1. elements' = SubSeq(elements, 1, Len(elements) - 1) /\ pc' = "parse"
      BY <1>4, <2>1, <2>3 DEF ParseClose
    <3>2. PICK tag : tag = xml[parsed + 1]
      OBVIOUS
    <3>3. PICK now, next : now = Run(xml)[parsed] /\ next = Run(xml)[parsed + 1]
      OBVIOUS
    <3>4. now.ok /\ elements = now.elements /\ (Typed(records) /\ parsed > 0 => idocs = now.idocs)
      BY <2>1, <3>3 DEF ParsedSoFar
    <3>5. next = Parse(now, tag, parsed = 0)
      BY <2>1, <3>2, <3>3, ParsedTag
    <3>6. /\ next.ok /\ next.elements = SubSeq(now.elements, 1, Len(now.elements) - 1)
          /\ next.idocs = now.idocs
      BY <2>1, <2>3, <3>2, <3>4, <3>5 DEF Parse
    <3>7. parsed > 0
      <4> SUFFICES ASSUME parsed = 0
                   PROVE  FALSE
        BY <2>1
      <4>1. now = Start
        BY <2>1, <3>3, ParsedTag
      <4> QED
        BY <2>3, <3>4, <4>1 DEF Start
    <3> QED
      BY <1>2, <2>1, <3>1, <3>2, <3>3, <3>4, <3>6, <3>7
  <2> QED
    BY <2>2, <2>3
<1>5. CASE UNCHANGED vars
  <2>1. UNCHANGED <<records, xml, idocs, elements, parsed, pc>>
    BY <1>5 DEF vars
  <2>2. CASE pc = "parse"
    BY <1>2, <2>1, <2>2 DEF ParsedSoFar
  <2>3. CASE pc # "parse"
    BY <2>1, <2>3 DEF ParsedSoFar
  <2> QED
    BY <2>2, <2>3
<1>6. CASE Group
  <2>1. pc' # "parse"
    BY <1>6 DEF Group
  <2> QED
    BY <2>1 DEF ParsedSoFar
<1>7. CASE OpenRoot \/ CloseSegment \/ OpenSegment \/ CloseRest \/ CloseDocument
           \/ Parsed \/ FlattenDocument \/ FlattenSegment
  <2>1. pc' # "parse"
    BY <1>7 DEF OpenRoot, CloseSegment, OpenSegment, CloseRest, CloseDocument,
                Parsed, FlattenDocument, FlattenSegment
  <2> QED
    BY <2>1 DEF ParsedSoFar
<1> QED
  BY <1>1, <1>3, <1>4, <1>5, <1>6, <1>7 DEF Next

-----------------------------------------------------------------------------
(* Flat records.                                                           *)

\* A segment is deeper than one that all since then are above in level.
LEMMA DepthFacts ==
  ASSUME NEW levels, NEW depths, NEW n \in Nat,
         \A k \in 1..n : levels[k] \in Nat /\ depths[k] \in Int /\ NestedAt(levels, depths, k)
  PROVE  /\ \A k \in 1..n : depths[k] >= 1
         /\ \A p \in 1..n, m \in 1..n :
              p < m /\ (\A j \in (p + 1)..m : levels[j] > levels[p]) => depths[m] > depths[p]
<1>1. ASSUME NEW k \in 1..n
      PROVE  \E q \in 0..(k - 1) : /\ IsParent(levels, q, k)
                                   /\ depths[k] = IF q = 0 THEN 1 ELSE depths[q] + 1
  BY DEF NestedAt
<1>2. \A k \in 1..n : depths[k] >= 1
  <2> DEFINE S == {i \in Nat : \A k \in 1..n : k <= i => depths[k] >= 1}
  <2>1. 0 \in S
    OBVIOUS
  <2>2. ASSUME NEW i \in Nat, i \in S
        PROVE  i + 1 \in S
    <3> SUFFICES ASSUME NEW k \in 1..n, k <= i + 1
                 PROVE  depths[k] >= 1
      OBVIOUS
    <3>1. PICK q \in 0..(k - 1) : depths[k] = IF q = 0 THEN 1 ELSE depths[q] + 1
      BY <1>1
    <3>2. CASE q = 0
      BY <3>1, <3>2
    <3>3. CASE q # 0
      <4>1. q \in 1..n /\ q <= i
        BY <3>3
      <4>2. depths[q] >= 1 /\ depths[q] \in Int
        BY <2>2, <4>1
      <4> QED
        BY <3>1, <3>3, <4>2
    <3> QED
      BY <3>2, <3>3
  <2> HIDE DEF S
  <2>3. Nat \subseteq S
    BY <2>1, <2>2, NatSetInduction
  <2>4. n \in S
    BY <2>3
  <2> QED
    BY <2>4 DEF S
<1>3. ASSUME NEW p \in 1..n
      PROVE  \A m \in 1..n :
               p < m /\ (\A j \in (p + 1)..m : levels[j] > levels[p]) => depths[m] > depths[p]
  <2> DEFINE S == {i \in Nat : \A m \in 1..n :
                     m <= i /\ p < m /\ (\A j \in (p + 1)..m : levels[j] > levels[p]) => depths[m] > depths[p]}
  <2>1. 0 \in S
    OBVIOUS
  <2>2. ASSUME NEW i \in Nat, i \in S
        PROVE  i + 1 \in S
    <3> SUFFICES ASSUME NEW m \in 1..n, m <= i + 1, p < m, \A j \in (p + 1)..m : levels[j] > levels[p]
                 PROVE  depths[m] > depths[p]
      OBVIOUS
    <3>1. PICK q \in 0..(m - 1) : /\ IsParent(levels, q, m)
                                  /\ depths[m] = IF q = 0 THEN 1 ELSE depths[q] + 1
      BY <1>1
    <3>2. levels[m] \in Nat /\ levels[p] \in Nat /\ levels[m] > levels[p] /\ depths[p] \in Int
      <4>1. m \in (p + 1)..m
        OBVIOUS
      <4> QED
        BY <4>1
    <3>3. q >= p
      <4> SUFFICES ASSUME q < p
                   PROVE  FALSE
        OBVIOUS
      <4>1. p \in (q + 1)..(m - 1)
        OBVIOUS
      <4>2. levels[p] >= levels[m]
        BY <3>1, <4>1 DEF IsParent
      <4> QED
        BY <3>2, <4>2
    <3>4. q # 0 /\ q \in 1..n
      BY <3>3
    <3>5. depths[m] = depths[q] + 1 /\ depths[q] \in Int
      BY <3>1, <3>4
    <3>6. CASE q = p
      BY <3>5, <3>6
    <3>7. CASE q # p
      <4>1. p < q /\ q <= i /\ \A j \in (p + 1)..q : j \in (p + 1)..m
        BY <3>3, <3>7
      <4>2. depths[q] > depths[p]
        BY <2>2, <3>4, <4>1
      <4> QED
        BY <3>2, <3>5, <4>2
    <3> QED
      BY <3>6, <3>7
  <2> HIDE DEF S
  <2>3. Nat \subseteq S
    BY <2>1, <2>2, NatSetInduction
  <2>4. n \in S /\ \A m \in 1..n : m <= n
    BY <2>3
  <2> QED
    BY <2>4 DEF S
<1> QED
  BY <1>2, <1>3

\* The last segment of the level above is the parent of the next one.
LEMMA ParentFound ==
  ASSUME NEW s \in Seq(SegmentsOf(Nat)), NEW levels, NEW n \in Nat, n < Len(s),
         \A k \in 1..Len(s) : levels[k] \in Nat /\ NestedAt(levels, Levels(s), k),
         LastKnown(s, n)
  PROVE  ParentOf(s[n + 1].hlevel) \in 0..n /\ IsParent(levels, ParentOf(s[n + 1].hlevel), n + 1)
<1>1. PICK l \in Nat \ {0} : l = Len(s) /\ DOMAIN s = 1..l /\ \A k \in 1..l : s[k].hlevel \in Nat
  <2>1. Len(s) \in Nat /\ DOMAIN s = 1..Len(s) /\ \A k \in 1..Len(s) : s[k] \in SegmentsOf(Nat)
    BY LenProperties, ElementOfSeq
  <2>2. \A x \in SegmentsOf(Nat) : x.hlevel \in Nat
    BY DEF SegmentsOf
  <2>3. \A k \in 1..Len(s) : s[k].hlevel \in Nat
    BY <2>1, <2>2
  <2>4. Len(s) \in Nat \ {0}
    BY <2>1
  <2> QED
    BY <2>1, <2>3, <2>4
<1>2. PICK depths : depths = Levels(s)
  OBVIOUS
<1>3. \A k \in 1..l : depths[k] = s[k].hlevel
  BY <1>1, <1>2 DEF Levels
<1>4. PICK c \in Nat \ {0} : c = n + 1 /\ c \in 1..l /\ c - 1 = n
  BY <1>1
<1>5. PICK p \in 0..(c - 1) : /\ IsParent(levels, p, c)
                              /\ depths[c] = IF p = 0 THEN 1 ELSE depths[p] + 1
  BY <1>1, <1>2, <1>4 DEF NestedAt
<1>6. /\ \A k \in 1..l : depths[k] >= 1
      /\ \A i \in 1..l, m \in 1..l :
           i < m /\ (\A j \in (i + 1)..m : levels[j] > levels[i]) => depths[m] > depths[i]
  <2>1. \A k \in 1..l : levels[k] \in Nat /\ depths[k] \in Int /\ NestedAt(levels, depths, k)
    BY <1>1, <1>2, <1>3
  <2> QED
    BY <2>1, DepthFacts
<1>7. ParentOf(s[c].hlevel) = p
  <2>1. CASE p = 0
    <3>1. s[c].hlevel = 1
      BY <1>3, <1>4, <1>5, <2>1
    <3> QED
      BY <2>1, <3>1 DEF ParentOf
  <2>2. CASE p # 0
    <3>1. p \in 1..n /\ p \in 1..l
      BY <1>4, <2>2
    <3>2. depths[p] = s[p].hlevel /\ s[p].hlevel \in Nat /\ s[p].hlevel >= 1
      BY <1>1, <1>3, <1>6, <3>1
    <3>3. s[c].hlevel = s[p].hlevel + 1
      BY <1>3, <1>4, <1>5, <2>2, <3>2
    <3>4. s[c].hlevel > 1 /\ s[c].hlevel - 1 = s[p].hlevel
      BY <3>2, <3>3
    <3>5. s[p].hlevel \in DOMAIN last_at_level
      BY <3>1 DEF LastKnown
    <3>6. PICK q \in 1..n : q = last_at_level[s[p].hlevel]
      BY <3>5 DEF LastKnown
    <3>7. s[q].hlevel = s[p].hlevel /\ \A k \in (q + 1)..n : s[k].hlevel # s[p].hlevel
      BY <3>5, <3>6 DEF LastKnown
    <3>8. ~(q < p)
      <4>1. q < p => p \in (q + 1)..n
        BY <3>1
      <4> QED
        BY <3>7, <4>1
    <3>9. ~(p < q)
      <4> SUFFICES ASSUME p < q
                   PROVE  FALSE
        OBVIOUS
      <4>1. c \in 1..l /\ levels[c] \in Nat /\ levels[p] \in Nat /\ levels[p] < levels[c]
        BY <1>1, <1>4, <1>5, <2>2, <3>1 DEF IsParent
      <4>2. ASSUME NEW j \in (p + 1)..q
            PROVE  levels[j] > levels[p]
        <5>1. j \in (p + 1)..(c - 1) /\ j \in 1..l
          BY <1>4, <3>1
        <5>2. levels[j] >= levels[c] /\ levels[j] \in Nat
          BY <1>1, <1>5, <5>1 DEF IsParent
        <5> QED
          BY <4>1, <5>2
      <4>3. q \in 1..l
        BY <1>4
      <4>4. depths[q] > depths[p]
        BY <1>6, <3>1, <4>2, <4>3
      <4> QED
        BY <1>1, <1>3, <3>1, <3>7, <4>3, <4>4
    <3>10. q = p
      BY <3>1, <3>8, <3>9
    <3> QED
      BY <3>4, <3>5, <3>6, <3>10 DEF ParentOf
  <2> QED
    BY <2>1, <2>2
<1> QED
  BY <1>4, <1>5, <1>7

\* The last segment of its level is the one just flattened.
LEMMA LastPut ==
  ASSUME NEW s, NEW n \in Nat, LastKnown(s, n),
         last_at_level' = Put(last_at_level, s[n + 1].hlevel, n + 1)
  PROVE  LastKnown(s, n + 1)'
<1>1. PICK c \in Nat \ {0} : c = n + 1 /\ \A k \in 1..c : k = c \/ k \in 1..n
  OBVIOUS
<1>2. PICK level : level = s[c].hlevel
  OBVIOUS
<1>3. /\ DOMAIN last_at_level' = DOMAIN last_at_level \cup {level}
      /\ last_at_level'[level] = c
      /\ \A l \in DOMAIN last_at_level : l # level => last_at_level'[l] = last_at_level[l]
  BY <1>1, <1>2 DEF Put
<1>4. \A k \in 1..n : k \in 1..c
  BY <1>1
<1>5. DOMAIN last_at_level' = {s[k].hlevel : k \in 1..c}
  <2>1. DOMAIN last_at_level = {s[k].hlevel : k \in 1..n}
    BY DEF LastKnown
  <2>2. c \in 1..c
    OBVIOUS
  <2>3. ASSUME NEW l \in DOMAIN last_at_level'
        PROVE  \E k \in 1..c : l = s[k].hlevel
    <3>1. CASE l = level
      BY <1>2, <2>2, <3>1
    <3>2. CASE l # level
      BY <1>3, <1>4, <2>1, <3>2
    <3> QED
      BY <3>1, <3>2
  <2>4. ASSUME NEW k \in 1..c
        PROVE  s[k].hlevel \in DOMAIN last_at_level'
    <3>1. CASE k = c
      BY <1>2, <1>3, <3>1
    <3>2. CASE k # c
      BY <1>1, <1>3, <2>1, <3>2
    <3> QED
      BY <3>1, <3>2
  <2> QED
    BY <2>3, <2>4
<1>6. ASSUME NEW l \in DOMAIN last_at_level'
      PROVE  /\ last_at_level'[l] \in 1..c /\ s[last_at_level'[l]].hlevel = l
             /\ \A k \in (last_at_level'[l] + 1)..c : s[k].hlevel # l
  <2>1. CASE l = level
    BY <1>2, <1>3, <2>1
  <2>2. CASE l # level
    <3>1. l \in DOMAIN last_at_level /\ last_at_level'[l] = last_at_level[l]
      BY <1>3, <2>2
    <3>2. /\ last_at_level[l] \in 1..n /\ s[last_at_level[l]].hlevel = l
          /\ \A k \in (last_at_level[l] + 1)..n : s[k].hlevel # l
      BY <3>1 DEF LastKnown
    <3>3. \A k \in (last_at_level[l] + 1)..c : k = c \/ k \in (last_at_level[l] + 1)..n
      BY <1>1, <3>2
    <3> QED
      BY <1>2, <1>4, <2>2, <3>1, <3>2, <3>3
  <2> QED
    BY <2>1, <2>2
<1> QED
  BY <1>1, <1>5, <1>6 DEF LastKnown

\* The records of a document.
LEMMA NestedFacts ==
  ASSUME Types, NEW begin, IsNested(begin, idocs), NEW d \in 1..Len(idocs)
  PROVE  /\ begin[d] \in 1..Len(records)
         /\ records[begin[d]] \in ControlRecord /\ IsControl(records[begin[d]])
         /\ idocs[d].control = ControlFields(records[begin[d]])
         /\ begin[d + 1] \in Nat /\ begin[d + 1] = begin[d] + Len(idocs[d].segments) + 1
         /\ \A k \in 1..Len(idocs[d].segments) :
              /\ begin[d] + k \in 1..Len(records)
              /\ ~IsControl(records[begin[d] + k]) /\ records[begin[d] + k] \in DataRecord
              /\ records[begin[d] + k].segnam \in STRING /\ records[begin[d] + k].payload \in STRING
              /\ records[begin[d] + k].level \in Nat
              /\ idocs[d].segments[k].segnam = records[begin[d] + k].segnam
              /\ idocs[d].segments[k].fields = Fields("F", records[begin[d] + k].payload)
              /\ LevelsFrom(begin[d], idocs[d].segments)[k] = records[begin[d] + k].level
              /\ NestedAt(LevelsFrom(begin[d], idocs[d].segments), Levels(idocs[d].segments), k)
<1>1. /\ idocs \in Seq(IdocsOf(Nat)) /\ Len(records) \in Nat /\ Len(idocs) \in Nat
      /\ Len(idocs[d].segments) \in Nat /\ DOMAIN idocs[d].segments = 1..Len(idocs[d].segments)
      /\ records \in Inputs
  BY TypeFacts
<1>2. IsLayout(begin, idocs, Len(records))
  BY DEF IsNested
<1>3. /\ \A e \in 1..(Len(idocs) + 1) : begin[e] \in Nat
      /\ begin[d] >= 1 /\ begin[d] + Len(idocs[d].segments) <= Len(records)
  BY <1>1, <1>2, LayoutFacts
<1>4. IsAt(begin[d], idocs[d]) /\ begin[d + 1] = begin[d] + Len(idocs[d].segments) + 1
  BY <1>2 DEF IsLayout
<1>5. begin[d] \in Nat /\ begin[d + 1] \in Nat
  <2>1. d \in 1..(Len(idocs) + 1) /\ d + 1 \in 1..(Len(idocs) + 1)
    BY <1>1
  <2> QED
    BY <1>3, <2>1
<1>6. begin[d] \in 1..Len(records)
  BY <1>1, <1>3, <1>5
<1>7. records[begin[d]] \in ControlRecord /\ IsControl(records[begin[d]])
      /\ idocs[d].control = ControlFields(records[begin[d]])
  BY <1>1, <1>4, <1>6, RecordFacts DEF IsAt
<1>8. ASSUME NEW k \in 1..Len(idocs[d].segments)
      PROVE  /\ begin[d] + k \in 1..Len(records)
             /\ ~IsControl(records[begin[d] + k]) /\ records[begin[d] + k] \in DataRecord
             /\ records[begin[d] + k].segnam \in STRING /\ records[begin[d] + k].payload \in STRING
             /\ records[begin[d] + k].level \in Nat
             /\ idocs[d].segments[k].segnam = records[begin[d] + k].segnam
             /\ idocs[d].segments[k].fields = Fields("F", records[begin[d] + k].payload)
             /\ LevelsFrom(begin[d], idocs[d].segments)[k] = records[begin[d] + k].level
             /\ NestedAt(LevelsFrom(begin[d], idocs[d].segments), Levels(idocs[d].segments), k)
  <2>1. begin[d] + k \in 1..Len(records)
    BY <1>1, <1>3, <1>5
  <2>2. /\ ~IsControl(records[begin[d] + k])
        /\ idocs[d].segments[k].segnam = records[begin[d] + k].segnam
        /\ idocs[d].segments[k].fields = Fields("F", records[begin[d] + k].payload)
    BY <1>4 DEF IsAt
  <2>3. /\ records[begin[d] + k] \in DataRecord
        /\ records[begin[d] + k].segnam \in STRING /\ records[begin[d] + k].payload \in STRING
        /\ records[begin[d] + k].level \in Nat
    BY <1>1, <2>1, <2>2, RecordFacts
  <2>4. LevelsFrom(begin[d], idocs[d].segments)[k] = records[begin[d] + k].level
    BY <1>1 DEF LevelsFrom
  <2>5. NestedAt(LevelsFrom(begin[d], idocs[d].segments), Levels(idocs[d].segments), k)
    BY DEF IsNested
  <2> QED
    BY <2>1, <2>2, <2>3, <2>4, <2>5
<1> QED
  BY <1>4, <1>5, <1>6, <1>7, <1>8

\* Segment k of document d and its record.
SegmentAt(begin, d, k) ==
  /\ begin[d] + k \in 1..Len(records)
  /\ ~IsControl(records[begin[d] + k]) /\ records[begin[d] + k] \in DataRecord
  /\ records[begin[d] + k].segnam \in STRING /\ records[begin[d] + k].payload \in STRING
  /\ records[begin[d] + k].level \in Nat
  /\ idocs[d].segments[k].segnam = records[begin[d] + k].segnam
  /\ idocs[d].segments[k].fields = Fields("F", records[begin[d] + k].payload)
  /\ LevelsFrom(begin[d], idocs[d].segments)[k] = records[begin[d] + k].level
  /\ NestedAt(LevelsFrom(begin[d], idocs[d].segments), Levels(idocs[d].segments), k)

\* The same of one segment.
LEMMA NestedSegment ==
  ASSUME Types, NEW begin, IsNested(begin, idocs), NEW d \in 1..Len(idocs)
  PROVE  \A k \in 1..Len(idocs[d].segments) : SegmentAt(begin, d, k)
BY SMTT(30), NestedFacts DEF SegmentAt

\* One more record leaves what is written as it is.
LEMMA WrittenKept ==
  ASSUME NEW x, out \in Seq(ControlRecord \cup DataRecord), x \in ControlRecord \cup DataRecord,
         out' = Append(out, x), records' = records,
         NEW first \in Nat \ {0}, NEW idoc, NEW n \in Nat, first + n <= Len(out),
         IsWritten(first, idoc, n)
  PROVE  IsWritten(first, idoc, n)'
<1>1. PICK l \in Nat : l = Len(out)
  BY LenProperties
<1>2. \A i \in 1..l : out'[i] = out[i]
  BY <1>1, AppendProperties
<1>3. out[first] = records[first] /\ first \in 1..l
  BY <1>1 DEF IsWritten
<1>4. ASSUME NEW k \in 1..n
      PROVE  /\ out'[first + k] = out[first + k]
             /\ IsFlat(out[first + k], records[first + k], idoc.segments, LevelsFrom(first, idoc.segments), k)
  <2>1. first + k \in 1..l
    BY <1>1
  <2> QED
    BY <1>2, <2>1 DEF IsWritten
<1>5. LevelsFrom(first, idoc.segments)' = LevelsFrom(first, idoc.segments)
  BY DEF LevelsFrom
<1> QED
  BY <1>2, <1>3, <1>4, <1>5 DEF IsWritten

\* The flat records so far, when the next document begins.
LEMMA DocumentFlattened ==
  ASSUME Types, Phases, FlattenDocument, doc < Len(idocs), NEW begin, IsFlattened(begin)
  PROVE  IsFlattened(begin)'
<1>1. /\ UNCHANGED <<records, idocs>> /\ doc' = doc + 1 /\ seg' = 0 /\ last_at_level' = <<>>
      /\ out' = Append(out, [idoctyp |-> FieldValue(idocs[doc + 1].control, "IDOCTYP")])
      /\ pc = "flatten" /\ ~SegmentsLeft
  BY DEF FlattenDocument
<1>2. PICK c \in Nat \ {0} : c = doc + 1 /\ c \in 1..Len(idocs) /\ doc \in Nat /\ Len(idocs) \in Nat
  <2>1. doc \in Nat /\ Len(idocs) \in Nat
    BY TypeFacts
  <2> QED
    BY <2>1
<1>3. IsNested(begin, idocs)
  BY DEF IsFlattened
<1>4. /\ begin[c] \in 1..Len(records) /\ records[begin[c]] \in ControlRecord
      /\ idocs[c].control = ControlFields(records[begin[c]])
  BY <1>2, <1>3, NestedFacts
<1>5. PICK x : x = records[begin[c]]
  OBVIOUS
<1>6. out' = Append(out, x)
  <2>1. FieldValue(idocs[c].control, "IDOCTYP") = x.idoctyp
    BY <1>4, <1>5, FieldFacts
  <2>2. \A r \in ControlRecord : [idoctyp |-> r.idoctyp] = r
    BY DEF ControlRecord
  <2> QED
    BY <1>1, <1>2, <1>4, <1>5, <2>1, <2>2
<1>7. doc # 0 => /\ doc \in 1..Len(idocs) /\ seg = Len(idocs[doc].segments)
                 /\ begin[c] = begin[doc] + Len(idocs[doc].segments) + 1
                 /\ begin[doc] \in Nat /\ Len(idocs[doc].segments) \in Nat
  <2> SUFFICES ASSUME doc # 0
               PROVE  /\ doc \in 1..Len(idocs) /\ seg = Len(idocs[doc].segments)
                      /\ begin[c] = begin[doc] + Len(idocs[doc].segments) + 1
                      /\ begin[doc] \in Nat /\ Len(idocs[doc].segments) \in Nat
    OBVIOUS
  <2>1. doc \in 1..Len(idocs)
    BY <1>2
  <2>2. begin[doc + 1] = begin[doc] + Len(idocs[doc].segments) + 1 /\ begin[doc] \in 1..Len(records)
    BY <1>3, <2>1, NestedFacts
  <2>3. seg <= Len(idocs[doc].segments) /\ ~(seg < Len(idocs[doc].segments))
    BY <1>1 DEF Phases, SegmentsLeft
  <2>4. seg \in Nat /\ Len(idocs[doc].segments) \in Nat
    BY <2>1, TypeFacts
  <2> QED
    BY <1>2, <2>1, <2>2, <2>3, <2>4
<1>8. Len(out) + 1 = begin[c] /\ Len(out) \in Nat
  <2>1. Len(out) = IF doc = 0 THEN 0 ELSE begin[doc] + seg
    BY DEF IsFlattened
  <2>2. CASE doc = 0
    <3>1. begin[1] = 1
      BY <1>3 DEF IsNested, IsLayout
    <3> QED
      BY <1>2, <2>1, <2>2, <3>1
  <2>3. CASE doc # 0
    BY <1>7, <2>1, <2>3
  <2> QED
    BY <2>2, <2>3
<1>9. out \in Seq(ControlRecord \cup DataRecord) /\ x \in ControlRecord \cup DataRecord
  BY <1>4, <1>5, TypeFacts
<1>10. Len(out') = begin[c] /\ out'[begin[c]] = x
  BY <1>6, <1>8, <1>9, AppendProperties
<1>11. ASSUME NEW d \in 1..doc
       PROVE  IsWritten(begin[d], idocs[d], Len(idocs[d].segments))'
  <2>1. d \in 1..Len(idocs) /\ d < c /\ c \in 1..(Len(idocs) + 1)
    BY <1>2
  <2>2. IsWritten(begin[d], idocs[d], Len(idocs[d].segments))
    BY <1>7, <1>11 DEF IsFlattened
  <2>3. begin[d] + Len(idocs[d].segments) + 1 <= begin[c]
    <3>1. idocs \in Seq(IdocsOf(Nat)) /\ Len(records) \in Nat /\ IsLayout(begin, idocs, Len(records))
      BY <1>3, TypeFacts DEF IsNested
    <3> QED
      BY <2>1, <3>1, LayoutFacts
  <2>4. begin[d] \in Nat \ {0} /\ Len(idocs[d].segments) \in Nat
    <3>1. begin[d] \in 1..Len(records)
      BY <1>3, <2>1, NestedFacts
    <3>2. Len(idocs[d].segments) \in Nat
      BY <2>1, TypeFacts
    <3> QED
      BY <3>1, <3>2
  <2>5. begin[d] + Len(idocs[d].segments) <= Len(out)
    BY <1>8, <2>3, <2>4
  <2>6. PICK first \in Nat \ {0}, n \in Nat, idoc \in {idocs[d]} : first = begin[d] /\ n = Len(idocs[d].segments)
    BY <2>4
  <2>7. IsWritten(first, idoc, n)'
    BY <1>1, <1>6, <1>9, <2>2, <2>5, <2>6, WrittenKept
  <2> QED
    BY <1>1, <2>6, <2>7
<1>12. IsWritten(begin[c], idocs[c], 0)'
  BY <1>1, <1>5, <1>10 DEF IsWritten
<1>13. LastKnown(idocs[c].segments, 0)'
  BY <1>1 DEF LastKnown
<1>14. IsNested(begin, idocs)'
  BY <1>1, <1>3 DEF IsNested, IsLayout, IsAt, LevelsFrom
<1>15. \A d \in 1..c : d = c \/ (d \in 1..doc /\ d # c)
  BY <1>2
<1>16. \A d \in 1..c : IsWritten(begin[d], idocs[d], IF d = c THEN 0 ELSE Len(idocs[d].segments))'
  BY <1>11, <1>12, <1>15
<1>17. doc' = c /\ seg' = 0 /\ Len(out') = begin[c] + 0
  BY <1>1, <1>2, <1>8, <1>10
<1> QED
  BY <1>13, <1>14, <1>16, <1>17 DEF IsFlattened

\* The flat records so far, when a segment is flattened.
LEMMA SegmentFlattened ==
  ASSUME Types, Phases, FlattenSegment, pc' # "refused", NEW begin, IsFlattened(begin)
  PROVE  IsFlattened(begin)'
<1>1. pc = "flatten" /\ UNCHANGED <<records, idocs, doc>> /\ doc # 0 /\ seg < Len(idocs[doc].segments)
  BY DEF FlattenSegment, SegmentsLeft
<1>2. PICK s : s = idocs[doc].segments
  OBVIOUS
<1>3. /\ doc \in 1..Len(idocs) /\ s \in Seq(SegmentsOf(Nat)) /\ Len(s) \in Nat /\ seg \in Nat
      /\ doc \in Nat
  <2>1. doc \in 1..Len(idocs)
    BY <1>1, TypeFacts
  <2> QED
    BY <1>2, <2>1, TypeFacts
<1>4. PICK c \in Nat \ {0} : c = seg + 1 /\ c \in 1..Len(s) /\ c - 1 = seg
  BY <1>1, <1>2, <1>3
<1>5. PICK x : x = [segnam |-> s[c].segnam, level |-> s[c].hlevel,
                    payload |-> FieldValue(s[c].fields, "F"), psgnum |-> ParentOf(s[c].hlevel)]
  OBVIOUS
<1>6. /\ seg' = c /\ last_at_level' = Put(last_at_level, s[c].hlevel, c) /\ out' = Append(out, x)
  BY <1>1, <1>2, <1>4, <1>5 DEF FlattenSegment
<1>7. PICK first \in Nat \ {0} :
        /\ first = begin[doc] /\ first \in 1..Len(records)
        /\ \A k \in 1..Len(s) :
             /\ first + k \in 1..Len(records)
             /\ records[first + k].payload \in STRING
             /\ records[first + k].level \in Nat
             /\ s[k].segnam = records[first + k].segnam
             /\ s[k].fields = Fields("F", records[first + k].payload)
             /\ LevelsFrom(first, s)[k] = records[first + k].level
             /\ NestedAt(LevelsFrom(first, s), Levels(s), k)
  <2>1. IsNested(begin, idocs)
    BY DEF IsFlattened
  <2>2. /\ begin[doc] \in 1..Len(records)
        /\ \A k \in 1..Len(s) :
             /\ begin[doc] + k \in 1..Len(records)
             /\ records[begin[doc] + k].payload \in STRING
             /\ records[begin[doc] + k].level \in Nat
             /\ s[k].segnam = records[begin[doc] + k].segnam
             /\ s[k].fields = Fields("F", records[begin[doc] + k].payload)
             /\ LevelsFrom(begin[doc], s)[k] = records[begin[doc] + k].level
             /\ NestedAt(LevelsFrom(begin[doc], s), Levels(s), k)
    BY <1>2, <1>3, <2>1, NestedFacts
  <2> QED
    BY <2>2
<1>8. PICK r, levels : r = records[first + c] /\ levels = LevelsFrom(first, s)
  OBVIOUS
<1>9. FieldValue(s[c].fields, "F") = r.payload /\ s[c].segnam = r.segnam
  BY <1>4, <1>7, <1>8, FieldFacts
<1>10. LastKnown(s, seg) /\ Len(out) = first + seg
  BY <1>1, <1>2, <1>7 DEF IsFlattened
<1>11. ParentOf(s[c].hlevel) \in 0..(c - 1) /\ IsParent(levels, ParentOf(s[c].hlevel), c)
  <2>1. seg < Len(s) /\ \A k \in 1..Len(s) : levels[k] \in Nat /\ NestedAt(levels, Levels(s), k)
    BY <1>1, <1>2, <1>7, <1>8
  <2> QED
    BY <1>3, <1>4, <1>10, <2>1, ParentFound
<1>12. IsFlat(x, r, s, levels, c)
  BY <1>5, <1>9, <1>11 DEF IsFlat
<1>13. x \in ControlRecord \cup DataRecord /\ out \in Seq(ControlRecord \cup DataRecord)
  <2>1. s[c].hlevel \in Nat /\ s[c].segnam \in STRING
    BY <1>2, <1>3, <1>4, TypeFacts
  <2>2. ParentOf(s[c].hlevel) \in Nat
    BY <1>11
  <2>3. FieldValue(s[c].fields, "F") \in STRING
    BY <1>4, <1>7, <1>8, <1>9
  <2>4. x \in DataRecord
    BY <1>5, <2>1, <2>2, <2>3 DEF DataRecord
  <2> QED
    BY <2>4, TypeFacts
<1>14. /\ Len(out') = first + c /\ out'[first + c] = x
       /\ \A i \in 1..Len(out) : out'[i] = out[i]
  <2>1. Len(out) + 1 = first + c
    BY <1>3, <1>4, <1>10
  <2> QED
    BY <1>6, <1>13, <2>1, AppendProperties
<1>15. IsWritten(first, idocs[doc], c)'
  <2>1. IsWritten(first, idocs[doc], seg)
    BY <1>3, <1>7 DEF IsFlattened
  <2>2. PICK idoc : idoc = idocs[doc]
    OBVIOUS
  <2>3. first + seg <= Len(out)
    BY <1>3, <1>10
  <2>4. PICK n \in Nat : n = seg /\ IsWritten(first, idoc, n)'
    <3>1. PICK n \in Nat : n = seg
      BY <1>3
    <3>2. IsWritten(first, idoc, n)'
      BY <1>1, <1>6, <1>13, <2>1, <2>2, <2>3, <3>1, WrittenKept
    <3> QED
      BY <3>1, <3>2
  <2>5. levels' = LevelsFrom(first, idoc.segments)' /\ idoc.segments = s /\ levels' = levels
    BY <1>1, <1>2, <1>8, <2>2 DEF LevelsFrom
  <2>6. ASSUME NEW k \in 1..c
        PROVE  IsFlat(out'[first + k], records'[first + k], idoc.segments, LevelsFrom(first, idoc.segments)', k)
    <3>1. CASE k = c
      BY <1>1, <1>8, <1>12, <1>14, <2>5, <3>1
    <3>2. CASE k # c
      <4>1. k \in 1..n
        BY <1>3, <1>4, <2>4, <3>2
      <4> QED
        BY <2>4, <4>1 DEF IsWritten
    <3> QED
      BY <3>1, <3>2
  <2>7. IsWritten(first, idoc, c)'
    BY <2>4, <2>6 DEF IsWritten
  <2> QED
    BY <1>1, <2>2, <2>7
<1>16. ASSUME NEW d \in 1..doc, d # doc
       PROVE  IsWritten(begin[d], idocs[d], Len(idocs[d].segments))'
  <2>1. d \in 1..Len(idocs) /\ d < doc /\ doc \in 1..(Len(idocs) + 1)
    BY <1>3, <1>16, TypeFacts
  <2>2. IsWritten(begin[d], idocs[d], Len(idocs[d].segments))
    BY <1>16 DEF IsFlattened
  <2>3. IsNested(begin, idocs)
    BY DEF IsFlattened
  <2>4. begin[d] + Len(idocs[d].segments) + 1 <= first
    <3>1. idocs \in Seq(IdocsOf(Nat)) /\ Len(records) \in Nat /\ IsLayout(begin, idocs, Len(records))
      BY <2>3, TypeFacts DEF IsNested
    <3> QED
      BY <1>7, <2>1, <3>1, LayoutFacts
  <2>5. begin[d] \in Nat \ {0} /\ Len(idocs[d].segments) \in Nat
    <3>1. begin[d] \in 1..Len(records)
      BY <2>1, <2>3, NestedFacts
    <3>2. Len(idocs[d].segments) \in Nat
      BY <2>1, TypeFacts
    <3> QED
      BY <3>1, <3>2
  <2>6. begin[d] + Len(idocs[d].segments) <= Len(out)
    BY <1>3, <1>10, <2>4, <2>5
  <2>7. PICK from \in Nat \ {0}, n \in Nat, idoc \in {idocs[d]} : from = begin[d] /\ n = Len(idocs[d].segments)
    BY <2>5
  <2>8. IsWritten(from, idoc, n)'
    BY <1>1, <1>6, <1>13, <2>2, <2>6, <2>7, WrittenKept
  <2> QED
    BY <1>1, <2>7, <2>8
<1>17. LastKnown(idocs[doc].segments, c)'
  <2>1. PICK n \in Nat : n = seg
    BY <1>3
  <2>2. n + 1 = c /\ LastKnown(s, n) /\ last_at_level' = Put(last_at_level, s[n + 1].hlevel, n + 1)
    BY <1>4, <1>6, <1>10, <2>1
  <2>3. LastKnown(s, n + 1)'
    BY <2>2, LastPut
  <2> QED
    BY <1>1, <1>2, <2>2, <2>3
<1>18. IsNested(begin, idocs)'
  BY <1>1 DEF IsFlattened, IsNested, IsLayout, IsAt, LevelsFrom
<1>19. \A d \in 1..doc : IsWritten(begin[d], idocs[d], IF d = doc THEN c ELSE Len(idocs[d].segments))'
  <2>1. PICK e : e = doc
    OBVIOUS
  <2>2. IsWritten(begin[e], idocs[e], c)'
    BY <1>1, <1>7, <1>15, <2>1
  <2>3. \A d \in 1..e : d # e => IsWritten(begin[d], idocs[d], Len(idocs[d].segments))'
    BY <1>16, <2>1
  <2>4. \A d \in 1..e : IsWritten(begin[d], idocs[d], IF d = e THEN c ELSE Len(idocs[d].segments))'
    BY <2>2, <2>3
  <2> QED
    BY <1>1, <2>1, <2>4
<1>20. doc' = doc /\ seg' = c /\ Len(out') = begin[doc] + c
  BY <1>1, <1>6, <1>7, <1>14
<1> QED
  BY <1>1, <1>17, <1>18, <1>19, <1>20 DEF IsFlattened

\* What comes back is the file, flattened document by document.
LEMMA FlattenedStep ==
  ASSUME Types, Phases, ParsedSoFar, Flattened, [Next]_vars
  PROVE  Flattened'
<1> USE DEF emitting, parsing, flattening
<1>1. CASE Parsed
  <2>1. CASE pc' = "refused"
    BY <2>1 DEF Flattened
  <2>2. CASE pc' # "refused"
    <3>1. /\ pc = "parse" /\ parsed = Len(xml) /\ pc' = "flatten" /\ doc' = 0
          /\ UNCHANGED <<records, idocs, out>>
      BY <1>1, <2>2 DEF Parsed
    <3>2. out = <<>> /\ xml # <<>> /\ Len(<<>>) = 0
      BY <3>1, EmptySeq DEF Phases
    <3>3. parsed > 0
      BY <3>1, <3>2, TypeFacts, EmptySeq
    <3>4. ASSUME Typed(records)
          PROVE  \E begin : IsNested(begin, idocs)
      <4>1. Run(xml)[parsed] = After(xml)
        BY <3>1 DEF After
      <4>2. After(xml).ok /\ idocs = After(xml).idocs
        BY <3>1, <3>3, <3>4, <4>1 DEF ParsedSoFar
      <4> QED
        BY <3>1, <3>4, <4>2 DEF ParsedSoFar
    <3>5. \A begin : IsNested(begin, idocs) => IsFlattened(begin)'
      <4> TAKE begin
      <4>1. IsNested(begin, idocs) => IsNested(begin, idocs)'
        BY <3>1 DEF IsNested, IsLayout, IsAt, LevelsFrom
      <4> QED
        BY <3>1, <3>2, <4>1 DEF IsFlattened
    <3> QED
      BY <3>1, <3>4, <3>5 DEF Flattened, Typed
  <2> QED
    BY <2>1, <2>2
<1>2. CASE FlattenDocument
  <2>1. pc = "flatten" /\ UNCHANGED <<records, idocs>>
    BY <1>2 DEF FlattenDocument
  <2>2. SUFFICES ASSUME Typed(records)
                 PROVE  \E begin : /\ IsFlattened(begin)'
                                   /\ pc' = "done" => /\ doc' = Len(idocs)
                                                      /\ doc' # 0 => seg' = Len(idocs[doc'].segments)
    BY <2>1 DEF Flattened, Typed
  <2>3. PICK begin : IsFlattened(begin)
    BY <2>1, <2>2 DEF Flattened
  <2>4. CASE doc < Len(idocs)
    <3>1. pc' # "done" /\ IsFlattened(begin)'
      BY <1>2, <2>1, <2>3, <2>4, DocumentFlattened DEF FlattenDocument
    <3> QED
      BY <3>1
  <2>5. CASE ~(doc < Len(idocs))
    <3>1. UNCHANGED <<doc, seg, out, last_at_level>> /\ ~SegmentsLeft
      BY <1>2, <2>5 DEF FlattenDocument
    <3>2. IsFlattened(begin)'
      BY <2>1, <2>3, <3>1
      DEF IsFlattened, IsNested, IsLayout, IsAt, LevelsFrom, IsWritten, LastKnown
    <3>3. doc = Len(idocs)
      BY <2>5, TypeFacts
    <3>4. doc # 0 => seg = Len(idocs[doc].segments)
      <4> SUFFICES ASSUME doc # 0
                   PROVE  seg = Len(idocs[doc].segments)
        OBVIOUS
      <4>1. doc \in 1..Len(idocs)
        BY <3>3, TypeFacts
      <4>2. seg <= Len(idocs[doc].segments) /\ ~(seg < Len(idocs[doc].segments))
        BY <2>1, <3>1 DEF Phases, SegmentsLeft
      <4> QED
        BY <4>1, <4>2, TypeFacts
    <3> QED
      BY <3>1, <3>2, <3>3, <3>4
  <2> QED
    BY <2>4, <2>5
<1>3. CASE FlattenSegment
  <2>1. pc = "flatten" /\ pc' # "done" /\ UNCHANGED <<records, idocs>>
    BY <1>3 DEF FlattenSegment
  <2>2. CASE pc' = "refused"
    BY <2>2 DEF Flattened
  <2>3. CASE pc' # "refused"
    <3>1. \A begin : IsFlattened(begin) => IsFlattened(begin)'
      BY <1>3, <2>3, SegmentFlattened
    <3> QED
      BY <2>1, <3>1 DEF Flattened, Typed
  <2> QED
    BY <2>2, <2>3
<1>4. CASE UNCHANGED vars
  <2>1. UNCHANGED <<records, idocs, doc, seg, out, last_at_level, pc>>
    BY <1>4 DEF vars
  <2>2. \A begin : IsFlattened(begin) => IsFlattened(begin)'
    BY <2>1 DEF IsFlattened, IsNested, IsLayout, IsAt, LevelsFrom, IsWritten, LastKnown
  <2> QED
    BY <2>1, <2>2 DEF Flattened, Typed
<1>5. CASE ~(Parsed \/ FlattenDocument \/ FlattenSegment \/ UNCHANGED vars)
  <2>1. pc' \notin {"flatten", "done"}
    BY <1>5 DEF Next, Group, OpenRoot, OpenDocument, CloseSegment, OpenSegment, CloseRest,
                CloseDocument, ParseOpen, ParseClose
  <2> QED
    BY <2>1 DEF Flattened
<1> QED
  BY <1>1, <1>2, <1>3, <1>4, <1>5

-----------------------------------------------------------------------------
(* Canonical files.                                                        *)

\* The records of a canonical file.
LEMMA CanonicalFacts ==
  ASSUME Types, Canonical(records)
  PROVE  /\ Typed(records) /\ ~LevelZero
         /\ \A i \in 1..Len(records) :
              IF IsControl(records[i])
              THEN /\ records[i].idoctyp = records[1].idoctyp
                   /\ records[i].idoctyp \in ElementNames /\ records[i].idoctyp \notin {"", "IDOC"}
              ELSE /\ records[i].level >= 1
                   /\ records[i].segnam \in Dictionary /\ records[i].segnam \in ElementNames
<1>1. /\ records # <<>> /\ IsControl(records[1])
      /\ \A i \in DOMAIN records :
           IF IsControl(records[i])
           THEN /\ records[i].idoctyp = records[1].idoctyp
                /\ records[i].idoctyp \in ElementNames \ {"", "IDOC"}
           ELSE records[i].level >= 1 /\ records[i].segnam \in Dictionary \cap ElementNames
  BY DEF Canonical
<1>2. DOMAIN records = 1..Len(records) /\ Len(records) \in Nat /\ records \in Inputs
  BY TypeFacts
<1>3. 1 \in 1..Len(records)
  <2>1. records \in Seq(ControlRecord \cup DataRecord) /\ records # <<>>
    BY <1>1, <1>2, XmlAssumption
  <2>2. Len(records) # 0 /\ Len(records) \in Nat
    BY <1>2, <2>1, EmptySeq
  <2> QED
    BY <2>2
<1>4. Typed(records)
  BY <1>1, <1>2, <1>3 DEF Typed
<1>5. ~LevelZero
  <2> SUFFICES ASSUME NEW i \in 1..Len(records), ~IsControl(records[i]), records[i].level = 0
               PROVE  FALSE
    BY DEF LevelZero
  <2>1. records[i].level >= 1
    BY <1>1, <1>2
  <2> QED
    BY <2>1
<1> QED
  BY <1>1, <1>2, <1>4, <1>5

\* What a canonical file is grouped into.
LEMMA CanonicalDocuments ==
  ASSUME Types, Grouped, Canonical(records), pc \in {"group"} \cup Emitting, read = Len(records)
  PROVE  /\ idocs # <<>>
         /\ \A d \in 1..Len(idocs) :
              /\ TypeName(idocs[d]) = TypeName(idocs[1]) /\ TypeName(idocs[d]) \in ElementNames
              /\ \A k \in 1..Len(idocs[d].segments) : idocs[d].segments[k].segnam \in ElementNames
<1>1. Typed(records)
  BY CanonicalFacts
<1>2. /\ records \in Inputs /\ Len(records) \in Nat \ {0} /\ idocs \in Seq(IdocsOf(Nat)) /\ Len(idocs) \in Nat
      /\ \A d \in 1..Len(idocs) : Len(idocs[d].segments) \in Nat
  <2>1. records \in Seq(ControlRecord \cup DataRecord) /\ records # <<>>
    BY <1>1, XmlAssumption DEF Types, Typed
  <2> QED
    BY <2>1, TypeFacts, EmptySeq
<1>3. PICK begin : IsLayout(begin, idocs, Len(records))
  BY <1>1, <1>2 DEF Grouped
<1>4. Len(idocs) # 0
  <2>1. begin[1] = 1 /\ begin[Len(idocs) + 1] = Len(records) + 1
    BY <1>3 DEF IsLayout
  <2> QED
    BY <1>2, <2>1
<1>5. ASSUME NEW d \in 1..Len(idocs)
      PROVE  /\ begin[d] \in 1..Len(records) /\ IsAt(begin[d], idocs[d])
             /\ \A k \in 1..Len(idocs[d].segments) : begin[d] + k \in 1..Len(records)
  <2>1. /\ begin[d] \in Nat /\ begin[d] >= 1 /\ begin[d] + Len(idocs[d].segments) <= Len(records)
        /\ Len(idocs[d].segments) \in Nat
    <3>1. d \in 1..(Len(idocs) + 1)
      BY <1>2
    <3> QED
      BY <1>2, <1>3, <3>1, LayoutFacts
  <2>2. IsAt(begin[d], idocs[d])
    BY <1>3 DEF IsLayout
  <2>3. begin[d] \in 1..Len(records)
    BY <1>2, <2>1
  <2>4. \A k \in 1..Len(idocs[d].segments) : begin[d] + k \in 1..Len(records)
    BY <1>2, <2>1
  <2> QED
    BY <2>2, <2>3, <2>4
<1>6. ASSUME NEW d \in 1..Len(idocs)
      PROVE  TypeName(idocs[d]) = records[1].idoctyp /\ TypeName(idocs[d]) \in ElementNames
  <2>1. /\ IsControl(records[begin[d]]) /\ records[begin[d]] \in ControlRecord
        /\ idocs[d].control = ControlFields(records[begin[d]])
    BY <1>2, <1>5, RecordFacts DEF IsAt
  <2>2. FieldValue(idocs[d].control, "IDOCTYP") = records[begin[d]].idoctyp
    BY <2>1, FieldFacts
  <2>3. /\ records[begin[d]].idoctyp = records[1].idoctyp
        /\ records[begin[d]].idoctyp \in ElementNames /\ records[begin[d]].idoctyp # ""
    BY <1>5, <2>1, CanonicalFacts
  <2> QED
    BY <2>2, <2>3 DEF TypeName
<1>7. ASSUME NEW d \in 1..Len(idocs), NEW k \in 1..Len(idocs[d].segments)
      PROVE  idocs[d].segments[k].segnam \in ElementNames
  <2>1. ~IsControl(records[begin[d] + k]) /\ idocs[d].segments[k].segnam = records[begin[d] + k].segnam
    BY <1>5 DEF IsAt
  <2> QED
    BY <1>5, <2>1, CanonicalFacts
<1>8. 1 \in 1..Len(idocs)
  BY <1>2, <1>4
<1> QED
  BY <1>4, <1>6, <1>7, <1>8, EmptySeq

\* A run that fails stays failed.
LEMMA FailureStays ==
  ASSUME NEW x \in Seq(Tags), NEW i \in 0..Len(x), ~Run(x)[i].ok
  PROVE  ~After(x).ok
<1>1. /\ Len(x) \in Nat
      /\ \A k \in 1..Len(x) : Run(x)[k] = Parse(Run(x)[k - 1], x[k], k = 1)
  BY RunFacts, LenProperties
<1> DEFINE S == {j \in Nat : i + j <= Len(x) => ~Run(x)[i + j].ok}
<1>2. 0 \in S
  BY <1>1
<1>3. ASSUME NEW j \in Nat, j \in S
      PROVE  j + 1 \in S
  <2> SUFFICES ASSUME i + (j + 1) <= Len(x)
               PROVE  ~Run(x)[i + (j + 1)].ok
    OBVIOUS
  <2>1. PICK k \in Nat : k = i + (j + 1)
    BY <1>1
  <2>2. k \in 1..Len(x) /\ k - 1 = i + j /\ i + j <= Len(x)
    BY <1>1, <2>1
  <2>3. Run(x)[k] = Parse(Run(x)[k - 1], x[k], k = 1) /\ ~Run(x)[k - 1].ok
    BY <1>1, <1>3, <2>2
  <2> QED
    BY <2>1, <2>3 DEF Parse
<1> HIDE DEF S
<1>4. Nat \subseteq S
  BY <1>2, <1>3, NatSetInduction
<1>5. PICK j \in Nat : i + j = Len(x)
  <2>1. Len(x) - i \in Nat /\ i + (Len(x) - i) = Len(x)
    BY <1>1
  <2> QED
    BY <2>1
<1>6. i + j <= Len(x) => ~Run(x)[i + j].ok
  BY <1>4, <1>5 DEF S
<1>7. i + j <= Len(x)
  BY <1>1, <1>5
<1> QED
  BY <1>5, <1>6, <1>7 DEF After

\* A canonical file is not refused, and its XML is well-formed.
LEMMA AcceptedStep ==
  ASSUME Types, Phases, Grouped, ParsedSoFar, Flattened, Accepted, [Next]_vars
  PROVE  Accepted'
<1> USE DEF emitting, parsing, flattening
<1>0. records' = records
  BY DEF Next, vars, Group, OpenRoot, OpenDocument, CloseSegment, OpenSegment, CloseRest,
         CloseDocument, ParseOpen, ParseClose, Parsed, FlattenDocument, FlattenSegment
<1> SUFFICES ASSUME Canonical(records)
             PROVE  pc' \notin {"refused", "malformed"}
  <2>1. Canonical(records)' = Canonical(records)
    BY <1>0
  <2> QED
    BY <2>1 DEF Accepted
<1>1. Typed(records) /\ ~LevelZero
  BY CanonicalFacts
<1>2. pc \notin {"refused", "malformed"}
  BY DEF Accepted
<1>3. CASE Group
  <2>1. PICK r : r = records[read + 1]
    OBVIOUS
  <2>2. PICK began : began = Begun(r)
    OBVIOUS
  <2>3. /\ read + 1 \in 1..Len(records)
        /\ \/ pc' = "refused" /\ ~IsControl(r) /\ r.segnam \notin Dictionary
           \/ pc' = pc
    BY <1>3, <2>1, <2>2, GroupStep
  <2> QED
    BY <1>2, <2>1, <2>3, CanonicalFacts
<1>4. CASE OpenRoot
  <2>1. pc = "group" /\ read = Len(records)
    BY <1>4 DEF OpenRoot
  <2>2. /\ idocs # <<>> /\ DOMAIN idocs = 1..Len(idocs) /\ 1 \in 1..Len(idocs)
        /\ \A d \in 1..Len(idocs) : TypeName(idocs[d]) = TypeName(idocs[1]) /\ TypeName(idocs[d]) \in ElementNames
    BY <2>1, CanonicalDocuments, TypeFacts, EmptySeq
  <2>3. pc' = "documents"
    BY <1>4, <2>2 DEF OpenRoot
  <2> QED
    BY <2>3
<1>5. CASE OpenSegment
  <2>1. pc = "segments" /\ seg < Len(idocs[doc].segments) /\ doc \in 1..Len(idocs) /\ read = Len(records)
    BY <1>5 DEF OpenSegment, Phases, Emitting
  <2>2. seg + 1 \in 1..Len(idocs[doc].segments)
    BY <2>1, TypeFacts
  <2>3. idocs[doc].segments[seg + 1].segnam \in ElementNames
    BY <2>1, <2>2, CanonicalDocuments DEF Emitting
  <2>4. pc' = pc
    BY <1>5, <2>3 DEF OpenSegment
  <2> QED
    BY <1>2, <2>4
<1>6. CASE ParseClose
  <2>1. /\ pc = "parse" /\ parsed < Len(xml) /\ xml[parsed + 1].tag = "close"
    BY <1>6 DEF ParseClose
  <2>2. CASE elements # <<>> /\ LastOf(elements) = xml[parsed + 1].name
    BY <1>2, <1>6, <2>2 DEF ParseClose
  <2>3. CASE ~(elements # <<>> /\ LastOf(elements) = xml[parsed + 1].name)
    <3>1. PICK now, next, tag :
            now = Run(xml)[parsed] /\ next = Run(xml)[parsed + 1] /\ tag = xml[parsed + 1]
      OBVIOUS
    <3>2. now.ok /\ elements = now.elements
      BY <2>1, <3>1 DEF ParsedSoFar
    <3>3. next = Parse(now, tag, parsed = 0)
      BY <2>1, <3>1, ParsedTag
    <3>4. ~next.ok
      BY <2>1, <2>3, <3>1, <3>2, <3>3 DEF Parse
    <3>5. parsed + 1 \in 0..Len(xml) /\ xml \in Seq(Tags)
      BY <2>1, TypeFacts
    <3>6. ~After(xml).ok
      BY <3>1, <3>4, <3>5, FailureStays
    <3> QED
      BY <1>1, <2>1, <3>6 DEF ParsedSoFar
  <2> QED
    BY <2>2, <2>3
<1>7. CASE Parsed
  <2>1. pc = "parse" /\ parsed = Len(xml)
    BY <1>7 DEF Parsed
  <2>2. parsed > 0
    <3>1. xml # <<>>
      BY <2>1 DEF Phases
    <3> QED
      BY <2>1, <3>1, TypeFacts, EmptySeq
  <2>3. PICK begin : IsNested(begin, idocs)
    <3>1. Run(xml)[parsed] = After(xml)
      BY <2>1 DEF After
    <3>2. After(xml).ok /\ idocs = After(xml).idocs
      BY <1>1, <2>1, <2>2, <3>1 DEF ParsedSoFar
    <3> QED
      BY <1>1, <2>1, <3>2 DEF ParsedSoFar
  <2>4. ASSUME NEW d \in DOMAIN idocs
        PROVE  idocs[d].control # {}
    <3>1. d \in 1..Len(idocs)
      BY TypeFacts
    <3>2. records[begin[d]] \in ControlRecord /\ idocs[d].control = ControlFields(records[begin[d]])
      BY <2>3, <3>1, NestedFacts
    <3> QED
      BY <3>2, FieldFacts
  <2> QED
    BY <1>7, <2>4 DEF Parsed
<1>8. CASE FlattenSegment
  <2>1. pc = "flatten" /\ doc # 0 /\ seg < Len(idocs[doc].segments)
    BY <1>8 DEF FlattenSegment, SegmentsLeft
  <2>2. doc \in 1..Len(idocs)
    BY <2>1, TypeFacts
  <2>3. seg + 1 \in 1..Len(idocs[doc].segments)
    BY <2>1, <2>2, TypeFacts
  <2>4. PICK begin : IsNested(begin, idocs)
    BY <1>1, <2>1 DEF Flattened, IsFlattened
  <2>5. PICK k : k = seg + 1
    OBVIOUS
  <2>6. /\ begin[doc] + k \in 1..Len(records) /\ ~IsControl(records[begin[doc] + k])
        /\ idocs[doc].segments[k].segnam = records[begin[doc] + k].segnam
    BY <2>2, <2>3, <2>4, <2>5, NestedFacts
  <2>7. idocs[doc].segments[seg + 1].segnam \in Dictionary
    BY <2>5, <2>6, CanonicalFacts
  <2>8. pc' = pc
    BY <1>8, <2>7 DEF FlattenSegment
  <2> QED
    BY <1>2, <2>8
<1>9. CASE OpenDocument \/ CloseSegment \/ CloseRest \/ CloseDocument \/ ParseOpen \/ FlattenDocument
  BY <1>2, <1>9 DEF OpenDocument, CloseSegment, CloseRest, CloseDocument, ParseOpen, FlattenDocument
<1>10. CASE UNCHANGED vars
  BY <1>2, <1>10 DEF vars
<1> QED
  BY <1>3, <1>4, <1>5, <1>6, <1>7, <1>8, <1>9, <1>10 DEF Next

-----------------------------------------------------------------------------
(* The invariant.                                                          *)

\* It holds of the initial states.
LEMMA InitInvariant ==
  Init => IndInv
<1> SUFFICES ASSUME Init
             PROVE  IndInv
  OBVIOUS
<1>1. records \in Inputs /\ Len(records) \in Nat
  <2>1. records \in Inputs
    BY DEF Init
  <2>2. records \in Seq(ControlRecord \cup DataRecord)
    BY <2>1, XmlAssumption
  <2> QED
    BY <2>1, <2>2, LenProperties
<1>2. /\ read = 0 /\ idocs = <<>> /\ doc = 0 /\ seg = 0 /\ open_levels = <<>> /\ xml = <<>>
      /\ parsed = 0 /\ elements = <<>> /\ last_at_level = <<>> /\ out = <<>> /\ pc = "group"
  BY DEF Init
<1>3. /\ idocs \in Seq(IdocsOf(Nat)) /\ open_levels \in Seq(OpenLevels) /\ xml \in Seq(Tags)
      /\ elements \in Seq(STRING) /\ out \in Seq(ControlRecord \cup DataRecord)
      /\ Len(idocs) = 0 /\ Len(xml) = 0
  BY <1>2, EmptySeq
<1>4. DOMAIN last_at_level = {} /\ DOMAIN open_levels = {}
  BY <1>2
<1>5. Types
  BY <1>1, <1>2, <1>3, <1>4 DEF Types
<1>6. Phases
  BY <1>2 DEF Phases, Emitting
<1>7. Increasing
  BY <1>4 DEF Increasing, OpenLevelsIncrease
<1>8. Named /\ Rooted /\ RootOpen
  <2>1. 1..Len(idocs) = {} /\ 1..(Len(xml) - 1) = {}
    BY <1>3
  <2> QED
    BY <1>2, <2>1 DEF Named, Rooted, RootOpen, RootStays, Emitting
<1>9. SameOpen /\ SameContent
  BY <1>2 DEF SameOpen, SameContent, Emitting
<1>10. Grouped /\ ParsedSoFar /\ Flattened /\ Accepted
  BY <1>2 DEF Grouped, ParsedSoFar, Flattened, Accepted
<1> QED
  BY <1>5, <1>6, <1>7, <1>8, <1>9, <1>10 DEF IndInv

\* Every step keeps it.
LEMMA Invariance ==
  Spec => []IndInv
<1>1. Init => IndInv
  BY InitInvariant
<1>2. IndInv /\ [Next]_vars => IndInv'
  <2> SUFFICES ASSUME IndInv, [Next]_vars
               PROVE  IndInv'
    OBVIOUS
  <2>1. /\ Types /\ Phases /\ Increasing /\ Named /\ Rooted /\ RootOpen /\ SameOpen /\ SameContent
        /\ Grouped /\ ParsedSoFar /\ Flattened /\ Accepted
    BY DEF IndInv
  <2>2. Types' /\ Phases'
    BY <2>1, TypesStep
  <2>3. Increasing'
    BY <2>1, IncreasingStep
  <2>4. Named' /\ Rooted'
    BY <2>1, NamesStep
  <2>5. RootOpen' /\ SameOpen' /\ SameContent'
    BY <2>1, EmitStep
  <2>6. Grouped'
    BY <2>1, GroupedStep
  <2>7. ParsedSoFar'
    BY <2>1, ParsedStep
  <2>8. Flattened'
    BY <2>1, FlattenedStep
  <2>9. Accepted'
    BY <2>1, AcceptedStep
  <2> QED
    BY <2>2, <2>3, <2>4, <2>5, <2>6, <2>7, <2>8, <2>9 DEF IndInv
<1> QED
  BY <1>1, <1>2, PTL DEF Spec

-----------------------------------------------------------------------------
(* Where a record belongs.                                                 *)

\* Every record is the control record of a document, or one of its segments.
LEMMA Covered ==
  ASSUME Types, NEW begin, IsNested(begin, idocs), NEW i \in 1..Len(records)
  PROVE  \E d \in 1..Len(idocs), k \in Nat : k <= Len(idocs[d].segments) /\ i = begin[d] + k
<1>1. PICK l \in Nat : l = Len(records)
  BY TypeFacts
<1>2. PICK n \in Nat : n = Len(idocs)
  BY TypeFacts
<1>3. /\ begin[1] = 1 /\ begin[n + 1] = l + 1
      /\ \A d \in 1..n : begin[d + 1] = begin[d] + Len(idocs[d].segments) + 1
  BY <1>1, <1>2 DEF IsNested, IsLayout
<1>4. /\ \A d \in 1..(n + 1) : begin[d] \in Nat
      /\ \A d \in 1..n : Len(idocs[d].segments) \in Nat
  BY <1>1, <1>2, TypeFacts, LayoutFacts DEF IsNested
<1> DEFINE S == {m \in Nat : m <= n /\ i < begin[m + 1] =>
                   \E d \in 1..n, k \in Nat : k <= Len(idocs[d].segments) /\ i = begin[d] + k}
<1>5. 0 \in S
  BY <1>3
<1>6. ASSUME NEW m \in Nat, m \in S
      PROVE  m + 1 \in S
  <2> SUFFICES ASSUME m + 1 <= n, i < begin[m + 1 + 1]
               PROVE  \E d \in 1..n, k \in Nat : k <= Len(idocs[d].segments) /\ i = begin[d] + k
    OBVIOUS
  <2>1. PICK c \in 1..n : c = m + 1
    OBVIOUS
  <2>2. begin[c] \in Nat /\ Len(idocs[c].segments) \in Nat /\ i < begin[c] + Len(idocs[c].segments) + 1
    BY <1>3, <1>4, <2>1
  <2>3. CASE i < begin[c]
    BY <1>6, <2>1, <2>3
  <2>4. CASE ~(i < begin[c])
    <3>1. /\ i - begin[c] \in Nat /\ i - begin[c] <= Len(idocs[c].segments)
          /\ i = begin[c] + (i - begin[c])
      BY <2>2, <2>4
    <3> QED
      BY <3>1
  <2> QED
    BY <2>3, <2>4
<1> HIDE DEF S
<1>7. n \in S
  BY <1>5, <1>6, NatSetInduction
<1>8. i < begin[n + 1]
  BY <1>1, <1>3
<1> QED
  BY <1>2, <1>7, <1>8 DEF S

\* A set of natural numbers that increasing numbers count.
LEMMA CountedByIncreasing ==
  ASSUME NEW n \in Nat, NEW f \in [1..n -> Nat], \A d, e \in 1..n : d < e => f[d] < f[e],
         NEW T, \A x : x \in T <=> \E d \in 1..n : x = f[d]
  PROVE  Cardinality(T) = n
<1>1. f \in [1..n -> T]
  OBVIOUS
<1>2. f \in Injection(1..n, T)
  <2>1. ASSUME NEW d \in 1..n, NEW e \in 1..n, f[d] = f[e]
        PROVE  d = e
    BY <2>1
  <2> QED
    BY <1>1, <2>1 DEF Injection, IsInjective
<1>3. f \in Surjection(1..n, T)
  BY <1>1 DEF Surjection
<1>4. IsFiniteSet(1..n) /\ Cardinality(1..n) = n
  BY FS_Interval
<1> QED
  BY <1>2, <1>3, <1>4, FS_Surjection

\* The control record before a record of document d is the one at begin[d], and it is the
\* d-th of the file.
LEMMA ControlFound ==
  ASSUME Types, NEW begin, IsNested(begin, idocs), NEW d \in 1..Len(idocs),
         NEW k \in Nat, k <= Len(idocs[d].segments)
  PROVE  /\ ControlOf(records, begin[d] + k) = begin[d]
         /\ Cardinality({c \in 1..(begin[d] + k) : IsControl(records[c])}) = d
<1>1. PICK l \in Nat : l = Len(records)
  BY TypeFacts
<1>2. PICK n \in Nat : n = Len(idocs) /\ d \in 1..n
  BY TypeFacts
<1>3. /\ \A e \in 1..n : begin[e] \in 1..l /\ begin[e] \in Nat /\ Len(idocs[e].segments) \in Nat
      /\ \A e \in 1..n : IsControl(records[begin[e]])
      /\ \A e \in 1..n : \A j \in 1..Len(idocs[e].segments) : ~IsControl(records[begin[e] + j])
  <2>1. \A e \in 1..n : begin[e] \in 1..l /\ IsControl(records[begin[e]])
                        /\ \A j \in 1..Len(idocs[e].segments) : ~IsControl(records[begin[e] + j])
    BY <1>1, <1>2, NestedFacts
  <2>2. \A e \in 1..n : Len(idocs[e].segments) \in Nat
    BY <1>2, TypeFacts
  <2> QED
    BY <2>1, <2>2
<1>4. \A e, g \in 1..n : e < g => begin[e] + Len(idocs[e].segments) + 1 <= begin[g]
  <2>1. \A e \in 1..n, g \in 1..(n + 1) : e < g => begin[e] + Len(idocs[e].segments) + 1 <= begin[g]
    BY <1>1, <1>2, TypeFacts, LayoutFacts DEF IsNested
  <2> QED
    BY <2>1
<1>5. begin[d] + k <= l /\ begin[d] + k \in Nat
  <2>1. begin[d] + Len(idocs[d].segments) <= l
    BY <1>1, <1>2, TypeFacts, LayoutFacts DEF IsNested
  <2> QED
    BY <1>2, <1>3, <2>1
<1>6. PICK T : T = {c \in 1..(begin[d] + k) : IsControl(records[c])}
  OBVIOUS
<1>7. ASSUME NEW e \in 1..d
      PROVE  begin[e] \in T /\ begin[e] <= begin[d]
  <2>1. e \in 1..n
    BY <1>2
  <2>2. begin[e] <= begin[d]
    <3>1. CASE e = d
      BY <1>3, <2>1, <3>1
    <3>2. CASE e # d
      <4>1. begin[e] + Len(idocs[e].segments) + 1 <= begin[d]
        BY <1>2, <1>4, <2>1, <3>2
      <4>2. begin[e] \in Nat /\ begin[d] \in Nat /\ Len(idocs[e].segments) \in Nat
        BY <1>2, <1>3, <2>1
      <4> QED
        BY <4>1, <4>2
    <3> QED
      BY <3>1, <3>2
  <2>3. begin[e] \in 1..(begin[d] + k)
    BY <1>2, <1>3, <2>1, <2>2
  <2> QED
    BY <1>3, <1>6, <2>1, <2>2, <2>3
<1>8. ASSUME NEW c \in T
      PROVE  \E e \in 1..d : c = begin[e]
  <2>1. c \in 1..(begin[d] + k) /\ IsControl(records[c])
    BY <1>6
  <2>2. c \in 1..l
    BY <1>1, <1>5, <2>1
  <2>3. PICK e \in 1..n, j \in Nat : j <= Len(idocs[e].segments) /\ c = begin[e] + j
    BY <1>1, <1>2, <2>2, Covered
  <2>4. j = 0
    BY <1>3, <2>1, <2>3
  <2>5. c = begin[e]
    BY <1>3, <2>3, <2>4
  <2>6. ~(d < e)
    <3>1. d < e => begin[d] + Len(idocs[d].segments) + 1 <= begin[e]
      BY <1>2, <1>4
    <3> QED
      BY <1>2, <1>3, <2>1, <2>5, <3>1
  <2> QED
    BY <1>2, <2>5, <2>6
<1>9. Cardinality(T) = d
  <2>1. PICK f \in [1..d -> Nat] : \A e \in 1..d : f[e] = begin[e]
    <3>1. \A e \in 1..d : begin[e] \in Nat
      BY <1>2, <1>3
    <3>2. [e \in 1..d |-> begin[e]] \in [1..d -> Nat]
      BY <3>1
    <3> QED
      BY <3>2
  <2>2. \A e, g \in 1..d : e < g => f[e] < f[g]
    <3> SUFFICES ASSUME NEW e \in 1..d, NEW g \in 1..d, e < g
                 PROVE  begin[e] < begin[g]
      BY <2>1
    <3>1. e \in 1..n /\ g \in 1..n
      BY <1>2
    <3>2. /\ begin[e] + Len(idocs[e].segments) + 1 <= begin[g]
          /\ Len(idocs[e].segments) \in Nat /\ begin[e] \in Nat /\ begin[g] \in Nat
      BY <1>3, <1>4, <3>1
    <3>3. \A x, y, z \in Nat : x + y + 1 <= z => x < z
      OBVIOUS
    <3> QED
      BY <3>2, <3>3
  <2>3. \A x : x \in T <=> \E e \in 1..d : x = f[e]
    BY <1>7, <1>8, <2>1
  <2>4. d \in Nat
    BY <1>2
  <2> QED
    BY <2>2, <2>3, <2>4, CountedByIncreasing
<1>10. ControlOf(records, begin[d] + k) = begin[d]
  <2>1. d \in 1..d
    BY <1>2
  <2>2. begin[d] \in T /\ \A e \in T : e <= begin[d]
    BY <1>7, <1>8, <2>1
  <2>3. \A c \in T : (\A e \in T : e <= c) => c = begin[d]
    <3>1. \A c \in T : c \in Nat
      BY <1>6
    <3> QED
      BY <2>2, <3>1
  <2>4. (CHOOSE c \in T : \A e \in T : e <= c) = begin[d]
    BY <2>2, <2>3
  <2>5. T # {}
    BY <2>2
  <2> QED
    BY <1>6, <2>4, <2>5 DEF ControlOf
<1> QED
  BY <1>6, <1>9, <1>10

\* The nearest record with a lower level is the one that no other such record follows.
LEMMA NearestBefore ==
  ASSUME NEW file, NEW i, NEW above, NEW n,
         above = {m \in (ControlOf(file, i) + 1)..(i - 1) : file[m].level < file[i].level},
         n \in above, above \subseteq Nat, \A m \in above : m <= n
  PROVE  ParentRecord(file, i) = n
<1>1. above # {} /\ \A c \in above : (\A l \in above : l <= c) => c = n
  <2>1. \A a, b \in Nat : a <= b /\ b <= a => a = b
    OBVIOUS
  <2> QED
    BY <2>1
<1>2. (CHOOSE c \in above : \A l \in above : l <= c) = n
  BY <1>1
<1> QED
  BY <1>1, <1>2 DEF ParentRecord

\* The segment that segment k of the document at first is in, as a record of the file, is
\* its segment p, or there is none.
IsIn(first, p, k) ==
  /\ ParentRecord(records, first + k) = IF p = 0 THEN 0 ELSE first + p
  /\ ParentNumber(records, first + k) = p

\* It is the parent by the levels of the document.
LEMMA ParentPlace ==
  ASSUME Types, NEW begin, IsNested(begin, idocs), NEW d \in 1..Len(idocs),
         NEW k \in 1..Len(idocs[d].segments), NEW p,
         IsParent(LevelsFrom(begin[d], idocs[d].segments), p, k)
  PROVE  IsIn(begin[d], p, k)
<1>1. PICK s \in Nat : s = Len(idocs[d].segments)
  BY TypeFacts
<1>2. PICK b \in Nat \ {0} : b = begin[d]
  BY NestedFacts
<1>3. PICK levels : levels = LevelsFrom(begin[d], idocs[d].segments)
  OBVIOUS
<1>4. \A m \in 1..s : levels[m] = records[b + m].level /\ records[b + m].level \in Nat
  <2>1. \A m \in 1..s : SegmentAt(begin, d, m)
    BY <1>1, NestedSegment
  <2> QED
    BY <1>2, <1>3, <2>1 DEF SegmentAt
<1>5. /\ p \in 0..(k - 1)
      /\ p # 0 => levels[p] < levels[k]
      /\ \A m \in (p + 1)..(k - 1) : levels[m] >= levels[k]
  BY <1>3 DEF IsParent
<1>6. k \in Nat /\ k <= s /\ k >= 1 /\ k \in 1..s
  BY <1>1
<1>7. ControlOf(records, b + k) = b
  BY <1>1, <1>2, <1>6, ControlFound
<1>8. PICK above : above = {m \in (ControlOf(records, b + k) + 1)..(b + k - 1) :
                            records[m].level < records[b + k].level}
  OBVIOUS
<1>9. ASSUME NEW m \in above
      PROVE  m \in Nat /\ p # 0 /\ m <= b + p
  <2>1. m \in (b + 1)..(b + k - 1) /\ records[m].level < records[b + k].level
    BY <1>7, <1>8
  <2>2. PICK j \in 1..(k - 1) : m = b + j
    <3>1. m - b \in 1..(k - 1) /\ m = b + (m - b)
      BY <1>6, <2>1
    <3> QED
      BY <3>1
  <2>3. levels[j] < levels[k] /\ levels[j] \in Nat /\ levels[k] \in Nat
    BY <1>4, <1>6, <2>1, <2>2
  <2>4. ~(j \in (p + 1)..(k - 1))
    BY <1>5, <2>3
  <2> QED
    BY <1>5, <2>2, <2>4
<1>10. CASE p = 0
  <2>1. above = {}
    BY <1>9, <1>10
  <2> QED
    BY <1>2, <1>7, <1>8, <1>10, <2>1 DEF IsIn, ParentRecord, ParentNumber
<1>11. CASE p # 0
  <2>1. b + p \in (b + 1)..(b + k - 1) /\ p \in 1..s /\ b + p # 0 /\ b + p - b = p
    BY <1>5, <1>6, <1>11
  <2>2. b + p \in above
    BY <1>4, <1>5, <1>6, <1>7, <1>8, <1>11, <2>1
  <2>3. ParentRecord(records, b + k) = b + p
    BY <1>8, <1>9, <2>2, NearestBefore
  <2> QED
    BY <1>2, <1>7, <1>11, <2>1, <2>3 DEF IsIn, ParentNumber
<1> QED
  BY <1>10, <1>11

\* When the conversion is done, the whole file is flattened.
LEMMA DoneFacts ==
  ASSUME IndInv, pc = "done", Typed(records)
  PROVE  \E begin : /\ IsNested(begin, idocs)
                    /\ Len(out) = Len(records)
                    /\ \A d \in 1..Len(idocs) : IsWritten(begin[d], idocs[d], Len(idocs[d].segments))
<1>1. Types /\ Flattened
  BY DEF IndInv
<1>2. PICK begin : /\ IsFlattened(begin) /\ doc = Len(idocs)
                   /\ doc # 0 => seg = Len(idocs[doc].segments)
  BY <1>1 DEF Flattened
<1>3. PICK n \in Nat : n = Len(idocs)
  BY <1>1, TypeFacts
<1>4. PICK l \in Nat \ {0} : l = Len(records)
  <2>1. records \in Seq(ControlRecord \cup DataRecord) /\ records # <<>>
    BY <1>1, XmlAssumption DEF Types, Typed
  <2>2. Len(records) \in Nat /\ Len(records) # 0
    BY <2>1, LenProperties, EmptySeq
  <2> QED
    BY <2>2
<1>5. IsNested(begin, idocs)
  BY <1>2 DEF IsFlattened
<1>6. begin[1] = 1 /\ begin[n + 1] = l + 1
  BY <1>3, <1>4, <1>5 DEF IsNested, IsLayout
<1>7. n # 0 /\ n \in 1..n
  BY <1>6
<1>8. Len(out) = begin[n] + Len(idocs[n].segments)
  BY <1>2, <1>3, <1>7 DEF IsFlattened
<1>9. begin[n + 1] = begin[n] + Len(idocs[n].segments) + 1
  BY <1>3, <1>5, <1>7 DEF IsNested, IsLayout
<1>10. begin[n] \in Nat /\ Len(idocs[n].segments) \in Nat
  <2>1. begin[n] \in 1..Len(records)
    BY <1>1, <1>3, <1>5, <1>7, NestedFacts
  <2>2. Len(idocs[n].segments) \in Nat
    BY <1>1, <1>3, <1>7, TypeFacts
  <2> QED
    BY <2>1, <2>2
<1>11. Len(out) = l
  BY <1>6, <1>8, <1>9, <1>10
<1>12. \A d \in 1..n : IsWritten(begin[d], idocs[d], Len(idocs[d].segments))
  BY <1>2, <1>3 DEF IsFlattened
<1> QED
  BY <1>3, <1>4, <1>5, <1>11, <1>12

\* The record that comes back at each place.
LEMMA FlatRecord ==
  ASSUME Types, NEW begin, IsNested(begin, idocs), NEW d \in 1..Len(idocs),
         IsWritten(begin[d], idocs[d], Len(idocs[d].segments)),
         NEW k \in 1..Len(idocs[d].segments)
  PROVE  LET i == begin[d] + k
         IN  /\ ~IsControl(out[i])
             /\ out[i] = [segnam |-> records[i].segnam, level |-> idocs[d].segments[k].hlevel,
                          payload |-> records[i].payload, psgnum |-> ParentNumber(records, i)]
             /\ out[i].level = IF ParentRecord(records, i) = 0 THEN 1
                               ELSE out[ParentRecord(records, i)].level + 1
<1> DEFINE Level(j) == idocs[d].segments[j].hlevel
<1>1. PICK s \in Nat : s = Len(idocs[d].segments) /\ k \in 1..s
  BY TypeFacts
<1>2. PICK b \in Nat : b = begin[d]
  BY NestedFacts
<1>3. PICK levels : levels = LevelsFrom(begin[d], idocs[d].segments)
  OBVIOUS
<1>4. ASSUME NEW j \in 1..s
      PROVE  /\ out[b + j] = [segnam |-> records[b + j].segnam, level |-> Level(j),
                              payload |-> records[b + j].payload,
                              psgnum |-> ParentNumber(records, b + j)]
  <2>1. IsFlat(out[b + j], records[b + j], idocs[d].segments, levels, j)
    BY <1>1, <1>2, <1>3 DEF IsWritten
  <2>2. PICK p \in 0..(j - 1) :
          /\ IsParent(levels, p, j)
          /\ out[b + j] = [segnam |-> records[b + j].segnam, level |-> Level(j),
                           payload |-> records[b + j].payload, psgnum |-> p]
    BY <2>1 DEF IsFlat
  <2>3. j \in 1..Len(idocs[d].segments) /\ IsParent(LevelsFrom(begin[d], idocs[d].segments), p, j)
    BY <1>1, <1>3, <2>2, Zenon
  <2>4. IsIn(b, p, j)
    BY <1>2, <2>3, ParentPlace
  <2> QED
    BY <2>2, <2>4 DEF IsIn
<1>5. NestedAt(levels, Levels(idocs[d].segments), k)
  <2>1. SegmentAt(begin, d, k)
    BY NestedSegment
  <2> QED
    BY <1>3, <2>1 DEF SegmentAt
<1>6. PICK p \in 0..(k - 1) :
        /\ IsParent(levels, p, k)
        /\ Levels(idocs[d].segments)[k] = IF p = 0 THEN 1 ELSE Levels(idocs[d].segments)[p] + 1
  BY <1>5 DEF NestedAt
<1>7. \A j \in 1..s : Levels(idocs[d].segments)[j] = Level(j)
  BY <1>1, TypeFacts DEF Levels
<1>8. p # 0 => p \in 1..s
  BY <1>1
<1>9. Level(k) = IF p = 0 THEN 1 ELSE Level(p) + 1
  BY <1>1, <1>6, <1>7, <1>8
<1>10. ParentRecord(records, b + k) = IF p = 0 THEN 0 ELSE b + p
  <2>1. IsParent(LevelsFrom(begin[d], idocs[d].segments), p, k)
    BY <1>3, <1>6, Zenon
  <2>2. IsIn(b, p, k)
    BY <1>2, <2>1, ParentPlace
  <2> QED
    BY <2>2 DEF IsIn
<1>11. ASSUME NEW j \in 1..s
       PROVE  out[b + j].level = Level(j) /\ ~IsControl(out[b + j])
  <2>1. out[b + j] = [segnam |-> records[b + j].segnam, level |-> Level(j),
                      payload |-> records[b + j].payload, psgnum |-> ParentNumber(records, b + j)]
    BY <1>4
  <2> QED
    BY <2>1 DEF IsControl
<1>12. b + p = 0 => p = 0
  BY <1>8
<1>13. out[b + k].level = IF ParentRecord(records, b + k) = 0 THEN 1
                          ELSE out[ParentRecord(records, b + k)].level + 1
  <2>1. CASE p = 0
    BY <1>1, <1>9, <1>10, <1>11, <2>1
  <2>2. CASE p # 0
    BY <1>1, <1>8, <1>9, <1>10, <1>11, <1>12, <2>2
  <2> QED
    BY <2>1, <2>2
<1>14. ~IsControl(out[b + k])
  BY <1>1, <1>11
<1> QED
  BY <1>1, <1>2, <1>4, <1>13, <1>14

\* The row that sap_idoc_read_xml shows of a segment.
LEMMA SegmentRows ==
  ASSUME NEW d, NEW n \in Nat \ {0}, NEW segnam, NEW hlevel, NEW payload
  PROVE  RowsOf(d, n, segnam, hlevel, Fields("F", payload)) =
           {[document_key |-> d, seq |-> n, segnam |-> segnam, hlevel |-> hlevel, value |-> payload]}
<1>1. n > 0
  OBVIOUS
<1>2. PICK fields : fields = Fields("F", payload)
  OBVIOUS
<1>3. PICK values : values = {f.value : f \in fields} \cup (IF fields = {} /\ n > 0 THEN {""} ELSE {})
  OBVIOUS
<1>4. values = {payload}
  <2>1. CASE payload = ""
    BY <1>1, <1>2, <1>3, <2>1 DEF Fields
  <2>2. CASE payload # ""
    <3>1. PICK f : f = [name |-> "F", value |-> payload]
      OBVIOUS
    <3>2. fields = {f} /\ f.value = payload
      BY <1>2, <2>2, <3>1 DEF Fields
    <3> QED
      BY <1>3, <3>2
  <2> QED
    BY <2>1, <2>2
<1>5. RowsOf(d, n, segnam, hlevel, fields) =
        {[document_key |-> d, seq |-> n, segnam |-> segnam, hlevel |-> hlevel, value |-> value] :
           value \in values}
  BY <1>3, Zenon DEF RowsOf
<1> QED
  BY <1>2, <1>4, <1>5

\* What a segment of the documents looks like as a row.
Row(d, k) == [document_key |-> d, seq |-> k, segnam |-> idocs[d].segments[k].segnam,
              hlevel |-> idocs[d].segments[k].hlevel, value |-> FieldValue(idocs[d].segments[k].fields, "F")]

\* What the row of record i is to be.
RowOf(i) ==
  [document_key |-> Cardinality({c \in 1..i : IsControl(records[c])}), seq |-> i - ControlOf(records, i),
   segnam |-> records[i].segnam, hlevel |-> out[i].level, value |-> records[i].payload]

\* The rows of the segments of a document.
DocumentRows(d) ==
  UNION {RowsOf(d, n, idocs[d].segments[n].segnam, idocs[d].segments[n].hlevel,
                idocs[d].segments[n].fields) : n \in DOMAIN idocs[d].segments}

\* The rows that are not of a control record are those of the segments.
LEMMA SegmentsShown ==
  ASSUME Types, NEW begin, IsNested(begin, idocs)
  PROVE  \A r : r \in {x \in XmlLongRows : x.seq > 0} <=>
                  \E d \in 1..Len(idocs) : \E k \in 1..Len(idocs[d].segments) : r = Row(d, k)
<1>1. DOMAIN idocs = 1..Len(idocs)
      /\ \A d \in 1..Len(idocs) : DOMAIN idocs[d].segments = 1..Len(idocs[d].segments)
  BY TypeFacts
<1>2. ASSUME NEW d \in 1..Len(idocs), NEW k \in 1..Len(idocs[d].segments)
      PROVE  RowsOf(d, k, idocs[d].segments[k].segnam, idocs[d].segments[k].hlevel,
                    idocs[d].segments[k].fields) = {Row(d, k)} /\ Row(d, k).seq > 0
  <2>1. SegmentAt(begin, d, k)
    BY NestedSegment
  <2>2. PICK payload \in STRING : idocs[d].segments[k].fields = Fields("F", payload)
    BY <2>1 DEF SegmentAt
  <2>3. FieldValue(idocs[d].segments[k].fields, "F") = payload
    BY <2>2, FieldFacts
  <2>4. k \in Nat \ {0}
    BY TypeFacts
  <2>5. RowsOf(d, k, idocs[d].segments[k].segnam, idocs[d].segments[k].hlevel,
               Fields("F", payload)) =
          {[document_key |-> d, seq |-> k, segnam |-> idocs[d].segments[k].segnam,
            hlevel |-> idocs[d].segments[k].hlevel, value |-> payload]}
    BY <2>4, SegmentRows
  <2>6. Row(d, k) = [document_key |-> d, seq |-> k, segnam |-> idocs[d].segments[k].segnam,
                     hlevel |-> idocs[d].segments[k].hlevel, value |-> payload]
    BY <2>3, Zenon DEF Row
  <2>7. Row(d, k).seq = k
    BY DEF Row
  <2> QED
    BY <2>2, <2>4, <2>5, <2>6, <2>7
<1>3. \A d, r : r \in RowsOf(d, 0, "EDI_DC40", 0, idocs[d].control) => ~(r.seq > 0)
  BY DEF RowsOf
<1>4. \A r : r \in XmlLongRows <=> \/ \E d \in DOMAIN idocs : r \in RowsOf(d, 0, "EDI_DC40", 0, idocs[d].control)
                                   \/ \E d \in DOMAIN idocs : r \in DocumentRows(d)
  <2>1. PICK controls : controls = UNION {RowsOf(d, 0, "EDI_DC40", 0, idocs[d].control) : d \in DOMAIN idocs}
    OBVIOUS
  <2>2. PICK segments :
          segments = UNION {UNION {RowsOf(d, n, idocs[d].segments[n].segnam, idocs[d].segments[n].hlevel,
                                          idocs[d].segments[n].fields) : n \in DOMAIN idocs[d].segments} :
                              d \in DOMAIN idocs}
    OBVIOUS
  <2>3. XmlLongRows = controls \cup segments
    BY <2>1, <2>2 DEF XmlLongRows
  <2>4. \A r : r \in controls <=> \E d \in DOMAIN idocs : r \in RowsOf(d, 0, "EDI_DC40", 0, idocs[d].control)
    BY <2>1
  <2>5. \A r : r \in segments <=> \E d \in DOMAIN idocs : r \in DocumentRows(d)
    BY <2>2 DEF DocumentRows
  <2> QED
    BY <2>3, <2>4, <2>5
<1>5. ASSUME NEW r \in XmlLongRows, r.seq > 0
      PROVE  \E d \in 1..Len(idocs) : \E k \in 1..Len(idocs[d].segments) : r = Row(d, k)
  <2>1. \A d \in DOMAIN idocs : ~(r \in RowsOf(d, 0, "EDI_DC40", 0, idocs[d].control))
    BY <1>3, <1>5
  <2>2. \E d \in DOMAIN idocs : r \in DocumentRows(d)
    BY <1>4, <1>5, <2>1
  <2>3. PICK d \in 1..Len(idocs) : r \in DocumentRows(d)
    BY <1>1, <2>2
  <2>4. PICK k \in 1..Len(idocs[d].segments) :
          r \in RowsOf(d, k, idocs[d].segments[k].segnam, idocs[d].segments[k].hlevel,
                       idocs[d].segments[k].fields)
    BY <1>1, <2>3 DEF DocumentRows
  <2>5. r = Row(d, k)
    BY <1>2, <2>4
  <2> QED
    BY <2>5
<1>6. ASSUME NEW d \in 1..Len(idocs), NEW k \in 1..Len(idocs[d].segments)
      PROVE  Row(d, k) \in XmlLongRows /\ Row(d, k).seq > 0
  <2>1. d \in DOMAIN idocs /\ k \in DOMAIN idocs[d].segments
    BY <1>1
  <2>2. Row(d, k) \in RowsOf(d, k, idocs[d].segments[k].segnam, idocs[d].segments[k].hlevel,
                             idocs[d].segments[k].fields)
    BY <1>2
  <2>3. Row(d, k) \in DocumentRows(d)
    BY <2>1, <2>2 DEF DocumentRows
  <2>4. Row(d, k) \in XmlLongRows
    BY <1>4, <2>1, <2>3
  <2> QED
    BY <1>2, <2>4
<1> QED
  BY <1>5, <1>6

\* Levels without gaps are the depths of the segments.
LEMMA DepthIsLevel ==
  ASSUME NEW levels, NEW depths, NEW n \in Nat,
         \A k \in 1..n : levels[k] \in Nat /\ levels[k] >= 1 /\ NestedAt(levels, depths, k),
         \A k \in 1..n : levels[k] <= IF k = 1 THEN 1 ELSE levels[k - 1] + 1
  PROVE  \A k \in 1..n : depths[k] = levels[k]
<1> DEFINE S == {m \in Nat : \A k \in 1..n : k <= m => depths[k] = levels[k]}
<1>1. 0 \in S
  OBVIOUS
<1>2. ASSUME NEW m \in Nat, m \in S
      PROVE  m + 1 \in S
  <2> SUFFICES ASSUME NEW k \in 1..n, k = m + 1
               PROVE  depths[k] = levels[k]
    BY <1>2
  <2>1. PICK p \in 0..(k - 1) : IsParent(levels, p, k) /\ depths[k] = IF p = 0 THEN 1 ELSE depths[p] + 1
    BY DEF NestedAt
  <2>2. /\ p # 0 => levels[p] < levels[k]
        /\ \A j \in (p + 1)..(k - 1) : levels[j] >= levels[k]
    BY <2>1 DEF IsParent
  <2>3. levels[k] \in Nat /\ levels[k] >= 1
    OBVIOUS
  <2>4. CASE p = 0
    <3>1. levels[k] <= 1
      <4>1. CASE k = 1
        BY <4>1
      <4>2. CASE k # 1
        <5>1. 1 \in (p + 1)..(k - 1) /\ 1 \in 1..n
          BY <2>4, <4>2
        <5>2. levels[1] >= levels[k] /\ levels[1] <= 1 /\ levels[1] \in Nat
          BY <2>2, <5>1
        <5> QED
          BY <2>3, <5>2
      <4> QED
        BY <4>1, <4>2
    <3> QED
      BY <2>1, <2>3, <2>4, <3>1
  <2>5. CASE p # 0
    <3>1. p \in 1..n /\ p <= m /\ levels[p] \in Nat /\ levels[p] < levels[k]
      BY <2>2, <2>5
    <3>2. depths[p] = levels[p]
      BY <1>2, <3>1
    <3>3. levels[k] <= levels[p] + 1
      <4>1. CASE p = k - 1
        BY <2>5, <4>1
      <4>2. CASE p # k - 1
        <5>1. PICK q : q = p + 1
          OBVIOUS
        <5>2. q \in (p + 1)..(k - 1) /\ q \in 1..n /\ q # 1 /\ q - 1 = p
          BY <2>5, <4>2, <5>1
        <5>3. levels[q] >= levels[k] /\ levels[q] \in Nat
          BY <2>2, <5>2
        <5>4. levels[q] <= levels[p] + 1
          BY <5>2
        <5> QED
          BY <2>3, <3>1, <5>3, <5>4
      <4> QED
        BY <4>1, <4>2
    <3> QED
      BY <2>1, <2>3, <2>5, <3>1, <3>2, <3>3
  <2> QED
    BY <2>4, <2>5
<1> HIDE DEF S
<1>3. n \in S
  BY <1>1, <1>2, NatSetInduction
<1> QED
  BY <1>3 DEF S

\* In a canonical file the level and the PSGNUM that come back are those of the record.
LEMMA CanonicalHierarchy ==
  ASSUME Types, Canonical(records), NEW begin, IsNested(begin, idocs), NEW d \in 1..Len(idocs),
         NEW i, NEW k \in 1..Len(idocs[d].segments), i = begin[d] + k
  PROVE  /\ idocs[d].segments[k].hlevel = records[i].level
         /\ records[i].psgnum = ParentNumber(records, i)
<1>1. PICK n \in Nat : n = Len(idocs[d].segments) /\ DOMAIN idocs[d].segments = 1..n
  BY TypeFacts
<1>2. PICK b \in Nat : b = begin[d] /\ IsControl(records[b])
  <2>1. begin[d] \in 1..Len(records) /\ IsControl(records[begin[d]])
    BY NestedFacts
  <2>2. begin[d] \in Nat
    BY <2>1
  <2> QED
    BY <2>1, <2>2
<1>3. PICK levels : levels = LevelsFrom(begin[d], idocs[d].segments)
  OBVIOUS
<1>4. \A j \in 1..n : /\ b + j \in 1..Len(records) /\ ~IsControl(records[b + j])
                      /\ levels[j] = records[b + j].level /\ records[b + j].level \in Nat
                      /\ NestedAt(levels, Levels(idocs[d].segments), j)
  <2>1. \A j \in 1..n : SegmentAt(begin, d, j)
    BY <1>1, NestedSegment
  <2> QED
    BY <1>2, <1>3, <2>1 DEF SegmentAt
<1>5. \A j \in 1..n : NestedAt(levels, Levels(idocs[d].segments), j)
  BY <1>4
<1>6. \A m \in DOMAIN records :
        ~IsControl(records[m]) =>
          /\ records[m].level >= 1
          /\ records[m].level <= IF IsControl(records[m - 1]) THEN 1 ELSE records[m - 1].level + 1
          /\ records[m].psgnum = ParentNumber(records, m)
  BY DEF Canonical
<1>7. ASSUME NEW j \in 1..n
      PROVE  /\ levels[j] \in Nat /\ levels[j] >= 1
             /\ levels[j] <= IF j = 1 THEN 1 ELSE levels[j - 1] + 1
             /\ records[b + j].psgnum = ParentNumber(records, b + j)
  <2>1. PICK m : m = b + j
    OBVIOUS
  <2>2. m \in DOMAIN records /\ ~IsControl(records[m]) /\ levels[j] = records[m].level /\ levels[j] \in Nat
    BY <1>4, <2>1, TypeFacts
  <2>3. /\ levels[j] >= 1
        /\ levels[j] <= IF IsControl(records[m - 1]) THEN 1 ELSE records[m - 1].level + 1
        /\ records[m].psgnum = ParentNumber(records, m)
    BY <1>6, <2>2
  <2>4. CASE j = 1
    <3>1. m - 1 = b
      BY <2>1, <2>4
    <3> QED
      BY <1>2, <2>1, <2>2, <2>3, <2>4, <3>1
  <2>5. CASE j # 1
    <3>1. PICK h \in 1..n : h = j - 1
      BY <2>5
    <3>2. m - 1 = b + h
      BY <2>1, <3>1
    <3>3. ~IsControl(records[m - 1]) /\ levels[h] = records[m - 1].level
      BY <1>4, <3>1, <3>2
    <3> QED
      BY <2>1, <2>2, <2>3, <2>5, <3>1, <3>3
  <2> QED
    BY <2>4, <2>5
<1>8. \A j \in 1..n : Levels(idocs[d].segments)[j] = levels[j]
  <2>1. PICK depths : depths = Levels(idocs[d].segments)
    OBVIOUS
  <2>2. \A j \in 1..n : levels[j] \in Nat /\ levels[j] >= 1 /\ NestedAt(levels, depths, j)
    BY <1>5, <1>7, <2>1
  <2>3. \A j \in 1..n : levels[j] <= IF j = 1 THEN 1 ELSE levels[j - 1] + 1
    BY <1>7
  <2>4. \A j \in 1..n : depths[j] = levels[j]
    BY <2>2, <2>3, DepthIsLevel
  <2> QED
    BY <2>1, <2>4
<1>9. Levels(idocs[d].segments)[k] = idocs[d].segments[k].hlevel
  BY <1>1 DEF Levels
<1> QED
  BY <1>1, <1>2, <1>4, <1>7, <1>8, <1>9

-----------------------------------------------------------------------------
(* The theorems.                                                           *)

\* The variables have their types: the loops stay within the file, the documents and the
\* tags, and what is written back are flat records.
THEOREM XmlTypeCorrect ==
  Spec => []TypeOK
<1>1. IndInv => TypeOK
  <2> SUFFICES ASSUME IndInv
               PROVE  TypeOK
    OBVIOUS
  <2>1. Types
    BY DEF IndInv
  <2>2. open_levels \in Seq([segnam : STRING, level : Nat])
    BY <2>1 DEF Types, OpenLevels
  <2>3. \A n \in DOMAIN xml : xml[n].tag \in {"open", "close"} /\ xml[n].name \in STRING
    BY <2>1, TypeFacts
  <2> QED
    BY <2>1, <2>2, <2>3 DEF Types, TypeOK
<1> QED
  BY <1>1, Invariance, PTL

\* The levels of the open segments increase, whatever levels the file has, so that a tag is
\* never closed before one that was opened inside it.
THEOREM XmlOpenLevelsIncrease ==
  Spec => []OpenLevelsIncrease
<1>1. IndInv => OpenLevelsIncrease
  BY DEF IndInv, Increasing
<1> QED
  BY <1>1, Invariance, PTL

\* A set of numbers up to n that is not empty has a greatest one.
LEMMA GreatestElement ==
  ASSUME NEW n \in Nat, NEW S \in SUBSET (0..n), S # {}
  PROVE  \E k \in S : \A l \in S : l <= k
<1> DEFINE below == {n - k : k \in S}
<1>1. below \in SUBSET Nat /\ below # {}
  <2>1. \A k \in 0..n : n - k \in Nat
    OBVIOUS
  <2>2. \A k \in S : n - k \in Nat
    BY <2>1
  <2> QED
    BY <2>2
<1>2. PICK b \in below : \A e \in below : b <= e
  BY <1>1, LeastElement
<1>3. PICK k \in S : b = n - k
  BY <1>2
<1>4. ASSUME NEW l \in S
      PROVE  l <= k
  <2>1. n - k <= n - l
    BY <1>2, <1>3
  <2> QED
    BY <2>1
<1> QED
  BY <1>3, <1>4

\* As long as no level is left out, the nearest record with a lower level is the last one
\* of the level above: the level grows by one at most from each record to the next.
LEMMA GaplessParent ==
  ASSUME NEW file, NEW c \in Nat, NEW i \in Nat, c < i, c = ControlOf(file, i),
         \A k \in (c + 1)..i : file[k].level \in Nat,
         Gapless(file, i)
  PROVE  ParentRecord(file, i) = LevelAbove(file, i)
<1> DEFINE level == [k \in (c + 1)..i |-> file[k].level]
           above == {k \in (c + 1)..(i - 1) : file[k].level < file[i].level}
           next == {k \in (c + 1)..(i - 1) : file[k].level = file[i].level - 1}
<1>1. /\ \A k \in (c + 1)..i : level[k] = file[k].level /\ level[k] \in Nat /\ level[k] >= 1
      /\ level[c + 1] <= 1
      /\ \A k \in (c + 2)..i : level[k] <= level[k - 1] + 1
  BY DEF Gapless
<1>2. /\ above = {k \in (c + 1)..(i - 1) : level[k] < level[i]}
      /\ next = {k \in (c + 1)..(i - 1) : level[k] = level[i] - 1}
  BY <1>1
<1> HIDE DEF level, above, next
<1>3. next \subseteq above /\ above \subseteq Nat
  BY <1>1, <1>2
<1>4. CASE above = {}
  <2>1. ParentRecord(file, i) = 0
    BY <1>4 DEF ParentRecord, above
  <2>2. LevelAbove(file, i) = 0
    BY <1>3, <1>4 DEF LevelAbove, next
  <2> QED
    BY <2>1, <2>2
<1>5. CASE above # {}
  <2>1. PICK n \in above : \A m \in above : m <= n
    <3>1. above \in SUBSET (0..i)
      BY <1>2
    <3> QED
      BY <1>5, <3>1, GreatestElement
  <2>2. n \in next
    <3>1. n \in (c + 1)..(i - 1) /\ level[n] < level[i] /\ n + 1 \in (c + 2)..i
      BY <1>2, <2>1
    <3>2. level[n + 1] >= level[i]
      <4>1. CASE n + 1 = i
        BY <1>1, <3>1, <4>1
      <4>2. CASE n + 1 # i
        <5>1. n + 1 \in (c + 1)..(i - 1) /\ n + 1 \notin above
          BY <2>1, <3>1, <4>2
        <5> QED
          BY <1>1, <1>2, <3>1, <5>1
      <4> QED
        BY <4>1, <4>2
    <3>3. level[n + 1] <= level[n] + 1
      BY <1>1, <3>1
    <3>4. level[n] \in Nat /\ level[n + 1] \in Nat /\ level[i] \in Nat
      BY <1>1, <3>1
    <3>5. level[n] = level[i] - 1
      BY <3>1, <3>2, <3>3, <3>4
    <3> QED
      BY <1>2, <3>1, <3>5
  <2>3. \A set : set \subseteq above /\ n \in set =>
          (CHOOSE k \in set : \A l \in set : l <= k) = n
    <3> TAKE set
    <3> HAVE set \subseteq above /\ n \in set
    <3>1. \A k \in set : (\A l \in set : l <= k) => k = n
      BY <1>3, <2>1
    <3> QED
      BY <2>1, <3>1
  <2>4. ParentRecord(file, i) = n
    BY <1>5, <2>1, <2>3 DEF ParentRecord, above
  <2>5. LevelAbove(file, i) = n
    BY <1>3, <2>2, <2>3 DEF LevelAbove, next
  <2> QED
    BY <2>4, <2>5
<1> QED
  BY <1>4, <1>5

\* As long as no level is left out, a record comes back with the PSGNUM of the last segment
\* of the level above, as the documentation of EmitIdocXml says; and however the levels
\* jump, with that of the nearest segment of a lower level, one level below it.
THEOREM XmlHierarchySurvives ==
  Spec => []HierarchySurvives
<1>1. IndInv => HierarchySurvives
  <2> SUFFICES ASSUME IndInv, pc = "done", Typed(records), NEW i \in DOMAIN out, ~IsControl(out[i])
               PROVE  /\ Gapless(records, i) => out[i].psgnum = NumberAbove(records, i)
                      /\ out[i].psgnum = ParentNumber(records, i)
                      /\ out[i].level = IF ParentRecord(records, i) = 0 THEN 1
                                        ELSE out[ParentRecord(records, i)].level + 1
    BY DEF HierarchySurvives
  <2>1. Types
    BY DEF IndInv
  <2>2. PICK begin : /\ IsNested(begin, idocs) /\ Len(out) = Len(records)
                     /\ \A d \in 1..Len(idocs) : IsWritten(begin[d], idocs[d], Len(idocs[d].segments))
    BY DoneFacts
  <2>3. i \in 1..Len(records)
    BY <2>1, <2>2, LenProperties DEF Types
  <2>4. PICK d \in 1..Len(idocs), k \in Nat : k <= Len(idocs[d].segments) /\ i = begin[d] + k
    BY <2>1, <2>2, <2>3, Covered
  <2>5. k # 0
    <3> SUFFICES ASSUME k = 0
                 PROVE  FALSE
      OBVIOUS
    <3>1. i = begin[d]
      BY <2>1, <2>2, <2>4, NestedFacts
    <3>2. out[i] = records[i] /\ IsControl(records[i])
      BY <2>1, <2>2, <3>1, NestedFacts DEF IsWritten
    <3> QED
      BY <3>2
  <2>6. k \in 1..Len(idocs[d].segments)
    BY <2>1, <2>4, <2>5, TypeFacts
  <2>7. /\ out[begin[d] + k] = [segnam |-> records[begin[d] + k].segnam,
                                level |-> idocs[d].segments[k].hlevel,
                                payload |-> records[begin[d] + k].payload,
                                psgnum |-> ParentNumber(records, begin[d] + k)]
        /\ out[begin[d] + k].level = IF ParentRecord(records, begin[d] + k) = 0 THEN 1
                                     ELSE out[ParentRecord(records, begin[d] + k)].level + 1
    BY <2>1, <2>2, <2>6, FlatRecord
  <2>8. out[begin[d] + k].psgnum = ParentNumber(records, begin[d] + k)
    BY <2>7
  <2>9. ASSUME Gapless(records, i)
        PROVE  ParentNumber(records, i) = NumberAbove(records, i)
    <3>1. begin[d] \in Nat /\ begin[d] = ControlOf(records, i) /\ begin[d] < i /\ i \in Nat
      <4>1. begin[d] \in 1..Len(records) /\ Len(records) \in Nat
        BY <2>1, <2>2, NestedFacts, TypeFacts
      <4>2. begin[d] = ControlOf(records, i)
        BY <2>1, <2>2, <2>4, ControlFound
      <4>3. k >= 1
        BY <2>5
      <4> QED
        BY <2>4, <4>1, <4>2, <4>3
    <3>2. \A j \in (begin[d] + 1)..i : records[j].level \in Nat
      <4> TAKE j \in (begin[d] + 1)..i
      <4>1. PICK h \in 1..Len(idocs[d].segments) : j = begin[d] + h
        <5>1. Len(idocs[d].segments) \in Nat
          BY <2>1, TypeFacts
        <5>2. j - begin[d] \in 1..k /\ j = begin[d] + (j - begin[d])
          BY <2>4, <3>1
        <5>3. j - begin[d] \in 1..Len(idocs[d].segments)
          BY <2>4, <5>1, <5>2
        <5> QED
          BY <5>2, <5>3
      <4> QED
        BY <2>1, <2>2, <4>1, NestedFacts
    <3>3. ParentRecord(records, i) = LevelAbove(records, i)
      BY <2>9, <3>1, <3>2, GaplessParent
    <3> QED
      BY <3>3 DEF ParentNumber, NumberAbove
  <2> QED
    BY <2>4, <2>7, <2>8, <2>9, Zenon
<1> QED
  BY <1>1, Invariance, PTL

\* Whatever the levels are, every data record comes back in its place with its segment and
\* payload, and sap_idoc_read_xml shows it once, under its document and number.
THEOREM XmlSegmentsSurvive ==
  Spec => []SegmentsSurvive
<1>1. IndInv => SegmentsSurvive
  <2> SUFFICES ASSUME IndInv, pc = "done", Typed(records)
               PROVE  /\ Carried(out) = Carried(records)
                      /\ {r \in XmlLongRows : r.seq > 0} = Shown(records)
    BY DEF SegmentsSurvive
  <2>1. Types
    BY DEF IndInv
  <2>2. PICK begin : /\ IsNested(begin, idocs) /\ Len(out) = Len(records)
                     /\ \A d \in 1..Len(idocs) : IsWritten(begin[d], idocs[d], Len(idocs[d].segments))
    BY DoneFacts
  <2>3. IsNested(begin, idocs) /\ DOMAIN records = 1..Len(records) /\ DOMAIN out = 1..Len(records)
    BY <2>1, <2>2, TypeFacts, LenProperties
  <2>4. ASSUME NEW d \in 1..Len(idocs)
        PROVE  /\ begin[d] \in Nat /\ begin[d] \in 1..Len(records)
               /\ IsControl(records[begin[d]]) /\ out[begin[d]] = records[begin[d]]
    BY <2>1, <2>2, NestedFacts DEF IsWritten
  <2>5. ASSUME NEW d \in 1..Len(idocs), NEW k \in 1..Len(idocs[d].segments), NEW i, i = begin[d] + k
        PROVE  /\ i \in 1..Len(records) /\ ~IsControl(records[i])
               /\ ~IsControl(out[i])
               /\ out[i].segnam = records[i].segnam /\ out[i].payload = records[i].payload
               /\ Row(d, k) = RowOf(i)
    <3>1. SegmentAt(begin, d, k)
      BY <2>1, <2>3, NestedSegment
    <3>2. /\ i \in 1..Len(records) /\ ~IsControl(records[i]) /\ records[i].payload \in STRING
          /\ idocs[d].segments[k].segnam = records[i].segnam
          /\ idocs[d].segments[k].fields = Fields("F", records[i].payload)
      BY <2>5, <3>1 DEF SegmentAt
    <3>3. /\ ~IsControl(out[i])
          /\ out[i] = [segnam |-> records[i].segnam, level |-> idocs[d].segments[k].hlevel,
                       payload |-> records[i].payload, psgnum |-> ParentNumber(records, i)]
      BY <2>1, <2>2, <2>5, FlatRecord
    <3>4. /\ out[i].segnam = records[i].segnam /\ out[i].payload = records[i].payload
          /\ out[i].level = idocs[d].segments[k].hlevel
      BY <3>3
    <3>5. k \in Nat /\ k <= Len(idocs[d].segments) /\ begin[d] \in Nat
      BY <2>1, <2>4, TypeFacts
    <3>6. ControlOf(records, i) = begin[d] /\ Cardinality({c \in 1..i : IsControl(records[c])}) = d
      BY <2>1, <2>2, <2>5, <3>5, ControlFound
    <3>7. i - ControlOf(records, i) = k
      BY <2>5, <3>5, <3>6
    <3>8. FieldValue(idocs[d].segments[k].fields, "F") = records[i].payload
      BY <3>2, FieldFacts
    <3>9. Row(d, k) = RowOf(i)
      BY <3>2, <3>4, <3>6, <3>7, <3>8, Zenon DEF Row, RowOf
    <3> QED
      BY <3>2, <3>3, <3>4, <3>9
  <2>6. ASSUME NEW i \in 1..Len(records)
        PROVE  IF IsControl(records[i]) THEN out[i] = records[i]
               ELSE \E d \in 1..Len(idocs) : \E k \in 1..Len(idocs[d].segments) : i = begin[d] + k
    <3>1. PICK d \in 1..Len(idocs), k \in Nat : k <= Len(idocs[d].segments) /\ i = begin[d] + k
      BY <2>1, <2>2, Covered
    <3>2. CASE k = 0
      <4>1. i = begin[d]
        BY <2>4, <3>1, <3>2
      <4> QED
        BY <2>4, <4>1
    <3>3. CASE k # 0
      <4>1. k \in 1..Len(idocs[d].segments)
        BY <2>1, <3>1, <3>3, TypeFacts
      <4> QED
        BY <2>5, <3>1, <4>1
    <3> QED
      BY <3>2, <3>3
  <2>7. Carried(out) = Carried(records)
    <3>1. ASSUME NEW i \in 1..Len(records)
          PROVE  (IF IsControl(out[i]) THEN out[i]
                  ELSE [segnam |-> out[i].segnam, payload |-> out[i].payload]) =
                 (IF IsControl(records[i]) THEN records[i]
                  ELSE [segnam |-> records[i].segnam, payload |-> records[i].payload])
      <4>1. CASE IsControl(records[i])
        BY <2>6, <4>1
      <4>2. CASE ~IsControl(records[i])
        <5>1. PICK d \in 1..Len(idocs) : \E k \in 1..Len(idocs[d].segments) : i = begin[d] + k
          BY <2>6, <4>2
        <5>2. PICK k \in 1..Len(idocs[d].segments) : i = begin[d] + k
          BY <5>1
        <5>3. /\ ~IsControl(out[i]) /\ out[i].segnam = records[i].segnam
              /\ out[i].payload = records[i].payload
          BY <2>5, <5>2
        <5> QED
          BY <4>2, <5>3
      <4> QED
        BY <4>1, <4>2
    <3> QED
      BY <2>3, <3>1 DEF Carried
  <2>8. {r \in XmlLongRows : r.seq > 0} = Shown(records)
    <3>1. \A r : r \in {x \in XmlLongRows : x.seq > 0} <=>
                  \E d \in 1..Len(idocs) : \E k \in 1..Len(idocs[d].segments) : r = Row(d, k)
      BY <2>1, <2>2, SegmentsShown
    <3>2. ASSUME NEW d \in 1..Len(idocs), NEW k \in 1..Len(idocs[d].segments)
          PROVE  Row(d, k) \in Shown(records)
      <4>1. PICK i : i = begin[d] + k
        OBVIOUS
      <4>2. i \in 1..Len(records) /\ ~IsControl(records[i]) /\ Row(d, k) = RowOf(i)
        BY <2>5, <4>1
      <4> QED
        BY <2>3, <4>2 DEF Shown, RowOf
    <3>3. ASSUME NEW r \in Shown(records)
          PROVE  \E d \in 1..Len(idocs) : \E k \in 1..Len(idocs[d].segments) : r = Row(d, k)
      <4>1. PICK i \in 1..Len(records) :
              ~IsControl(records[i]) /\ r = RowOf(i)
        BY <2>3 DEF Shown, RowOf
      <4>2. PICK d \in 1..Len(idocs) : \E k \in 1..Len(idocs[d].segments) : i = begin[d] + k
        BY <2>6, <4>1
      <4>3. PICK k \in 1..Len(idocs[d].segments) : i = begin[d] + k
        BY <4>2
      <4>4. r = Row(d, k)
        BY <2>5, <4>1, <4>3
      <4> QED
        BY <4>4
    <3> QED
      BY <3>1, <3>2, <3>3
  <2> QED
    BY <2>7, <2>8
<1> QED
  BY <1>1, Invariance, PTL

\* Converting a canonical file to IDoc-XML and back is never refused and gives the file.
THEOREM XmlRoundTrip ==
  Spec => []RoundTrip
<1>1. IndInv => RoundTrip
  <2> SUFFICES ASSUME IndInv, Canonical(records)
               PROVE  pc \notin {"refused", "malformed"} /\ (pc = "done" => out = records)
    BY DEF RoundTrip
  <2>1. Types /\ Accepted
    BY DEF IndInv
  <2>2. ASSUME pc = "done"
        PROVE  out = records
    <3>1. Typed(records)
      BY <2>1, CanonicalFacts
    <3>2. PICK begin : /\ IsNested(begin, idocs) /\ Len(out) = Len(records)
                       /\ \A d \in 1..Len(idocs) : IsWritten(begin[d], idocs[d], Len(idocs[d].segments))
      BY <2>2, <3>1, DoneFacts
    <3>3. ASSUME NEW i \in 1..Len(records)
          PROVE  out[i] = records[i]
      <4>1. PICK d \in 1..Len(idocs), k \in Nat : k <= Len(idocs[d].segments) /\ i = begin[d] + k
        BY <2>1, <3>2, Covered
      <4>2. CASE k = 0
        <5>1. i = begin[d]
          BY <2>1, <3>2, <4>1, <4>2, NestedFacts
        <5> QED
          BY <3>2, <5>1 DEF IsWritten
      <4>3. CASE k # 0
        <5>1. k \in 1..Len(idocs[d].segments)
          BY <2>1, <4>1, <4>3, TypeFacts
        <5>2. out[i] = [segnam |-> records[i].segnam, level |-> idocs[d].segments[k].hlevel,
                        payload |-> records[i].payload, psgnum |-> ParentNumber(records, i)]
          BY <2>1, <3>2, <4>1, <5>1, FlatRecord
        <5>3. /\ idocs[d].segments[k].hlevel = records[i].level
              /\ records[i].psgnum = ParentNumber(records, i)
          BY <2>1, <3>2, <4>1, <5>1, CanonicalHierarchy
        <5>4. records[i] \in DataRecord
          <6>1. SegmentAt(begin, d, k)
            BY <2>1, <3>2, <5>1, NestedSegment
          <6> QED
            BY <4>1, <6>1 DEF SegmentAt
        <5>5. records[i] = [segnam |-> records[i].segnam, level |-> records[i].level,
                            payload |-> records[i].payload, psgnum |-> records[i].psgnum]
          BY <5>4 DEF DataRecord
        <5> QED
          BY <5>2, <5>3, <5>5
      <4> QED
        BY <4>2, <4>3
    <3>4. out \in Seq(ControlRecord \cup DataRecord) /\ records \in Seq(ControlRecord \cup DataRecord)
      BY <2>1, XmlAssumption DEF Types
    <3> QED
      BY <3>2, <3>3, <3>4, SeqEqual
  <2> QED
    BY <2>1, <2>2 DEF Accepted
<1> QED
  BY <1>1, Invariance, PTL
=============================================================================
