# A verification development of erpl-idoc

erpl-idoc is a DuckDB extension that reads, writes and converts SAP IDoc files.
An IDoc file is a sequence of records, a *control record* (524 bytes, it opens a
document) or a *data record* (1063 bytes, one segment of the document), laid out
back to back (FIXED) or as lines ended by LF or CRLF.  This directory models the
parts of the extension that have a protocol, the pull reader, the parallel scan,
the transactional COPY writer, the segment dictionary and the conversion to and
from IDoc-XML, and the codec of a single record: its fields, their text encodings
and their typed values.  TLC checks each on small instances.  TLAPS proves for every
value of the constants the safety of the streaming reader and that it implements what
reading a whole file promises, the safety of the parallel scan and that it implements what
a query over many files promises, the safety of the COPY writer and of the dictionary, and
all properties of the conversion to and from IDoc-XML and of the codec.

## 1. Inventory

| Component | State it keeps | Operations | Interacts with | What is hard |
|---|---|---|---|---|
| Flat format (`idoc/idoc_format.cpp`) | none | detect framing, split, join, parse, lenient parse | used by every reader and by `sap_idoc_to_xml` | records cut short, lines of the wrong length, terminators that look like content |
| Streaming reader, `RecordStreamer` (same file) | buffer, end-of-source flag, framing, document key, record index | `Fill`, `Next`, `Emit` | calls a byte source; called by `IdocPeek` | reads of any size split records, magics and CRLFs; memory has to stay O(record) |
| Parallel scan (`idoc_multifile.hpp`, `idoc_reader.cpp`, `idoc_typed_reader.cpp`) | shared: the atomic `next_file`; per thread: open file, streamer, pending record, `field_cursor` | `IdocOpenNextFile`, `IdocPeek`, `IdocConsume`, five scan functions | DuckDB calls the scan function of each thread until it returns no row | interleaving of threads, records that span chunks, one thread failing while others go on |
| COPY writer (`idoc_copy.cpp`) | file handle, temporary path, `published` | bind, open, sink, finalize, destructor | DuckDB's file system | every call may fail, the process may die, a rename is not a replace |
| Dictionary (`idoc_dict.cpp`) | rows, running width, end of the previous field | from_fields, offsets, validate | the readers bind it, `EncodeSdata` and `sap_idoc_to_xml` use it | 64-bit sums, 32-bit narrowing, NULLs, per-segment state reset at each segment, three different bounds checks |
| IDoc-XML (`idoc/idoc_xml.cpp`, `idoc_xml_funcs.cpp`) | stack of open segments; last segment of each level | `ToXmlInit`, `EmitIdocXml`, `ParseIdocXml`, `XmlToRecInit`, `sap_idoc_read_xml` | uses the flat format and the dictionary | the hierarchy is a number, a nesting and a parent pointer in turn |
| Record encoders (`idoc_encoder.cpp`, `idoc_format.cpp`) | the buffer of the record | `EncodeSdata`, `EncodeDataRecord`, `EncodeControl` | rules of the dictionary; the readers take the record apart | fixed widths in bytes: cut characters, numbers too wide, neighbours |
| Text encodings (`idoc_format.cpp`) | none | `DecodeText`, `IsValidUtf8`, `RTrim` | every reader, `sap_idoc_to_xml` | boundaries of UTF-8, a table of a code page |
| Typed values (`idoc_typed_reader.cpp`) | none | `ApplyTypedMapping`, `ParseTypedValue` | `ReadSegmentScan`; the casts of DuckDB | signs, scales and widths of decimals, ends of the calendar |
| Dictionary source, macros, entry, recipes | none | SQL text, registration | | |

What makes each correct:

* reader: the same records, in the same order and with the same keys, as parsing
  the whole file, ending as that ends, for all sizes of reads, in bounded memory;
* scan: every row of every file exactly once, under the right file name, in file
  order; no success with rows missing;
* COPY: the target is absent, as it was, or complete, never truncated; a crash loses
  nothing; no temporary file is left behind, unless its removal itself fails;
* dictionary: what validation passes is sound and accepted by the readers, the
  converter slices what the readers accept, and what is encoded reads back;
* codec: what was written is what is read, up to the width of a field; text is lossless
  and well formed; a typed column holds exactly what the text denotes; nothing but
  what is malformed is refused;
* XML: flat to XML to flat is the identity on canonical files and keeps segments,
  payloads and hierarchy on the others.

## 2. Modules

| Module | Models |
|---|---|
| `IdocFormat` | the flat format as operators on byte sequences (recursive functions, no `RECURSIVE`) |
| `RecordFeed` | abstract: what reading one file promises |
| `RecordStreamer` | `RecordStreamer`; implements `RecordFeed` |
| `ScanResult` | abstract: what a scan over many files promises |
| `ParallelScan` | the parallel scan and the five flat readers; implements `ScanResult`, relies on `RecordFeed` |
| `RecordStreamerProofs`, `ParallelScanProofs`, `CopyWriterProofs`, `SegmentDictionaryProofs`, `XmlConversionProofs`, `RecordCodecProofs` | theorems about the module they are named after |
| `StreamerRefinementProofs` | `RecordStreamer` implements `RecordFeed` |
| `InductionLemmas` | induction and primitive recursion over the naturals, for the modules above |
| `CopyWriter` | COPY ... (FORMAT sap_idoc) and the file system under it |
| `SegmentDictionary` | a dictionary from its import or its offsets to an encoded SDATA |
| `TextEncoding` | code pages, the UTF-8 check and the decoder as operators on bytes, with the Unicode standard's definition as reference |
| `TypedValue` | the type of a field and the value of its text, with the number a text denotes as reference |
| `RecordCodec` | one record: encoded by the three encoders, read by the readers of data records, segments and control records; uses the two modules above |
| `XmlConversion` | `sap_idoc_to_xml`, `EmitIdocXml`, `ParseIdocXml`, `sap_idoc_read_xml`, `sap_idoc_xml_to_records` |
| `MC*` | the instances TLC checks |

**RecordStreamer.** The variables are the members of the class plus `pc`, the place
of the suspended `Next`: a call is suspended at every call of the byte source
(`Read`), which returns any number of bytes up to the read buffer.  (The real source
returns the prefix used for detection first, then reads of the file.)  `Call` is the
entry of `Next`; `Detect`, `FixedMagic`, `FixedBlock`, `SearchLine` and `More` are its
branches; `need` is the argument of the running `Fill`, `before` the buffer size the
terminated loop compares with.  `Return("error", ...)` is a throw.  A byte is what the
code compares it with: a byte of the magic, CR, LF or anything else.  `WholeParse` is what
`ImplementsFeed` compares with: `ParseImage` or `ParseImageLenient` of the whole file, as the
code computes them, of a line file whose last line lacks its line feed after adding it
(`Completed`).  A lenient read of a line file has no whole-file parse in the code
(`Comparable` excludes it); `SalvagesComplete` says what it must hand out.

**ParallelScan.** `next_file` is shared, all else is thread local.  A step is what
happens between two accesses that another thread could notice, and finer: the loop
head (`Peek`), the `fetch_add` (`Claim`), opening, the next record, one row.  A file is
its kind, its records and whether a malformed rest follows, which is what `RecordFeed`
promises.  A data record cut off before the end of its segment name (`CutOff`) makes the
readers throw before they can skip it.  A scan function that throws fails the query: no chunk is started any more,
the running ones go on to their end.  A file name is its index in the resolved list,
so a path that two globs of the list resolve to counts as two entries, as in the code.

**CopyWriter.** A directory maps paths to inodes; a handle is an inode, so that it
survives the removal or renaming of its path.  Every file system call may fail if its
name is in `Faults`; a failed write may have written a part.  That holds of the destructor's
calls too (`CleanUpThrows`): it swallows what they throw, and the temporary file stays.  The
history variables `found` and `left` record what a COPY found at its target and whose
temporary file a crash or a failed clean-up left.  `Crash` ends all running
COPYs without their destructors.  One cell stands for one `WriteAll`.  `unmoved` is the
failing state after `MoveFile` threw.  Each target that exists at the start is a file of
its own (no hard links).

**SegmentDictionary.** One behaviour is the life of one dictionary (`origin`): a table
as it stands, one whose offsets are computed, or a field list of SAP that is imported
(`ImportField` narrows its numbers to INTEGER); then validated row by row, bound by a
reader whatever validation said, used to encode one segment.  Every query loads and
sorts the rows again (`LoadRows`), so an imported list may be in any order.  Sums are
taken modulo the width of `int64_t` where the code forms them (`Wrapped`), and not
where it avoids them (`InBounds`).  `Slices` is the converter's own check.

**RecordCodec.** A text is a sequence of bytes.  A case says what is written (field
values and rules, the SDATA of a foreign file, or control values) and how it is read;
`EncodeField` ... `EncodedSdata` are the loop and the exits of `EncodeSdata`,
`EncodeRecord` and `EncodeControlRecord` the two record encoders, `ReadIdocScan`,
`ReadField` ... `ReadDone` and `ReadIdocControlScan` the readers.  The field tables
have their real lengths; only the SDATA is shorter.  A record that does not start with
the magic of its kind is not shown by the reader asked (`skipped`).  External, by what
the code relies on: DuckDB's calendar, its cast of text to DECIMAL, and its refusal of
a VARCHAR that is not UTF-8.

**XmlConversion.** XML is a sequence of opening and closing tags.  A leaf field is part
of its element.  `Group` is the loop over the flat records, `OpenRoot` ...
`CloseDocument` the emitter with its stack, `ParseOpen`, `ParseClose` and `Parsed` the
parser, `XmlLongRows` the rows of `sap_idoc_read_xml`, `Flatten...` the conversion to
records with its `last_at_level`.  A level is the
number after conversion (a blank HLEVEL counts as 1).

## 3. What is checked

| Run | Instance | Shows |
|---|---|---|
| `stream` | magic 2, control 3, data 5 bytes; read 8, look-ahead 6; all truncations of four documents in three framings, wrong framing, too long, too short and endless lines, line feeds inside data; strict and lenient | `ImplementsFeed`: strict reads, and lenient ones of fixed-width records, are steps of `RecordFeed` with the parse of the whole file; `SalvagesComplete`: other lenient reads hand out every complete record, in order, before anything else; `BoundedMemory`; `KeysFollowControls`; `RawRoundTrip`: reading raw and joining again reproduces the file; `Terminates` |
| `scan_fields` | 3 threads, 3 files (one empty), chunks of 2 rows, segments of 3 fields, unknown segments included | the six proved invariants, the refinement of `ScanResult`, termination |
| `scan_failing` | 3 threads, 6 files: good, missing, undecodable value, XML, cut off, a record too short for its segment name | a failing file never goes unnoticed and never corrupts what was returned |
| `scan_control` | 3 threads, the control reader on flat files and IDoc-XML | records that are skipped; XML as a source |
| `copy` | two COPYs to one local target (one rejected in its last row), one to a remote target; all faults, in the clean-up too, one crash | `TargetWhole`, `SuccessIsComplete`, `OriginalSurvives`, `CrashRecoverable`: a crash between any two calls leaves the old target or the whole output; `NothingLeft`: a temporary file is that of a running COPY, or one a crash or a failed clean-up left |
| `dictionary` | SDATA of 4 bytes, `INT64_MAX` 31, `INT32_MAX` 7; all sorted dictionaries of 2 rows over 2 segments and of 3 rows over one, rows at the end of the type, field lists in any order with numbers beyond INTEGER, NULLs; each given, with computed offsets and imported | `EmptyMeansSound`, `ValidatedBinds`, `XmlSlicesAgree`, `OffsetsPass`, `EncodedReadsBack` |
| `codec` | SDATA of 8 bytes, DECIMAL of up to 5 digits; see below | `WrittenReadsBack`, `TextLossless`, `RefusesExactlyMalformed`, `TypedExact`, `FullScaleFits` |
| `xml` | all hierarchies of up to 5 segments of levels 1 to 3, all files of up to 4 records of nine kinds | `OpenLevelsIncrease`, `HierarchySurvives` (the documented parent where no level is left out, the enclosing segment everywhere), `SegmentsSurvive` (also as `sap_idoc_read_xml` shows them), `RoundTrip` |

Four runs end in a counterexample; section 5 says what each one shows.

**Why the bounds are enough.** *stream*: every comparison of `Next` is between a buffer
size and a record length, a magic, or a record and its terminator.  With the lengths in
their real order (magic < control < control + 2 <= data < read) each of these is met
from below, exactly and from above, by some truncation and some read size; the read
is longer than a record, as in the code, so that one read brings several.  Four records
with two control records show keys that depend on earlier ones.  *scan*: two threads
already race for the cursor, a third one finds it exhausted while the two work; three
fields and chunks of two rows leave a record across chunks in every phase.  The
theorems remove the bound for the safety part.  *copy*: a second COPY to the target finds
what the first one or the crash left; one crash suffices since what it leaves is
overwritten by the next COPY.  *dictionary*: an overlap needs two fields, and that the previous
end is enough needs three; `INT32_MAX` exceeds the SDATA and twice `INT32_MAX` stays
below `INT64_MAX`, as in the program, so that a narrowed number can be negative, in or
out of the SDATA, and the sum of two cannot wrap.  *codec*: UTF-8 is tested at both
sides of every bound the check compares with, in each position of a character of up to
four bytes and with the field cut after each; the code pages with every byte; decimals
with every text of four bytes over blank, plus, minus, point, 0 and 9, scales below,
at and above the length; dates and times at both sides of every limit; header numbers
at, one above and below the width of their fields; control lists of 0 to 37 values.
TLC's integers end at 2^31 - 1, so numbers have at most ten digits.  *xml*: a level that returns after a gap needs four segments.

`CHECK_DEADLOCK FALSE` stands in every configuration because readers, scans, COPYs and
conversions do end.  Mutated forms of the actions, next to the originals and marked
`(Mutant)`, are the plausible slips each property is known to catch.

**Fairness.** *stream*: `WF(Next)`: `IdocPeek` calls until the file is exhausted and a
call runs to completion; a read returns.  *scan*: `WF(Step(t))` for each thread: DuckDB's
scheduler runs every task of a pipeline until it is finished, and no step waits for
another thread (the cursor is an atomic).  *copy*: `WF(Step(j))` for each COPY: DuckDB runs
a statement to its end or destroys its state.  A crash is not fair, it may not happen.
No property of it needs that: a COPY is straight-line code without retries.
The other modules have no liveness property, so no fairness.

## 4. What is proved

Each theorem holds for every value of the constants that satisfies the named assumption
of the module; further hypotheses are stated with it.  An invariant that TLC checks is
seldom inductive; each proof module begins with what has to be added and ends with the
theorems.

**`RecordStreamerProofs`** (`FormatAssumption`, `StreamerAssumption`): for every file,
framing, length of the records and size of the reads,

* `StreamerTypeCorrect`: `Spec => []TypeOK`;
* `StreamerBoundedMemory`: the buffer holds at most a record with its terminator and a read;
* `StreamerKeysFollowControls`: numbers without gaps, keys that change at control records;
* `StreamerRawRoundTrip`: raw read and join is the identity on properly terminated files.

`IndInv` adds to the types what `Next` waits for at each place (`Places`), a tighter bound
during detection (`Memory`), and that the counters are those of the last record
(`Counters`).  `RawInv` says of the buffer that it is a window of the file (`Window`), what
is known at its end (`Ends`), and that the records so far, joined, are what is consumed
(`Joined`), from which the round trip follows at the end of the file.

**`StreamerRefinementProofs`**: `StreamerImplementsFeed`, every step of `RecordStreamer` is
one of `RecordFeed` or none.  The whole-file parse is a walk over positions.  `FeedInv` says
that what was handed out, followed by the walk from the first position not yet consumed
(`Ahead`), stays the walk from the start.  That the walks, recursive functions, exist at
all is `JumpRecursion`: each looks at later positions only.  The claim is about the inputs
that are `Comparable`, strict reads and lenient ones of fixed-width records, for which the
code has a whole-file parse; which of them an input is stays so (`ComparableStep`).
`CompletedFacts` and `RestLine` relate the walk of the completed file to the lines the reader
finds in its buffer, the last one, which may lack its line feed, included.

`StreamerSalvagesComplete` (`Spec => []SalvagesComplete`) is the same argument about the
file up to its last line feed (`BodyOf`), and needs no hypothesis on the lines: what a
strict read of that body gives is what was handed out followed by what it gives from the
first position not consumed, or all of it was handed out already (`Salvage`).  The walk is
of the body, which the code never sees; `SalvagedLine` finds in it the line that the buffer
holds, and `SalvagedNone` shows that where the reader gives up, for a buffer longer than
any record or a last line, the body has nothing more to give.

**`ParallelScanProofs`** (`ScanAssumption`: at least one thread, a positive chunk size,
well-typed files, dictionary segments with at least one field):

* `ScanTypeCorrect`: `Spec => []TypeOK`, a chunk never holds more than its size;
* `ScanOneReaderPerFile`: no two threads read the same list entry;
* `ScanFilenameIsSource`: the filename column names the file the record came from;
* `ScanRowsInOrder`: each thread writes its rows in file order and none twice;
* `ScanNoRowLost`: when all threads are done, every row was written;
* `ScanCursorBounded`: the cursor ends at most two per thread after the list;
* `ScanImplementsResult` (`Spec => ImplementsResult`): the chunks returned to the query are
  a behaviour of `ScanResult`.

`IndInv` relates these: `ThreadState` (where a
thread is, against its file and pending record), `Behind` (what it wrote lies before its
cursor), `Exhausted` (a file is left only at its end) and `Accounted` (each row of a
claimed file is written or lies ahead of the thread reading it).  The proof has two
layers.  First `LocalInv`, `TypeOK` and `ThreadState`: a step of another thread disturbs
it only through `next_file`, which only grows (`OtherThread`, `OwnThread`).  Then, with
that at hand before and after the step, one lemma per conjunct: `BehindStep`,
`OrderStep`, `SourceStep`, `ReaderStep`, `ExhaustedStep`, `AccountedStep`.  `NoRowLost`
follows since a thread that is done saw `next_file >= Len(Files)`, so all files are
claimed, and no row can lie ahead of a thread that is done, by `Exhausted`.
`CursorBounded` has an invariant of its own (`CursorInv`): a claim beyond the list is
charged to the thread that made it, and a thread can be charged twice only.

The refinement needs more than `IndInv`, which says which rows are written and in which
order but not that what a thread wrote of a file is, row by row, what the file holds.
`WalkInv` adds to it `Walk` (of the file a thread reads it has written the rows behind its
cursor, all of them), `Clean` (nothing behind the cursor makes the reader throw) and
`Owned` (a claimed file has a thread that reads it or has written all of it, and that
thread alone has rows of it).  `WalkInvStep` proves it inductive: `WalkNext`, `WalkSkip`,
`WalkEmit` and `WalkClaim` for the steps of the reading thread, `OwnedStep` for who owns a
file.  The rows of a file and the parts of the threads are recursive functions
(`RowsUpTo`, `OfFile`, `JoinedUpTo`); that they exist comes from `PrimitiveRecursion`, and
`RowsUpToGrows` and `OfFileGrows` make each a prefix of the next.  `OneWriter` reduces the
join over the threads to the owner's part.  `ResultStep` then maps each step: a chunk that
is returned is an `Advance` (`ResultGrows`, and `Delivered`: what is returned of a file is
a prefix of its rows), the last thread to end is `Succeed` (`AllReturned`), the first that
throws is `Fail` (`EndStep` finds the file that cannot be read), all else stutters.
`ScanResult` states no fairness; that the scan ends is `Terminates`.

**`CopyWriterProofs`** (`CopyAssumption`): `CopyTypeCorrect` and `CopyNothingLeft` need no more,
since a COPY alone touches what concerns them; the latter holds with the clean-up failing,
since `NothingLeft` names the files it then leaves (`left`).  `CopyTargetWhole`,
`CopySuccessIsComplete`, `CopyOriginalSurvives` and `CopyCrashRecoverable` have the hypothesis `Exclusive`, one COPY at a time per local
target; the run `copy_same_target` shows that it is needed.  Their `IndInv`: no two running
COPYs share a target (`OnePerTarget`); no two names lead to one file (`NoLinks`); a handle is
that of the file at the path written to (`OpenAtPath`); that file and what is left of the
current row are the output so far (`Streamed`); and until the rename the target is as found
(`AsFound`).

**`SegmentDictionaryProofs`** (`DictionaryAssumption`: an SDATA fits an INTEGER,
twice an INTEGER fits a BIGINT, a NULL reads as 0), for dictionaries of any length:

* `DictionaryTypeCorrect`: `Spec => []TypeOK`;
* `DictionaryEmptyMeansSound`: if validation reports nothing, all fields are in bounds,
  disjoint within a segment and at distinct positions;
* `DictionaryValidatedBinds`: then no reader refuses it, but for a NULL;
* `DictionarySlicesAgree`: the converter's check is the readers' check;
* `DictionaryEncodedReadsBack`: a field that is encoded is not overwritten;
* `DictionaryOffsetsPass`: computed offsets pass validation, if the widths are positive and
  fit and the positions are distinct.

The proof starts with sorting: `Rank` is one to one (`RankOrders`) and therefore onto
(`RankOnto`), so `LoadRows` keeps the rows and puts each segment's together
(`LoadRowsSorts`).  `EmptyMeansSound` is not inductive, because the loop keeps only the
previous end; `IndInv` adds what it remembers (`Remembered`), that a row between two of
one segment is of that segment (`Grouped`, `Between`), and that the fields seen so far
follow one another (`Passed`, by `CheckRowPasses`).  `Bound` relates a bind to the rows it
has seen, `Placed` the bytes of the SDATA to the fields encoded so far.  For computed offsets
`Computed` says that each is the width of the segment's rows before it (`Widths`, a recursive
function: `WidthsDef`, `WidthsGrow`, `WidthsZero`), so that no sum wraps around; that sorted
rows stay where they are when they are loaded again (`LoadRowsStays`); and that the positions
validation has seen are those of the segment only.

**`XmlConversionProofs`** (`XmlAssumption`; `LiteralsAreStrings`, which says of six literals
that they are strings): all five invariants of the run, for files of any number of records,
any levels, segments and types:

* `XmlTypeCorrect`: `Spec => []TypeOK`;
* `XmlOpenLevelsIncrease`: the levels of the open segments increase;
* `XmlHierarchySurvives`: where no level is left out (`Gapless`) the recomputed PSGNUM is the
  last segment of the level above, as the header documents; with any gaps it is the nearest
  enclosing segment, and the level one below that;
* `XmlSegmentsSurvive`: every data record comes back in its place, and `sap_idoc_read_xml`
  shows it once;
* `XmlRoundTrip`: a canonical file is not refused, and comes back as it was.

The argument goes from phase to phase.  Grouping lays the documents out in the file
(`Grouped`).  While tags are written, the parser is run beside the emitter (`Run`, a recursive
function of the tags): what it has open is what the emitter has open (`SameOpen`), and what it
has gathered mirrors what was emitted, with the depth of a segment for its level
(`SameContent`); the chain of open segments names the ancestors of what comes next
(`IsChain`).  Hence what is parsed is laid out in the file and nested by the levels of its
records (`ParsedSoFar`), and the last segment of the level above is the parent
(`Flattened`, by `ParentFound`).  A level 0, which the emitter leaves open, makes the parser
fail before the end, so the invariant follows it (`ZeroIn`) only up to there.
`XmlAssumption` says that no data record is called EDI_DC40: a record that starts so is a
control record (idoc_format.cpp:30).

**`RecordCodecProofs`** (`CodecAssumption`, `WidthAssumption`): all six invariants of the run,
for records and fields of any length, any number of fields, values and digits:

* `CodecTypeCorrect`: `Spec => []TypeOK`;
* `CodecWrittenReadsBack`: a field that was encoded is read as it was put, cut or filled up to
  its width, and so is every field of a data and of a control record;
* `CodecRefusesExactlyMalformed`: encoders and readers refuse text that is not well formed,
  and nothing else;
* `CodecTextLossless`: decoded text is well formed and gives back the bytes of the field;
* `CodecTypedExact`: a typed column holds what the text denotes, and what is refused or NULL
  denotes nothing;
* `CodecFullScaleFits`: a decimal with all digits of its scale fits its column;
* `CodecStrictCheck`: `IsValidUtf8`, byte arithmetic in the code, accepts exactly the
  well-formed texts of the Unicode standard.

`CodecInv` says of each place of the run what is in the record (`RecordHolds`), in the row
read from it (`RowHolds`), in the cells (`CellsHold`) and in the SDATA, which is the fields
encoded so far, put one after the other into blanks (`SdataHolds`, `Composed`); `GetAfterSet`
and `GetBesideSet` are the two facts about `SetFieldRaw` and `GetFieldRaw` it rests on, and
that the fields of the control record lie apart is computed from its table.  For refusals
`RefusalInv` adds that what was encoded so far is well formed (`Clean`) and that the encoder
has stopped where it had to (`Stopped`).

A text is well formed, and passes the check, just if its positions can be tiled by
characters (`Tiling`, `WellFormedIsTiled`, `ValidIsTiled`).  A tiling is a set, so it can be
cut (`CutWellFormed`), moved (`CharacterMoved`) and joined, where recursion over the bytes
could not be reasoned about.  A decoded text is the joining of one piece per byte (`Joins`,
`Pieces`).  What a decimal denotes is stated by `IsWritten` without the code's reordering of
signs and splitting at the point: a number with each digit of the text at its place.  Then
`SignFirstLayout` says where the unsigned digits stand, `IsDecimalShape` what the reference
accepts, `NumberDigits` and `ScaledDigits` which digit of the number is which byte, and
`CastIsWritten` and `RoomFits` put the halves of `DecimalIsValue` together; `DateIsValue` and
`TimeIsValue` are the other two types.  `TypedExact` and `FullScaleFits` speak of fields
inside the SDATA (`InBounds`), as the readers' bind does.

**`InductionLemmas`**: the induction theorems of the library take an operator as a
parameter, which the provers cannot instantiate.  Here induction is about a set of numbers
(`NatSetInduction`, from well-foundedness), and existence of a recursive function about a
step function (`PrimitiveRecursion`), so both can be cited.

Only model-checked: liveness, which is out of the provers' reach (`Terminates` of the reader
and of the scan).  Every other property of a passing run
is stated by a theorem.

## 5. Where the code and its documents differ

With a run that finds the counterexample:

* `stream_detection`: `DetectFraming` calls an LF file of one control and 1062 data
  records FIXED, because its length is that of a fixed-width walk; the streaming
  detection calls it LF.
* `copy_move_fails`: the target is removed before the rename; when the rename fails,
  the destructor removes the complete temporary file as well.
* `copy_same_target`: two COPYs to one target at the same time share the temporary file,
  and the first to finish publishes a truncated one.  The other COPY run assumes
  (`Exclusive`) that a target has one COPY at a time.
* `xml_gapped_levels`: where a level is skipped, the last segment of the level above may be
  closed already; for levels 1, 2, 1, 3 the last one nests in #3, while idoc_xml.hpp:33 says
  "the most recent preceding segment at level L-1", #2.  `HierarchySurvives` claims the
  documented parent where no level is left out, the enclosing segment everywhere.

Met while modelling, part of the models, without a run of their own:

* a last line without its line feed is judged differently by streaming and by `ParseImage`
  (`EmitLine` against `WalkTerminated`), whose semantics idoc_format.hpp:117 calls identical:
  streaming strips its CR and checks its length, `SplitRecords` takes it as it stands.
  `ImplementsFeed` therefore compares with the file completed by that line feed;
* a lenient read of a terminated file hands out its partial last line (or a line of the
  wrong length) as a record (`EmitLine`), and `GetFieldRaw` of the readers then throws;
  test_idoc_stream.cpp:127 says "salvages every complete record, drops the partial".
  `SalvagesComplete` claims the first half only;
* a file shorter than a control record makes automatic detection throw also when `lenient`
  is set (`Detect`; idoc_format.hpp:127 says it stops cleanly); nothing is claimed of it but
  that the reader ends;
* when the destructor's `RemoveFile` fails, a failed COPY leaves its temporary file
  (`CleanUp`); idoc_copy.cpp:30 says it "never leaves a file behind".  `NothingLeft` names
  these files;
* a segment with HLEVEL 00 is never closed (`CloseRest`), and `ParseIdocXml` refuses the
  result;
* lenient reading of a line that is too long but terminated depends on the sizes of
  the reads (`TooLong` looks at the buffer, not at the line);
* `offset + length` of a dictionary row may overflow, and validation then reports
  nothing; the validation properties therefore assume `NoOverflow`;
* fields whose positions are not in the order of their offsets are reported as
  overlapping (`Overlaps`);
* a blank basic type gives a root named IDOC, which `ParseIdocXml` takes for a document
  (`RootIsIdoc`);
* a NULL offset or length is 0 to validation, while the readers' binds fail on it;
  idoc_dict.cpp says of validation "An empty result means the dictionary is structurally
  sound".  `ValidatedBinds` names the exception;
* a plus before a trailing minus is no error: `+5-` is read as "-+5" and refused, but
  `+-5` is -5 (`SignFirst`, `IsDecimal`);
* with strict typed reads a decimal with more whole digits than width minus scale is
  refused, though the message expects "a decimal with at most N fractional digits":
  `FullScaleFits` states which values fit for certain;
* `decimals + 1` of a dictionary overflows when `decimals` is the largest BIGINT
  (`Width`); the model's scales are small;
* `ZeroPad` keeps the low-order digits of a number that is too wide; idoc_format.hpp:181
  says it "truncates the low digits" (`WrittenReadsBack` claims the numbers that fit);
* `EncodeSdata` cuts a value at the bytes of its field: a cut inside a character makes
  `sap_idoc_encode_sdata` fail, unless a later field overwrites the rest
  (`RefusesExactlyMalformed`); in a data or control record it makes the readers fail.

## 6. What is not modelled

* The text of XML: escaping, indentation, tinyxml2.  The converter is modelled on tags.
* The options of the binds, among them the alias names of an encoding and of a framing
  (`ResolveEncoding`, `FramingFromString`): string comparisons.
* The columns of a dictionary that only carry text, and the source of a dictionary
  (`DictSource`): the model starts at the rows a query returns.
* The SQL macros and recipes (SQL text), registration, telemetry, packaging.
* The cap on the decoded size of XML input and the read of a whole XML file, which are the
  file system's.
* A header field whose text is not a number where the converter calls `stoi`: a level is
  a number in `XmlConversion`.

## 7. Plan

Done, in the order of importance: `IdocFormat` and `RecordStreamer` with their proofs and
the refinement of `RecordFeed`; `ParallelScan` with its proofs and the refinement of
`ScanResult`; `CopyWriter`, `SegmentDictionary` and `XmlConversion` with their proofs;
`TextEncoding`, `TypedValue` and `RecordCodec` with theirs.

Next, modelling: a composition of `RecordStreamer` and `ParallelScan` in which the feed of a
file is the streamer instead of its promise.
