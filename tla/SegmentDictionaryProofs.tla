----------------------- MODULE SegmentDictionaryProofs -----------------------
(***************************************************************************)
(* The safety properties of SegmentDictionary, for every set of            *)
(* dictionaries, every length of an SDATA and every width of the integers. *)
(*                                                                         *)
(* First that sorting is a rearrangement (LoadRowsSorts); then IndInv, in  *)
(* four parts: types, what validation has seen, what the encoder has       *)
(* written, and where computed offsets lie.                                *)
(***************************************************************************)
EXTENDS SegmentDictionary, InductionLemmas, FiniteSetTheorems, TLAPS

-----------------------------------------------------------------------------
(* Facts about the constants and about rows.                               *)

\* The widths, in the order the program has them.
LEMMA ConstantFacts ==
  /\ SDATA_LEN \in Nat
  /\ SDATA_LEN > 0
  /\ INT32_MAX \in Nat
  /\ INT64_MAX \in Nat
  /\ SDATA_LEN <= INT32_MAX
  /\ 2 * INT32_MAX <= INT64_MAX
BY DictionaryAssumption

\* The columns of a row are numbers.
LEMMA RowFacts ==
  ASSUME NEW d \in Seq(DictRow), NEW i \in DOMAIN d
  PROVE  /\ d[i] \in DictRow
         /\ d[i].segnam \in Nat
         /\ d[i].field_pos \in Int64 /\ d[i].field_pos \in Int
         /\ d[i].offset \in Int64 /\ d[i].offset \in Int
         /\ d[i].length \in Int64 /\ d[i].length \in Int
         /\ i \in Nat
<1>1. d[i] \in DictRow
  OBVIOUS
<1>2. /\ d[i].segnam \in Nat
      /\ d[i].field_pos \in Int64 /\ d[i].offset \in Int64 /\ d[i].length \in Int64
  BY <1>1 DEF DictRow
<1>3. \A n \in Int64 : n \in Int
  BY ConstantFacts DEF Int64
<1>4. i \in Nat
  OBVIOUS
<1> QED
  BY <1>1, <1>2, <1>3, <1>4

-----------------------------------------------------------------------------
(* LoadRows sorts.                                                         *)

Before(d, i) == {j \in DOMAIN d : Precedes(d, j, i)}
Rank(d, i) == Cardinality(Before(d, i)) + 1

\* Precedes is a strict total order of the rows.
LEMMA PrecedesOrders ==
  ASSUME NEW d \in Seq(DictRow), NEW i \in DOMAIN d, NEW j \in DOMAIN d, NEW k \in DOMAIN d
  PROVE  /\ ~Precedes(d, i, i)
         /\ i # j => Precedes(d, i, j) \/ Precedes(d, j, i)
         /\ Precedes(d, i, j) /\ Precedes(d, j, k) => Precedes(d, i, k)
BY RowFacts DEF Precedes

\* Ranks respect the order and lie in the domain.
LEMMA RankOrders ==
  ASSUME NEW d \in Seq(DictRow), NEW i \in DOMAIN d
  PROVE  /\ Rank(d, i) \in 1..Len(d)
         /\ \A j \in DOMAIN d : Precedes(d, i, j) => Rank(d, i) < Rank(d, j)
<1>1. IsFiniteSet(DOMAIN d) /\ Cardinality(DOMAIN d) = Len(d) /\ Len(d) \in Nat
  <2>1. DOMAIN d = 1..Len(d) /\ Len(d) \in Nat
    OBVIOUS
  <2>2. Len(d) \in Int /\ 1 \in Int /\ (IF 1 > Len(d) THEN 0 ELSE Len(d) - 1 + 1) = Len(d)
    BY <2>1
  <2>3. IsFiniteSet(1..Len(d)) /\ Cardinality(1..Len(d)) = Len(d)
    BY <2>2, FS_Interval, Zenon
  <2> QED
    BY <2>1, <2>3, Zenon
<1>2. \A j \in DOMAIN d : IsFiniteSet(Before(d, j)) /\ Cardinality(Before(d, j)) \in Nat
  BY <1>1, FS_Subset, FS_CardinalityType DEF Before
<1>3. Rank(d, i) \in 1..Len(d)
  <2>1. Before(d, i) \in SUBSET DOMAIN d /\ i \notin Before(d, i)
    BY PrecedesOrders DEF Before
  <2>2. Cardinality(Before(d, i)) <= Len(d) /\ Cardinality(Before(d, i)) # Len(d)
    BY <1>1, <2>1, FS_Subset
  <2> QED
    BY <1>1, <1>2, <2>2 DEF Rank
<1>4. ASSUME NEW j \in DOMAIN d, Precedes(d, i, j)
      PROVE  Rank(d, i) < Rank(d, j)
  <2>1. Before(d, i) \in SUBSET Before(d, j)
    BY <1>4, PrecedesOrders DEF Before
  <2>2. i \in Before(d, j) /\ i \notin Before(d, i)
    BY <1>4, PrecedesOrders DEF Before
  <2>3. /\ Cardinality(Before(d, i)) <= Cardinality(Before(d, j))
        /\ Cardinality(Before(d, i)) # Cardinality(Before(d, j))
    BY <1>2, <2>1, <2>2, FS_Subset
  <2> QED
    BY <1>2, <2>3 DEF Rank
<1> QED
  BY <1>3, <1>4

\* Every place of the sorted dictionary is taken.
LEMMA RankOnto ==
  ASSUME NEW d \in Seq(DictRow), NEW k \in 1..Len(d)
  PROVE  \E i \in DOMAIN d : Rank(d, i) = k
<1> DEFINE f == [i \in 1..Len(d) |-> Rank(d, i)]
<1>1. DOMAIN d = 1..Len(d) /\ Len(d) \in Nat
  OBVIOUS
<1>2. f \in [1..Len(d) -> 1..Len(d)]
  BY <1>1, RankOrders
<1>3. \A i, j \in 1..Len(d) : f[i] = f[j] => i = j
  <2> SUFFICES ASSUME NEW i \in 1..Len(d), NEW j \in 1..Len(d), i # j
               PROVE  f[i] # f[j]
    OBVIOUS
  <2>1. Precedes(d, i, j) \/ Precedes(d, j, i)
    BY <1>1, PrecedesOrders
  <2>2. Rank(d, i) < Rank(d, j) \/ Rank(d, j) < Rank(d, i)
    BY <1>1, <2>1, RankOrders
  <2>3. Rank(d, i) \in Int /\ Rank(d, j) \in Int
    BY <1>1, RankOrders
  <2> QED
    BY <2>2, <2>3
<1>4. f \in Injection(1..Len(d), 1..Len(d))
  BY <1>2, <1>3 DEF Injection, IsInjective
<1>5. IsFiniteSet(1..Len(d))
  BY <1>1, FS_Interval
<1> HIDE DEF f
<1>6. f \in Surjection(1..Len(d), 1..Len(d))
  BY <1>4, <1>5, FS_Injection
<1>7. \E i \in 1..Len(d) : f[i] = k
  BY <1>6 DEF Surjection
<1> QED
  BY <1>1, <1>7 DEF f

\* The loaded rows are the given ones, sorted by segment, and each before the next.
LEMMA LoadRowsSorts ==
  ASSUME NEW d \in Seq(DictRow)
  PROVE  /\ LoadRows(d) \in Seq(DictRow)
         /\ Len(LoadRows(d)) = Len(d)
         /\ \A k \in DOMAIN LoadRows(d) : \E i \in DOMAIN d : LoadRows(d)[k] = d[i]
         /\ \A k, l \in DOMAIN LoadRows(d) :
              k <= l => LoadRows(d)[k].segnam <= LoadRows(d)[l].segnam
         /\ \A k, l \in DOMAIN LoadRows(d) : k < l => Precedes(LoadRows(d), k, l)
<1> DEFINE at(k) == CHOOSE i \in DOMAIN d : Rank(d, i) = k
<1>1. LoadRows(d) = [k \in 1..Len(d) |-> d[at(k)]]
  BY DEF LoadRows, Rank, Before
<1>2. \A k \in 1..Len(d) : at(k) \in DOMAIN d /\ Rank(d, at(k)) = k
  BY RankOnto
<1> HIDE DEF at
<1>3. \A k \in 1..Len(d) : LoadRows(d)[k] = d[at(k)]
  BY <1>1
<1>4. Len(d) \in Nat /\ DOMAIN LoadRows(d) = 1..Len(d)
  BY <1>1
<1>5. LoadRows(d) \in [1..Len(d) -> DictRow]
  BY <1>1, <1>2, RowFacts
<1>6. LoadRows(d) \in Seq(DictRow) /\ Len(LoadRows(d)) = Len(d)
  BY <1>4, <1>5
<1>7. ASSUME NEW k \in 1..Len(d), NEW l \in 1..Len(d), k <= l
      PROVE  d[at(k)].segnam <= d[at(l)].segnam
  <2>1. k = l \/ k < l
    BY <1>7
  <2>2. CASE k = l
    BY <1>2, <2>2, RowFacts
  <2>3. CASE k < l
    <3>1. ~Precedes(d, at(l), at(k))
      BY <1>2, <1>7, <2>3, RankOrders
    <3>2. Precedes(d, at(k), at(l))
      BY <1>2, <2>3, <3>1, PrecedesOrders
    <3> QED
      BY <1>2, <3>2, RowFacts DEF Precedes
  <2> QED
    BY <2>1, <2>2, <2>3
<1>8. ASSUME NEW k \in 1..Len(d), NEW l \in 1..Len(d), k < l
      PROVE  Precedes(LoadRows(d), k, l)
  <2>1. ~Precedes(d, at(l), at(k)) /\ at(k) # at(l)
    BY <1>2, <1>8, RankOrders
  <2>2. Precedes(d, at(k), at(l))
    BY <1>2, <2>1, PrecedesOrders
  <2>3. LoadRows(d)[k] = d[at(k)] /\ LoadRows(d)[l] = d[at(l)]
    BY <1>3
  <2> QED
    BY <1>8, <2>2, <2>3 DEF Precedes
<1>9. /\ \A k \in DOMAIN LoadRows(d) : \E i \in DOMAIN d : LoadRows(d)[k] = d[i]
      /\ \A k, l \in DOMAIN LoadRows(d) :
           k <= l => LoadRows(d)[k].segnam <= LoadRows(d)[l].segnam
  BY <1>2, <1>3, <1>4, <1>7
<1> QED
  BY <1>4, <1>6, <1>8, <1>9

-----------------------------------------------------------------------------
(* The inductive invariant.                                                *)

\* TypeOK, the type of what TypeOK leaves alone, and what is imported so far.
Types ==
  /\ TypeOK
  /\ given \in Seq(DictRow)
  /\ segment \in Nat
  /\ pc = "offsets" => origin = "offsets"
  /\ pc \in {"import", "offsets"} => seen_pos = {}
  /\ pc = "import" =>
       \A i \in 1..(next - 1) : rows[i].offset <= INT32_MAX /\ rows[i].length <= INT32_MAX

\* The rows are in their final order.
Loaded == pc \notin {"import", "offsets"}

Grouped ==
  Loaded => \A i, j \in DOMAIN rows : i <= j => rows[i].segnam <= rows[j].segnam

\* What the loop of ValidateInit knows of the row before this one.
Remembered ==
  pc = "validate" /\ next > 1 =>
    LET last == rows[next - 1]
    IN  /\ prev_end = Wrapped(last.offset + last.length)
        /\ \A i \in 1..(next - 1) :
             rows[i].segnam = last.segnam => rows[i].field_pos \in seen_pos

\* The first n rows are sound: each field ends before the next of its segment begins.
SoundUpTo(n) ==
  /\ \A i \in 1..n : InBounds(rows[i]) /\ rows[i].length > 0
  /\ \A i, j \in 1..n :
       i < j /\ rows[i].segnam = rows[j].segnam =>
         /\ rows[i].offset + rows[i].length <= rows[j].offset
         /\ rows[i].field_pos # rows[j].field_pos

\* The rows that validation has seen, if it found nothing wrong.
Passed ==
  Loaded /\ NoOverflow /\ problems = {} =>
    SoundUpTo(IF pc = "validate" THEN next - 1 ELSE Len(rows))

\* The rows that a bind has seen.
Bound ==
  /\ pc = "bind" => \A i \in 1..(next - 1) : InBounds(rows[i])
  /\ pc \in {"encode", "done"} => \A i \in DOMAIN rows : InBounds(rows[i])
  /\ pc = "refused" => \E i \in DOMAIN rows : rows[i].null # {} \/ ~InBounds(rows[i])

\* The fields that are encoded so far own their bytes.
Placed ==
  /\ pc \in {"encode", "done"} /\ problems = {} =>
       \A i \in 1..(next - 1) : rows[i].segnam = segment =>
         \A b \in BytesOf(rows[i]) : sdata[b] = i
  /\ pc = "done" => next = Len(rows) + 1

\* What OffsetsPass asks of the given rows.
Fitting ==
  /\ origin = "offsets"
  /\ \A i \in DOMAIN given : given[i].length > 0 /\ Fits(given[i].segnam)
  /\ \A i, j \in DOMAIN given :
       i # j /\ given[i].segnam = given[j].segnam => given[i].field_pos # given[j].field_pos

\* Then the offsets are the widths of the fields before, the rows stay where they are,
\* the positions seen are those of the segment, and nothing is found.
Computed ==
  Fitting =>
    /\ pc # "import"
    /\ \A i, j \in DOMAIN given : i < j => Precedes(given, i, j)
    /\ \A i \in DOMAIN rows :
         /\ rows[i].segnam = given[i].segnam
         /\ rows[i].field_pos = given[i].field_pos
         /\ rows[i].length = given[i].length
    /\ \A i \in 1..(IF pc = "offsets" THEN next - 1 ELSE Len(rows)) :
         rows[i].offset = Widths(given, given[i].segnam)[i - 1]
    /\ pc = "offsets" /\ next > 1 =>
         running = Widths(given, given[next - 1].segnam)[next - 1]
    /\ pc = "validate" /\ next > 1 =>
         \A p \in seen_pos : \E i \in 1..(next - 1) :
           rows[i].segnam = rows[next - 1].segnam /\ rows[i].field_pos = p
    /\ problems = {}

IndInv == Types /\ Grouped /\ Remembered /\ Passed /\ Bound /\ Placed /\ Computed

-----------------------------------------------------------------------------
(* Arithmetic.                                                             *)

\* Narrowed gives an INTEGER.
LEMMA NarrowedRange ==
  ASSUME NEW n \in Int
  PROVE  Narrowed(n) \in Int64 /\ Narrowed(n) <= INT32_MAX
<1> DEFINE m == 2 * (INT32_MAX + 1)
<1>1. m \in Nat /\ m > 0 /\ n + INT32_MAX + 1 \in Int
  BY ConstantFacts
<1> HIDE DEF m
<1>2. (n + INT32_MAX + 1) % m \in 0..(m - 1)
  BY <1>1
<1>3. Narrowed(n) = ((n + INT32_MAX + 1) % m) - INT32_MAX - 1
  BY DEF Narrowed, m
<1>4. m = 2 * (INT32_MAX + 1)
  BY DEF m
<1> QED
  BY <1>2, <1>3, <1>4, ConstantFacts DEF Int64

\* A sum of two numbers wraps around at most once.
LEMMA WrappedRange ==
  ASSUME NEW a \in Int64, NEW b \in Int64
  PROVE  Wrapped(a + b) \in Int64
BY ConstantFacts DEF Int64, Wrapped

\* The end of a field within int64_t, from the first byte on, is what it seems.
LEMMA WrappedEnd ==
  ASSUME NEW d \in Seq(DictRow), NEW i \in DOMAIN d, d[i].offset >= 0, d[i].length >= 0
  PROVE  d[i].offset + d[i].length <= INT64_MAX =>
           Wrapped(d[i].offset + d[i].length) = d[i].offset + d[i].length
BY ConstantFacts, RowFacts DEF Wrapped

\* The check of the converter and that of the readers are one.
LEMMA SlicesInBounds ==
  ASSUME NEW d \in Seq(DictRow), NEW i \in DOMAIN d
  PROVE  Slices(d[i]) <=> InBounds(d[i])
<1>1. ASSUME NEW a \in Int64, NEW b \in Int64, a >= 0, b >= 0
      PROVE  Wrapped(a + b) \in 0..SDATA_LEN <=> a <= SDATA_LEN /\ b <= SDATA_LEN - a
  BY <1>1, ConstantFacts DEF Wrapped, Int64
<1>2. d[i].offset \in Int64 /\ d[i].length \in Int64
  BY RowFacts
<1> QED
  BY <1>1, <1>2 DEF Slices, InBounds

-----------------------------------------------------------------------------
(* Types.                                                                  *)

LEMMA TypesInit == Init => Types
<1> SUFFICES ASSUME Init PROVE Types
  OBVIOUS
<1>1. PICK d \in Dictionaries : given = IF origin = "fields" THEN d ELSE LoadRows(d)
  BY DEF Init
<1>2. d \in Seq(DictRow)
  BY DictionaryAssumption
<1>3. given \in Seq(DictRow)
  BY <1>1, <1>2, LoadRowsSorts
<1>4. rows = given /\ Len(rows) \in Nat
  BY <1>3 DEF Init
<1>5. sdata \in [1..SDATA_LEN -> 0..Len(rows)]
  BY <1>4 DEF Init, Blank
<1>6. 0 \in Int64 /\ -1 \in Int64
  BY ConstantFacts DEF Int64
<1> QED
  BY <1>3, <1>4, <1>5, <1>6 DEF Init, Types, TypeOK

LEMMA TypesStep == Types /\ [Next]_vars => Types'
<1> SUFFICES ASSUME Types, [Next]_vars PROVE Types'
  OBVIOUS
<1>1. /\ rows \in Seq(DictRow) /\ Len(rows) \in Nat /\ DOMAIN rows = 1..Len(rows)
      /\ next \in 1..(Len(rows) + 1) /\ next \in Int
      /\ given \in Seq(DictRow) /\ Len(rows) = Len(given)
      /\ running \in Int64 /\ prev_end \in Int64 /\ segment \in Nat
      /\ sdata \in [1..SDATA_LEN -> 0..Len(rows)]
  BY DEF Types, TypeOK
<1>2. 0 \in Int64 /\ -1 \in Int64
  BY ConstantFacts DEF Int64
<1>3. CASE ImportField
  <2> DEFINE row == [rows[next] EXCEPT !.field_pos = Narrowed(@), !.offset = Narrowed(@),
                                       !.length = Narrowed(@)]
  <2>1. rows[next] \in DictRow /\ next \in DOMAIN rows
    BY <1>3 DEF ImportField, Types, TypeOK
  <2>2. row \in DictRow /\ row.offset <= INT32_MAX /\ row.length <= INT32_MAX
    BY <1>1, <2>1, RowFacts, NarrowedRange DEF DictRow
  <2>3. rows' = [rows EXCEPT ![next] = row]
    BY <1>3, <1>1, <2>1 DEF ImportField, DictRow
  <2> HIDE DEF row
  <2>4. rows' \in Seq(DictRow) /\ Len(rows') = Len(rows)
    BY <1>1, <2>1, <2>2, <2>3
  <2>5. ASSUME NEW i \in 1..next
        PROVE  rows'[i].offset <= INT32_MAX /\ rows'[i].length <= INT32_MAX
    <3>1. CASE i = next
      BY <1>1, <2>1, <2>2, <2>3, <3>1
    <3>2. CASE i # next
      <4>1. i \in 1..(next - 1) /\ i \in DOMAIN rows
        BY <1>1, <2>1, <3>2
      <4>2. rows'[i] = rows[i]
        BY <2>3, <3>2, <4>1
      <4> QED
        BY <1>3, <4>1, <4>2 DEF ImportField, Types
    <3> QED
      BY <3>1, <3>2
  <2> QED
    BY <1>1, <1>3, <2>1, <2>4, <2>5 DEF ImportField, Types, TypeOK
<1>4. CASE Offset
  <2> DEFINE start == IF FirstOfSegment(next) THEN 0 ELSE running
             row == [rows[next] EXCEPT !.offset = start, !.null = {}]
  <2>1. rows[next] \in DictRow /\ next \in DOMAIN rows /\ start \in Int64
    BY <1>1, <1>2, <1>4 DEF Offset
  <2>2. row \in DictRow
    BY <2>1 DEF DictRow
  <2>3. rows' = [rows EXCEPT ![next] = row] /\ running' = Wrapped(start + rows[next].length)
    BY <1>1, <1>4, <2>1 DEF Offset, DictRow
  <2>4. running' \in Int64
    BY <1>1, <2>1, <2>3, RowFacts, WrappedRange
  <2> HIDE DEF row
  <2>5. rows' \in Seq(DictRow) /\ Len(rows') = Len(rows)
    BY <1>1, <2>1, <2>2, <2>3
  <2> QED
    BY <1>1, <1>4, <2>1, <2>4, <2>5 DEF Offset, Types, TypeOK
<1>5. CASE Validate
  <2>1. /\ rows' \in Seq(DictRow) /\ Len(rows') = Len(rows)
        /\ \A k \in DOMAIN rows' : \E i \in DOMAIN rows : rows'[k] = rows[i]
    BY <1>1, <1>5, LoadRowsSorts DEF Validate
  <2>2. DOMAIN rows' = DOMAIN rows
    BY <1>1, <2>1
  <2>3. origin = "fields" => \A k \in DOMAIN rows' :
          rows'[k].offset <= INT32_MAX /\ rows'[k].length <= INT32_MAX
    BY <1>1, <1>5, <2>1 DEF Validate, Types, TypeOK
  <2> QED
    BY <1>1, <1>5, <2>1, <2>2, <2>3 DEF Validate, Types, TypeOK
<1>6. CASE CheckRow
  <2>1. rows[next] \in DictRow /\ next \in DOMAIN rows
    BY <1>1, <1>6 DEF CheckRow
  <2>2. prev_end' \in Int64
    BY <1>1, <1>6, <2>1, RowFacts, WrappedRange DEF CheckRow
  <2>3. seen_pos' \subseteq {rows[i].field_pos : i \in DOMAIN rows}
    BY <1>6, <2>1 DEF CheckRow, Types, TypeOK
  <2>4. \A p \in problems' : p.row \in DOMAIN rows
    BY <1>6, <2>1 DEF CheckRow, Found, Types, TypeOK
  <2> QED
    BY <1>1, <1>6, <2>1, <2>2, <2>3, <2>4 DEF CheckRow, Types, TypeOK
<1>7. CASE Bind
  BY <1>1, <1>7 DEF Bind, Types, TypeOK
<1>8. CASE BindRow
  BY <1>1, <1>8 DEF BindRow, Types, TypeOK
<1>9. CASE Encode
  <2>1. segment' \in Nat
    BY <1>1, <1>9, RowFacts DEF Encode
  <2> QED
    BY <1>1, <1>9, <2>1 DEF Encode, Types, TypeOK
<1>10. CASE EncodeField
  <2>1. next \in DOMAIN rows /\ next \in 0..Len(rows)
    BY <1>1, <1>10 DEF EncodeField
  <2>2. sdata' \in [1..SDATA_LEN -> 0..Len(rows)]
    BY <1>1, <1>10, <2>1 DEF EncodeField
  <2> QED
    BY <1>1, <1>10, <2>1, <2>2 DEF EncodeField, Types, TypeOK
<1>11. CASE Encoded
  BY <1>1, <1>11 DEF Encoded, Types, TypeOK
<1>12. CASE UNCHANGED vars
  BY <1>12 DEF vars, Types, TypeOK
<1> QED
  BY <1>3, <1>4, <1>5, <1>6, <1>7, <1>8, <1>9, <1>10, <1>11, <1>12 DEF Next

-----------------------------------------------------------------------------
(* What validation has seen.                                               *)

\* The facts about the sequence of rows every step uses.
LEMMA RowsType ==
  ASSUME Types
  PROVE  /\ rows \in Seq(DictRow) /\ Len(rows) \in Nat /\ DOMAIN rows = 1..Len(rows)
         /\ next \in Int /\ next >= 1 /\ next <= Len(rows) + 1
         /\ \A i \in DOMAIN rows :
              /\ rows[i].segnam \in Nat /\ rows[i].field_pos \in Int
              /\ rows[i].offset \in Int64 /\ rows[i].offset \in Int
              /\ rows[i].length \in Int64 /\ rows[i].length \in Int
<1>1. rows \in Seq(DictRow) /\ next \in 1..(Len(rows) + 1)
  BY DEF Types, TypeOK
<1> QED
  BY <1>1, RowFacts

\* Sorted rows have their segments together.
LEMMA GroupedStep == Types /\ Grouped /\ [Next]_vars => Grouped'
<1> SUFFICES ASSUME Types, Grouped, [Next]_vars PROVE Grouped'
  OBVIOUS
<1>1. CASE ImportField
  BY <1>1 DEF ImportField, Grouped, Loaded
<1>2. CASE Offset
  BY <1>2 DEF Offset, Grouped, Loaded
<1>3. CASE Validate
  BY <1>3, RowsType, LoadRowsSorts DEF Validate, Grouped, Loaded
<1>4. CASE CheckRow \/ Bind \/ BindRow \/ Encode \/ EncodeField \/ Encoded \/ UNCHANGED vars
  BY <1>4 DEF CheckRow, Bind, BindRow, Encode, EncodeField, Encoded, vars, Grouped, Loaded
<1> QED
  BY <1>1, <1>2, <1>3, <1>4 DEF Next

\* In sorted rows, a row between two of one segment is of that segment.
LEMMA Between ==
  ASSUME Types, Grouped, Loaded,
         NEW i \in DOMAIN rows, NEW j \in DOMAIN rows, i < j, rows[i].segnam = rows[j].segnam
  PROVE  j - 1 \in DOMAIN rows /\ i <= j - 1 /\ rows[j - 1].segnam = rows[j].segnam
<1>1. j - 1 \in DOMAIN rows /\ i <= j - 1 /\ j - 1 <= j /\ i \in Int /\ j \in Int
  BY RowsType
<1>2. rows[i].segnam <= rows[j - 1].segnam /\ rows[j - 1].segnam <= rows[j].segnam
  BY <1>1 DEF Grouped
<1> QED
  BY <1>1, <1>2, RowsType

\* The loop remembers the last row's end and the positions of its segment.
LEMMA RememberedStep == Types /\ Grouped /\ Remembered /\ [Next]_vars => Remembered'
<1> SUFFICES ASSUME Types, Grouped, Remembered, [Next]_vars PROVE Remembered'
  OBVIOUS
<1>1. CASE CheckRow
  <2>1. /\ next \in DOMAIN rows /\ next' = next + 1 /\ rows' = rows /\ pc' = pc
        /\ pc = "validate" /\ Loaded
    BY <1>1 DEF CheckRow, Loaded
  <2>2. prev_end' = Wrapped(rows[next].offset + rows[next].length)
    BY <1>1 DEF CheckRow
  <2>3. rows[next].field_pos \in seen_pos'
    BY <1>1 DEF CheckRow
  <2>4. ASSUME NEW i \in 1..next, rows[i].segnam = rows[next].segnam
        PROVE  rows[i].field_pos \in seen_pos'
    <3>1. CASE i = next
      BY <2>3, <3>1
    <3>2. CASE i # next
      <4>1. i \in DOMAIN rows /\ i < next /\ i \in 1..(next - 1) /\ next > 1
        BY <2>1, <3>2, RowsType
      <4>2. rows[next - 1].segnam = rows[next].segnam
        BY <2>1, <2>4, <4>1, Between
      <4>3. rows[i].field_pos \in seen_pos
        BY <2>1, <2>4, <4>1, <4>2 DEF Remembered
      <4>4. ~FirstOfSegment(next)
        BY <4>1, <4>2 DEF FirstOfSegment
      <4> QED
        BY <1>1, <4>3, <4>4 DEF CheckRow
    <3> QED
      BY <3>1, <3>2
  <2>5. next' - 1 = next
    BY <2>1, RowsType
  <2> QED
    BY <2>1, <2>2, <2>4, <2>5 DEF Remembered
<1>2. CASE ImportField \/ Offset \/ Bind \/ BindRow \/ Encode \/ EncodeField \/ Encoded
  BY <1>2 DEF ImportField, Offset, Bind, BindRow, Encode, EncodeField, Encoded, Remembered
<1>3. CASE Validate
  BY <1>3 DEF Validate, Remembered
<1>4. CASE UNCHANGED vars
  BY <1>4 DEF vars, Remembered
<1> QED
  BY <1>1, <1>2, <1>3, <1>4 DEF Next

\* A row in which nothing is wrong lies within the SDATA.
LEMMA RowInBounds ==
  ASSUME NEW d \in Seq(DictRow), NEW i \in DOMAIN d,
         d[i].offset + d[i].length <= INT64_MAX, ~BadBounds(d[i]), ~Exceeds(d[i])
  PROVE  InBounds(d[i]) /\ d[i].length > 0
<1>1. d[i].offset >= 0 /\ d[i].length > 0
  BY RowFacts DEF BadBounds
<1>2. Wrapped(d[i].offset + d[i].length) = d[i].offset + d[i].length
  BY <1>1, RowFacts, WrappedEnd
<1> QED
  BY <1>1, <1>2, ConstantFacts, RowFacts DEF Exceeds, InBounds

\* One row more is sound when nothing is found wrong with it: it starts after the
\* previous field of its segment, which starts after all others.
LEMMA CheckRowPasses ==
  ASSUME Types, Grouped, Remembered, CheckRow, NoOverflow, problems' = {},
         problems = {} => SoundUpTo(next - 1)
  PROVE  SoundUpTo(next)
<1> DEFINE r == rows[next]
           end == IF FirstOfSegment(next) THEN -1 ELSE prev_end
           seen == IF FirstOfSegment(next) THEN {} ELSE seen_pos
<1>1. next \in DOMAIN rows /\ pc = "validate" /\ Loaded
  BY DEF CheckRow, Loaded
<1>2. problems = {} /\ Found(next, r, end, seen) = {}
  BY DEF CheckRow
<1>3. ProblemsOf(r, end, seen) = {}
  BY <1>2 DEF Found
<1>4. ~BadBounds(r) /\ ~Exceeds(r) /\ ~Overlaps(r, end) /\ r.field_pos \notin seen
  BY <1>3 DEF ProblemsOf
<1>5. SoundUpTo(next - 1)
  BY <1>2
<1>6. InBounds(r) /\ r.length > 0
  BY <1>1, <1>4, RowsType, RowInBounds DEF NoOverflow
<1>7. ASSUME NEW i \in 1..(next - 1), rows[i].segnam = r.segnam
      PROVE  rows[i].offset + rows[i].length <= r.offset /\ rows[i].field_pos # r.field_pos
  <2>1. i \in DOMAIN rows /\ i < next /\ next > 1 /\ next - 1 \in 1..(next - 1)
    BY <1>1, RowsType
  <2>2. next - 1 \in DOMAIN rows /\ i <= next - 1 /\ rows[next - 1].segnam = r.segnam
    BY <1>1, <1>7, <2>1, Between
  <2>3. ~FirstOfSegment(next)
    BY <2>1, <2>2 DEF FirstOfSegment
  <2>4. end = Wrapped(rows[next - 1].offset + rows[next - 1].length)
    BY <1>1, <2>1, <2>3 DEF Remembered
  <2>5. rows[next - 1].offset >= 0 /\ rows[next - 1].length > 0
    BY <1>5, <2>1 DEF SoundUpTo, InBounds
  <2>6. end = rows[next - 1].offset + rows[next - 1].length /\ end >= 0
    <3>1. /\ rows[next - 1].offset + rows[next - 1].length <= INT64_MAX
          /\ rows[next - 1].offset \in Int /\ rows[next - 1].length \in Int
          /\ rows[next - 1].length >= 0 /\ rows \in Seq(DictRow)
      BY <2>2, <2>5, RowsType DEF NoOverflow
    <3>2. end = rows[next - 1].offset + rows[next - 1].length
      BY <2>2, <2>4, <2>5, <3>1, WrappedEnd
    <3> QED
      BY <2>5, <3>1, <3>2
  <2>7. end <= r.offset
    BY <1>1, <1>4, <2>2, <2>6, RowsType DEF Overlaps
  <2>8. rows[i].offset + rows[i].length <= end
    <3>1. CASE i = next - 1
      BY <2>2, <2>6, <3>1, RowsType
    <3>2. CASE i < next - 1
      <4>1. rows[i].offset + rows[i].length <= rows[next - 1].offset
        BY <1>5, <1>7, <2>1, <2>2, <3>2 DEF SoundUpTo
      <4> QED
        BY <2>1, <2>2, <2>5, <2>6, <4>1, RowsType
    <3> QED
      BY <2>1, <2>2, <3>1, <3>2, RowsType
  <2>9. rows[i].field_pos \in seen
    BY <1>1, <1>7, <2>1, <2>2, <2>3 DEF Remembered
  <2> QED
    BY SMTT(30), <1>1, <1>4, <2>1, <2>2, <2>6, <2>7, <2>8, <2>9, RowsType
<1>8. ASSUME NEW i \in 1..next PROVE i = next \/ i \in 1..(next - 1)
  BY RowsType
<1>9. next \in Int
  BY RowsType
<1> HIDE DEF r, end, seen
<1>10. \A i \in 1..next : InBounds(rows[i]) /\ rows[i].length > 0
  BY <1>5, <1>6, <1>8 DEF SoundUpTo, r
<1>11. ASSUME NEW i \in 1..next, NEW j \in 1..next, i < j, rows[i].segnam = rows[j].segnam
       PROVE  /\ rows[i].offset + rows[i].length <= rows[j].offset
              /\ rows[i].field_pos # rows[j].field_pos
  <2>1. i \in 1..(next - 1)
    BY <1>9, <1>11
  <2>2. CASE j = next
    BY <1>7, <1>11, <2>1, <2>2 DEF r
  <2>3. CASE j \in 1..(next - 1)
    BY <1>5, <1>11, <2>1, <2>3 DEF SoundUpTo
  <2> QED
    BY <1>8, <2>2, <2>3
<1> QED
  BY <1>10, <1>11 DEF SoundUpTo

\* No action but CheckRow changes what has passed.
LEMMA PassedStep == Types /\ Grouped /\ Remembered /\ Passed /\ [Next]_vars => Passed'
<1> SUFFICES ASSUME Types, Grouped, Remembered, Passed, [Next]_vars PROVE Passed'
  OBVIOUS
<1>1. CASE ImportField \/ Offset
  BY <1>1 DEF ImportField, Offset, Passed, Loaded
<1>2. CASE Validate
  <2>1. pc' = "validate" /\ next' = 1
    BY <1>2 DEF Validate
  <2> QED
    BY <2>1 DEF Passed, SoundUpTo
<1>3. CASE CheckRow
  <2>1. /\ pc = "validate" /\ pc' = "validate" /\ next' - 1 = next /\ rows' = rows
        /\ problems' = {} => problems = {}
    BY <1>3, RowsType DEF CheckRow
  <2>2. NoOverflow' => NoOverflow
    BY <2>1 DEF NoOverflow
  <2>3. NoOverflow /\ problems = {} => SoundUpTo(next - 1)
    BY <2>1 DEF Passed, Loaded
  <2>4. NoOverflow /\ problems' = {} => SoundUpTo(next)
    BY <1>3, <2>1, <2>3, CheckRowPasses
  <2>5. NoOverflow' /\ problems' = {} =>
          /\ \A i \in 1..next : InBounds(rows'[i]) /\ rows'[i].length > 0
          /\ \A i, j \in 1..next :
               i < j /\ rows'[i].segnam = rows'[j].segnam =>
                 /\ rows'[i].offset + rows'[i].length <= rows'[j].offset
                 /\ rows'[i].field_pos # rows'[j].field_pos
    BY <2>1, <2>2, <2>4 DEF SoundUpTo
  <2> QED
    BY <2>1, <2>5 DEF Passed, SoundUpTo
<1>4. CASE Bind
  <2>1. next - 1 = Len(rows) /\ pc = "validate" /\ pc' # "validate"
        /\ rows' = rows /\ problems' = problems
    BY <1>4, RowsType DEF Bind
  <2> QED
    BY <2>1 DEF Passed, SoundUpTo, NoOverflow, Loaded
<1>5. CASE BindRow \/ Encode \/ EncodeField \/ Encoded
  <2>1. /\ pc \notin {"import", "offsets", "validate"} /\ pc' # "validate"
        /\ rows' = rows /\ problems' = problems
    BY <1>5 DEF BindRow, Encode, EncodeField, Encoded
  <2> QED
    BY <2>1 DEF Passed, SoundUpTo, NoOverflow, Loaded
<1>6. CASE UNCHANGED vars
  BY <1>6 DEF vars, Passed, SoundUpTo, NoOverflow, Loaded
<1> QED
  BY <1>1, <1>2, <1>3, <1>4, <1>5, <1>6 DEF Next

-----------------------------------------------------------------------------
(* Binding and encoding.                                                   *)

\* A bind that goes on has found the rows so far in bounds.
LEMMA BoundStep == Types /\ Bound /\ [Next]_vars => Bound'
<1> SUFFICES ASSUME Types, Bound, [Next]_vars PROVE Bound'
  OBVIOUS
<1>1. CASE ImportField \/ Offset \/ Validate \/ CheckRow
  BY <1>1 DEF ImportField, Offset, Validate, CheckRow, Bound
<1>2. CASE Bind
  BY <1>2 DEF Bind, Bound
<1>3. CASE BindRow
  <2>1. pc = "bind" /\ next \in DOMAIN rows /\ rows' = rows
    BY <1>3 DEF BindRow
  <2>2. CASE rows[next].null = {} /\ InBounds(rows[next])
    <3>1. pc' = "bind" /\ next' = next + 1
      BY <1>3, <2>1, <2>2 DEF BindRow
    <3>2. \A i \in 1..next : i \in 1..(next - 1) \/ i = next
      BY RowsType
    <3>3. next' - 1 = next
      BY <3>1, RowsType
    <3> QED
      BY <2>1, <2>2, <3>1, <3>2, <3>3 DEF Bound
  <2>3. CASE ~(rows[next].null = {} /\ InBounds(rows[next]))
    BY <1>3, <2>1, <2>3 DEF BindRow, Bound
  <2> QED
    BY <2>2, <2>3
<1>4. CASE Encode
  <2>1. pc = "bind" /\ pc' = "encode" /\ rows' = rows /\ next - 1 = Len(rows)
    BY <1>4, RowsType DEF Encode
  <2> QED
    BY <2>1, RowsType DEF Bound
<1>5. CASE EncodeField \/ Encoded
  BY <1>5 DEF EncodeField, Encoded, Bound
<1>6. CASE UNCHANGED vars
  BY <1>6 DEF vars, Bound
<1> QED
  BY <1>1, <1>2, <1>3, <1>4, <1>5, <1>6 DEF Next

\* Fields in bounds do not overflow.
LEMMA InBoundsNoOverflow ==
  ASSUME Types, \A i \in DOMAIN rows : InBounds(rows[i])
  PROVE  NoOverflow
BY RowsType, ConstantFacts DEF InBounds, NoOverflow

\* Encoding one field leaves the fields before it alone, for they end before it.
LEMMA PlacedStep == Types /\ Passed /\ Bound /\ Placed /\ [Next]_vars => Placed'
<1> SUFFICES ASSUME Types, Passed, Bound, Placed, [Next]_vars PROVE Placed'
  OBVIOUS
<1>1. CASE ImportField \/ Offset \/ Validate \/ CheckRow \/ Bind \/ BindRow
  BY <1>1 DEF ImportField, Offset, Validate, CheckRow, Bind, BindRow, Placed
<1>2. CASE Encode
  <2>1. next' = 1 /\ pc' = "encode"
    BY <1>2 DEF Encode
  <2> QED
    BY <2>1 DEF Placed
<1>3. CASE EncodeField
  <2>1. /\ pc = "encode" /\ pc' = "encode" /\ next \in DOMAIN rows /\ next' - 1 = next
        /\ rows' = rows /\ segment' = segment /\ problems' = problems
    BY <1>3, RowsType DEF EncodeField
  <2>2. ASSUME problems = {}, NEW i \in 1..next, rows[i].segnam = segment,
               NEW b \in BytesOf(rows[i])
        PROVE  sdata'[b] = i
    <3>1. i \in DOMAIN rows /\ next \in Int /\ i \in Int
      BY <2>1, RowsType
    <3>2. InBounds(rows[i]) /\ NoOverflow
      BY <2>1, <3>1, InBoundsNoOverflow DEF Bound
    <3>3. b \in 1..SDATA_LEN
      BY SMTT(30), <3>1, <3>2, RowsType, ConstantFacts DEF BytesOf, InBounds
    <3>4. CASE i = next
      BY <1>3, <2>2, <3>3, <3>4 DEF EncodeField
    <3>5. CASE i # next
      <4>1. i \in 1..(next - 1) /\ i < next /\ i \in 1..Len(rows) /\ next \in 1..Len(rows)
        BY <2>1, <3>1, <3>5, RowsType
      <4>2. sdata[b] = i
        BY <2>1, <2>2, <4>1 DEF Placed
      <4>3. rows[next].segnam = segment => b \notin BytesOf(rows[next])
        <5>1. SoundUpTo(Len(rows))
          BY <2>1, <2>2, <3>2 DEF Passed, Loaded
        <5>2. rows[next].segnam = segment =>
                rows[i].offset + rows[i].length <= rows[next].offset
          BY <2>2, <4>1, <5>1 DEF SoundUpTo
        <5>3. b <= rows[i].offset + rows[i].length /\ b \in Int
          BY <2>2, <3>1, <3>3, RowsType DEF BytesOf
        <5>4. /\ rows[i].offset \in Int /\ rows[i].length \in Int
              /\ rows[next].offset \in Int /\ rows[next].length \in Int
          BY <2>1, <3>1, RowsType
        <5>5. b \in BytesOf(rows[next]) => b > rows[next].offset
          BY <5>3, <5>4 DEF BytesOf
        <5> QED
          BY <5>2, <5>3, <5>4, <5>5
      <4> QED
        BY <1>3, <3>3, <4>2, <4>3 DEF EncodeField
    <3> QED
      BY <3>4, <3>5
  <2> QED
    BY <2>1, <2>2 DEF Placed
<1>4. CASE Encoded
  <2>1. pc = "encode" /\ next = Len(rows) + 1
    BY <1>4, RowsType DEF Encoded
  <2> QED
    BY <1>4, <2>1 DEF Encoded, Placed
<1>5. CASE UNCHANGED vars
  BY <1>5 DEF vars, Placed
<1> QED
  BY <1>1, <1>2, <1>3, <1>4, <1>5 DEF Next

-----------------------------------------------------------------------------
(* Computed offsets pass validation.                                       *)

\* The equation that Widths(d, segnam) is chosen by.
IsWidths(d, segnam, g) ==
  g = [n \in 0..Len(d) |->
        IF n = 0 THEN 0
        ELSE g[n - 1] + (IF d[n].segnam = segnam THEN d[n].length ELSE 0)]

\* The widths satisfy it: such a function exists.
LEMMA WidthsDef ==
  ASSUME NEW d \in Seq(DictRow), NEW s
  PROVE  /\ Widths(d, s) \in [0..Len(d) -> Int]
         /\ Widths(d, s)[0] = 0
         /\ \A n \in 1..Len(d) :
              Widths(d, s)[n] = Widths(d, s)[n - 1]
                                  + (IF d[n].segnam = s THEN d[n].length ELSE 0)
<1> DEFINE N == Len(d)
           add(n) == IF d[n].segnam = s THEN d[n].length ELSE 0
           step == [x \in Int \X Nat |-> IF x[2] \in 1..N THEN x[1] + add(x[2]) ELSE 0]
           W == CHOOSE g : IsWidths(d, s, g)
<1>1. N \in Nat /\ DOMAIN d = 1..N
  OBVIOUS
<1>2. \A n \in 1..N : add(n) \in Int
  BY <1>1, RowFacts
<1> HIDE DEF add
<1>3. step \in StepFunctions(Int)
  BY <1>2 DEF StepFunctions
<1>4. \A a \in Int, n \in 1..N : step[<<a, n>>] = a + add(n)
  <2> TAKE a \in Int, n \in 1..N
  <2>1. <<a, n>> \in Int \X Nat
    BY <1>1
  <2> QED
    BY <2>1
<1> HIDE DEF step, N
<1>5. PICK g : FollowsUpTo(g, N, Int, 0, step)
  <2>1. 0 \in Int
    OBVIOUS
  <2> QED
    BY <1>1, <1>3, <2>1, PrimitiveRecursion, Zenon
<1>6. g \in [0..N -> Int] /\ g[0] = 0 /\ \A n \in 1..N : g[n] = g[n - 1] + add(n)
  <2>1. g \in [0..N -> Int] /\ g[0] = 0 /\ \A n \in 1..N : g[n] = step[<<g[n - 1], n>>]
    BY <1>5 DEF FollowsUpTo
  <2>2. \A n \in 1..N : g[n - 1] \in Int
    BY <1>1, <2>1
  <2> QED
    BY <1>4, <2>1, <2>2
<1>7. g = [n \in 0..N |-> IF n = 0 THEN 0 ELSE g[n - 1] + add(n)]
  BY <1>1, <1>6
<1>8. IsWidths(d, s, g)
  BY <1>7 DEF IsWidths, add, N
<1>9. IsWidths(d, s, W)
  BY <1>8
<1>10. Widths(d, s) = W
  BY DEF Widths, IsWidths
<1> HIDE DEF W
<1>11. W = [n \in 0..N |-> IF n = 0 THEN 0 ELSE W[n - 1] + add(n)]
  BY <1>9 DEF IsWidths, add, N
<1>12. W[0] = 0 /\ \A n \in 1..N : W[n] = W[n - 1] + add(n)
  <2>1. \A n \in 0..N : W[n] = IF n = 0 THEN 0 ELSE W[n - 1] + add(n)
    BY <1>11
  <2> QED
    BY <1>1, <2>1
<1>13. \A n \in 0..N : W[n] \in Int
  <2> DEFINE S == {n \in Nat : n <= N => W[n] \in Int}
  <2>1. 0 \in S
    BY <1>12
  <2>2. ASSUME NEW n \in Nat, n \in S PROVE n + 1 \in S
    BY <1>1, <1>2, <1>12, <2>2
  <2> HIDE DEF S
  <2>3. Nat \subseteq S
    BY <2>1, <2>2, NatSetInduction
  <2> QED
    BY <1>1, <2>3 DEF S
<1>14. W \in [0..N -> Int]
  BY <1>11, <1>13
<1> QED
  BY <1>10, <1>12, <1>14 DEF add, N

\* Widths of fields that have bytes never shrink.
LEMMA WidthsGrow ==
  ASSUME NEW d \in Seq(DictRow), NEW s, NEW n \in 0..Len(d),
         \A i \in DOMAIN d : d[i].length > 0
  PROVE  0 <= Widths(d, s)[n] /\ Widths(d, s)[n] <= Widths(d, s)[Len(d)]
<1> DEFINE W == Widths(d, s)
<1>1. Len(d) \in Nat /\ DOMAIN d = 1..Len(d)
  OBVIOUS
<1>2. \A m \in 0..Len(d) : W[m] \in Int
  BY WidthsDef
<1>3. ASSUME NEW m \in 0..Len(d), m + 1 <= Len(d)
      PROVE  W[m] <= W[m + 1]
  <2>1. m + 1 \in 1..Len(d) /\ (m + 1) - 1 = m
    BY <1>1, <1>3
  <2>2. W[m + 1] = W[m] + (IF d[m + 1].segnam = s THEN d[m + 1].length ELSE 0)
    BY <2>1, WidthsDef
  <2>3. d[m + 1].length > 0 /\ d[m + 1].length \in Int
    BY <1>1, <2>1, RowFacts
  <2> QED
    BY <1>2, <2>2, <2>3
<1>4. W[0] = 0
  BY WidthsDef
<1> HIDE DEF W
<1> DEFINE S == {m \in Nat : m <= Len(d) => 0 <= W[m] /\ (m >= n => W[n] <= W[m])}
<1>5. 0 \in S
  BY <1>1, <1>2, <1>4
<1>6. ASSUME NEW m \in Nat, m \in S PROVE m + 1 \in S
  <2> SUFFICES ASSUME m + 1 <= Len(d)
               PROVE  0 <= W[m + 1] /\ (m + 1 >= n => W[n] <= W[m + 1])
    OBVIOUS
  <2>1. 0 <= W[m] /\ (m >= n => W[n] <= W[m]) /\ W[m] <= W[m + 1]
    BY <1>1, <1>3, <1>6
  <2>2. W[m] \in Int /\ W[m + 1] \in Int /\ W[n] \in Int
    BY <1>1, <1>2
  <2>3. m + 1 >= n => m >= n \/ n = m + 1
    BY <1>1
  <2> QED
    BY <2>1, <2>2, <2>3
<1> HIDE DEF S
<1>7. Nat \subseteq S
  BY <1>5, <1>6, NatSetInduction
<1>8. n \in S /\ Len(d) \in S
  BY <1>1, <1>7
<1> QED
  BY <1>1, <1>8 DEF S, W

\* Rows of other segments have no width.
LEMMA WidthsZero ==
  ASSUME NEW d \in Seq(DictRow), NEW s, NEW n \in 0..Len(d),
         \A i \in 1..n : d[i].segnam # s
  PROVE  Widths(d, s)[n] = 0
<1> DEFINE W == Widths(d, s)
           S == {m \in Nat : m <= n => W[m] = 0}
<1>1. Len(d) \in Nat
  OBVIOUS
<1>2. W[0] = 0 /\ \A m \in 1..n : W[m] = W[m - 1]
  <2>1. W[0] = 0 /\ \A m \in 0..Len(d) : W[m] \in Int
    BY WidthsDef
  <2>2. ASSUME NEW m \in 1..n PROVE W[m] = W[m - 1]
    <3>1. m \in 1..Len(d) /\ m - 1 \in 0..Len(d)
      BY <1>1
    <3>2. d[m].segnam # s
      BY <1>1
    <3>3. W[m] = W[m - 1] + (IF d[m].segnam = s THEN d[m].length ELSE 0)
      BY <3>1, WidthsDef
    <3>4. W[m] = W[m - 1] + 0
      BY <3>2, <3>3
    <3> QED
      BY <2>1, <3>1, <3>4
  <2> QED
    BY <2>1, <2>2
<1> HIDE DEF W
<1>3. 0 \in S
  BY <1>2
<1>4. ASSUME NEW m \in Nat, m \in S PROVE m + 1 \in S
  BY <1>1, <1>2, <1>4
<1> HIDE DEF S
<1>5. Nat \subseteq S
  BY <1>3, <1>4, NatSetInduction
<1> QED
  BY <1>1, <1>5 DEF S, W

\* Rows that are sorted stay where they are.
LEMMA LoadRowsStays ==
  ASSUME NEW d \in Seq(DictRow), \A i, j \in DOMAIN d : i < j => Precedes(d, i, j)
  PROVE  LoadRows(d) = d
<1>1. Len(d) \in Nat /\ DOMAIN d = 1..Len(d)
  OBVIOUS
<1>2. ASSUME NEW i \in DOMAIN d PROVE Rank(d, i) = i
  <2>1. \A j \in DOMAIN d : Precedes(d, j, i) <=> j < i
    <3> TAKE j \in DOMAIN d
    <3>1. j < i \/ j = i \/ i < j
      BY <1>1
    <3>2. j < i => Precedes(d, j, i)
      OBVIOUS
    <3>3. i < j => ~Precedes(d, j, i)
      BY PrecedesOrders
    <3>4. ~Precedes(d, i, i)
      BY PrecedesOrders
    <3>5. i < j => ~(j < i)
      BY <1>1
    <3> QED
      BY <1>1, <3>1, <3>2, <3>3, <3>4, <3>5
  <2>2. Before(d, i) = 1..(i - 1)
    BY <1>1, <2>1 DEF Before
  <2>3. Cardinality(1..(i - 1)) = i - 1
    <3>1. 1 \in Int /\ i - 1 \in Int /\ (IF 1 > i - 1 THEN 0 ELSE i - 1 - 1 + 1) = i - 1
      BY <1>1
    <3> QED
      BY <3>1, FS_Interval, Zenon
  <2> QED
    BY <1>1, <2>2, <2>3 DEF Rank
<1>3. LoadRows(d) = [k \in DOMAIN d |-> d[CHOOSE i \in DOMAIN d : Rank(d, i) = k]]
  BY DEF LoadRows, Rank, Before
<1>4. ASSUME NEW k \in DOMAIN d PROVE (CHOOSE i \in DOMAIN d : Rank(d, i) = k) = k
  BY <1>2
<1>5. LoadRows(d) = [k \in DOMAIN d |-> d[k]]
  BY <1>3, <1>4
<1> QED
  BY <1>5

\* The offset of a row and the end it makes, in the widths of its segment.
LEMMA FittingFacts ==
  ASSUME Types, Computed, Fitting, NEW n \in DOMAIN rows
  PROVE  /\ n \in DOMAIN given
         /\ given[n].length \in Int /\ given[n].length > 0
         /\ Widths(given, given[n].segnam)[n - 1] \in Nat
         /\ Widths(given, given[n].segnam)[n] =
              Widths(given, given[n].segnam)[n - 1] + given[n].length
         /\ Widths(given, given[n].segnam)[n] <= SDATA_LEN
         /\ FirstOfSegment(n) => Widths(given, given[n].segnam)[n - 1] = 0
<1> DEFINE s == given[n].segnam
           W == Widths(given, s)
<1>1. /\ given \in Seq(DictRow) /\ Len(given) = Len(rows) /\ DOMAIN rows = 1..Len(rows)
      /\ Len(rows) \in Nat /\ DOMAIN given = DOMAIN rows
  BY RowsType DEF Types, TypeOK
<1>2. n - 1 \in 0..Len(given) /\ n \in 0..Len(given) /\ n \in 1..Len(given)
  BY <1>1
<1>3. given[n].length \in Int /\ \A i \in DOMAIN given : given[i].length > 0
  BY <1>1, RowFacts DEF Fitting
<1>4. W[n - 1] \in Int /\ W[n] \in Int /\ W[Len(given)] \in Int
  BY <1>1, <1>2, WidthsDef
<1>5. W[n] = W[n - 1] + given[n].length
  BY <1>1, <1>2, WidthsDef
<1>6. 0 <= W[n - 1] /\ W[n] <= W[Len(given)]
  BY <1>1, <1>2, <1>3, WidthsGrow
<1>7. W[Len(given)] <= SDATA_LEN
  BY <1>1 DEF Fitting, Fits
<1>8. ASSUME FirstOfSegment(n) PROVE W[n - 1] = 0
  <2>1. ASSUME NEW i \in 1..(n - 1) PROVE given[i].segnam # s
    <3>1. /\ i \in DOMAIN given /\ n - 1 \in DOMAIN given /\ n # 1
          /\ i <= n - 1 /\ n - 1 < n
      BY <1>1
    <3>2. /\ given[i].segnam \in Int /\ given[n - 1].segnam \in Int /\ s \in Int
      BY <1>1, <3>1, RowFacts
    <3>3. given[n - 1].segnam # s
      BY <1>1, <1>8, <3>1 DEF FirstOfSegment, Computed
    <3>4. Precedes(given, n - 1, n) /\ (i # n - 1 => Precedes(given, i, n - 1))
      BY <1>1, <3>1 DEF Computed
    <3>5. given[n - 1].segnam < s /\ given[i].segnam <= given[n - 1].segnam
      BY <3>2, <3>3, <3>4 DEF Precedes
    <3> QED
      BY <3>2, <3>5
  <2> QED
    BY <1>1, <1>2, <2>1, WidthsZero
<1> HIDE DEF W
<1>9. W[n - 1] \in Nat /\ W[n] <= SDATA_LEN
  BY <1>4, <1>6, <1>7, ConstantFacts
<1> QED
  BY <1>1, <1>3, <1>5, <1>8, <1>9 DEF W

\* The history does not change.
LEMMA GivenStays == [Next]_vars => given' = given /\ origin' = origin
BY DEF Next, vars, ImportField, Offset, Validate, CheckRow, Bind, BindRow, Encode,
       EncodeField, Encoded

LEMMA ComputedInit == Init => Computed
<1> SUFFICES ASSUME Init, Fitting PROVE Computed
  BY DEF Computed
<1>1. PICK d \in Dictionaries : given = IF origin = "fields" THEN d ELSE LoadRows(d)
  BY DEF Init
<1>2. given = LoadRows(d) /\ d \in Seq(DictRow) /\ pc = "offsets"
  BY <1>1, DictionaryAssumption DEF Init, Fitting
<1>3. \A i, j \in DOMAIN given : i < j => Precedes(given, i, j)
  BY <1>2, LoadRowsSorts
<1> QED
  BY <1>2, <1>3 DEF Init, Computed

\* The row of a computed offset starts where the segment's previous row ends.
LEMMA ComputedOffset ==
  ASSUME Types, Computed, Fitting, Offset
  PROVE  Computed'
<1> DEFINE start == IF FirstOfSegment(next) THEN 0 ELSE running
           W(n) == Widths(given, given[n].segnam)
<1>1. /\ next \in DOMAIN rows /\ next \in Int /\ next >= 1 /\ Len(rows) \in Nat
      /\ DOMAIN rows = 1..Len(rows) /\ pc = "offsets" /\ pc' = "offsets"
      /\ next' = next + 1 /\ given' = given /\ problems' = problems
  BY RowsType DEF Offset
<1>2. /\ rows' = [rows EXCEPT ![next].offset = start, ![next].null = {}]
      /\ running' = Wrapped(start + rows[next].length)
  BY DEF Offset
<1>3. W(next)[next - 1] \in Nat /\ W(next)[next] = W(next)[next - 1] + given[next].length
      /\ W(next)[next] <= SDATA_LEN /\ given[next].length \in Int /\ given[next].length > 0
      /\ (FirstOfSegment(next) => W(next)[next - 1] = 0)
  BY <1>1, FittingFacts
<1>4. start = W(next)[next - 1]
  <2>1. CASE FirstOfSegment(next)
    BY <1>3, <2>1
  <2>2. CASE ~FirstOfSegment(next)
    <3>1. next > 1 /\ next - 1 \in DOMAIN rows /\ rows[next - 1].segnam = rows[next].segnam
      BY <1>1, <2>2 DEF FirstOfSegment
    <3>2. given[next - 1].segnam = given[next].segnam
      BY <1>1, <3>1 DEF Computed
    <3>3. running = W(next - 1)[next - 1]
      BY <1>1, <3>1 DEF Computed
    <3> QED
      BY <2>2, <3>2, <3>3
  <2> QED
    BY <2>1, <2>2
<1>5. rows[next].length = given[next].length
  BY <1>1 DEF Computed
<1> HIDE DEF start, W
<1>6. running' = W(next)[next]
  BY <1>2, <1>3, <1>4, <1>5, ConstantFacts DEF Wrapped
<1>7. DOMAIN rows' = DOMAIN rows /\ \A i \in DOMAIN rows : i # next => rows'[i] = rows[i]
  BY <1>2
<1>8. /\ rows'[next].segnam = rows[next].segnam
      /\ rows'[next].field_pos = rows[next].field_pos
      /\ rows'[next].length = rows[next].length
      /\ rows'[next].offset = start
  BY <1>1, <1>2, RowsType DEF DictRow
<1>9. \A i \in DOMAIN rows' :
        /\ rows'[i].segnam = given[i].segnam
        /\ rows'[i].field_pos = given[i].field_pos
        /\ rows'[i].length = given[i].length
  BY <1>7, <1>8 DEF Computed
<1>10. ASSUME NEW i \in 1..next
       PROVE  rows'[i].offset = Widths(given, given[i].segnam)[i - 1]
  <2>1. CASE i = next
    BY <1>4, <1>8, <2>1 DEF W
  <2>2. CASE i # next
    <3>1. i \in 1..(next - 1) /\ i \in DOMAIN rows
      BY <1>1, <2>2
    <3>2. rows[i].offset = Widths(given, given[i].segnam)[i - 1]
      BY <1>1, <3>1 DEF Computed
    <3> QED
      BY <1>7, <2>2, <3>1, <3>2
  <2> QED
    BY <2>1, <2>2
<1>11. /\ next' - 1 = next /\ \A i, j \in DOMAIN given : i < j => Precedes(given, i, j)
       /\ problems = {}
  BY <1>1 DEF Computed
<1> QED
  BY <1>1, <1>6, <1>9, <1>10, <1>11 DEF Computed, W

\* Validation finds nothing wrong with a row of a computed offset.
LEMMA ComputedCheck ==
  ASSUME Types, Grouped, Remembered, Computed, Fitting, CheckRow
  PROVE  Computed'
<1> DEFINE r == rows[next]
           end == IF FirstOfSegment(next) THEN -1 ELSE prev_end
           seen == IF FirstOfSegment(next) THEN {} ELSE seen_pos
           W(n) == Widths(given, given[n].segnam)
<1>1. /\ next \in DOMAIN rows /\ next \in Int /\ next >= 1 /\ Len(rows) \in Nat
      /\ DOMAIN rows = 1..Len(rows) /\ pc = "validate" /\ pc' = "validate"
      /\ next' = next + 1 /\ given' = given /\ rows' = rows
  BY RowsType DEF CheckRow
<1>2. problems' = problems \cup Found(next, r, end, seen) /\ seen_pos' = seen \cup {r.field_pos}
  BY DEF CheckRow
<1>3. ASSUME NEW n \in DOMAIN rows
      PROVE  /\ rows[n].offset = W(n)[n - 1]
             /\ rows[n].offset >= 0 /\ rows[n].length > 0
             /\ rows[n].offset \in Int /\ rows[n].length \in Int
             /\ Wrapped(rows[n].offset + rows[n].length) = W(n)[n]
             /\ W(n)[n] \in Int /\ W(n)[n] <= SDATA_LEN
             /\ rows[n].segnam = given[n].segnam /\ rows[n].field_pos = given[n].field_pos
  <2>1. /\ rows[n].offset = W(n)[n - 1] /\ rows[n].length = given[n].length
        /\ rows[n].segnam = given[n].segnam /\ rows[n].field_pos = given[n].field_pos
    BY <1>1 DEF Computed
  <2>2. /\ W(n)[n - 1] \in Nat /\ W(n)[n] = W(n)[n - 1] + given[n].length
        /\ W(n)[n] <= SDATA_LEN /\ given[n].length \in Int /\ given[n].length > 0
    BY FittingFacts
  <2> HIDE DEF W
  <2> QED
    BY <2>1, <2>2, ConstantFacts DEF Wrapped
<1>4. ~FirstOfSegment(next) =>
        /\ next > 1 /\ next - 1 \in DOMAIN rows /\ rows[next - 1].segnam = r.segnam
        /\ given[next - 1].segnam = given[next].segnam
  BY <1>1 DEF FirstOfSegment, Computed
<1>5. ~BadBounds(r) /\ ~Exceeds(r)
  <2>1. /\ r.offset >= 0 /\ r.length > 0 /\ Wrapped(r.offset + r.length) <= SDATA_LEN
        /\ r.offset \in Int /\ r.length \in Int /\ Wrapped(r.offset + r.length) \in Int
    BY <1>1, <1>3
  <2> QED
    BY <2>1, ConstantFacts DEF BadBounds, Exceeds
<1>6. ~Overlaps(r, end)
  <2>1. CASE FirstOfSegment(next)
    BY <2>1 DEF Overlaps
  <2>2. CASE ~FirstOfSegment(next)
    <3>1. end = Wrapped(rows[next - 1].offset + rows[next - 1].length)
      BY <1>1, <1>4, <2>2 DEF Remembered
    <3>2. end = r.offset
      BY <1>1, <1>3, <1>4, <2>2, <3>1
    <3> QED
      BY <1>1, <1>3, <3>2 DEF Overlaps
  <2> QED
    BY <2>1, <2>2
<1>7. ASSUME NEW p \in seen
      PROVE  \E i \in 1..(next - 1) : rows[i].segnam = r.segnam /\ rows[i].field_pos = p
  BY <1>1, <1>4 DEF Computed
<1>8. r.field_pos \notin seen
  <2> SUFFICES ASSUME r.field_pos \in seen PROVE FALSE
    OBVIOUS
  <2>1. PICK i \in 1..(next - 1) : rows[i].segnam = r.segnam /\ rows[i].field_pos = r.field_pos
    BY <1>7
  <2>2. i \in DOMAIN rows /\ i # next
    BY <1>1
  <2>3. /\ given[i].segnam = given[next].segnam /\ given[i].field_pos = given[next].field_pos
        /\ i \in DOMAIN given /\ next \in DOMAIN given
    BY <1>1, <1>3, <2>1, <2>2, FittingFacts
  <2> QED
    BY <2>2, <2>3 DEF Fitting
<1>9. problems' = {}
  BY <1>2, <1>5, <1>6, <1>8 DEF Found, ProblemsOf, Computed
<1>10. ASSUME NEW p \in seen_pos'
       PROVE  \E i \in 1..next : rows[i].segnam = r.segnam /\ rows[i].field_pos = p
  <2>1. CASE p \in seen
    <3>1. PICK i \in 1..(next - 1) : rows[i].segnam = r.segnam /\ rows[i].field_pos = p
      BY <1>7, <2>1
    <3>2. i \in 1..next
      BY <1>1
    <3> QED
      BY <3>1, <3>2
  <2>2. CASE p = r.field_pos
    BY <1>1, <2>2
  <2> QED
    BY <1>2, <2>1, <2>2
<1>11. next' - 1 = next
  BY <1>1
<1> HIDE DEF r, end, seen, W
<1>12. \A p \in seen_pos' : \E i \in 1..(next' - 1) :
         rows'[i].segnam = rows'[next' - 1].segnam /\ rows'[i].field_pos = p
  BY <1>1, <1>10, <1>11 DEF r
<1> QED
  BY <1>1, <1>9, <1>12 DEF Computed

\* The loading of rows that are sorted, and every other step, changes none of this.
LEMMA ComputedStep ==
  Types /\ Grouped /\ Remembered /\ Computed /\ [Next]_vars => Computed'
<1> SUFFICES ASSUME Types, Grouped, Remembered, Computed, [Next]_vars, Fitting'
             PROVE  Computed'
  BY DEF Computed
<1>1. given' = given /\ origin' = origin
  BY GivenStays
<1>2. Fitting
  BY <1>1 DEF Fitting, Fits
<1>3. pc # "import"
  BY <1>2 DEF Computed
<1>4. CASE Offset
  BY <1>2, <1>4, ComputedOffset
<1>5. CASE CheckRow
  BY <1>2, <1>5, ComputedCheck
<1>6. CASE Validate
  <2>1. /\ pc = "offsets" /\ pc' = "validate" /\ next' = 1 /\ next - 1 = Len(rows)
        /\ rows' = LoadRows(rows) /\ problems' = problems
    BY <1>3, <1>6, RowsType DEF Validate
  <2>2. \A i, j \in DOMAIN rows : i < j => Precedes(rows, i, j)
    <3>1. DOMAIN rows = DOMAIN given
      BY RowsType DEF Types, TypeOK
    <3> QED
      BY <1>2, <3>1 DEF Computed, Precedes
  <2>3. rows' = rows
    BY <2>1, <2>2, RowsType, LoadRowsStays
  <2> QED
    BY <1>1, <1>2, <2>1, <2>3 DEF Computed
<1>7. CASE Bind
  <2>1. pc = "validate" /\ pc' = "bind" /\ rows' = rows /\ problems' = problems
    BY <1>7 DEF Bind
  <2> QED
    BY <1>1, <1>2, <2>1 DEF Computed
<1>8. CASE BindRow \/ Encode \/ EncodeField \/ Encoded
  <2>1. /\ pc \in {"bind", "encode"} /\ pc' \in {"bind", "refused", "encode", "done"}
        /\ rows' = rows /\ problems' = problems
    BY <1>8 DEF BindRow, Encode, EncodeField, Encoded
  <2> QED
    BY <1>1, <1>2, <2>1 DEF Computed
<1>9. CASE ImportField
  BY <1>3, <1>9 DEF ImportField
<1>10. CASE UNCHANGED vars
  BY <1>1, <1>2, <1>10 DEF vars, Computed
<1> QED
  BY <1>4, <1>5, <1>6, <1>7, <1>8, <1>9, <1>10 DEF Next

-----------------------------------------------------------------------------
(* The theorems.                                                           *)

LEMMA InvInit == Init => IndInv
<1> SUFFICES ASSUME Init PROVE IndInv
  OBVIOUS
<1>1. Types
  BY TypesInit
<1>2. Grouped
  <2>1. PICK d \in Dictionaries : given = IF origin = "fields" THEN d ELSE LoadRows(d)
    BY DEF Init
  <2>2. Loaded => rows = LoadRows(d)
    BY <2>1 DEF Init, Loaded
  <2>3. d \in Seq(DictRow)
    BY DictionaryAssumption
  <2> QED
    BY <2>2, <2>3, LoadRowsSorts DEF Grouped
<1>3. next = 1 /\ pc \in {"import", "offsets", "validate"}
  BY DEF Init
<1>4. Remembered /\ Bound /\ Placed
  BY <1>3 DEF Remembered, Bound, Placed
<1>5. Passed
  BY <1>3 DEF Passed, SoundUpTo, Loaded
<1> QED
  BY <1>1, <1>2, <1>4, <1>5, ComputedInit DEF IndInv

LEMMA InvStep == IndInv /\ [Next]_vars => IndInv'
BY TypesStep, GroupedStep, RememberedStep, PassedStep, BoundStep, PlacedStep, ComputedStep
   DEF IndInv

LEMMA Invariance == Spec => []IndInv
BY InvInit, InvStep, PTL DEF Spec

\* The state keeps its types: sums wrap into int64_t, imported numbers are
\* INTEGERs, and a problem names a row of the dictionary.
THEOREM DictionaryTypeCorrect == Spec => []TypeOK
<1>1. IndInv => TypeOK
  BY DEF IndInv, Types
<1> QED
  BY <1>1, Invariance, PTL

\* sap_idoc_to_xml slices the fields the readers accept, for all widths.
THEOREM DictionarySlicesAgree == Spec => []XmlSlicesAgree
<1>1. IndInv => XmlSlicesAgree
  BY RowsType, SlicesInBounds DEF IndInv, XmlSlicesAgree
<1> QED
  BY <1>1, Invariance, PTL

\* The ends of imported fields do not overflow.
LEMMA ImportedNoOverflow ==
  ASSUME IndInv, Validated, NoOverflow \/ origin = "fields"
  PROVE  NoOverflow
<1>1. CASE origin = "fields"
  <2>1. \A i \in DOMAIN rows : rows[i].offset <= INT32_MAX /\ rows[i].length <= INT32_MAX
    BY <1>1 DEF IndInv, Types, TypeOK, Validated
  <2> QED
    BY <2>1, RowsType, ConstantFacts DEF IndInv, NoOverflow
<1> QED
  BY <1>1

\* Comparing each field with the one before it finds every overlap.
THEOREM DictionaryEmptyMeansSound == Spec => []EmptyMeansSound
<1>1. IndInv => EmptyMeansSound
  <2> SUFFICES ASSUME IndInv, Validated, NoOverflow \/ origin = "fields", problems = {}
               PROVE  Sound
    BY DEF EmptyMeansSound
  <2>1. Types
    BY DEF IndInv
  <2>2. SoundUpTo(Len(rows))
    BY ImportedNoOverflow DEF IndInv, Passed, Loaded, Validated
  <2>3. \A i \in DOMAIN rows : InBounds(rows[i]) /\ rows[i].length > 0
    BY <2>1, <2>2, RowsType DEF SoundUpTo
  <2>4. ASSUME NEW i \in DOMAIN rows, NEW j \in DOMAIN rows, i < j,
               rows[i].segnam = rows[j].segnam
        PROVE  /\ BytesOf(rows[i]) \cap BytesOf(rows[j]) = {}
               /\ rows[i].field_pos # rows[j].field_pos
    <3>1. /\ rows[i].offset + rows[i].length <= rows[j].offset
          /\ rows[i].field_pos # rows[j].field_pos
      BY <2>1, <2>2, <2>4, RowsType DEF SoundUpTo
    <3> QED
      BY SMTT(30), <2>1, <3>1, RowsType DEF BytesOf
  <2>5. \A i, j \in DOMAIN rows : i # j => i < j \/ j < i
    BY <2>1, RowsType
  <2>6. \A i, j \in DOMAIN rows : i # j => ~Share(i, j)
    BY <2>4, <2>5 DEF Share
  <2>7. \A i, j \in DOMAIN rows :
          i # j /\ rows[i].segnam = rows[j].segnam => rows[i].field_pos # rows[j].field_pos
    BY <2>4, <2>5
  <2> QED
    BY <2>3, <2>6, <2>7 DEF Sound
<1> QED
  BY <1>1, Invariance, PTL

\* A reader refuses no dictionary that validation passed, but for a NULL.
THEOREM DictionaryValidatedBinds == Spec => []ValidatedBinds
<1>1. IndInv => ValidatedBinds
  <2> SUFFICES ASSUME IndInv, pc = "refused", NoOverflow \/ origin = "fields", problems = {}
               PROVE  \E i \in DOMAIN rows : rows[i].null # {}
    BY DEF ValidatedBinds
  <2>1. Types /\ Validated
    BY DEF IndInv, Validated
  <2>2. SoundUpTo(Len(rows))
    BY <2>1, ImportedNoOverflow DEF IndInv, Passed, Loaded
  <2>3. \A i \in DOMAIN rows : InBounds(rows[i])
    BY <2>1, <2>2, RowsType DEF SoundUpTo
  <2> QED
    BY <2>3 DEF IndInv, Bound
<1> QED
  BY <1>1, Invariance, PTL

\* What is encoded with a dictionary that passed validation reads back.
THEOREM DictionaryEncodedReadsBack == Spec => []EncodedReadsBack
<1>1. IndInv => EncodedReadsBack
  <2> SUFFICES ASSUME IndInv, pc = "done", problems = {}, NEW i \in DOMAIN rows,
                      rows[i].segnam = segment, NEW b \in BytesOf(rows[i])
               PROVE  sdata[b] = i
    BY DEF EncodedReadsBack
  <2>1. i \in 1..(next - 1)
    BY RowsType DEF IndInv, Placed
  <2> QED
    BY <2>1 DEF IndInv, Placed
<1> QED
  BY <1>1, Invariance, PTL

\* Offsets computed from positive widths that fit, at distinct positions, pass
\* validation: no sum wraps around, no row moves when the dictionary is loaded again,
\* and each field starts where the one before it ends.
THEOREM DictionaryOffsetsPass == Spec => []OffsetsPass
<1>1. IndInv => OffsetsPass
  BY DEF IndInv, Computed, Fitting, OffsetsPass
<1> QED
  BY <1>1, Invariance, PTL

=============================================================================
