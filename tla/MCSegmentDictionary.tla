------------------------- MODULE MCSegmentDictionary -------------------------
(***************************************************************************)
(* Small instances of SegmentDictionary: every sorted dictionary of up to  *)
(* three rows over two segments, with offsets and lengths around the       *)
(* bounds of an SDATA of four bytes, and rows in any order with numbers    *)
(* around the bounds of an INTEGER or with NULLs.                          *)
(***************************************************************************)
EXTENDS SegmentDictionary

RowsOver(segments, positions, offsets, lengths) ==
  [segnam : segments, field_pos : positions, offset : offsets, length : lengths, null : {{}}]

UpTo(n, rowSet) == UNION {[1..k -> rowSet] : k \in 0..n}

SortedUpTo(n, rowSet) ==
  {r \in UpTo(n, rowSet) : \A i, j \in DOMAIN r : i < j => Precedes(r, i, j)}

\* Two fields of two segments anywhere, three of one segment, or a field at the
\* end of int64_t.
Tables ==
  SortedUpTo(2, RowsOver({1, 2}, {1, 2}, {-1, 0, 2, 4}, {0, 1, 2, 5}))
  \cup SortedUpTo(3, RowsOver({1}, {1, 2, 3}, {0, 1, 3}, {1, 2, 3}))
  \cup SortedUpTo(2, RowsOver({1}, {1, 2}, {0, INT64_MAX}, {1, INT64_MAX}))

\* Numbers that are, or become, negative or small as INTEGERs; in any order.
Wide == 2 * (INT32_MAX + 1)
FieldLists == UpTo(2, RowsOver({1, 2}, {1, 2, Wide}, {0, 1, INT32_MAX + 1, Wide}, {1, Wide + 1}))

\* NULL offsets and lengths.
Nullable ==
  {r \in [segnam : {1}, field_pos : {1, 2}, offset : {0, 1}, length : {0, 1},
          null : SUBSET {"offset", "length"}] : \A column \in r.null : r[column] = 0}

AllDictionaries == Tables \cup FieldLists \cup UpTo(2, Nullable)

=============================================================================
