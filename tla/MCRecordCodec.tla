---------------------------- MODULE MCRecordCodec ----------------------------
(***************************************************************************)
(* Instances of RecordCodec: byte strings around every boundary of UTF-8,  *)
(* every byte of the code pages, every short decimal, dates and times      *)
(* around the ends of their ranges, and composed records.                  *)
(***************************************************************************)
EXTENDS RecordCodec

R(offset, length, datatype, decimals) ==
  [offset |-> offset, length |-> length, datatype |-> datatype, decimals |-> decimals]

SomeHeader ==
  [SEGNAM |-> <<90, 83>>, MANDT |-> <<48, 48, 49>>, DOCNUM |-> 42, SEGNUM |-> 7,
   PSGNUM |-> 0, HLEVEL |-> 1]

Case(origin, rules, values, header, encoding, typed, strict) ==
  [origin |-> origin, rules |-> rules, values |-> values, header |-> header,
   encoding |-> encoding, typed |-> typed, strict |-> strict]

\* The SDATA of a file that starts with s.
Padded(s) == <<s \o Blanks(SDATA_LEN - Len(s))>>

InFile(s, rule, encoding, typed, strict) ==
  Case("file", <<rule>>, Padded(s), SomeHeader, encoding, typed, strict)

\* UTF-8: leads, second bytes and further bytes at the ends of their ranges.
Leads == {0, 127, 128, 191, 192, 193, 194, 223, 224, 225, 236, 237, 238, 239, 240, 241, 243, 244,
          245, 255}
Seconds == {65, 127, 128, 143, 144, 159, 160, 191, 192, 255}
Thirds == {65, 128, 191, 192}

Utf8Cases ==
  {InFile(<<a, b, c, d>>, R(0, 4, "CHAR", -1), UTF8, FALSE, TRUE) :
     a \in Leads, b \in Seconds, c \in Thirds, d \in Thirds}
  \cup {InFile(<<a, b, 128, 65>>, R(0, n, "CHAR", -1), UTF8, FALSE, TRUE) :
          a \in Leads, b \in Seconds, n \in 0..3}

\* Every byte in every encoding, next to a blank that is trimmed and one that is not.
BytePageCases ==
  {InFile(<<32, b, 32>>, R(0, 3, "CHAR", -1), e, FALSE, TRUE) : b \in Byte, e \in TextEncodings}

DecimalBytes == {32, 43, 45, 46, 48, 57}

DecimalCases ==
  {InFile(<<a, b, c, d>>, R(0, 4, "DEC", n), ASCII, TRUE, TRUE) :
     a \in DecimalBytes, b \in DecimalBytes, c \in DecimalBytes, d \in DecimalBytes,
     n \in {0, 1, 4}}
  \cup {InFile(<<a, b, c, d>>, R(0, 4, "CURR", 2), UTF8, TRUE, FALSE) :
          a \in {32, 45, 57}, b \in DecimalBytes, c \in DecimalBytes \cup {101}, d \in DecimalBytes}
  \cup {InFile(<<57, b, c, 57>>, R(0, 4, "QUAN", n), UTF8, TRUE, TRUE) :
          b \in DecimalBytes, c \in DecimalBytes, n \in {-1, 5}}

DigitsOf(n, width) == ZeroPad(n, width)

DateCases ==
  {InFile(DigitsOf(y, 4) \o DigitsOf(md, 4), R(0, n, t, -1), ASCII, TRUE, s) :
     y \in {0, 1, 1900, 2000, 2023, 2024, 9999},
     md \in {0, 100, 101, 131, 132, 228, 229, 230, 430, 431, 1231, 1301},
     n \in {7, 8}, t \in {"DATS", "NUMC"}, s \in BOOLEAN}

TimeCases ==
  {InFile(DigitsOf(h, 2) \o DigitsOf(m, 2) \o DigitsOf(s, 2) \o <<32, b>>, R(0, n, "TIMS", -1),
          ASCII, TRUE, strict) :
     h \in {0, 9, 23, 24, 25}, m \in {0, 59, 60}, s \in {0, 59, 60}, b \in {32, 65},
     n \in {5, 6, 8}, strict \in BOOLEAN}

\* SQL text: empty, with blanks, with characters of two and of four bytes.
SqlTexts ==
  {<<>>, <<65>>, <<32, 65, 32>>, <<195, 164>>, <<65, 195, 164, 66>>, <<240, 159, 152, 128>>,
   <<65, 66, 67, 68, 69>>}

SqlCases ==
  {Case("sql", <<R(0, n, "CHAR", -1), R(k, 4, "CHAR", -1)>>, <<v, w>>, SomeHeader, e, FALSE, TRUE) :
     n \in {0, 1, 2, 3, 4}, k \in {2, 4, 5}, v \in SqlTexts, w \in SqlTexts, e \in {UTF8, LATIN1}}
  \cup {Case("sql", <<R(o, n, "CHAR", -1)>>, <<<<65>>, <<66>>>>, SomeHeader, UTF8, FALSE, TRUE) :
          o \in {0, 8}, n \in {0, 1}}
  \cup {Case("sql", <<R(o, n, "CHAR", -1)>>, <<<<65>>>>, SomeHeader, UTF8, FALSE, TRUE) :
          o \in {-1, 0, 8, 9}, n \in {-1, 0, 1, 8, 9}}

\* Headers with numbers at the ends of their fields and names that do not fit.
HeaderCases ==
  {Case("sql", <<R(0, 1, "CHAR", -1)>>, <<<<65>>>>,
        [SEGNAM |-> s, MANDT |-> m, DOCNUM |-> d, SEGNUM |-> n, PSGNUM |-> p, HLEVEL |-> h],
        UTF8, FALSE, TRUE) :
     s \in {<<90>>, Magic, [i \in 1..31 |-> 90], [i \in 1..29 |-> 90] \o <<195, 164>>},
     m \in {<<>>, <<48, 48, 49>>, <<49, 50, 51, 52>>},
     d \in {-1, 2147483647}, n \in {0, 999999, 1000000}, p \in {0, 654321},
     h \in {9, 99, 100}}

\* Control records from lists too short, full and too long.
ControlCases ==
  {Case("control", <<>>, [i \in 1..n |-> IF i = 1 THEN tab ELSE v], SomeHeader, e, FALSE, TRUE) :
     n \in {0, 1, 2, 35, 36, 37}, tab \in {Magic \o <<52, 48>>, <<88>>},
     v \in {<<49>>, <<32, 49, 32>>, [i \in 1..71 |-> 48 + (i % 10)], <<65, 195, 164>>},
     e \in {UTF8, ASCII, LATIN1}}

AllCases ==
  <<Utf8Cases, BytePageCases, DecimalCases, DateCases, TimeCases, SqlCases, HeaderCases,
    ControlCases>>

=============================================================================
