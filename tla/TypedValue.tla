----------------------------- MODULE TypedValue -----------------------------
(***************************************************************************)
(* sap_idoc_read_segment(typed := true): the SQL type a dictionary row     *)
(* gives a field, and the value its text is read as                        *)
(* (src/src/idoc_typed_reader.cpp).                                        *)
(*                                                                         *)
(* A rule is [offset, length, datatype, decimals]; decimals is -1 when the *)
(* dictionary gives none.  A value is [ok, null, of]: ok is FALSE for text *)
(* that is no value of the type, of is the number, a decimal scaled by its *)
(* decimals, a date or a time as one number in the order of its digits.    *)
(***************************************************************************)
EXTENDS TextEncoding

CONSTANT MAX_DECIMAL_WIDTH   \* the digits of the widest DECIMAL (38)

ASSUME WidthAssumption == MAX_DECIMAL_WIDTH \in Nat \ {0}

Larger(a, b) == IF a >= b THEN a ELSE b
IsDigit(c) == c \in 48..57
Plus == 43
Minus == 45
Point == 46
Digit(c) == c - 48

-----------------------------------------------------------------------------
(* ApplyTypedMapping: the type of a field.                                 *)

\* (Mutant) the scale is not looked at.
WidthOfLength(rule) == rule.length

\* (Mutant) the length is taken to include a sign.
WidthWithoutSign(rule) == Larger(rule.length - 1, rule.decimals + 1)

Width(rule) == Larger(rule.length, rule.decimals + 1)

Kind(rule) ==
  CASE rule.datatype = "DATS" -> "date"
    [] rule.datatype = "TIMS" -> "time"
    [] /\ rule.datatype \in {"DEC", "CURR", "QUAN"}
       /\ rule.decimals >= 0
       /\ Width(rule) <= MAX_DECIMAL_WIDTH -> "decimal"
    [] OTHER -> "text"

-----------------------------------------------------------------------------
(* ParseTypedValue.                                                        *)

Invalid == [ok |-> FALSE, null |-> TRUE, of |-> 0]
NullValue == [ok |-> TRUE, null |-> TRUE, of |-> 0]
TheValue(n) == [ok |-> TRUE, null |-> FALSE, of |-> n]

AllDigits(s) == s # <<>> /\ \A i \in DOMAIN s : IsDigit(s[i])

\* std::stoi of the digits of s.
Number(s) ==
  LET upto[k \in 0..Len(s)] == IF k = 0 THEN 0 ELSE 10 * upto[k - 1] + Digit(s[k])
  IN  upto[Len(s)]

\* The number n without its k low-order digits.
WithoutDigits(n, k) ==
  LET rest[j \in 0..k] == IF j = 0 THEN n ELSE rest[j - 1] \div 10
  IN  rest[k]

Zeros(n) == [i \in 1..n |-> 48]

\* Blanks before and after the text.
Trimmed(s) == RTrim(Reverse(RTrim(Reverse(s))))

\* Date::IsValid of the library, for years from 1 on.
DaysIn(y, m) ==
  IF m = 2 THEN (IF y % 4 = 0 /\ (y % 100 # 0 \/ y % 400 = 0) THEN 29 ELSE 28)
  ELSE IF m \in {4, 6, 9, 11} THEN 30 ELSE 31

IsDate(y, m, d) == y >= 1 /\ m \in 1..12 /\ d \in 1..DaysIn(y, m)

ParseDate(text) ==
  IF text = Zeros(8) THEN NullValue
  ELSE IF /\ Len(text) = 8 /\ AllDigits(text)
          /\ IsDate(Number(SubSeq(text, 1, 4)), Number(SubSeq(text, 5, 6)),
                    Number(SubSeq(text, 7, 8)))
  THEN TheValue(Number(text))
  ELSE Invalid

\* Time::IsValidTime of the library, which accepts 24:00:00.
IsValidTime(h, mi, sec) ==
  \/ h \in 0..23 /\ mi \in 0..59 /\ sec \in 0..59
  \/ h = 24 /\ mi = 0 /\ sec = 0

ParseTime(text) ==
  IF /\ Len(text) = 6 /\ AllDigits(text)
     /\ Number(SubSeq(text, 1, 2)) <= 23
     /\ IsValidTime(Number(SubSeq(text, 1, 2)), Number(SubSeq(text, 3, 4)),
                    Number(SubSeq(text, 5, 6)))
  THEN TheValue(Number(text))
  ELSE Invalid

\* (Mutant) only a leading sign is known.
LeadingSignOnly(text) == IF Head(text) = Plus THEN Tail(text) ELSE text

\* A trailing minus goes to the front; otherwise a leading plus goes away.
SignFirst(text) ==
  IF Last(text) = Minus THEN <<Minus>> \o Front(text)
  ELSE IF Head(text) = Plus THEN Tail(text)
  ELSE text

\* The position of the first point, one past the end if there is none.
PointAt(text) ==
  LET points == {i \in DOMAIN text : text[i] = Point}
  IN  IF points = {} THEN Len(text) + 1 ELSE CHOOSE i \in points : \A j \in points : i <= j

\* The cast of text to DECIMAL(width, decimals) by the library: a minus, digits
\* with at most one point among them, and no more digits before the point than
\* the type has.
CastDecimal(text, width, decimals) ==
  LET negative == text # <<>> /\ Head(text) = Minus
      rest     == IF negative THEN Tail(text) ELSE text
      whole    == SubSeq(rest, 1, PointAt(rest) - 1)
      fraction == SubSeq(rest, PointAt(rest) + 1, Len(rest))
      scaled   == Number(whole \o fraction \o Zeros(decimals - Len(fraction)))
  IN  IF AllDigits(whole \o fraction) /\ WithoutDigits(Number(whole), width - decimals) = 0
      THEN TheValue(IF negative THEN -scaled ELSE scaled)
      ELSE Invalid

ParseDecimal(text, rule) ==
  LET signed == SignFirst(text)
  IN  IF /\ \A i \in DOMAIN signed : IsDigit(signed[i]) \/ signed[i] \in {Minus, Point}
         /\ Len(signed) - PointAt(signed) <= rule.decimals
      THEN CastDecimal(signed, Width(rule), rule.decimals)
      ELSE Invalid

ParseTypedValue(rule, raw) ==
  LET text == Trimmed(raw)
  IN  CASE text = <<>> -> NullValue
        [] text # <<>> /\ Kind(rule) = "date" -> ParseDate(text)
        [] text # <<>> /\ Kind(rule) = "time" -> ParseTime(text)
        [] text # <<>> /\ Kind(rule) = "decimal" -> ParseDecimal(text, rule)

-----------------------------------------------------------------------------
(* The reference: the value a text denotes.                                *)

Digits(text) == {i \in DOMAIN text : IsDigit(text[i])}

\* The place of a digit in the scaled number, 0 for its last: places go up from the
\* point to the left and down from it to the right.
Place(text, decimals, i) ==
  decimals + Cardinality({j \in Digits(text) : j > i /\ j < PointAt(text)})
           - Cardinality({j \in Digits(text) : j <= i /\ j > PointAt(text)})

\* The number n has the digits of the text, each at its place, and no others, and is
\* negative only with a minus.
IsWritten(n, text, decimals, width) ==
  LET size     == IF n < 0 THEN -n ELSE n
      digit(k) == WithoutDigits(size, k) % 10
  IN  /\ \A i \in Digits(text) : digit(Place(text, decimals, i)) = Digit(text[i])
      /\ \A k \in 0..(width - 1) :
           digit(k) # 0 => \E i \in Digits(text) : Place(text, decimals, i) = k
      /\ WithoutDigits(size, width) = 0
      /\ IF \E i \in DOMAIN text : text[i] = Minus THEN n <= 0 ELSE n >= 0

\* All digits but leading zeros are at places below width.
HasRoom(text, decimals, width) ==
  \A i \in Digits(text) : Place(text, decimals, i) >= width => Digit(text[i]) = 0

\* At most one sign at one end, or a plus before a minus, then digits with at most
\* one point and at most so many digits after it.
IsDecimal(text, decimals) ==
  LET of(S) == {i \in DOMAIN text : text[i] \in S}
  IN  /\ of(48..57 \cup {Plus, Minus, Point}) = DOMAIN text
      /\ Digits(text) # {}
      /\ \A i, j \in of({Point}) : i = j
      /\ Cardinality({i \in Digits(text) : i > PointAt(text)}) <= decimals
      /\ \/ of({Plus, Minus}) = {}
         \/ of({Plus, Minus}) = {1}
         \/ of({Minus}) = {Len(text)} /\ of({Plus}) = {}
         \/ of({Plus}) = {1} /\ of({Minus}) = {2}

=============================================================================
