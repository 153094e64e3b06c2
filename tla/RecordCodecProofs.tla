-------------------------- MODULE RecordCodecProofs --------------------------
(***************************************************************************)
(* Proofs about RecordCodec, for every length of an SDATA, every list of   *)
(* fields and values, every header and every bytes of a file.  First what  *)
(* the operators on fields do; then an invariant that says of each place   *)
(* of the codec what the record holds and what has been read of it; then   *)
(* the properties, as consequences of that invariant.                      *)
(***************************************************************************)
EXTENDS RecordCodec, InductionLemmas, SequenceTheorems, FiniteSetTheorems, TLAPS

-----------------------------------------------------------------------------
(* Bytes, and the fields of a record.                                      *)

\* The records, and the texts, of n bytes.
Bytes(n) == [1..n -> Byte]

\* What a field of n bytes holds after value was written: its bytes, as many as
\* fit, and then blanks.
Fitted(value, n) == [b \in 1..n |-> IF b \in DOMAIN value THEN value[b] ELSE Blank]

LEMMA ByteFacts == Blank \in Byte /\ Byte \subseteq Int /\ \A c \in Byte : c >= 0 /\ c <= 255
BY DEF Blank, Byte

\* Records of n bytes are texts of that length.
LEMMA BytesFacts ==
  ASSUME NEW n \in Nat
  PROVE  /\ \A s \in Bytes(n) : s \in Text /\ Len(s) = n /\ DOMAIN s = 1..n
         /\ \A s \in Text : Len(s) = n => s \in Bytes(n)
         /\ Blanks(n) \in Bytes(n)
         /\ \A b \in 1..n : Blanks(n)[b] = Blank
BY ByteFacts DEF Bytes, Text, Blanks

LEMMA TextFacts ==
  ASSUME NEW s \in Text
  PROVE  /\ Len(s) \in Nat /\ DOMAIN s = 1..Len(s)
         /\ s \in Bytes(Len(s))
         /\ \A b \in 1..Len(s) : s[b] \in Byte
BY DEF Text, Bytes

\* Two texts of one length with the same bytes are the same.
LEMMA SameBytes ==
  ASSUME NEW n \in Nat, NEW s \in Bytes(n), NEW t \in Bytes(n), \A b \in 1..n : s[b] = t[b]
  PROVE  s = t
BY DEF Bytes

\* A part of a text.
LEMMA PartFacts ==
  ASSUME NEW s \in Text, NEW a \in Nat, NEW n \in Nat, a + n <= Len(s)
  PROVE  /\ SubSeq(s, a + 1, a + n) \in Bytes(n)
         /\ \A b \in 1..n : SubSeq(s, a + 1, a + n)[b] = s[a + b]
<1>1. s \in Seq(Byte) /\ Len(s) \in Nat
  BY DEF Text
<1>2. \A b \in 1..n : a + b \in 1..Len(s) /\ s[a + b] \in Byte
  BY <1>1
<1>3. SubSeq(s, a + 1, a + n) = [b \in 1..n |-> s[a + b]]
  <2>1. SubSeq(s, a + 1, a + n) \in Seq(Byte)
    BY <1>1, <1>2
  <2>2. Len(SubSeq(s, a + 1, a + n)) = n
    BY <1>1
  <2>3. \A b \in 1..n : SubSeq(s, a + 1, a + n)[b] = s[a + b]
    BY <1>1
  <2> QED
    BY <2>1, <2>2, <2>3
<1> QED
  BY <1>2, <1>3 DEF Bytes

LEMMA BeginningFacts ==
  ASSUME NEW s \in Text, NEW n \in Nat, n <= Len(s)
  PROVE  /\ SubSeq(s, 1, n) \in Bytes(n)
         /\ \A b \in 1..n : SubSeq(s, 1, n)[b] = s[b]
<1>1. s \in Seq(Byte) /\ Len(s) \in Nat
  BY DEF Text
<1>2. \A b \in 1..n : b \in 1..Len(s) /\ s[b] \in Byte
  BY <1>1
<1>3. SubSeq(s, 1, n) = [b \in 1..n |-> s[b]]
  <2>1. SubSeq(s, 1, n) \in Seq(Byte)
    BY <1>1, <1>2
  <2>2. Len(SubSeq(s, 1, n)) = n
    BY <1>1
  <2>3. \A b \in 1..n : SubSeq(s, 1, n)[b] = s[b]
    BY <1>1
  <2> QED
    BY <2>1, <2>2, <2>3
<1> QED
  BY <1>2, <1>3 DEF Bytes

LEMMA FittedFacts ==
  ASSUME NEW v \in Text, NEW n \in Nat
  PROVE  /\ Fitted(v, n) \in Bytes(n)
         /\ \A b \in 1..n : Fitted(v, n)[b] = IF b <= Len(v) THEN v[b] ELSE Blank
<1>1. \A b \in 1..n : b \in DOMAIN v <=> b <= Len(v)
  BY TextFacts
<1> QED
  BY <1>1, TextFacts, ByteFacts DEF Fitted, Bytes

\* The bytes of a record after a field was written.
LEMMA SetFieldFacts ==
  ASSUME NEW n \in Nat, NEW s \in Bytes(n), NEW v \in Text,
         NEW f, f.offset \in Nat, f.length \in Nat
  PROVE  /\ SetFieldRaw(s, f, v) \in Bytes(n)
         /\ \A b \in 1..n : b - f.offset \in 1..f.length =>
              SetFieldRaw(s, f, v)[b] = Fitted(v, f.length)[b - f.offset]
         /\ \A b \in 1..n : b - f.offset \notin 1..f.length => SetFieldRaw(s, f, v)[b] = s[b]
<1>1. DOMAIN s = 1..n /\ \A b \in 1..n : s[b] \in Byte
  BY DEF Bytes
<1>2. \A k \in 1..f.length : /\ Fitted(v, f.length)[k] \in Byte
                             /\ Fitted(v, f.length)[k] = IF k \in DOMAIN v THEN v[k] ELSE Blank
  BY FittedFacts DEF Fitted, Bytes
<1>3. SetFieldRaw(s, f, v) =
        [b \in 1..n |-> IF b - f.offset \in 1..f.length THEN Fitted(v, f.length)[b - f.offset]
                        ELSE s[b]]
  BY <1>1, <1>2 DEF SetFieldRaw
<1> QED
  BY <1>1, <1>2, <1>3 DEF Bytes

\* A field's bytes.
LEMMA GetFieldFacts ==
  ASSUME NEW n \in Nat, NEW s \in Bytes(n),
         NEW f, f.offset \in Nat, f.length \in Nat, f.offset + f.length <= n
  PROVE  /\ GetFieldRaw(s, f) \in Bytes(f.length)
         /\ \A b \in 1..f.length : GetFieldRaw(s, f)[b] = s[f.offset + b]
<1>1. s \in Text /\ Len(s) = n
  BY BytesFacts
<1> QED
  BY <1>1, PartFacts DEF GetFieldRaw

\* A field that was written holds the value.
LEMMA GetAfterSet ==
  ASSUME NEW n \in Nat, NEW s \in Bytes(n), NEW v \in Text,
         NEW f, f.offset \in Nat, f.length \in Nat, f.offset + f.length <= n
  PROVE  GetFieldRaw(SetFieldRaw(s, f, v), f) = Fitted(v, f.length)
<1> DEFINE t == SetFieldRaw(s, f, v)
<1>1. t \in Bytes(n)
  BY SetFieldFacts
<1>2. \A b \in 1..f.length : t[f.offset + b] = Fitted(v, f.length)[b]
  <2> TAKE b \in 1..f.length
  <2>1. f.offset + b \in 1..n /\ (f.offset + b) - f.offset = b
    OBVIOUS
  <2> QED
    BY <2>1, SetFieldFacts
<1> HIDE DEF t
<1>3. /\ GetFieldRaw(t, f) \in Bytes(f.length)
      /\ \A b \in 1..f.length : GetFieldRaw(t, f)[b] = t[f.offset + b]
  BY <1>1, GetFieldFacts
<1>4. Fitted(v, f.length) \in Bytes(f.length)
  BY FittedFacts
<1> QED
  BY <1>2, <1>3, <1>4, SameBytes DEF t

\* The bytes of a field, as places of its record.
LEMMA BytesOfFacts ==
  ASSUME NEW f, f.offset \in Nat, f.length \in Nat, NEW b \in Int
  PROVE  b \in BytesOf(f) <=> b - f.offset \in 1..f.length
BY DEF BytesOf

\* Writing a field leaves the fields that share no byte with it as they were.
LEMMA GetBesideSet ==
  ASSUME NEW n \in Nat, NEW s \in Bytes(n), NEW v \in Text,
         NEW f, f.offset \in Nat, f.length \in Nat,
         NEW g, g.offset \in Nat, g.length \in Nat, g.offset + g.length <= n,
         BytesOf(f) \cap BytesOf(g) = {}
  PROVE  GetFieldRaw(SetFieldRaw(s, f, v), g) = GetFieldRaw(s, g)
<1> DEFINE t == SetFieldRaw(s, f, v)
<1>1. t \in Bytes(n)
  BY SetFieldFacts
<1>2. \A b \in 1..g.length : t[g.offset + b] = s[g.offset + b]
  <2> TAKE b \in 1..g.length
  <2>1. g.offset + b \in 1..n /\ g.offset + b \in BytesOf(g)
    BY DEF BytesOf
  <2>2. (g.offset + b) - f.offset \notin 1..f.length
    BY <2>1, BytesOfFacts
  <2> QED
    BY <2>1, <2>2, SetFieldFacts
<1> HIDE DEF t
<1>3. /\ GetFieldRaw(t, g) \in Bytes(g.length)
      /\ \A b \in 1..g.length : GetFieldRaw(t, g)[b] = t[g.offset + b]
  BY <1>1, GetFieldFacts
<1>4. /\ GetFieldRaw(s, g) \in Bytes(g.length)
      /\ \A b \in 1..g.length : GetFieldRaw(s, g)[b] = s[g.offset + b]
  BY GetFieldFacts
<1> QED
  BY <1>2, <1>3, <1>4, SameBytes DEF t

-----------------------------------------------------------------------------
(* Trailing blanks.                                                        *)

\* The length of the text s without its trailing blanks.
TrimsTo(s, n) ==
  /\ n \in 0..Len(s)
  /\ n = 0 \/ s[n] # Blank
  /\ \A b \in (n + 1)..Len(s) : s[b] = Blank

\* Every set of numbers up to a bound that is not empty has a greatest element.
LEMMA GreatestElement ==
  ASSUME NEW N \in Nat, NEW K \in SUBSET (1..N), K # {}
  PROVE  \E i \in K : \A j \in K : j <= i
<1> DEFINE S == {N - i : i \in K}
<1>1. S \in SUBSET Nat /\ S # {}
  <2>1. \A i \in K : i \in 1..N /\ N - i \in Nat
    OBVIOUS
  <2>2. PICK i \in K : TRUE
    OBVIOUS
  <2>3. N - i \in S
    OBVIOUS
  <2> QED
    BY <2>1, <2>3
<1>2. PICK m \in S : \A k \in S : m <= k
  BY <1>1, LeastElement
<1>3. PICK i \in K : m = N - i
  BY <1>2
<1>4. ASSUME NEW j \in K
      PROVE  j <= i
  <2>1. N - j \in S
    OBVIOUS
  <2>2. N - i <= N - j
    BY <1>2, <1>3, <2>1
  <2> QED
    BY <2>2
<1> QED
  BY <1>4

\* RTrim keeps everything up to the last byte that is no blank.
LEMMA RTrimIs ==
  ASSUME NEW s \in Text, NEW n, TrimsTo(s, n)
  PROVE  /\ RTrim(s) = SubSeq(s, 1, n)
         /\ RTrim(s) \in Bytes(n)
         /\ \A b \in 1..n : RTrim(s)[b] = s[b]
<1> DEFINE kept == {i \in DOMAIN s : s[i] # Blank}
           IsLast(i) == i \in kept /\ \A j \in kept : j <= i
<1>1. DOMAIN s = 1..Len(s) /\ Len(s) \in Nat
  BY TextFacts
<1>2. n \in 0..Len(s) /\ (n = 0 \/ s[n] # Blank) /\ \A b \in (n + 1)..Len(s) : s[b] = Blank
  BY DEF TrimsTo
<1>3. RTrim(s) = SubSeq(s, 1, n)
  <2>1. CASE n = 0
    <3>1. kept = {}
      BY <1>1, <1>2, <2>1
    <3> QED
      BY <2>1, <3>1 DEF RTrim
  <2>2. CASE n # 0
    <3>1. n \in kept /\ \A j \in kept : j <= n
      BY <1>1, <1>2, <2>2
    <3>2. \A i : IsLast(i) <=> i = n
      <4>1. \A j \in kept : j \in Int
        BY <1>1
      <4> HIDE DEF kept
      <4>2. ASSUME NEW i, IsLast(i)
            PROVE  i = n
        BY <1>2, <3>1, <4>1, <4>2
      <4>3. IsLast(n)
        BY <3>1
      <4> QED
        BY <4>2, <4>3
    <3>3. (CHOOSE i \in kept : \A j \in kept : j <= i) = n
      <4> HIDE DEF kept
      <4> QED
        BY <3>1, <3>2
    <3> QED
      BY <3>1, <3>3 DEF RTrim
  <2> QED
    BY <2>1, <2>2
<1>4. /\ SubSeq(s, 0 + 1, 0 + n) \in Bytes(n)
      /\ \A b \in 1..n : SubSeq(s, 0 + 1, 0 + n)[b] = s[0 + b]
  BY <1>1, <1>2, PartFacts
<1>5. 0 + 1 = 1 /\ 0 + n = n /\ \A b \in 1..n : 0 + b = b
  BY <1>2
<1> QED
  BY <1>3, <1>4, <1>5

LEMMA TrimsToSome ==
  ASSUME NEW s \in Text
  PROVE  \E n : TrimsTo(s, n)
<1> DEFINE kept == {i \in 1..Len(s) : s[i] # Blank}
<1>1. Len(s) \in Nat
  BY TextFacts
<1>2. CASE kept = {}
  <2>1. TrimsTo(s, 0)
    BY <1>1, <1>2 DEF TrimsTo
  <2> QED
    BY <2>1
<1>3. CASE kept # {}
  <2>1. PICK n \in kept : \A j \in kept : j <= n
    BY <1>1, <1>3, GreatestElement
  <2>2. \A b \in (n + 1)..Len(s) : b \in 1..Len(s) /\ ~ (b <= n)
    BY <1>1, <2>1
  <2>3. TrimsTo(s, n)
    BY <1>1, <2>1, <2>2 DEF TrimsTo
  <2> QED
    BY <2>3
<1> QED
  BY <1>2, <1>3

\* What RTrim returns is a text that does not end with a blank.
LEMMA RTrimFacts ==
  ASSUME NEW s \in Text
  PROVE  /\ RTrim(s) \in Text
         /\ TrimsTo(s, Len(RTrim(s)))
         /\ \A b \in 1..Len(RTrim(s)) : RTrim(s)[b] = s[b]
<1>1. PICK n : TrimsTo(s, n)
  BY TrimsToSome
<1>2. n \in Nat
  BY <1>1, TextFacts DEF TrimsTo
<1>3. RTrim(s) \in Bytes(n) /\ \A b \in 1..n : RTrim(s)[b] = s[b]
  BY <1>1, RTrimIs
<1>4. RTrim(s) \in Text /\ Len(RTrim(s)) = n
  BY <1>2, <1>3, BytesFacts
<1> QED
  BY <1>1, <1>3, <1>4

\* What fits into a field of n bytes.
LEMMA CutFacts ==
  ASSUME NEW v \in Text, NEW n \in Nat
  PROVE  /\ Cut(v, n) \in Text
         /\ Len(Cut(v, n)) = IF Len(v) < n THEN Len(v) ELSE n
         /\ \A b \in 1..Len(Cut(v, n)) : Cut(v, n)[b] = v[b]
<1> DEFINE m == IF Len(v) < n THEN Len(v) ELSE n
<1>1. m \in Nat /\ m <= Len(v) /\ 0 + m <= Len(v)
  BY TextFacts
<1>2. /\ SubSeq(v, 0 + 1, 0 + m) \in Bytes(m)
      /\ \A b \in 1..m : SubSeq(v, 0 + 1, 0 + m)[b] = v[0 + b]
  <2> HIDE DEF m
  <2> QED
    BY <1>1, PartFacts
<1>3. 0 + 1 = 1 /\ 0 + m = m /\ \A b \in 1..m : 0 + b = b
  BY <1>1
<1>4. Cut(v, n) = SubSeq(v, 1, m)
  BY DEF Cut
<1> HIDE DEF m
<1>5. Cut(v, n) \in Bytes(m) /\ \A b \in 1..m : Cut(v, n)[b] = v[b]
  BY <1>2, <1>3, <1>4
<1>6. Cut(v, n) \in Text /\ Len(Cut(v, n)) = m
  BY <1>1, <1>5, BytesFacts
<1> QED
  BY <1>5, <1>6 DEF m

\* The blanks that fill a field are trimmed: what comes back of a value is what
\* fitted of it, without its own trailing blanks.
LEMMA RTrimFitted ==
  ASSUME NEW v \in Text, NEW n \in Nat
  PROVE  RTrim(Fitted(v, n)) = RTrim(Cut(v, n))
<1> DEFINE c == Cut(v, n)
           f == Fitted(v, n)
<1>1. /\ c \in Text /\ Len(c) \in Nat /\ Len(c) <= n
      /\ Len(c) = IF Len(v) < n THEN Len(v) ELSE n
      /\ \A b \in 1..Len(c) : c[b] = v[b]
  BY CutFacts, TextFacts
<1>2. /\ f \in Text /\ Len(f) = n
      /\ \A b \in 1..n : f[b] = IF b <= Len(v) THEN v[b] ELSE Blank
  BY FittedFacts, BytesFacts
<1>3. Len(v) \in Nat
  BY TextFacts
<1> HIDE DEF c, f
<1>4. /\ \A b \in 1..Len(c) : f[b] = c[b]
      /\ \A b \in (Len(c) + 1)..n : f[b] = Blank
  BY <1>1, <1>2, <1>3
<1>5. PICK k : TrimsTo(c, k)
  BY <1>1, TrimsToSome
<1>6. k \in 0..Len(c) /\ (k = 0 \/ c[k] # Blank) /\ \A b \in (k + 1)..Len(c) : c[b] = Blank
  BY <1>5 DEF TrimsTo
<1>7. TrimsTo(f, k)
  <2>1. k \in 0..Len(f)
    BY <1>1, <1>2, <1>6
  <2>2. k = 0 \/ f[k] # Blank
    BY <1>1, <1>4, <1>6
  <2>3. \A b \in (k + 1)..Len(f) : f[b] = Blank
    <3> TAKE b \in (k + 1)..Len(f)
    <3>1. CASE b <= Len(c)
      BY <1>1, <1>2, <1>4, <1>6, <3>1
    <3>2. CASE ~ (b <= Len(c))
      BY <1>1, <1>2, <1>4, <1>6, <3>2
    <3> QED
      BY <3>1, <3>2
  <2> QED
    BY <2>1, <2>2, <2>3 DEF TrimsTo
<1>8. /\ RTrim(c) \in Bytes(k) /\ \A b \in 1..k : RTrim(c)[b] = c[b]
      /\ RTrim(f) \in Bytes(k) /\ \A b \in 1..k : RTrim(f)[b] = f[b]
  BY <1>1, <1>2, <1>5, <1>7, RTrimIs
<1>9. k \in Nat /\ \A b \in 1..k : f[b] = c[b]
  BY <1>1, <1>4, <1>6
<1> QED
  BY <1>8, <1>9, SameBytes DEF c, f

\* Of blanks nothing is left.
LEMMA RTrimBlanks ==
  ASSUME NEW s \in Text, \A b \in 1..Len(s) : s[b] = Blank
  PROVE  RTrim(s) = <<>>
<1>1. TrimsTo(s, 0)
  BY TextFacts DEF TrimsTo
<1>2. RTrim(s) = SubSeq(s, 1, 0)
  BY <1>1, RTrimIs
<1> QED
  BY <1>2 DEF Text

-----------------------------------------------------------------------------
(* Decimal digits.                                                         *)

\* Two functions of one primitive recursion agree as far as both go.
LEMMA RecursionUnique ==
  ASSUME NEW T, NEW base, NEW step, NEW n \in Nat, NEW m \in Nat, n <= m,
         NEW g, FollowsUpTo(g, n, T, base, step),
         NEW h, FollowsUpTo(h, m, T, base, step)
  PROVE  \A i \in 0..n : g[i] = h[i]
<1> DEFINE S == {i \in Nat : i <= n => g[i] = h[i]}
<1>1. /\ g[0] = base /\ \A i \in 1..n : g[i] = step[<<g[i - 1], i>>]
      /\ h[0] = base /\ \A i \in 1..m : h[i] = step[<<h[i - 1], i>>]
  BY DEF FollowsUpTo
<1>2. 0 \in S
  BY <1>1
<1>3. ASSUME NEW i \in Nat, i \in S
      PROVE  i + 1 \in S
  <2> SUFFICES ASSUME i + 1 <= n
               PROVE  g[i + 1] = h[i + 1]
    OBVIOUS
  <2>1. i + 1 \in 1..n /\ i + 1 \in 1..m /\ (i + 1) - 1 = i /\ g[i] = h[i]
    BY <1>3
  <2> QED
    BY <1>1, <2>1
<1> HIDE DEF S
<1>4. Nat \subseteq S
  BY <1>2, <1>3, NatSetInduction
<1> QED
  BY <1>4 DEF S

\* The recursion of WithoutDigits, as a function.
TenthOf == [x \in Nat \X Nat |-> x[1] \div 10]

LEMMA TenthFacts ==
  /\ TenthOf \in StepFunctions(Nat)
  /\ \A n, i \in Nat : TenthOf[<<n, i>>] = n \div 10
<1>1. \A n \in Nat : n \div 10 \in Nat
  OBVIOUS
<1> QED
  BY <1>1 DEF TenthOf, StepFunctions

LEMMA WithoutDigitsRecursion ==
  ASSUME NEW n \in Nat, NEW k \in Nat
  PROVE  \E g : FollowsUpTo(g, k, Nat, n, TenthOf) /\ WithoutDigits(n, k) = g[k]
<1> DEFINE IsRest(g) == g = [j \in 0..k |-> IF j = 0 THEN n ELSE g[j - 1] \div 10]
<1>1. PICK g : FollowsUpTo(g, k, Nat, n, TenthOf)
  BY TenthFacts, PrimitiveRecursion
<1>2. \A j \in 0..k : g[j] = IF j = 0 THEN n ELSE g[j - 1] \div 10
  <2> TAKE j \in 0..k
  <2>1. j # 0 => j \in 1..k /\ j - 1 \in 0..k /\ j \in Nat
    OBVIOUS
  <2>2. g \in [0..k -> Nat] /\ g[0] = n /\ \A i \in 1..k : g[i] = TenthOf[<<g[i - 1], i>>]
    BY <1>1 DEF FollowsUpTo
  <2> QED
    BY <2>1, <2>2, TenthFacts
<1>3. IsRest(g)
  BY <1>1, <1>2 DEF FollowsUpTo
<1>4. WithoutDigits(n, k) = (CHOOSE f : IsRest(f))[k]
  BY DEF WithoutDigits
<1>5. IsRest(CHOOSE f : IsRest(f))
  <2> HIDE DEF IsRest
  <2> QED
    BY <1>3
<1> DEFINE c == CHOOSE f : IsRest(f)
<1>6. IsRest(c)
  BY <1>5
<1> HIDE DEF c
<1>7. c \in [0..k -> Nat]
  <2> DEFINE S == {j \in Nat : j <= k => c[j] \in Nat}
  <2>1. 0 \in S
    BY <1>6
  <2>2. ASSUME NEW j \in Nat, j \in S
        PROVE  j + 1 \in S
    <3> SUFFICES ASSUME j + 1 <= k
                 PROVE  c[j + 1] \in Nat
      OBVIOUS
    <3>1. c[j + 1] = c[j] \div 10 /\ c[j] \in Nat
      BY <1>6, <2>2
    <3> QED
      BY <3>1
  <2> HIDE DEF S
  <2>3. Nat \subseteq S
    BY <2>1, <2>2, NatSetInduction
  <2>4. \A j \in 0..k : c[j] \in Nat
    BY <2>3 DEF S
  <2> QED
    BY <1>6, <2>4
<1>8. FollowsUpTo(c, k, Nat, n, TenthOf)
  <2>1. c[0] = n
    BY <1>6
  <2>2. ASSUME NEW j \in 1..k
        PROVE  c[j] = TenthOf[<<c[j - 1], j>>]
    <3>1. j \in 0..k /\ j # 0 /\ j - 1 \in 0..k /\ j \in Nat
      OBVIOUS
    <3>2. c[j] = c[j - 1] \div 10
      BY <1>6, <3>1
    <3>3. c[j - 1] \in Nat
      BY <1>7, <3>1
    <3> QED
      BY <3>1, <3>2, <3>3, TenthFacts
  <2> QED
    BY <1>7, <2>1, <2>2 DEF FollowsUpTo
<1> QED
  BY <1>4, <1>8 DEF c

\* Digit after digit is taken away.
LEMMA WithoutDigitsFacts ==
  ASSUME NEW n \in Nat
  PROVE  /\ WithoutDigits(n, 0) = n
         /\ \A k \in Nat : /\ WithoutDigits(n, k) \in Nat
                           /\ WithoutDigits(n, k + 1) = WithoutDigits(n, k) \div 10
<1>1. WithoutDigits(n, 0) = n
  BY WithoutDigitsRecursion DEF FollowsUpTo
<1>2. ASSUME NEW k \in Nat
      PROVE  /\ WithoutDigits(n, k) \in Nat
             /\ WithoutDigits(n, k + 1) = WithoutDigits(n, k) \div 10
  <2>1. PICK g : FollowsUpTo(g, k, Nat, n, TenthOf) /\ WithoutDigits(n, k) = g[k]
    BY WithoutDigitsRecursion
  <2>2. k + 1 \in Nat /\ k <= k + 1 /\ k \in 0..k
    OBVIOUS
  <2>3. PICK h : FollowsUpTo(h, k + 1, Nat, n, TenthOf) /\ WithoutDigits(n, k + 1) = h[k + 1]
    BY <2>2, WithoutDigitsRecursion
  <2>4. g[k] = h[k]
    BY <2>1, <2>2, <2>3, RecursionUnique
  <2>5. g[k] \in Nat
    BY <2>1, <2>2 DEF FollowsUpTo
  <2>6. h[k + 1] = TenthOf[<<h[k], k + 1>>]
    BY <2>3 DEF FollowsUpTo
  <2> QED
    BY <2>1, <2>2, <2>3, <2>4, <2>5, <2>6, TenthFacts
<1> QED
  BY <1>1, <1>2

\* A padded number is a text of digits.
LEMMA ZeroPadFacts ==
  ASSUME NEW n \in Int, NEW w \in Nat
  PROVE  /\ ZeroPad(n, w) \in Bytes(w)
         /\ \A i \in 1..w : IsDigit(ZeroPad(n, w)[i])
         /\ n >= 0 => \A i \in 1..w : ZeroPad(n, w)[i] = 48 + (WithoutDigits(n, w - i) % 10)
<1>1. Larger(n, 0) \in Nat /\ (n >= 0 => Larger(n, 0) = n)
  BY DEF Larger
<1>2. \A i \in 1..w : w - i \in Nat
  OBVIOUS
<1>3. \A i \in 1..w : 48 + (WithoutDigits(Larger(n, 0), w - i) % 10) \in 48..57
  <2> TAKE i \in 1..w
  <2>1. WithoutDigits(Larger(n, 0), w - i) \in Nat
    BY <1>1, <1>2, WithoutDigitsFacts
  <2> QED
    BY <2>1
<1> QED
  BY <1>1, <1>3 DEF ZeroPad, Bytes, Byte, IsDigit

-----------------------------------------------------------------------------
(* The number a text of digits denotes.                                    *)

\* The recursion of Number, as a function.
DigitStep(s) == [x \in Int \X Nat |-> 10 * x[1] + (IF x[2] \in 1..Len(s) THEN Digit(s[x[2]]) ELSE 0)]

\* The partial results of Number.
IsUpto(g, s) ==
  /\ g \in [0..Len(s) -> Int]
  /\ g[0] = 0
  /\ \A k \in 1..Len(s) : g[k] = 10 * g[k - 1] + Digit(s[k])

LEMMA NumberRecursion ==
  ASSUME NEW s \in Text
  PROVE  \E g : IsUpto(g, s) /\ Number(s) = g[Len(s)]
<1> DEFINE n == Len(s)
           IsNumber(g) == g = [k \in 0..n |-> IF k = 0 THEN 0 ELSE 10 * g[k - 1] + Digit(s[k])]
<1>1. n \in Nat /\ \A k \in 1..n : Digit(s[k]) \in Int
  <2>1. n \in Nat /\ \A k \in 1..n : s[k] \in Int
    BY TextFacts, ByteFacts
  <2> HIDE DEF n
  <2> QED
    BY <2>1 DEF Digit
<1>2. /\ DigitStep(s) \in StepFunctions(Int)
      /\ \A m \in Int : \A k \in 1..n : DigitStep(s)[<<m, k>>] = 10 * m + Digit(s[k])
  BY <1>1 DEF DigitStep, StepFunctions
<1> HIDE DEF n
<1>3. PICK g : FollowsUpTo(g, n, Int, 0, DigitStep(s))
  <2>1. 0 \in Int
    OBVIOUS
  <2> HIDE DEF IsNumber
  <2> QED
    BY <1>1, <1>2, <2>1, PrimitiveRecursion
<1>4. /\ g \in [0..n -> Int] /\ g[0] = 0
      /\ \A k \in 1..n : g[k] = 10 * g[k - 1] + Digit(s[k])
  <2>1. /\ g \in [0..n -> Int] /\ g[0] = 0
        /\ \A k \in 1..n : g[k] = DigitStep(s)[<<g[k - 1], k>>]
    BY <1>3 DEF FollowsUpTo
  <2>2. \A k \in 1..n : g[k - 1] \in Int
    BY <1>1, <2>1
  <2> QED
    BY <1>2, <2>1, <2>2
<1>5. IsNumber(g)
  <2>1. \A k \in 0..n : k # 0 => k \in 1..n
    BY <1>1
  <2> QED
    BY <1>4, <2>1
<1>6. Number(s) = (CHOOSE f : IsNumber(f))[n]
  BY DEF Number, n
<1> DEFINE c == CHOOSE f : IsNumber(f)
<1>7. IsNumber(c)
  <2> HIDE DEF IsNumber
  <2> QED
    BY <1>5
<1>8. Number(s) = c[n]
  BY <1>6
<1> HIDE DEF c
<1>9. c[0] = 0 /\ DOMAIN c = 0..n /\ \A k \in 1..n : c[k] = 10 * c[k - 1] + Digit(s[k])
  BY <1>1, <1>7
<1>10. \A k \in 0..n : c[k] \in Int
  <2> DEFINE S == {k \in Nat : k <= n => c[k] \in Int}
  <2>1. 0 \in S
    BY <1>9
  <2>2. ASSUME NEW k \in Nat, k \in S
        PROVE  k + 1 \in S
    <3> SUFFICES ASSUME k + 1 <= n
                 PROVE  c[k + 1] \in Int
      OBVIOUS
    <3>1. k + 1 \in 1..n /\ (k + 1) - 1 = k /\ c[k] \in Int
      BY <1>1, <2>2
    <3> QED
      BY <1>1, <1>9, <3>1
  <2> HIDE DEF S
  <2>3. Nat \subseteq S
    BY <2>1, <2>2, NatSetInduction
  <2> QED
    BY <1>1, <2>3 DEF S
<1>11. IsUpto(c, s)
  BY <1>7, <1>9, <1>10 DEF IsUpto, n
<1> QED
  BY <1>8, <1>11 DEF n

\* A number that fits its field is what the field's digits denote.
LEMMA NumberOfZeroPad ==
  ASSUME NEW n \in Nat, NEW w \in Nat, WithoutDigits(n, w) = 0
  PROVE  Number(ZeroPad(n, w)) = n
<1> DEFINE s == ZeroPad(n, w)
           rest(k) == WithoutDigits(n, w - k)
<1>1. s \in Text /\ Len(s) = w
  BY ZeroPadFacts, BytesFacts
<1>2. \A k \in 1..w : s[k] = 48 + (rest(k) % 10)
  BY ZeroPadFacts
<1>3. rest(0) = 0 /\ rest(w) = n
  <2>1. w - 0 = w /\ w - w = 0
    OBVIOUS
  <2> QED
    BY <2>1, WithoutDigitsFacts
<1>4. \A k \in 1..w : rest(k) \in Nat /\ rest(k - 1) = rest(k) \div 10
  <2> TAKE k \in 1..w
  <2>1. w - k \in Nat /\ (w - k) + 1 = w - (k - 1)
    OBVIOUS
  <2>2. /\ WithoutDigits(n, w - k) \in Nat
        /\ WithoutDigits(n, (w - k) + 1) = WithoutDigits(n, w - k) \div 10
    BY <2>1, WithoutDigitsFacts
  <2> QED
    BY <2>1, <2>2, Zenon
<1> HIDE DEF s, rest
<1>5. PICK g : IsUpto(g, s) /\ Number(s) = g[Len(s)]
  BY <1>1, NumberRecursion
<1> DEFINE S == {k \in Nat : k <= w => g[k] = rest(k)}
<1>6. 0 \in S
  BY <1>3, <1>5 DEF IsUpto
<1>7. ASSUME NEW k \in Nat, k \in S
      PROVE  k + 1 \in S
  <2> SUFFICES ASSUME k + 1 <= w
               PROVE  g[k + 1] = rest(k + 1)
    OBVIOUS
  <2>1. k + 1 \in 1..w /\ (k + 1) - 1 = k /\ g[k] = rest(k)
    BY <1>7
  <2>2. g[k + 1] = 10 * g[k] + Digit(s[k + 1])
    BY <1>1, <1>5, <2>1 DEF IsUpto
  <2>3. PICK m \in Nat : m = rest(k + 1) /\ rest(k) = m \div 10
    BY <1>4, <2>1
  <2>4. Digit(s[k + 1]) = m % 10
    BY <1>2, <2>1, <2>3 DEF Digit
  <2>5. m = 10 * (m \div 10) + (m % 10)
    OBVIOUS
  <2> QED
    BY <2>1, <2>2, <2>3, <2>4, <2>5
<1> HIDE DEF S
<1>8. w \in S
  BY <1>6, <1>7, NatSetInduction
<1> QED
  BY <1>1, <1>3, <1>5, <1>8 DEF S, s

\* There are no blanks to trim in a padded number.
LEMMA RTrimZeroPad ==
  ASSUME NEW n \in Int, NEW w \in Nat
  PROVE  RTrim(ZeroPad(n, w)) = ZeroPad(n, w)
<1> DEFINE s == ZeroPad(n, w)
<1>1. s \in Bytes(w) /\ s \in Text /\ Len(s) = w /\ \A i \in 1..w : IsDigit(s[i])
  BY ZeroPadFacts, BytesFacts
<1> HIDE DEF s
<1>2. TrimsTo(s, w)
  BY <1>1 DEF TrimsTo, IsDigit, Blank
<1>3. RTrim(s) \in Bytes(w) /\ \A b \in 1..w : RTrim(s)[b] = s[b]
  BY <1>1, <1>2, RTrimIs
<1> QED
  BY <1>1, <1>3, SameBytes DEF s

-----------------------------------------------------------------------------
(* The two kinds of record.                                                *)

DataFields == {"SEGNAM", "MANDT", "DOCNUM", "SEGNUM", "PSGNUM", "HLEVEL", "SDATA"}

\* What EncodeDataRecord writes into a field.
DataValue(header, s, name) ==
  IF name = "SDATA" THEN s
  ELSE IF name \in {"SEGNAM", "MANDT"} THEN header[name]
  ELSE ZeroPad(header[name], EDI_DD40_FIELDS[name].length)

LEMMA Lengths ==
  /\ SDATA_LEN \in Nat /\ SDATA_LEN > 0
  /\ DATA_RECORD_LEN \in Nat /\ DATA_RECORD_LEN = 63 + SDATA_LEN
  /\ CONTROL_RECORD_LEN = 524
BY CodecAssumption DEF DATA_RECORD_LEN, CONTROL_RECORD_LEN

\* The fields of a data record lie within it, and no two share a byte.
LEMMA DataFieldFacts ==
  /\ DOMAIN EDI_DD40_FIELDS = DataFields
  /\ \A name \in DataFields :
       /\ EDI_DD40_FIELDS[name].offset \in Nat /\ EDI_DD40_FIELDS[name].length \in Nat
       /\ EDI_DD40_FIELDS[name].offset + EDI_DD40_FIELDS[name].length <= DATA_RECORD_LEN
  /\ \A x, y \in DataFields : x # y => BytesOf(EDI_DD40_FIELDS[x]) \cap BytesOf(EDI_DD40_FIELDS[y]) = {}
<1>1. /\ EDI_DD40_FIELDS["SEGNAM"].offset = 0 /\ EDI_DD40_FIELDS["SEGNAM"].length = 30
      /\ EDI_DD40_FIELDS["MANDT"].offset = 30 /\ EDI_DD40_FIELDS["MANDT"].length = 3
      /\ EDI_DD40_FIELDS["DOCNUM"].offset = 33 /\ EDI_DD40_FIELDS["DOCNUM"].length = 16
      /\ EDI_DD40_FIELDS["SEGNUM"].offset = 49 /\ EDI_DD40_FIELDS["SEGNUM"].length = 6
      /\ EDI_DD40_FIELDS["PSGNUM"].offset = 55 /\ EDI_DD40_FIELDS["PSGNUM"].length = 6
      /\ EDI_DD40_FIELDS["HLEVEL"].offset = 61 /\ EDI_DD40_FIELDS["HLEVEL"].length = 2
      /\ EDI_DD40_FIELDS["SDATA"].offset = 63 /\ EDI_DD40_FIELDS["SDATA"].length = SDATA_LEN
  BY DEF EDI_DD40_FIELDS, Field
<1>2. DOMAIN EDI_DD40_FIELDS = DataFields
  BY DEF EDI_DD40_FIELDS, DataFields
<1>3. \A name \in DataFields :
        /\ EDI_DD40_FIELDS[name].offset \in Nat /\ EDI_DD40_FIELDS[name].length \in Nat
        /\ EDI_DD40_FIELDS[name].offset + EDI_DD40_FIELDS[name].length <= DATA_RECORD_LEN
  BY <1>1, Lengths DEF DataFields
<1>4. \A x, y \in DataFields :
        x # y => \/ EDI_DD40_FIELDS[x].offset + EDI_DD40_FIELDS[x].length <= EDI_DD40_FIELDS[y].offset
                 \/ EDI_DD40_FIELDS[y].offset + EDI_DD40_FIELDS[y].length <= EDI_DD40_FIELDS[x].offset
  BY <1>1, Lengths DEF DataFields
<1>5. ASSUME NEW x \in DataFields, NEW y \in DataFields, x # y
      PROVE  BytesOf(EDI_DD40_FIELDS[x]) \cap BytesOf(EDI_DD40_FIELDS[y]) = {}
  BY <1>3, <1>4, <1>5 DEF BytesOf
<1> QED
  BY <1>2, <1>3, <1>5

\* One more field of a data record written: it holds its value, the others what
\* they held.
LEMMA PutFacts ==
  ASSUME NEW s \in Bytes(DATA_RECORD_LEN), NEW x \in DataFields, NEW v \in Text
  PROVE  LET t == SetFieldRaw(s, EDI_DD40_FIELDS[x], v)
         IN  /\ t \in Bytes(DATA_RECORD_LEN)
             /\ GetFieldRaw(t, EDI_DD40_FIELDS[x]) = Fitted(v, EDI_DD40_FIELDS[x].length)
             /\ \A y \in DataFields : y # x =>
                  GetFieldRaw(t, EDI_DD40_FIELDS[y]) = GetFieldRaw(s, EDI_DD40_FIELDS[y])
<1> DEFINE f == EDI_DD40_FIELDS[x]
           n == DATA_RECORD_LEN
<1>1. n \in Nat /\ f.offset \in Nat /\ f.length \in Nat /\ f.offset + f.length <= n
  BY Lengths, DataFieldFacts
<1>2. \A y \in DataFields : y # x =>
        /\ EDI_DD40_FIELDS[y].offset \in Nat /\ EDI_DD40_FIELDS[y].length \in Nat
        /\ EDI_DD40_FIELDS[y].offset + EDI_DD40_FIELDS[y].length <= n
        /\ BytesOf(f) \cap BytesOf(EDI_DD40_FIELDS[y]) = {}
  BY DataFieldFacts
<1> HIDE DEF f, n
<1>3. s \in Bytes(n)
  BY DEF n
<1>4. SetFieldRaw(s, f, v) \in Bytes(n) /\ GetFieldRaw(SetFieldRaw(s, f, v), f) = Fitted(v, f.length)
  BY <1>1, <1>3, SetFieldFacts, GetAfterSet
<1>5. \A y \in DataFields : y # x =>
        GetFieldRaw(SetFieldRaw(s, f, v), EDI_DD40_FIELDS[y]) = GetFieldRaw(s, EDI_DD40_FIELDS[y])
  BY <1>1, <1>2, <1>3, GetBesideSet
<1> QED
  BY <1>4, <1>5 DEF f, n

\* Each field of an encoded data record holds its value.
LEMMA DataRecordFacts ==
  ASSUME NEW header \in Header, NEW s \in Bytes(SDATA_LEN)
  PROVE  /\ EncodeDataRecord(header, s) \in Bytes(DATA_RECORD_LEN)
         /\ \A name \in DataFields :
              GetFieldRaw(EncodeDataRecord(header, s), EDI_DD40_FIELDS[name]) =
                Fitted(DataValue(header, s, name), EDI_DD40_FIELDS[name].length)
         /\ GetFieldRaw(EncodeDataRecord(header, s), EDI_DD40_FIELDS["SDATA"]) = s
<1> DEFINE D == EDI_DD40_FIELDS
           v(name) == DataValue(header, s, name)
           r0 == Blanks(DATA_RECORD_LEN)
           r1 == SetFieldRaw(r0, D["SEGNAM"], v("SEGNAM"))
           r2 == SetFieldRaw(r1, D["MANDT"], v("MANDT"))
           r3 == SetFieldRaw(r2, D["DOCNUM"], v("DOCNUM"))
           r4 == SetFieldRaw(r3, D["SEGNUM"], v("SEGNUM"))
           r5 == SetFieldRaw(r4, D["PSGNUM"], v("PSGNUM"))
           r6 == SetFieldRaw(r5, D["HLEVEL"], v("HLEVEL"))
           r7 == SetFieldRaw(r6, D["SDATA"], v("SDATA"))
           Holds(r, names) == \A x \in names : GetFieldRaw(r, D[x]) = Fitted(v(x), D[x].length)
           Whole == Bytes(DATA_RECORD_LEN)
<1>1. EncodeDataRecord(header, s) = r7
  BY DEF EncodeDataRecord, DataValue
<1>2. \A name \in DataFields : v(name) \in Text
  <2>1. s \in Text
    BY Lengths, BytesFacts
  <2>2. /\ header.SEGNAM \in Text /\ header.MANDT \in Text
        /\ \A x \in {"DOCNUM", "SEGNUM", "PSGNUM", "HLEVEL"} : header[x] \in Int
    BY DEF Header
  <2>3. ASSUME NEW x \in {"DOCNUM", "SEGNUM", "PSGNUM", "HLEVEL"}
        PROVE  ZeroPad(header[x], D[x].length) \in Text
    <3>1. header[x] \in Int /\ D[x].length \in Nat
      BY <2>2, DataFieldFacts DEF DataFields
    <3>2. ZeroPad(header[x], D[x].length) \in Bytes(D[x].length)
      BY <3>1, ZeroPadFacts
    <3> QED
      BY <3>1, <3>2, BytesFacts
  <2> QED
    BY <2>1, <2>2, <2>3 DEF DataValue, DataFields
<1>3. r0 \in Whole
  BY Lengths, BytesFacts
<1> HIDE DEF v, r0, D
<1>4. \A r \in Whole, x \in DataFields :
        /\ SetFieldRaw(r, D[x], v(x)) \in Whole
        /\ \A names \in SUBSET DataFields :
             Holds(r, names) => Holds(SetFieldRaw(r, D[x], v(x)), names \cup {x})
  <2> TAKE r \in Whole, x \in DataFields
  <2> DEFINE t == SetFieldRaw(r, D[x], v(x))
  <2>1. v(x) \in Text
    BY <1>2
  <2>2. /\ t \in Whole
        /\ GetFieldRaw(t, D[x]) = Fitted(v(x), D[x].length)
        /\ \A y \in DataFields : y # x => GetFieldRaw(t, D[y]) = GetFieldRaw(r, D[y])
    BY <2>1, PutFacts DEF D
  <2> HIDE DEF t
  <2>3. \A names \in SUBSET DataFields : Holds(r, names) => Holds(t, names \cup {x})
    BY <2>2
  <2> QED
    BY <2>2, <2>3 DEF t
<1> HIDE DEF Holds, Whole
<1>5. Holds(r0, {})
  BY DEF Holds
<1>6. r1 \in Whole /\ Holds(r1, {"SEGNAM"})
  BY <1>3, <1>4, <1>5 DEF DataFields
<1> HIDE DEF r1
<1>7. r2 \in Whole /\ Holds(r2, {"SEGNAM", "MANDT"})
  <2>1. Holds(r2, {"SEGNAM"} \cup {"MANDT"}) /\ r2 \in Whole
    BY <1>4, <1>6 DEF DataFields
  <2>2. {"SEGNAM"} \cup {"MANDT"} = {"SEGNAM", "MANDT"}
    OBVIOUS
  <2> QED
    BY <2>1, <2>2
<1> HIDE DEF r2
<1>8. r3 \in Whole /\ Holds(r3, {"SEGNAM", "MANDT", "DOCNUM"})
  <2>1. Holds(r3, {"SEGNAM", "MANDT"} \cup {"DOCNUM"}) /\ r3 \in Whole
    BY <1>4, <1>7 DEF DataFields
  <2>2. {"SEGNAM", "MANDT"} \cup {"DOCNUM"} = {"SEGNAM", "MANDT", "DOCNUM"}
    OBVIOUS
  <2> QED
    BY <2>1, <2>2
<1> HIDE DEF r3
<1>9. r4 \in Whole /\ Holds(r4, {"SEGNAM", "MANDT", "DOCNUM", "SEGNUM"})
  <2>1. Holds(r4, {"SEGNAM", "MANDT", "DOCNUM"} \cup {"SEGNUM"}) /\ r4 \in Whole
    BY <1>4, <1>8 DEF DataFields
  <2>2. {"SEGNAM", "MANDT", "DOCNUM"} \cup {"SEGNUM"} = {"SEGNAM", "MANDT", "DOCNUM", "SEGNUM"}
    OBVIOUS
  <2> QED
    BY <2>1, <2>2
<1> HIDE DEF r4
<1>10. r5 \in Whole /\ Holds(r5, DataFields \ {"HLEVEL", "SDATA"})
  <2>1. Holds(r5, {"SEGNAM", "MANDT", "DOCNUM", "SEGNUM"} \cup {"PSGNUM"}) /\ r5 \in Whole
    BY <1>4, <1>9 DEF DataFields
  <2>2. {"SEGNAM", "MANDT", "DOCNUM", "SEGNUM"} \cup {"PSGNUM"} = DataFields \ {"HLEVEL", "SDATA"}
    BY DEF DataFields
  <2> QED
    BY <2>1, <2>2
<1> HIDE DEF r5
<1>11. r6 \in Whole /\ Holds(r6, DataFields \ {"SDATA"})
  <2>1. Holds(r6, (DataFields \ {"HLEVEL", "SDATA"}) \cup {"HLEVEL"}) /\ r6 \in Whole
    BY <1>4, <1>10 DEF DataFields
  <2>2. (DataFields \ {"HLEVEL", "SDATA"}) \cup {"HLEVEL"} = DataFields \ {"SDATA"}
    BY DEF DataFields
  <2> QED
    BY <2>1, <2>2
<1> HIDE DEF r6
<1>12. r7 \in Whole /\ Holds(r7, DataFields)
  <2>1. Holds(r7, (DataFields \ {"SDATA"}) \cup {"SDATA"}) /\ r7 \in Whole
    BY <1>4, <1>11 DEF DataFields
  <2>2. (DataFields \ {"SDATA"}) \cup {"SDATA"} = DataFields
    BY DEF DataFields
  <2> QED
    BY <2>1, <2>2
<1>13. GetFieldRaw(r7, D["SDATA"]) = s
  <2>1. GetFieldRaw(r7, D["SDATA"]) = Fitted(s, SDATA_LEN)
    BY <1>12 DEF Holds, v, D, DataValue, DataFields, EDI_DD40_FIELDS, Field
  <2>2. Fitted(s, SDATA_LEN) \in Bytes(SDATA_LEN) /\ \A b \in 1..SDATA_LEN : Fitted(s, SDATA_LEN)[b] = s[b]
    BY Lengths, BytesFacts, FittedFacts
  <2> QED
    BY <2>1, <2>2, Lengths, SameBytes
<1> QED
  BY <1>1, <1>12, <1>13 DEF Holds, Whole, v, D

\* The 36 fields of a control record follow one another up to its end.
LEMMA ControlFieldsInOrder ==
  \A i \in 1..35 : ControlOffsets[i] + ControlLengths[i] = ControlOffsets[i + 1]
BY SMTT(60) DEF ControlOffsets, ControlLengths

LEMMA ControlFieldFacts ==
  \A i \in 1..36 :
    /\ EDI_DC40_FIELDS[i].offset \in Nat /\ EDI_DC40_FIELDS[i].length \in Nat
    /\ EDI_DC40_FIELDS[i].offset + EDI_DC40_FIELDS[i].length <= CONTROL_RECORD_LEN
    /\ EDI_DC40_FIELDS[i].offset = ControlOffsets[i]
    /\ EDI_DC40_FIELDS[i].length = ControlLengths[i]
<1>1. \A i \in 1..36 : /\ ControlOffsets[i] \in Nat /\ ControlLengths[i] \in Nat
                       /\ ControlOffsets[i] + ControlLengths[i] <= 524
  BY SMTT(60) DEF ControlOffsets, ControlLengths
<1> QED
  BY <1>1 DEF EDI_DC40_FIELDS, Field, CONTROL_RECORD_LEN

\* No two of them share a byte.
LEMMA ControlFieldsApart ==
  \A i, j \in 1..36 : i # j => BytesOf(EDI_DC40_FIELDS[i]) \cap BytesOf(EDI_DC40_FIELDS[j]) = {}
<1> DEFINE F == EDI_DC40_FIELDS
           End(i) == F[i].offset + F[i].length
<1>1. \A i \in 1..36 : F[i].offset = ControlOffsets[i] /\ F[i].length = ControlLengths[i]
  BY ControlFieldFacts
<1>2. \A i \in 1..36 : F[i].offset \in Nat /\ F[i].length \in Nat
  BY ControlFieldFacts
<1> HIDE DEF F
<1>3. \A i \in 1..35 : End(i) = F[i + 1].offset
  <2> TAKE i \in 1..35
  <2>1. i \in 1..36 /\ i + 1 \in 1..36
    OBVIOUS
  <2> QED
    BY <1>1, <2>1, ControlFieldsInOrder
<1>4. ASSUME NEW i \in 1..36
      PROVE  \A j \in 1..36 : i < j => End(i) <= F[j].offset
  <2> DEFINE S == {k \in Nat : i + (k + 1) <= 36 => End(i) <= F[i + (k + 1)].offset}
  <2>1. 0 \in S
    <3>1. i + 1 <= 36 => i \in 1..35
      OBVIOUS
    <3>2. i + (0 + 1) = i + 1
      OBVIOUS
    <3>4. End(i) \in Int
      BY <1>2
    <3> HIDE DEF End
    <3>3. i \in 1..35 => End(i) = F[i + 1].offset
      BY <1>3
    <3> QED
      BY <3>1, <3>2, <3>3, <3>4
  <2>2. ASSUME NEW k \in Nat, k \in S
        PROVE  k + 1 \in S
    <3> SUFFICES ASSUME i + ((k + 1) + 1) <= 36
                 PROVE  End(i) <= F[i + ((k + 1) + 1)].offset
      OBVIOUS
    <3> DEFINE m == i + (k + 1)
    <3>1. m \in 1..35 /\ m \in 1..36 /\ m + 1 = i + ((k + 1) + 1)
      OBVIOUS
    <3>2. End(i) <= F[m].offset
      BY <2>2, <3>1
    <3> HIDE DEF m
    <3>3. F[m].offset + F[m].length = F[m + 1].offset
      BY <1>3, <3>1
    <3>4. F[m].offset \in Nat /\ F[m].length \in Nat /\ End(i) \in Int
      <4>1. End(i) \in Int
        BY <1>2
      <4> HIDE DEF End
      <4> QED
        BY <1>2, <3>1, <4>1, Zenon
    <3> HIDE DEF End
    <3>5. End(i) <= F[m + 1].offset
      BY <3>2, <3>3, <3>4
    <3> QED
      BY <3>1, <3>5
  <2> HIDE DEF S
  <2>3. Nat \subseteq S
    BY <2>1, <2>2, NatSetInduction
  <2> TAKE j \in 1..36
  <2> HAVE i < j
  <2>4. j - i - 1 \in Nat /\ i + ((j - i - 1) + 1) = j
    OBVIOUS
  <2>5. j - i - 1 \in S
    BY <2>3, <2>4
  <2> QED
    BY <2>4, <2>5 DEF S
<1>5. ASSUME NEW i \in 1..36, NEW j \in 1..36, i # j
      PROVE  BytesOf(F[i]) \cap BytesOf(F[j]) = {}
  <2>1. End(i) <= F[j].offset \/ End(j) <= F[i].offset
    <3>1. i < j \/ j < i
      BY <1>5
    <3> HIDE DEF End
    <3> QED
      BY <1>4, <3>1
  <2>2. /\ F[i].offset \in Nat /\ F[i].length \in Nat
        /\ F[j].offset \in Nat /\ F[j].length \in Nat
    BY <1>2
  <2> QED
    BY <2>1, <2>2 DEF BytesOf
<1> QED
  BY <1>1, <1>2, <1>5 DEF F

\* The recursive definition of EncodeControl holds.
IsEncoded(g, values) ==
  /\ g[0] = Blanks(CONTROL_RECORD_LEN)
  /\ \A n \in 1..36 :
       g[n] = IF n \in DOMAIN values THEN SetFieldRaw(g[n - 1], EDI_DC40_FIELDS[n], values[n])
              ELSE g[n - 1]

LEMMA EncodeControlRecursion ==
  ASSUME NEW values \in Seq(Text)
  PROVE  \E g : IsEncoded(g, values) /\ EncodeControl(values) = g[36]
<1> DEFINE T == Bytes(CONTROL_RECORD_LEN)
           R == 1..36
           Set(r, n) == IF n \in DOMAIN values THEN SetFieldRaw(r, EDI_DC40_FIELDS[n], values[n])
                        ELSE r
           step == [x \in T \X Nat |-> IF x[2] \in R THEN Set(x[1], x[2]) ELSE x[1]]
           IsPut(g) == g = [n \in 0..36 |->
                              IF n = 0 THEN Blanks(CONTROL_RECORD_LEN)
                              ELSE IF n \in DOMAIN values
                                   THEN SetFieldRaw(g[n - 1], EDI_DC40_FIELDS[n], values[n])
                              ELSE g[n - 1]]
<1>1. Blanks(CONTROL_RECORD_LEN) \in T
  BY Lengths, BytesFacts
<1>2. ASSUME NEW r \in T, NEW n \in R
      PROVE  Set(r, n) \in T
  <2>1. n \in DOMAIN values => values[n] \in Text
    OBVIOUS
  <2>2. /\ CONTROL_RECORD_LEN \in Nat
        /\ EDI_DC40_FIELDS[n].offset \in Nat /\ EDI_DC40_FIELDS[n].length \in Nat
    <3>1. CONTROL_RECORD_LEN \in Nat
      BY Lengths
    <3> QED
      BY <3>1, ControlFieldFacts
  <2> QED
    BY <2>1, <2>2, SetFieldFacts
<1> HIDE DEF Set, T
<1>3. step \in StepFunctions(T)
  <2>1. \A x \in T \X Nat : (IF x[2] \in R THEN Set(x[1], x[2]) ELSE x[1]) \in T
    BY <1>2
  <2> QED
    BY <2>1 DEF StepFunctions
<1>4. \A r \in T, n \in R : step[<<r, n>>] = Set(r, n)
  OBVIOUS
<1> HIDE DEF step, IsPut
<1>5. PICK g : FollowsUpTo(g, 36, T, Blanks(CONTROL_RECORD_LEN), step)
  <2>1. 36 \in Nat
    OBVIOUS
  <2> QED
    BY <1>1, <1>3, <2>1, PrimitiveRecursion
<1>6. /\ g \in [0..36 -> T] /\ g[0] = Blanks(CONTROL_RECORD_LEN)
      /\ \A n \in 1..36 : g[n] = Set(g[n - 1], n)
  <2>1. /\ g \in [0..36 -> T] /\ g[0] = Blanks(CONTROL_RECORD_LEN)
        /\ \A n \in 1..36 : g[n] = step[<<g[n - 1], n>>]
    BY <1>5 DEF FollowsUpTo
  <2>2. \A n \in 1..36 : g[n - 1] \in T
    <3>1. \A n \in 1..36 : n - 1 \in 0..36
      OBVIOUS
    <3> QED
      BY <2>1, <3>1
  <2> QED
    BY <1>4, <2>1, <2>2
<1>7. IsPut(g)
  <2>1. \A n \in 0..36 : n # 0 => n \in 1..36
    OBVIOUS
  <2> QED
    BY <1>6, <2>1 DEF IsPut, Set
<1> DEFINE c == CHOOSE f : IsPut(f)
<1>8. EncodeControl(values) = c[36]
  BY DEF EncodeControl, IsPut
<1>9. IsPut(c)
  BY <1>7
<1> HIDE DEF c
<1>10. IsEncoded(c, values)
  <2>1. c[0] = Blanks(CONTROL_RECORD_LEN)
    BY <1>9 DEF IsPut
  <2>2. ASSUME NEW n \in 1..36
        PROVE  c[n] = IF n \in DOMAIN values
                      THEN SetFieldRaw(c[n - 1], EDI_DC40_FIELDS[n], values[n])
                      ELSE c[n - 1]
    <3>1. n \in 0..36 /\ n # 0
      OBVIOUS
    <3> QED
      BY <1>9, <3>1, Zenon DEF IsPut
  <2> QED
    BY <2>1, <2>2 DEF IsEncoded
<1> QED
  BY <1>8, <1>10

\* One more field of a control record written.
LEMMA PutControlFacts ==
  ASSUME NEW s \in Bytes(CONTROL_RECORD_LEN), NEW n \in 1..36, NEW v \in Text
  PROVE  LET t == SetFieldRaw(s, EDI_DC40_FIELDS[n], v)
         IN  /\ t \in Bytes(CONTROL_RECORD_LEN)
             /\ GetFieldRaw(t, EDI_DC40_FIELDS[n]) = Fitted(v, ControlLengths[n])
             /\ \A i \in 1..36 : i # n =>
                  GetFieldRaw(t, EDI_DC40_FIELDS[i]) = GetFieldRaw(s, EDI_DC40_FIELDS[i])
<1> DEFINE f == EDI_DC40_FIELDS[n]
           m == CONTROL_RECORD_LEN
<1>1. m \in Nat
  BY Lengths
<1>2. /\ f.offset \in Nat /\ f.length \in Nat /\ f.offset + f.length <= m
      /\ f.length = ControlLengths[n]
  BY ControlFieldFacts
<1>3. ASSUME NEW i \in 1..36, i # n
      PROVE  /\ EDI_DC40_FIELDS[i].offset \in Nat /\ EDI_DC40_FIELDS[i].length \in Nat
             /\ EDI_DC40_FIELDS[i].offset + EDI_DC40_FIELDS[i].length <= m
             /\ BytesOf(f) \cap BytesOf(EDI_DC40_FIELDS[i]) = {}
  BY <1>3, ControlFieldFacts, ControlFieldsApart
<1> HIDE DEF f, m
<1>4. s \in Bytes(m)
  BY DEF m
<1>5. SetFieldRaw(s, f, v) \in Bytes(m) /\ GetFieldRaw(SetFieldRaw(s, f, v), f) = Fitted(v, f.length)
  <2>1. SetFieldRaw(s, f, v) \in Bytes(m)
    BY <1>1, <1>2, <1>4, SetFieldFacts, Zenon
  <2>2. GetFieldRaw(SetFieldRaw(s, f, v), f) = Fitted(v, f.length)
    BY <1>1, <1>2, <1>4, GetAfterSet, Zenon
  <2> QED
    BY <2>1, <2>2, Zenon
<1>6. \A i \in 1..36 : i # n =>
        GetFieldRaw(SetFieldRaw(s, f, v), EDI_DC40_FIELDS[i]) = GetFieldRaw(s, EDI_DC40_FIELDS[i])
  <2> SUFFICES ASSUME NEW i \in 1..36, i # n
               PROVE  GetFieldRaw(SetFieldRaw(s, f, v), EDI_DC40_FIELDS[i])
                        = GetFieldRaw(s, EDI_DC40_FIELDS[i])
    BY Zenon
  <2>1. PICK g : g = EDI_DC40_FIELDS[i]
    OBVIOUS
  <2>2. /\ g.offset \in Nat /\ g.length \in Nat /\ g.offset + g.length <= m
        /\ BytesOf(f) \cap BytesOf(g) = {}
    BY <1>3, <2>1, Zenon
  <2>3. GetFieldRaw(SetFieldRaw(s, f, v), g) = GetFieldRaw(s, g)
    BY <1>1, <1>2, <1>4, <2>2, GetBesideSet
  <2> QED
    BY <2>1, <2>3, Zenon
<1> QED
  BY <1>2, <1>5, <1>6 DEF f, m

\* Each field of an encoded control record holds its value, or blanks when the list
\* is too short.
LEMMA ControlRecordFacts ==
  ASSUME NEW values \in Seq(Text)
  PROVE  /\ EncodeControl(values) \in Bytes(CONTROL_RECORD_LEN)
         /\ \A i \in 1..36 :
              GetFieldRaw(EncodeControl(values), EDI_DC40_FIELDS[i]) =
                IF i \in DOMAIN values THEN Fitted(values[i], ControlLengths[i])
                ELSE Blanks(ControlLengths[i])
<1> DEFINE T == Bytes(CONTROL_RECORD_LEN)
           F == EDI_DC40_FIELDS
           Want(i, n) == IF i <= n /\ i \in DOMAIN values THEN Fitted(values[i], ControlLengths[i])
                         ELSE Blanks(ControlLengths[i])
           Right(r, n) == r \in T /\ \A i \in 1..36 : GetFieldRaw(r, F[i]) = Want(i, n)
<1>a. CONTROL_RECORD_LEN \in Nat
  BY Lengths
<1>b. \A i \in 1..36 : /\ F[i].offset \in Nat /\ F[i].length \in Nat
                       /\ F[i].offset + F[i].length <= CONTROL_RECORD_LEN
                       /\ F[i].length = ControlLengths[i]
  BY ControlFieldFacts
<1>c. \A i, j \in 1..36 : i # j => BytesOf(F[i]) \cap BytesOf(F[j]) = {}
  BY ControlFieldsApart
<1>d. \A i \in DOMAIN values : values[i] \in Text
  OBVIOUS
<1> HIDE DEF F
<1>1. PICK g : IsEncoded(g, values) /\ EncodeControl(values) = g[36]
  BY EncodeControlRecursion
<1>2. Right(g[0], 0)
  <2>1. g[0] = Blanks(CONTROL_RECORD_LEN) /\ g[0] \in T
    BY <1>a, <1>1, BytesFacts DEF IsEncoded
  <2>2. ASSUME NEW i \in 1..36
        PROVE  GetFieldRaw(g[0], F[i]) = Blanks(ControlLengths[i])
    <3> DEFINE n == F[i].length
    <3>1. /\ F[i].offset \in Nat /\ n \in Nat /\ F[i].offset + n <= CONTROL_RECORD_LEN
          /\ n = ControlLengths[i]
      BY <1>b
    <3>2. /\ GetFieldRaw(g[0], F[i]) \in Bytes(n)
          /\ \A b \in 1..n : GetFieldRaw(g[0], F[i])[b] = g[0][F[i].offset + b]
      BY <1>a, <2>1, <3>1, GetFieldFacts
    <3>3. \A b \in 1..n : g[0][F[i].offset + b] = Blank
      <4> TAKE b \in 1..n
      <4>1. F[i].offset + b \in 1..CONTROL_RECORD_LEN
        BY <1>a, <3>1
      <4> QED
        BY <1>a, <2>1, <4>1, BytesFacts
    <3>4. Blanks(n) \in Bytes(n) /\ \A b \in 1..n : Blanks(n)[b] = Blank
      BY <3>1, BytesFacts
    <3> HIDE DEF n
    <3>5. \A b \in 1..n : GetFieldRaw(g[0], F[i])[b] = Blanks(n)[b]
      BY <3>2, <3>3, <3>4
    <3>6. GetFieldRaw(g[0], F[i]) = Blanks(n)
      BY <3>1, <3>2, <3>4, <3>5, SameBytes
    <3> QED
      BY <3>1, <3>6
  <2>3. \A i \in 1..36 : Want(i, 0) = Blanks(ControlLengths[i])
    OBVIOUS
  <2> QED
    BY <2>1, <2>2, <2>3
<1>3. ASSUME NEW n \in 1..36, Right(g[n - 1], n - 1)
      PROVE  Right(g[n], n)
  <2>1. /\ F[n].offset \in Nat /\ F[n].length \in Nat
        /\ F[n].offset + F[n].length <= CONTROL_RECORD_LEN
        /\ F[n].length = ControlLengths[n]
    BY <1>b
  <2>2. g[n - 1] \in T /\ \A i \in 1..36 : GetFieldRaw(g[n - 1], F[i]) = Want(i, n - 1)
    BY <1>3
  <2>3. \A i \in 1..36 : i # n => Want(i, n) = Want(i, n - 1)
    <3> TAKE i \in 1..36
    <3>1. i # n => (i <= n <=> i <= n - 1)
      OBVIOUS
    <3> QED
      BY <3>1
  <2>4. CASE n \in DOMAIN values
    <3> DEFINE t == SetFieldRaw(g[n - 1], F[n], values[n])
    <3>1. g[n] = t
      BY <1>1, <2>4 DEF IsEncoded, F
    <3>0. values[n] \in Text
      BY <1>d, <2>4
    <3>2. t \in T /\ GetFieldRaw(t, F[n]) = Fitted(values[n], ControlLengths[n])
      BY <2>2, <3>0, PutControlFacts DEF F
    <3>3. \A i \in 1..36 : i # n => GetFieldRaw(t, F[i]) = GetFieldRaw(g[n - 1], F[i])
      BY <2>2, <3>0, PutControlFacts DEF F
    <3> HIDE DEF t
    <3>4. Want(n, n) = Fitted(values[n], ControlLengths[n])
      BY <2>4
    <3> HIDE DEF Want, T
    <3>5. \A i \in 1..36 : GetFieldRaw(t, F[i]) = Want(i, n)
      BY <2>2, <2>3, <3>2, <3>3, <3>4
    <3> QED
      BY <3>1, <3>2, <3>5
  <2>5. CASE n \notin DOMAIN values
    <3>1. g[n] = g[n - 1]
      BY <1>1, <2>5 DEF IsEncoded
    <3>2. Want(n, n) = Want(n, n - 1)
      BY <2>5
    <3> HIDE DEF Want, T
    <3>3. \A i \in 1..36 : Want(i, n) = Want(i, n - 1)
      BY <2>3, <3>2
    <3> QED
      BY <2>2, <3>1, <3>3
  <2> QED
    BY <2>4, <2>5
<1> DEFINE S == {n \in Nat : n <= 36 => Right(g[n], n)}
<1> HIDE DEF Right
<1>4. 0 \in S
  BY <1>2
<1>5. ASSUME NEW n \in Nat, n \in S
      PROVE  n + 1 \in S
  <2> SUFFICES ASSUME n + 1 <= 36
               PROVE  Right(g[n + 1], n + 1)
    OBVIOUS
  <2>1. n + 1 \in 1..36 /\ (n + 1) - 1 = n /\ Right(g[n], n)
    BY <1>5
  <2>2. Right(g[(n + 1) - 1], (n + 1) - 1)
    BY <2>1
  <2> QED
    BY <1>3, <2>1, <2>2
<1> HIDE DEF S
<1>6. 36 \in S
  BY <1>4, <1>5, NatSetInduction
<1>7. Right(g[36], 36)
  BY <1>6 DEF S
<1>8. \A i \in 1..36 : i <= 36
  OBVIOUS
<1> QED
  BY <1>1, <1>7, <1>8 DEF Right, F

-----------------------------------------------------------------------------
(* The invariant.                                                          *)

\* What CodecAssumption says of a case.
IsCase(c) ==
  /\ c.origin \in {"sql", "file", "control"}
  /\ c.rules \in Seq(Rule)
  /\ c.values \in Seq(Text)
  /\ c.header \in Header
  /\ c.encoding \in TextEncodings
  /\ c.typed \in BOOLEAN /\ c.strict \in BOOLEAN
  /\ c.origin # "file" => \A i \in DOMAIN c.values : WellFormed(c.values[i])
  /\ c.origin = "file" => Len(c.values) = 1 /\ Len(c.values[1]) = SDATA_LEN

Types ==
  /\ IsCase(case)
  /\ sdata \in Bytes(SDATA_LEN)
  /\ next \in 1..(Len(case.rules) + 1)
  /\ pc \in CASE case.origin = "sql" -> {"sdata", "not_encoded", "record", "skipped", "read",
                                         "fields", "refused", "done"}
              [] case.origin = "file" -> {"record", "skipped", "read", "fields", "refused", "done"}
              [] case.origin = "control" -> {"control", "skipped", "read_control", "refused", "done"}

\* The record is what the encoder makes of the header and the SDATA, or of the list.
RecordHolds ==
  record = IF pc \in {"sdata", "not_encoded", "record", "control"} THEN <<>>
           ELSE IF case.origin = "control" THEN EncodeControl(case.values)
           ELSE EncodeDataRecord(case.header, sdata)

\* The columns of sap_idoc_read, and of sap_idoc_read_control.
ReadRow ==
  [name \in DOMAIN EDI_DD40_FIELDS |->
     IF name = "SDATA"
     THEN DecodeText(GetFieldRaw(record, EDI_DD40_FIELDS["SDATA"]), case.encoding)
     ELSE Column(name)]

ControlRaw(i) == GetFieldRaw(record, EDI_DC40_FIELDS[i])
ControlRow == [i \in 1..36 |-> RTrim(DecodeText(ControlRaw(i), case.encoding))]

RowHolds ==
  /\ pc \in {"fields", "refused", "done"} \/ row = <<>>
  /\ case.origin # "control" => row = <<>> \/ row = ReadRow
  /\ case.origin = "control" /\ pc = "done" => row = ControlRow
  /\ case.origin = "control" /\ pc = "refused" =>
       \E i \in 1..36 : ~Decodes(ControlRaw(i), case.encoding)

\* What sap_idoc_read_segment delivers of field i.
CellOf(i) ==
  IF KindOf(i) = "text" THEN RTrim(TextOf(i))
  ELSE IF Parsed(i).ok THEN Parsed(i)
  ELSE NullValue

\* So many fields have been read, none of which throws; the query has ended at the
\* first that does, or after the last.
Reading == case.origin # "control" /\ pc \in {"fields", "refused", "done"}

CellsHold ==
  /\ cells = [i \in 1..(IF Reading THEN next - 1 ELSE 0) |-> CellOf(i)]
  /\ Reading => \A i \in 1..(next - 1) : ~FieldThrows(i)
  /\ Reading /\ pc = "refused" => next \in DOMAIN case.rules /\ FieldThrows(next)
  /\ Reading /\ pc = "done" => next = Len(case.rules) + 1

\* The first n - 1 fields have been put into the SDATA: each holds its value unless
\* another was put over it, and what none of them covers is blank.
Composed(n) ==
  /\ \A j \in 1..(n - 1) : j \in DOMAIN case.values /\ InBounds(case.rules[j])
  /\ Disjoint => \A j \in 1..(n - 1) :
       GetFieldRaw(sdata, case.rules[j]) = Fitted(case.values[j], case.rules[j].length)
  /\ \A b \in 1..SDATA_LEN :
       (\A j \in 1..(n - 1) : b \notin BytesOf(case.rules[j])) => sdata[b] = Blank

SdataHolds ==
  /\ case.origin = "file" => sdata = case.values[1]
  /\ case.origin = "sql" =>
       IF pc \in {"sdata", "not_encoded"} THEN Composed(next) ELSE Composed(Len(case.rules) + 1)

CodecInv == Types /\ RecordHolds /\ RowHolds /\ CellsHold /\ SdataHolds

-----------------------------------------------------------------------------
(* The invariant holds.                                                    *)

LEMMA CaseFacts ==
  ASSUME NEW c, IsCase(c)
  PROVE  /\ Len(c.rules) \in Nat /\ DOMAIN c.rules = 1..Len(c.rules)
         /\ \A i \in 1..Len(c.rules) :
              /\ c.rules[i].offset \in Int /\ c.rules[i].length \in Int
              /\ c.rules[i].decimals \in Int
         /\ Len(c.values) \in Nat /\ DOMAIN c.values = 1..Len(c.values)
         /\ \A i \in 1..Len(c.values) : c.values[i] \in Text
<1>1. c.rules \in Seq(Rule) /\ c.values \in Seq(Text)
  BY DEF IsCase
<1>2. \A r \in Rule : r.offset \in Int /\ r.length \in Int /\ r.decimals \in Int
  BY DEF Rule
<1> QED
  BY <1>1, <1>2

\* A field within bounds is a field of the SDATA.
LEMMA InBoundsFacts ==
  ASSUME NEW r, r.offset \in Int, r.length \in Int, InBounds(r)
  PROVE  r.offset \in Nat /\ r.length \in Nat /\ r.offset + r.length <= SDATA_LEN
BY Lengths DEF InBounds

LEMMA InitCase ==
  ASSUME Init
  PROVE  IsCase(case)
<1>1. PICK g \in DOMAIN Cases : case \in Cases[g]
  BY DEF Init
<1> QED
  BY <1>1, CodecAssumption DEF IsCase

LEMMA TypesInit == Init => Types
<1> SUFFICES ASSUME Init
             PROVE  Types
  OBVIOUS
<1>1. IsCase(case)
  BY InitCase
<1>2. next \in 1..(Len(case.rules) + 1)
  BY <1>1, CaseFacts DEF Init
<1>3. sdata \in Bytes(SDATA_LEN)
  <2>1. CASE case.origin = "file"
    <3>1. sdata = case.values[1] /\ Len(case.values) = 1 /\ Len(case.values[1]) = SDATA_LEN
      BY <1>1, <2>1 DEF Init, IsCase
    <3>2. case.values[1] \in Text
      BY <1>1, <3>1, CaseFacts
    <3> QED
      BY <3>1, <3>2, TextFacts
  <2>2. CASE case.origin # "file"
    <3>1. sdata = Blanks(SDATA_LEN)
      BY <2>2 DEF Init
    <3> QED
      BY <3>1, Lengths, BytesFacts
  <2> QED
    BY <2>1, <2>2
<1>4. case.origin \in {"sql", "file", "control"}
  BY <1>1 DEF IsCase
<1>5. /\ case.origin = "sql" => pc = "sdata"
      /\ case.origin = "file" => pc = "record"
      /\ case.origin = "control" => pc = "control"
  BY DEF Init
<1> QED
  BY <1>1, <1>2, <1>3, <1>4, <1>5 DEF Types

\* Which actions a case of each origin takes.
LEMMA OriginFacts ==
  ASSUME Types
  PROVE  /\ case.origin \in {"sql", "file", "control"}
         /\ pc \in {"sdata", "not_encoded"} => case.origin = "sql"
         /\ pc \in {"record", "read", "fields"} => case.origin # "control"
         /\ pc \in {"control", "read_control"} => case.origin = "control"
BY DEF Types, IsCase

\* What every step leaves alone.
LEMMA StepFacts ==
  ASSUME [Next]_vars
  PROVE  /\ case' = case
         /\ EncodeField \/ sdata' = sdata
         /\ EncodeRecord \/ EncodeControlRecord \/ record' = record
BY DEF Next, vars, EncodeField, RefuseSdata, EncodedSdata, EncodeRecord, ReadIdocScan, ReadField,
       RefuseField, ReadDone, EncodeControlRecord, ReadIdocControlScan

LEMMA TypesStep ==
  ASSUME Types, [Next]_vars
  PROVE  Types'
<1>1. case' = case /\ IsCase(case') /\ Len(case.rules) \in Nat /\ DOMAIN case.rules = 1..Len(case.rules)
  BY StepFacts, CaseFacts DEF Types
<1>2. (sdata \in Bytes(SDATA_LEN))'
  <2>1. CASE EncodeField
    <3>1. next \in 1..Len(case.rules) /\ Len(case.rules) = Len(case.values)
      BY <1>1, <2>1 DEF EncodeField
    <3>2. case.values[next] \in Text /\ case.rules[next].offset \in Int /\ case.rules[next].length \in Int
      BY <3>1, CaseFacts DEF Types
    <3>3. case.rules[next].offset \in Nat /\ case.rules[next].length \in Nat
      BY <2>1, <3>2, InBoundsFacts DEF EncodeField
    <3> QED
      BY <2>1, <3>2, <3>3, SetFieldFacts, Lengths DEF EncodeField, Types
  <2>2. CASE sdata' = sdata
    BY <2>2 DEF Types
  <2> QED
    BY <2>1, <2>2, StepFacts
<1>3. next' \in 1..(Len(case.rules) + 1)
  <2>1. next' = next \/ next' = 1 \/ (next \in DOMAIN case.rules /\ next' = next + 1)
    BY DEF Next, vars, EncodeField, RefuseSdata, EncodedSdata, EncodeRecord, ReadIdocScan,
           ReadField, RefuseField, ReadDone, EncodeControlRecord, ReadIdocControlScan
  <2> QED
    BY <1>1, <2>1 DEF Types
<1>4. (pc \in CASE case.origin = "sql" -> {"sdata", "not_encoded", "record", "skipped", "read",
                                         "fields", "refused", "done"}
              [] case.origin = "file" -> {"record", "skipped", "read", "fields", "refused", "done"}
              [] case.origin = "control" -> {"control", "skipped", "read_control", "refused", "done"})'
  <2>1. /\ case.origin \in {"sql", "file", "control"}
        /\ pc \in {"sdata", "not_encoded"} => case.origin = "sql"
        /\ pc \in {"record", "read", "fields"} => case.origin # "control"
        /\ pc \in {"control", "read_control"} => case.origin = "control"
    BY OriginFacts
  <2>2. \/ pc' = pc
        \/ pc = "sdata" /\ pc' \in {"not_encoded", "record"}
        \/ pc = "record" /\ pc' \in {"skipped", "read"}
        \/ pc = "read" /\ pc' = "fields"
        \/ pc = "fields" /\ pc' \in {"refused", "done"}
        \/ pc = "control" /\ pc' \in {"read_control", "skipped"}
        \/ pc = "read_control" /\ pc' \in {"done", "refused"}
    BY DEF Next, vars, EncodeField, RefuseSdata, EncodedSdata, EncodeRecord, ReadIdocScan,
           ReadField, RefuseField, ReadDone, EncodeControlRecord, ReadIdocControlScan
  <2>3. CASE pc' = pc
    BY <1>1, <2>3 DEF Types
  <2>4. CASE case.origin = "sql"
    BY <1>1, <2>1, <2>2, <2>3, <2>4
  <2>5. CASE case.origin = "file"
    BY <1>1, <2>1, <2>2, <2>3, <2>5
  <2>6. CASE case.origin = "control"
    BY <1>1, <2>1, <2>2, <2>3, <2>6
  <2> QED
    BY <2>1, <2>4, <2>5, <2>6
<1> QED
  BY <1>1, <1>2, <1>3, <1>4 DEF Types

LEMMA RecordStep ==
  ASSUME Types, RecordHolds, [Next]_vars
  PROVE  RecordHolds'
<1>1. case' = case
  BY StepFacts
<1>2. CASE EncodeRecord
  <2>1. /\ pc = "record" /\ pc' \in {"skipped", "read"} /\ sdata' = sdata
        /\ record' = EncodeDataRecord(case.header, sdata)
    BY <1>2 DEF EncodeRecord
  <2>2. case.origin # "control"
    BY <2>1, OriginFacts
  <2> QED
    BY <1>1, <2>1, <2>2 DEF RecordHolds
<1>3. CASE EncodeControlRecord
  <2>1. /\ pc = "control" /\ pc' \in {"skipped", "read_control"}
        /\ record' = EncodeControl(case.values)
    BY <1>3 DEF EncodeControlRecord
  <2>2. case.origin = "control"
    BY <2>1, OriginFacts
  <2> QED
    BY <1>1, <2>1, <2>2 DEF RecordHolds
<1>4. CASE ~EncodeRecord /\ ~EncodeControlRecord
  <2>1. record' = record
    BY <1>4, StepFacts
  <2>2. pc' \in {"sdata", "not_encoded", "record", "control"}
          <=> pc \in {"sdata", "not_encoded", "record", "control"}
    BY <1>4 DEF Next, vars, EncodeField, RefuseSdata, EncodedSdata, ReadIdocScan,
           ReadField, RefuseField, ReadDone, ReadIdocControlScan
  <2>3. pc \notin {"sdata", "not_encoded", "record", "control"} => sdata' = sdata
    BY StepFacts DEF EncodeField
  <2> QED
    BY <1>1, <2>1, <2>2, <2>3 DEF RecordHolds
<1> QED
  BY <1>2, <1>3, <1>4

\* A step that changes neither the case nor the record changes nothing of what is
\* read of them.
LEMMA SameRecord ==
  ASSUME case' = case, record' = record
  PROVE  /\ ReadRow' = ReadRow /\ ControlRow' = ControlRow
         /\ \A i : ControlRaw(i)' = ControlRaw(i) /\ CellOf(i)' = CellOf(i)
         /\ \A i : FieldThrows(i)' = FieldThrows(i)
<1>1. \A i : Slice(i)' = Slice(i) /\ KindOf(i)' = KindOf(i)
  BY DEF Slice, KindOf
<1>2. \A i : TextOf(i)' = TextOf(i)
  BY <1>1 DEF TextOf
<1>3. \A i : Parsed(i)' = Parsed(i)
  BY <1>2 DEF Parsed
<1>4. ReadRow' = ReadRow
  BY DEF ReadRow, Column
<1>5. \A i : ControlRaw(i)' = ControlRaw(i)
  BY DEF ControlRaw
<1>6. ControlRow' = ControlRow
  BY <1>5 DEF ControlRow
<1>7. \A i : CellOf(i)' = CellOf(i)
  BY <1>1, <1>2, <1>3 DEF CellOf
<1>8. \A i : FieldThrows(i)' = FieldThrows(i)
  BY <1>1, <1>3 DEF FieldThrows
<1> QED
  BY <1>4, <1>5, <1>6, <1>7, <1>8

LEMMA RowStep ==
  ASSUME Types, RowHolds, [Next]_vars
  PROVE  RowHolds'
<1>1. case' = case
  BY StepFacts
<1>2. CASE ReadIdocScan
  <2>1. record' = record /\ pc = "read" /\ pc' = "fields"
    BY <1>2 DEF ReadIdocScan
  <2>2. row' = ReadRow \/ row' = <<>>
    BY <1>2 DEF ReadIdocScan, ReadRow
  <2>3. case.origin # "control"
    BY <2>1, OriginFacts
  <2> QED
    BY <1>1, <2>1, <2>2, <2>3, SameRecord DEF RowHolds
<1>3. CASE ReadIdocControlScan
  <2>1. record' = record /\ pc = "read_control" /\ pc' \in {"done", "refused"}
    BY <1>3 DEF ReadIdocControlScan
  <2>2. /\ pc' = "done" => row' = ControlRow
        /\ pc' = "refused" => \E i \in 1..36 : ~Decodes(ControlRaw(i), case.encoding)
    BY <1>3 DEF ReadIdocControlScan, ControlRow, ControlRaw
  <2>3. case.origin = "control"
    BY <2>1, OriginFacts
  <2>4. \A i : ControlRaw(i)' = ControlRaw(i)
    BY <1>1, <2>1, SameRecord
  <2>5. ControlRow' = ControlRow
    BY <1>1, <2>1, SameRecord
  <2>6. (\E i \in 1..36 : ~Decodes(ControlRaw(i), case.encoding))
          => (\E i \in 1..36 : ~Decodes(ControlRaw(i), case.encoding))'
    BY <1>1, <2>4
  <2> QED
    BY <1>1, <2>1, <2>2, <2>3, <2>5, <2>6 DEF RowHolds
<1>4. CASE EncodeRecord \/ EncodeControlRecord
  <2>1. row' = row /\ pc \in {"record", "control"} /\ pc' \in {"skipped", "read", "read_control"}
    BY <1>4 DEF EncodeRecord, EncodeControlRecord
  <2>2. row = <<>>
    BY <2>1 DEF RowHolds
  <2> QED
    BY <1>1, <2>1, <2>2 DEF RowHolds
<1>5. CASE ~ReadIdocScan /\ ~ReadIdocControlScan /\ ~EncodeRecord /\ ~EncodeControlRecord
  <2>1. record' = record /\ row' = row
    BY <1>5 DEF Next, vars, EncodeField, RefuseSdata, EncodedSdata, ReadField, RefuseField, ReadDone
  <2>2. \/ pc' = pc
        \/ pc \in {"sdata", "fields"} /\ case.origin # "control"
           /\ (pc \in {"fields", "refused", "done"} => pc' \in {"fields", "refused", "done"})
    BY <1>5, OriginFacts
       DEF Next, vars, EncodeField, RefuseSdata, EncodedSdata, ReadField, RefuseField, ReadDone
  <2>3. ReadRow' = ReadRow /\ ControlRow' = ControlRow
    BY <1>1, <2>1, SameRecord
  <2>4. \A i : ControlRaw(i)' = ControlRaw(i)
    BY <1>1, <2>1, SameRecord
  <2>5. (\E i \in 1..36 : ~Decodes(ControlRaw(i), case.encoding))
          => (\E i \in 1..36 : ~Decodes(ControlRaw(i), case.encoding))'
    BY <1>1, <2>4
  <2> QED
    BY <1>1, <2>1, <2>2, <2>3, <2>5 DEF RowHolds
<1> QED
  BY <1>2, <1>3, <1>4, <1>5

\* One more value appended to a row of values.
LEMMA AppendCell ==
  ASSUME NEW f, NEW n \in Nat
  PROVE  Append([i \in 1..n |-> f[i]], f[n + 1]) = [i \in 1..(n + 1) |-> f[i]]
<1> DEFINE S == {f[i] : i \in 1..(n + 1)}
           s == [i \in 1..n |-> f[i]]
           t == [i \in 1..(n + 1) |-> f[i]]
<1>1. \A i \in 1..(n + 1) : f[i] \in S
  OBVIOUS
<1>2. \A i \in 1..n : i \in 1..(n + 1)
  OBVIOUS
<1>3. n + 1 \in 1..(n + 1) /\ n + 1 \in Nat
  OBVIOUS
<1> HIDE DEF S
<1>4. s \in Seq(S) /\ Len(s) = n
  BY <1>1, <1>2
<1>5. t \in Seq(S) /\ Len(t) = n + 1
  BY <1>1, <1>3
<1>6. Append(s, f[n + 1]) \in Seq(S) /\ Len(Append(s, f[n + 1])) = n + 1
  BY <1>1, <1>3, <1>4
<1>7. \A i \in 1..(n + 1) : Append(s, f[n + 1])[i] = t[i]
  BY <1>1, <1>3, <1>4
<1> QED
  BY <1>5, <1>6, <1>7, SeqEqual

LEMMA CellsStep ==
  ASSUME Types, CellsHold, [Next]_vars
  PROVE  CellsHold'
<1>0. case' = case /\ next \in Nat /\ next >= 1 /\ DOMAIN case.rules = 1..Len(case.rules)
      /\ Len(case.rules) \in Nat /\ next <= Len(case.rules) + 1
  BY StepFacts, CaseFacts DEF Types
<1>1. CASE ReadField
  <2>1. /\ pc = "fields" /\ pc' = "fields" /\ next \in DOMAIN case.rules /\ ~FieldThrows(next)
        /\ cells' = Append(cells, CellOf(next))
        /\ next' = next + 1 /\ record' = record
    BY <1>1 DEF ReadField, CellOf
  <2>2. Reading /\ Reading'
    BY <1>0, <2>1, OriginFacts DEF Reading
  <2>3. PICK n \in Nat : n = next - 1
    BY <1>0
  <2>4. cells = [i \in 1..n |-> CellOf(i)]
    BY <2>2, <2>3 DEF CellsHold
  <2>5. cells' = [i \in 1..(n + 1) |-> CellOf(i)]
    <3> DEFINE f == [i \in 1..(n + 1) |-> CellOf(i)]
    <3>1. cells = [i \in 1..n |-> f[i]] /\ f[n + 1] = CellOf(n + 1)
      BY <2>4
    <3>2. n + 1 = next
      BY <1>0, <2>3
    <3>3. f = [i \in 1..(n + 1) |-> f[i]]
      OBVIOUS
    <3> HIDE DEF f
    <3>4. cells' = [i \in 1..(n + 1) |-> f[i]]
      BY <2>1, <3>1, <3>2, AppendCell
    <3> QED
      BY <3>3, <3>4 DEF f
  <2>6. /\ \A i : CellOf(i)' = CellOf(i)
        /\ \A i : FieldThrows(i)' = FieldThrows(i)
    BY <1>0, <2>1, SameRecord
  <2>7. next' - 1 = n + 1
    BY <1>0, <2>1, <2>3
  <2>8. \A i \in 1..(n + 1) : ~FieldThrows(i)
    <3>1. \A i \in 1..n : ~FieldThrows(i)
      BY <2>2, <2>3 DEF CellsHold
    <3>2. \A i \in 1..(n + 1) : i \in 1..n \/ i = next
      BY <1>0, <2>3
    <3> QED
      BY <2>1, <3>1, <3>2
  <2>9. (cells = [i \in 1..(IF Reading THEN next - 1 ELSE 0) |-> CellOf(i)])'
    BY <2>2, <2>5, <2>6, <2>7
  <2>10. (\A i \in 1..(next - 1) : ~FieldThrows(i))'
    BY <2>6, <2>7, <2>8
  <2> QED
    BY <2>1, <2>2, <2>9, <2>10 DEF CellsHold
<1>2. CASE RefuseField \/ ReadDone
  <2>1. /\ pc = "fields" /\ record' = record /\ cells' = cells /\ next' = next
        /\ pc' = "refused" => next \in DOMAIN case.rules /\ FieldThrows(next)
        /\ pc' = "done" => next \notin DOMAIN case.rules
        /\ pc' \in {"refused", "done"}
    BY <1>2 DEF RefuseField, ReadDone
  <2>2. Reading /\ Reading'
    BY <1>0, <2>1, OriginFacts DEF Reading
  <2>3. /\ \A i : CellOf(i)' = CellOf(i)
        /\ \A i : FieldThrows(i)' = FieldThrows(i)
    BY <1>0, <2>1, SameRecord
  <2>4. (cells = [i \in 1..(IF Reading THEN next - 1 ELSE 0) |-> CellOf(i)])'
    BY <2>1, <2>2, <2>3 DEF CellsHold
  <2>5. (\A i \in 1..(next - 1) : ~FieldThrows(i))'
    BY <2>1, <2>2, <2>3 DEF CellsHold
  <2>6. (pc = "refused" => next \in DOMAIN case.rules /\ FieldThrows(next))'
    BY <1>0, <2>1, <2>3
  <2>7. (pc = "done" => next = Len(case.rules) + 1)'
    BY <1>0, <2>1
  <2> QED
    BY <2>4, <2>5, <2>6, <2>7 DEF CellsHold
<1>3. CASE ReadIdocScan
  <2>1. pc = "read" /\ pc' = "fields" /\ next' = 1 /\ cells' = cells
    BY <1>3 DEF ReadIdocScan
  <2>2. ~Reading
    BY <2>1 DEF Reading
  <2>3. cells = <<>>
    BY <2>2 DEF CellsHold
  <2> QED
    BY <2>1, <2>3 DEF CellsHold
<1>4. CASE ~ReadField /\ ~RefuseField /\ ~ReadDone /\ ~ReadIdocScan
  <2>1. \/ Reading /\ Reading' /\ UNCHANGED <<cells, next, record, pc>>
        \/ ~Reading /\ ~Reading' /\ cells' = cells
    BY <1>0, <1>4, OriginFacts
       DEF Next, vars, EncodeField, RefuseSdata, EncodedSdata, EncodeRecord, EncodeControlRecord,
           ReadIdocControlScan, Reading
  <2>2. CASE ~Reading /\ ~Reading' /\ cells' = cells
    <3>1. cells = <<>>
      BY <2>2 DEF CellsHold
    <3> QED
      BY <2>2, <3>1 DEF CellsHold
  <2>3. CASE Reading /\ Reading' /\ UNCHANGED <<cells, next, record, pc>>
    <3>1. /\ \A i : CellOf(i)' = CellOf(i)
          /\ \A i : FieldThrows(i)' = FieldThrows(i)
      BY <1>0, <2>3, SameRecord
    <3>2. (cells = [i \in 1..(IF Reading THEN next - 1 ELSE 0) |-> CellOf(i)])'
      BY <2>3, <3>1 DEF CellsHold
    <3>3. (\A i \in 1..(next - 1) : ~FieldThrows(i))'
      BY <2>3, <3>1 DEF CellsHold
    <3>4. (pc = "refused" => next \in DOMAIN case.rules /\ FieldThrows(next))'
      BY <1>0, <2>3, <3>1 DEF CellsHold
    <3>5. (pc = "done" => next = Len(case.rules) + 1)'
      BY <1>0, <2>3 DEF CellsHold
    <3> QED
      BY <3>2, <3>3, <3>4, <3>5 DEF CellsHold
  <2> QED
    BY <2>1, <2>2, <2>3
<1> QED
  BY <1>1, <1>2, <1>3, <1>4

LEMMA ComposedStep ==
  ASSUME Types, EncodeField, NEW n, n = next, Composed(n)
  PROVE  Composed(n + 1)'
<1> DEFINE s == sdata
           t == SetFieldRaw(s, case.rules[n], case.values[n])
           F(j) == case.rules[j]
<1>0. case' = case /\ sdata' = t /\ next' = next + 1
  BY DEF EncodeField
<1>1. /\ n \in Nat /\ n \in 1..Len(case.rules) /\ n \in 1..Len(case.values)
      /\ DOMAIN case.values = 1..Len(case.values) /\ Len(case.rules) \in Nat
  <2>1. /\ DOMAIN case.rules = 1..Len(case.rules) /\ DOMAIN case.values = 1..Len(case.values)
        /\ Len(case.rules) \in Nat
    BY CaseFacts DEF Types
  <2> QED
    BY <2>1 DEF EncodeField
<1>2. /\ s \in Bytes(SDATA_LEN) /\ SDATA_LEN \in Nat /\ case.values[n] \in Text
  BY <1>1, Lengths, CaseFacts DEF Types
<1>3. ASSUME NEW j \in 1..n
      PROVE  /\ InBounds(F(j)) /\ j \in DOMAIN case.values
             /\ F(j).offset \in Nat /\ F(j).length \in Nat
             /\ F(j).offset + F(j).length <= SDATA_LEN
  <2>1. InBounds(F(j)) /\ j \in DOMAIN case.values
    <3>1. j = n \/ j \in 1..(n - 1)
      BY <1>1
    <3> QED
      BY <1>1, <3>1 DEF EncodeField, Composed
  <2>2. F(j).offset \in Int /\ F(j).length \in Int
    BY <1>1, CaseFacts DEF Types
  <2> QED
    BY <2>1, <2>2, InBoundsFacts
<1>4. t \in Bytes(SDATA_LEN) /\ GetFieldRaw(t, F(n)) = Fitted(case.values[n], F(n).length)
  <2>1. PICK f : f = F(n)
    OBVIOUS
  <2>2. f.offset \in Nat /\ f.length \in Nat /\ f.offset + f.length <= SDATA_LEN
    BY <1>1, <1>3, <2>1
  <2>3. t = SetFieldRaw(s, f, case.values[n])
    BY <1>1, <2>1
  <2>4. SetFieldRaw(s, f, case.values[n]) \in Bytes(SDATA_LEN)
    BY <1>2, <2>2, SetFieldFacts, Zenon
  <2>5. GetFieldRaw(SetFieldRaw(s, f, case.values[n]), f) = Fitted(case.values[n], f.length)
    BY <1>2, <2>2, GetAfterSet, Zenon
  <2> HIDE DEF t, F
  <2> QED
    BY <2>1, <2>3, <2>4, <2>5, Zenon
<1>5. ASSUME Disjoint, NEW j \in 1..n
      PROVE  GetFieldRaw(t, F(j)) = Fitted(case.values[j], F(j).length)
  <2>1. CASE j = n
    BY <1>4, <2>1
  <2>2. CASE j # n
    <3>1. j \in 1..(n - 1) /\ j \in DOMAIN case.rules /\ n \in DOMAIN case.rules
      BY <1>1, <2>2, CaseFacts DEF Types
    <3>2. BytesOf(F(n)) \cap BytesOf(F(j)) = {}
      BY <1>5, <2>2, <3>1 DEF Disjoint
    <3>3. GetFieldRaw(s, F(j)) = Fitted(case.values[j], F(j).length)
      BY <1>5, <3>1 DEF Composed
    <3>4. n \in 1..n
      BY <1>1
    <3>5. GetFieldRaw(t, F(j)) = GetFieldRaw(s, F(j))
      BY <1>2, <1>3, <3>2, <3>4, GetBesideSet
    <3> QED
      BY <3>3, <3>5
  <2> QED
    BY <2>1, <2>2
<1>6. ASSUME NEW b \in 1..SDATA_LEN, \A j \in 1..n : b \notin BytesOf(F(j))
      PROVE  t[b] = Blank
  <2>0. n \in 1..n /\ b \in Int
    BY <1>1
  <2>1. b - F(n).offset \notin 1..F(n).length
    BY <1>3, <1>6, <2>0, BytesOfFacts
  <2>2. t[b] = s[b]
    BY <1>2, <1>3, <2>0, <2>1, SetFieldFacts
  <2>3. \A j \in 1..(n - 1) : b \notin BytesOf(F(j))
    BY <1>1, <1>6
  <2> QED
    BY <2>2, <2>3 DEF Composed
<1>7. \A j \in 1..n : InBounds(F(j)) /\ j \in DOMAIN case.values
  BY <1>3
<1>9. (n + 1) - 1 = n
  BY <1>1
<1> HIDE DEF t, s
<1>10. /\ (\A j \in 1..((n + 1) - 1) : j \in DOMAIN case.values /\ InBounds(case.rules[j]))
       /\ Disjoint => \A j \in 1..((n + 1) - 1) :
            GetFieldRaw(t, case.rules[j]) = Fitted(case.values[j], case.rules[j].length)
       /\ \A b \in 1..SDATA_LEN :
            (\A j \in 1..((n + 1) - 1) : b \notin BytesOf(case.rules[j])) => t[b] = Blank
  BY <1>5, <1>6, <1>7, <1>9
<1> QED
  BY <1>0, <1>10 DEF Composed, Disjoint

LEMMA SdataStep ==
  ASSUME Types, SdataHolds, [Next]_vars
  PROVE  SdataHolds'
<1>1. case' = case /\ Len(case.rules) \in Nat /\ next \in 1..(Len(case.rules) + 1)
  BY StepFacts, CaseFacts DEF Types
<1>2. CASE EncodeField
  <2>1. pc = "sdata" /\ pc' = "sdata" /\ next' = next + 1
    BY <1>2 DEF EncodeField
  <2>2. case.origin = "sql"
    BY <2>1, OriginFacts
  <2>3. PICK n : n = next
    OBVIOUS
  <2>4. Composed(n)
    BY <2>1, <2>2, <2>3 DEF SdataHolds
  <2>5. Composed(n + 1)'
    BY <1>2, <2>3, <2>4, ComposedStep
  <2>6. n + 1 = next'
    BY <2>1, <2>3
  <2> QED
    BY <1>1, <2>1, <2>2, <2>5, <2>6 DEF SdataHolds
<1>3. CASE ~EncodeField
  <2>1. sdata' = sdata
    BY <1>3, StepFacts
  <2>2. \A n : Composed(n) => Composed(n)'
    BY <1>1, <2>1 DEF Composed, Disjoint
  <2>3. \/ pc' \in {"sdata", "not_encoded"} /\ pc \in {"sdata", "not_encoded"} /\ next' = next
        \/ pc' \notin {"sdata", "not_encoded"} /\ pc \notin {"sdata", "not_encoded"}
        \/ pc = "sdata" /\ pc' = "record" /\ next > Len(case.rules)
    BY <1>3 DEF Next, vars, RefuseSdata, EncodedSdata, EncodeRecord, ReadIdocScan, ReadField,
       RefuseField, ReadDone, EncodeControlRecord, ReadIdocControlScan
  <2>4. CASE pc = "sdata" /\ pc' = "record" /\ next > Len(case.rules)
    <3>1. next = Len(case.rules) + 1
      BY <1>1, <2>4
    <3> QED
      BY <1>1, <2>1, <2>2, <2>4, <3>1 DEF SdataHolds
  <2>5. CASE ~(pc = "sdata" /\ pc' = "record")
    BY <1>1, <2>1, <2>2, <2>3, <2>5 DEF SdataHolds
  <2> QED
    BY <2>3, <2>4, <2>5
<1> QED
  BY <1>2, <1>3

LEMMA CodecInvInit == Init => CodecInv
<1> SUFFICES ASSUME Init
             PROVE  CodecInv
  OBVIOUS
<1>1. Types
  BY TypesInit
<1>2. case.origin \in {"sql", "file", "control"}
  BY <1>1, OriginFacts
<1>3. /\ record = <<>> /\ row = <<>> /\ cells = <<>> /\ next = 1
      /\ case.origin = "sql" => pc = "sdata" /\ sdata = Blanks(SDATA_LEN)
      /\ case.origin = "file" => pc = "record" /\ sdata = case.values[1]
      /\ case.origin = "control" => pc = "control"
  BY DEF Init
<1>4. RecordHolds /\ RowHolds /\ CellsHold
  BY <1>2, <1>3 DEF RecordHolds, RowHolds, CellsHold, Reading
<1>5. \A b \in 1..SDATA_LEN : Blanks(SDATA_LEN)[b] = Blank
  BY Lengths, BytesFacts
<1>6. SdataHolds
  BY <1>2, <1>3, <1>5 DEF SdataHolds, Composed
<1> QED
  BY <1>1, <1>4, <1>6 DEF CodecInv

LEMMA CodecInvStep == CodecInv /\ [Next]_vars => CodecInv'
BY TypesStep, RecordStep, RowStep, CellsStep, SdataStep DEF CodecInv

LEMMA CodecInvariance == Spec => []CodecInv
BY CodecInvInit, CodecInvStep, PTL DEF Spec

-----------------------------------------------------------------------------
(* What the invariant says of the record, and the first theorems.          *)

\* UTF-8 and ASCII text is the bytes of the field.
LEMMA DecodeAsIs ==
  ASSUME NEW raw, NEW e \in {UTF8, ASCII}
  PROVE  DecodeText(raw, e) = raw
BY DEF DecodeText, UTF8, ASCII, LATIN1, CP1252

\* A text that fills its field comes back as it is.
LEMMA FittedWhole ==
  ASSUME NEW n \in Nat, NEW s \in Bytes(n)
  PROVE  Fitted(s, n) = s
<1>1. s \in Text /\ Len(s) = n
  BY BytesFacts
<1>2. Fitted(s, n) \in Bytes(n) /\ \A b \in 1..n : Fitted(s, n)[b] = s[b]
  BY <1>1, FittedFacts
<1> QED
  BY <1>2, SameBytes

\* The record and its fields while it is read.
LEMMA DataRecordRead ==
  ASSUME CodecInv, case.origin # "control", pc \notin {"sdata", "not_encoded", "record"}
  PROVE  /\ record \in Bytes(DATA_RECORD_LEN)
         /\ GetFieldRaw(record, EDI_DD40_FIELDS["SDATA"]) = sdata
         /\ \A name \in DataFields :
              GetFieldRaw(record, EDI_DD40_FIELDS[name]) =
                Fitted(DataValue(case.header, sdata, name), EDI_DD40_FIELDS[name].length)
<1>1. case.header \in Header /\ sdata \in Bytes(SDATA_LEN)
  BY DEF CodecInv, Types, IsCase
<1>2. pc # "control"
  BY OriginFacts DEF CodecInv
<1>3. record = EncodeDataRecord(case.header, sdata)
  BY <1>2 DEF CodecInv, RecordHolds
<1> QED
  BY <1>1, <1>3, DataRecordFacts

LEMMA ControlRecordRead ==
  ASSUME CodecInv, case.origin = "control", pc # "control"
  PROVE  /\ record \in Bytes(CONTROL_RECORD_LEN)
         /\ case.values \in Seq(Text)
         /\ \A i \in 1..36 :
              ControlRaw(i) = IF i \in DOMAIN case.values
                              THEN Fitted(case.values[i], ControlLengths[i])
                              ELSE Blanks(ControlLengths[i])
<1>1. case.values \in Seq(Text)
  BY DEF CodecInv, Types, IsCase
<1>2. pc \notin {"sdata", "not_encoded", "record"}
  BY OriginFacts DEF CodecInv
<1>3. record = EncodeControl(case.values)
  BY <1>2 DEF CodecInv, RecordHolds
<1> QED
  BY <1>1, <1>3, ControlRecordFacts DEF ControlRaw

\* The bytes a field is read from, and that reading so far has thrown nowhere.
LEMMA FieldsRead ==
  ASSUME CodecInv, Reading
  PROVE  /\ DOMAIN cells = 1..(next - 1)
         /\ next \in 1..(Len(case.rules) + 1) /\ Len(case.rules) \in Nat
         /\ pc = "done" => next = Len(case.rules) + 1
         /\ \A i \in 1..Len(case.rules) : Slice(i) = GetFieldRaw(sdata, case.rules[i])
         /\ \A i \in 1..(next - 1) :
              /\ cells[i] = CellOf(i)
              /\ ~FieldThrows(i)
              /\ i \in 1..Len(case.rules)
              /\ InBounds(case.rules[i])
              /\ Decodes(Slice(i), case.encoding)
              /\ Slice(i) \in Bytes(case.rules[i].length) /\ case.rules[i].length \in Nat
<1>1. cells = [i \in 1..(next - 1) |-> CellOf(i)] /\ \A i \in 1..(next - 1) : ~FieldThrows(i)
  BY DEF CodecInv, CellsHold
<1>2. next \in 1..(Len(case.rules) + 1) /\ Len(case.rules) \in Nat
  BY CaseFacts DEF CodecInv, Types
<1>3. pc = "done" => next = Len(case.rules) + 1
  BY DEF CodecInv, CellsHold
<1>4. \A i \in 1..Len(case.rules) : Slice(i) = GetFieldRaw(sdata, case.rules[i])
  BY DataRecordRead DEF Reading, Slice
<1>5. ASSUME NEW i \in 1..(next - 1)
      PROVE  /\ i \in 1..Len(case.rules)
             /\ InBounds(case.rules[i])
             /\ Decodes(Slice(i), case.encoding)
             /\ Slice(i) \in Bytes(case.rules[i].length) /\ case.rules[i].length \in Nat
  <2>1. i \in 1..Len(case.rules)
    BY <1>2
  <2>2. InBounds(case.rules[i]) /\ Decodes(Slice(i), case.encoding)
    BY <1>1 DEF FieldThrows
  <2>3. case.rules[i].offset \in Int /\ case.rules[i].length \in Int
    BY <2>1, CaseFacts DEF CodecInv, Types
  <2>4. /\ case.rules[i].offset \in Nat /\ case.rules[i].length \in Nat
        /\ case.rules[i].offset + case.rules[i].length <= SDATA_LEN
    BY <2>2, <2>3, InBoundsFacts
  <2>5. sdata \in Bytes(SDATA_LEN) /\ SDATA_LEN \in Nat
    BY Lengths DEF CodecInv, Types
  <2> QED
    BY <1>4, <2>1, <2>2, <2>4, <2>5, GetFieldFacts
<1> QED
  BY <1>1, <1>2, <1>3, <1>4, <1>5

\* Lengths and counters have their types in every state: an SDATA and a record never
\* change their length, no more values are read than there are fields, and the scale
\* of a DECIMAL column never exceeds its width.
THEOREM CodecTypeCorrect == Spec => []TypeOK
<1>1. CodecInv => TypeOK
  <2> SUFFICES ASSUME CodecInv
               PROVE  TypeOK
    OBVIOUS
  <2>1. Len(sdata) = SDATA_LEN
    BY Lengths, BytesFacts DEF CodecInv, Types
  <2>2. Len(record) \in {0, DATA_RECORD_LEN, CONTROL_RECORD_LEN}
    <3>1. CASE pc \in {"sdata", "not_encoded", "record", "control"}
      <4>1. record = <<>>
        BY <3>1 DEF CodecInv, RecordHolds
      <4> QED
        BY <4>1
    <3>2. CASE pc \notin {"sdata", "not_encoded", "record", "control"} /\ case.origin = "control"
      <4>1. record \in Bytes(CONTROL_RECORD_LEN) /\ CONTROL_RECORD_LEN \in Nat
        BY <3>2, ControlRecordRead, Lengths
      <4>2. Len(record) = CONTROL_RECORD_LEN
        BY <4>1, BytesFacts
      <4> QED
        BY <4>2
    <3>3. CASE pc \notin {"sdata", "not_encoded", "record", "control"} /\ case.origin # "control"
      <4>1. record \in Bytes(DATA_RECORD_LEN) /\ DATA_RECORD_LEN \in Nat
        BY <3>3, DataRecordRead, Lengths
      <4>2. Len(record) = DATA_RECORD_LEN
        BY <4>1, BytesFacts
      <4> QED
        BY <4>2
    <3> QED
      BY <3>1, <3>2, <3>3
  <2>3. next \in 1..(Len(case.rules) + 1) /\ Len(case.rules) \in Nat
    BY CaseFacts DEF CodecInv, Types
  <2>4. Len(cells) < Len(case.rules) + 1
    <3> DEFINE n == IF Reading THEN next - 1 ELSE 0
    <3>1. cells = [i \in 1..n |-> CellOf(i)]
      BY DEF CodecInv, CellsHold
    <3>2. n \in Nat /\ n < Len(case.rules) + 1
      BY <2>3
    <3> HIDE DEF n
    <3>3. Len(cells) = n
      BY <3>1, <3>2
    <3> QED
      BY <3>2, <3>3
  <2>5. ASSUME NEW i \in DOMAIN case.rules, KindOf(i) = "decimal"
        PROVE  case.rules[i].decimals \in 0..(Width(case.rules[i]) - 1)
    <3>1. case.rules[i].decimals \in Int /\ case.rules[i].length \in Int
      BY CaseFacts DEF CodecInv, Types
    <3>2. Kind(case.rules[i]) = "decimal"
      BY <2>5 DEF KindOf
    <3>3. case.rules[i].decimals >= 0
      BY <3>2 DEF Kind
    <3> QED
      BY <3>1, <3>3 DEF Width, Larger
  <2>6. pc \in {"sdata", "not_encoded", "record", "skipped", "read", "fields", "refused", "done",
                "control", "read_control"}
    <3>1. /\ pc \in CASE case.origin = "sql" -> {"sdata", "not_encoded", "record", "skipped",
                                                 "read", "fields", "refused", "done"}
                      [] case.origin = "file" -> {"record", "skipped", "read", "fields",
                                                  "refused", "done"}
                      [] case.origin = "control" -> {"control", "skipped", "read_control",
                                                     "refused", "done"}
          /\ case.origin \in {"sql", "file", "control"}
      BY DEF CodecInv, Types, IsCase
    <3> QED
      BY <3>1
  <2> QED
    BY <2>1, <2>2, <2>3, <2>4, <2>5, <2>6 DEF TypeOK
<1> QED
  BY <1>1, CodecInvariance, PTL

\* What was written is what is read, whatever stands next to it: the text of fields
\* that do not overlap, up to the field's length; the header's numbers that fit
\* their fields, and its texts; the 36 values of a control record.
THEOREM CodecWrittenReadsBack == Spec => []WrittenReadsBack
<1>1. CodecInv => WrittenReadsBack
  <2> SUFFICES ASSUME CodecInv
               PROVE  WrittenReadsBack
    OBVIOUS
  <2>1. ASSUME pc = "done", case.origin = "sql", case.encoding = UTF8, Disjoint,
               NEW i \in DOMAIN cells, KindOf(i) = "text"
        PROVE  cells[i] = RTrim(Cut(case.values[i], case.rules[i].length))
    <3>1. Reading
      BY <2>1 DEF Reading
    <3>2. /\ DOMAIN cells = 1..(next - 1) /\ next = Len(case.rules) + 1 /\ Len(case.rules) \in Nat
          /\ \A k \in 1..Len(case.rules) : Slice(k) = GetFieldRaw(sdata, case.rules[k])
          /\ \A k \in 1..(next - 1) : cells[k] = CellOf(k) /\ case.rules[k].length \in Nat
      BY <2>1, <3>1, FieldsRead
    <3>3. i \in 1..Len(case.rules) /\ i \in 1..(next - 1) /\ i \in 1..((Len(case.rules) + 1) - 1)
      BY <2>1, <3>2
    <3>4. cells[i] = RTrim(Slice(i))
      BY <2>1, <3>2, <3>3, DecodeAsIs DEF CellOf, TextOf
    <3>5. /\ i \in DOMAIN case.values
          /\ GetFieldRaw(sdata, case.rules[i]) = Fitted(case.values[i], case.rules[i].length)
      BY <2>1, <3>3 DEF CodecInv, SdataHolds, Composed
    <3>6. case.values[i] \in Text /\ case.rules[i].length \in Nat
      BY <3>2, <3>3, <3>5, CaseFacts DEF CodecInv, Types
    <3> QED
      BY <3>2, <3>3, <3>4, <3>5, <3>6, RTrimFitted
  <2>2. ASSUME pc = "done", case.origin # "control", row # <<>>
        PROVE  /\ \A name \in {"DOCNUM", "SEGNUM", "PSGNUM", "HLEVEL"} :
                    FitsIn(case.header[name], EDI_DD40_FIELDS[name].length) =>
                      Number(row[name]) = case.header[name]
               /\ row.SEGNAM = RTrim(Cut(case.header.SEGNAM, 30))
               /\ row.MANDT = RTrim(Cut(case.header.MANDT, 3))
    <3>1. row = ReadRow
      BY <2>2 DEF CodecInv, RowHolds
    <3>2. \A name \in DataFields \ {"SDATA"} :
            row[name] = RTrim(GetFieldRaw(record, EDI_DD40_FIELDS[name]))
      <4>1. DOMAIN EDI_DD40_FIELDS = DataFields
        BY DataFieldFacts
      <4> QED
        BY <3>1, <4>1 DEF ReadRow, Column
    <3>3. \A name \in DataFields \ {"SDATA"} :
            row[name] = RTrim(Fitted(DataValue(case.header, sdata, name),
                                     EDI_DD40_FIELDS[name].length))
      BY <2>2, <3>2, DataRecordRead
    <3>4. case.header \in Header
      BY DEF CodecInv, Types, IsCase
    <3>5. ASSUME NEW name \in {"DOCNUM", "SEGNUM", "PSGNUM", "HLEVEL"},
                 FitsIn(case.header[name], EDI_DD40_FIELDS[name].length)
          PROVE  Number(row[name]) = case.header[name]
      <4> DEFINE w == EDI_DD40_FIELDS[name].length
                 n == case.header[name]
      <4>1. name \in DataFields \ {"SDATA"} /\ DataValue(case.header, sdata, name) = ZeroPad(n, w)
        BY DEF DataFields, DataValue
      <4>2. w \in Nat
        BY <4>1, DataFieldFacts
      <4>3. n \in Nat /\ WithoutDigits(n, w) = 0
        <5>1. n \in Int
          BY <3>4 DEF Header
        <5> QED
          BY <3>5, <5>1 DEF FitsIn
      <4>4. row[name] = RTrim(Fitted(ZeroPad(n, w), w))
        BY <3>3, <4>1
      <4> HIDE DEF w, n
      <4>5. Fitted(ZeroPad(n, w), w) = ZeroPad(n, w)
        BY <4>2, <4>3, ZeroPadFacts, FittedWhole
      <4>6. RTrim(ZeroPad(n, w)) = ZeroPad(n, w)
        BY <4>2, <4>3, RTrimZeroPad
      <4> QED
        BY <4>2, <4>3, <4>4, <4>5, <4>6, NumberOfZeroPad DEF n
    <3>6. ASSUME NEW name \in {"SEGNAM", "MANDT"}
          PROVE  row[name] = RTrim(Cut(case.header[name], EDI_DD40_FIELDS[name].length))
      <4>1. /\ name \in DataFields \ {"SDATA"}
            /\ DataValue(case.header, sdata, name) = case.header[name]
            /\ case.header[name] \in Text
        BY <3>4 DEF DataFields, DataValue, Header
      <4>2. EDI_DD40_FIELDS[name].length \in Nat
        BY <4>1, DataFieldFacts
      <4> QED
        BY <3>3, <4>1, <4>2, RTrimFitted
    <3>7. EDI_DD40_FIELDS["SEGNAM"].length = 30 /\ EDI_DD40_FIELDS["MANDT"].length = 3
      BY DEF EDI_DD40_FIELDS, Field
    <3> QED
      BY <3>5, <3>6, <3>7
  <2>3. ASSUME pc = "done", case.origin = "control", case.encoding = UTF8, NEW i \in 1..36
        PROVE  row[i] = IF i \in DOMAIN case.values
                        THEN RTrim(Cut(case.values[i], ControlLengths[i])) ELSE <<>>
    <3>1. row = ControlRow
      BY <2>3 DEF CodecInv, RowHolds
    <3>2. row[i] = RTrim(ControlRaw(i))
      BY <2>3, <3>1, DecodeAsIs DEF ControlRow
    <3>3. /\ case.values \in Seq(Text)
          /\ ControlRaw(i) = IF i \in DOMAIN case.values
                             THEN Fitted(case.values[i], ControlLengths[i])
                             ELSE Blanks(ControlLengths[i])
      BY <2>3, ControlRecordRead
    <3>4. ControlLengths[i] \in Nat
      BY ControlFieldFacts
    <3>5. CASE i \in DOMAIN case.values
      <4>1. case.values[i] \in Text
        BY <3>3, <3>5
      <4> QED
        BY <3>2, <3>3, <3>4, <3>5, <4>1, RTrimFitted
    <3>6. CASE i \notin DOMAIN case.values
      <4>1. ControlRaw(i) = Blanks(ControlLengths[i])
        BY <3>3, <3>6
      <4>2. RTrim(ControlRaw(i)) = <<>>
        BY <3>4, <4>1, BytesFacts, RTrimBlanks
      <4> QED
        BY <3>2, <3>6, <4>2
    <3> QED
      BY <3>5, <3>6
  <2> QED
    BY <2>1, <2>2, <2>3 DEF WrittenReadsBack
<1> QED
  BY <1>1, CodecInvariance, PTL

-----------------------------------------------------------------------------
(* The characters of a text.                                               *)

\* From the places of 1..n the ends E are reached by steps R, where f says so.
Reaches(f, n, E, R) ==
  f = [i \in 1..n |-> i \in E \/ \E j \in 1..n : <<i, j>> \in R /\ f[j]]

\* A set of places that from each of its members goes on within itself or ends.
Closed(B, n, E, R) ==
  /\ B \in SUBSET (1..n)
  /\ \A i \in B : i \in E \/ \E j \in B : <<i, j>> \in R

\* There is such a function, for any steps that go forward.
LEMMA ReachesSome ==
  ASSUME NEW n \in Nat, NEW E, NEW R
  PROVE  \E f : Reaches(f, n, E, R)
<1> DEFINE ok == {i \in 1..n : \E B : Closed(B, n, E, R) /\ i \in B}
           f == [i \in 1..n |-> i \in ok]
<1>1. ASSUME NEW i \in 1..n
      PROVE  i \in ok <=> i \in E \/ \E j \in 1..n : <<i, j>> \in R /\ j \in ok
  <2>1. ASSUME i \in ok
        PROVE  i \in E \/ \E j \in 1..n : <<i, j>> \in R /\ j \in ok
    <3>1. PICK B : Closed(B, n, E, R) /\ i \in B
      BY <2>1
    <3>2. i \in E \/ \E j \in B : <<i, j>> \in R /\ j \in 1..n
      BY <3>1 DEF Closed
    <3> QED
      BY <3>1, <3>2
  <2>2. ASSUME i \in E
        PROVE  i \in ok
    <3>1. Closed({i}, n, E, R)
      BY <2>2 DEF Closed
    <3> QED
      BY <3>1
  <2>3. ASSUME NEW j \in 1..n, <<i, j>> \in R, j \in ok
        PROVE  i \in ok
    <3>1. PICK B : Closed(B, n, E, R) /\ j \in B
      BY <2>3
    <3>2. Closed(B \cup {i}, n, E, R)
      BY <2>3, <3>1 DEF Closed
    <3> QED
      BY <3>2
  <2> QED
    BY <2>1, <2>2, <2>3
<1> HIDE DEF ok
<1>2. \A j \in 1..n : f[j] = (j \in ok)
  OBVIOUS
<1>3. ASSUME NEW i \in 1..n
      PROVE  (i \in ok) = (i \in E \/ \E j \in 1..n : <<i, j>> \in R /\ f[j])
  <2>1. (\E j \in 1..n : <<i, j>> \in R /\ f[j]) <=> (\E j \in 1..n : <<i, j>> \in R /\ j \in ok)
    <3> HIDE DEF f
    <3> QED
      BY <1>2
  <2>2. i \in ok <=> (i \in E \/ \E j \in 1..n : <<i, j>> \in R /\ f[j])
    <3> HIDE DEF f
    <3> QED
      BY <1>1, <2>1
  <2> HIDE DEF f
  <2> QED
    BY <2>2, SMT
<1>4. f = [i \in 1..n |-> i \in E \/ \E j \in 1..n : <<i, j>> \in R /\ f[j]]
  BY <1>3
<1> QED
  BY <1>4 DEF Reaches

\* It says so of exactly the places of closed sets.
LEMMA ReachesClosed ==
  ASSUME NEW n \in Nat, NEW E, NEW R, \A i, j \in 1..n : <<i, j>> \in R => i < j,
         NEW f, Reaches(f, n, E, R), NEW a \in 1..n
  PROVE  f[a] <=> \E B : Closed(B, n, E, R) /\ a \in B
<1>0. \A i \in 1..n : f[i] <=> i \in E \/ \E j \in 1..n : <<i, j>> \in R /\ f[j]
  BY DEF Reaches
<1>1. ASSUME f[a]
      PROVE  \E B : Closed(B, n, E, R) /\ a \in B
  <2> DEFINE B == {i \in 1..n : f[i]}
  <2>1. Closed(B, n, E, R)
    BY <1>0 DEF Closed
  <2> QED
    BY <1>1, <2>1
<1>2. ASSUME NEW B, Closed(B, n, E, R), a \in B
      PROVE  f[a]
  <2> DEFINE bad == {i \in B : ~f[i]}
  <2> SUFFICES ASSUME bad # {}
               PROVE  FALSE
    BY <1>2
  <2>1. bad \in SUBSET (1..n)
    BY <1>2 DEF Closed
  <2>2. PICK i \in bad : \A j \in bad : j <= i
    <3> HIDE DEF bad
    <3> QED
      BY <2>1, GreatestElement
  <2>3. i \in 1..n /\ ~f[i]
    BY <2>1
  <2>4. PICK j \in B : <<i, j>> \in R
    BY <1>0, <1>2, <2>3 DEF Closed
  <2>5. j \in 1..n /\ ~f[j]
    BY <1>0, <1>2, <2>3, <2>4 DEF Closed
  <2>6. i < j /\ j <= i
    BY <2>2, <2>3, <2>4, <2>5
  <2> QED
    BY <2>3, <2>5, <2>6
<1> QED
  BY <1>1, <1>2

\* A character of the text s takes the places from i to before j.
Character(s, i, j) ==
  \/ j = i + 1 /\ i <= Len(s) /\ s[i] \in 0..127
  \/ j = i + 2 /\ i + 1 <= Len(s) /\ s[i] \in 194..223 /\ s[i + 1] \in Trail
  \/ /\ j = i + 3 /\ i + 2 <= Len(s)
     /\ s[i] \in 224..239 /\ s[i + 1] \in Trail /\ s[i + 2] \in Trail
     /\ s[i] = 224 => s[i + 1] >= 160
     /\ s[i] = 237 => s[i + 1] <= 159
  \/ /\ j = i + 4 /\ i + 3 <= Len(s)
     /\ s[i] \in 240..244 /\ s[i + 1] \in Trail /\ s[i + 2] \in Trail /\ s[i + 3] \in Trail
     /\ s[i] = 240 => s[i + 1] >= 144
     /\ s[i] = 244 => s[i + 1] <= 143

Characters(s) ==
  {p \in (1..Len(s)) \X (1..(Len(s) + 1)) : Character(s, p[1], p[2])}

\* The places B of the text s are where its characters start, up to its end.
Tiling(s, B) ==
  /\ B \in SUBSET (1..(Len(s) + 1))
  /\ 1 \in B
  /\ \A i \in B : i = Len(s) + 1 \/ \E j \in B : Character(s, i, j)

LEMMA HighBytes ==
  \A b : b \in 194..223 \/ b \in 224..239 \/ b \in 240..244 \/ b \in Trail => b >= 128 /\ ~(b < 128)
BY DEF Trail

\* Of a character only the first byte may be below 128, and only if it is alone.
LEMMA CharacterFacts ==
  ASSUME NEW s \in Text, NEW i \in 1..Len(s), NEW j, Character(s, i, j)
  PROVE  /\ j \in 1..(Len(s) + 1) /\ i < j
         /\ \A k \in 1..Len(s) : i < k /\ k < j => s[k] >= 128 /\ s[i] >= 128
         /\ s[i] < 128 => j = i + 1
<1>1. Len(s) \in Nat /\ \A b \in 1..Len(s) : s[b] \in Int
  BY TextFacts, ByteFacts
<1>2. ASSUME NEW k \in 1..Len(s), i < k, k < j
      PROVE  s[k] >= 128 /\ s[i] >= 128
  <2>1. \/ j = i + 2 /\ k = i + 1
        \/ j = i + 3 /\ (k = i + 1 \/ k = i + 2)
        \/ j = i + 4 /\ (k = i + 1 \/ k = i + 2 \/ k = i + 3)
    BY <1>1, <1>2 DEF Character
  <2>2. CASE j = i + 2
    <3>1. s[i] \in 194..223 /\ s[i + 1] \in Trail
      BY <1>1, <2>2 DEF Character
    <3>2. k = i + 1
      BY <1>1, <2>1, <2>2
    <3>3. s[k] \in Trail
      BY <3>1, <3>2
    <3> QED
      BY <3>1, <3>3, HighBytes, Zenon
  <2>3. CASE j = i + 3
    <3>1. s[i] \in 224..239 /\ s[i + 1] \in Trail /\ s[i + 2] \in Trail
      BY <1>1, <2>3 DEF Character
    <3>2. k = i + 1 \/ k = i + 2
      BY <1>1, <2>1, <2>3
    <3>3. s[k] \in Trail
      BY <3>1, <3>2
    <3> QED
      BY <3>1, <3>3, HighBytes, Zenon
  <2>4. CASE j = i + 4
    <3>1. s[i] \in 240..244 /\ s[i + 1] \in Trail /\ s[i + 2] \in Trail /\ s[i + 3] \in Trail
      BY <1>1, <2>4 DEF Character
    <3>2. k = i + 1 \/ k = i + 2 \/ k = i + 3
      BY <1>1, <2>1, <2>4
    <3>3. s[k] \in Trail
      BY <3>1, <3>2
    <3> QED
      BY <3>1, <3>3, HighBytes, Zenon
  <2> QED
    BY <2>1, <2>2, <2>3, <2>4
<1>3. j \in 1..(Len(s) + 1) /\ i < j
  BY <1>1 DEF Character
<1>4. s[i] < 128 => j = i + 1
  <2>1. j = i + 1 \/ s[i] \in 194..223 \/ s[i] \in 224..239 \/ s[i] \in 240..244
    BY DEF Character
  <2> QED
    BY <2>1, HighBytes, Zenon
<1> QED
  BY <1>2, <1>3, <1>4


\* What the lead and the trailing bytes of a character add to its code point.
LEMMA ByteBits ==
  /\ \A b \in Trail : b % 64 = b - 128
  /\ \A a \in 194..223 : a % 32 = a - 192
  /\ \A a \in 224..239 : a % 16 = a - 224
  /\ \A a \in 240..244 : a % 8 = a - 240
<1>1. \A b \in Trail : b % 64 = b - 128
  BY DEF Trail
<1>2. \A a \in 194..223 : a % 32 = a - 192
  OBVIOUS
<1>3. \A a \in 224..239 : a % 16 = a - 224
  OBVIOUS
<1>4. \A a \in 240..244 : a % 8 = a - 240
  OBVIOUS
<1> QED
  BY <1>1, <1>2, <1>3, <1>4

\* The code points the strict check accepts, by the bytes they are written in.
LEMMA AcceptedIs ==
  ASSUME NEW cp \in Int, NEW len \in Int
  PROVE  Accepted(cp, len)
           <=> /\ len = 3 => cp >= 2048
               /\ len = 4 => cp >= 65536 /\ cp <= 1114111
               /\ cp < 55296 \/ cp > 57343
BY SMT DEF Accepted

PointOfTwo(a, b) == 64 * (a % 32) + (b % 64)
PointOfThree(a, b, c) == 4096 * (a % 16) + 64 * (b % 64) + (c % 64)
PointOfFour(a, b, c, d) == 262144 * (a % 8) + 4096 * (b % 64) + 64 * (c % 64) + (d % 64)

LEMMA CodePointIs ==
  ASSUME NEW s, NEW i
  PROVE  /\ CodePointAt(s, i, 1) = s[i]
         /\ CodePointAt(s, i, 2) = PointOfTwo(s[i], s[i + 1])
         /\ CodePointAt(s, i, 3) = PointOfThree(s[i], s[i + 1], s[i + 2])
         /\ CodePointAt(s, i, 4) = PointOfFour(s[i], s[i + 1], s[i + 2], s[i + 3])
BY SMT DEF CodePointAt, PointOfTwo, PointOfThree, PointOfFour

LEMMA AcceptedOne ==
  ASSUME NEW a \in 0..127
  PROVE  Accepted(a, 1)
<1>1. a \in Int /\ a < 55296
  OBVIOUS
<1> QED
  BY <1>1, AcceptedIs

LEMMA AcceptedTwo ==
  ASSUME NEW a \in 194..223, NEW b \in Trail
  PROVE  Accepted(PointOfTwo(a, b), 2)
<1>1. a % 32 = a - 192 /\ b % 64 = b - 128
  BY ByteBits
<1>2. PICK cp \in Int : cp = PointOfTwo(a, b) /\ cp < 55296
  BY <1>1, SMT DEF Trail, PointOfTwo
<1> QED
  BY <1>2, AcceptedIs, SMT

LEMMA AcceptedThree ==
  ASSUME NEW a \in 224..239, NEW b \in Trail, NEW c \in Trail
  PROVE  Accepted(PointOfThree(a, b, c), 3)
           <=> (a = 224 => b >= 160) /\ (a = 237 => b <= 159)
<1>1. a % 16 = a - 224 /\ b % 64 = b - 128 /\ c % 64 = c - 128
  BY ByteBits
<1>2. PICK cp \in Int : /\ cp = PointOfThree(a, b, c)
                        /\ cp = 4096 * (a - 224) + 64 * (b - 128) + (c - 128)
  BY <1>1, SMT DEF Trail, PointOfThree
<1>3. Accepted(cp, 3) <=> cp >= 2048 /\ (cp < 55296 \/ cp > 57343)
  BY AcceptedIs
<1>4. cp >= 2048 <=> (a = 224 => b >= 160)
  BY <1>2 DEF Trail
<1>5. (cp < 55296 \/ cp > 57343) <=> (a = 237 => b <= 159)
  BY <1>2 DEF Trail
<1> QED
  BY <1>2, <1>3, <1>4, <1>5, SMT

LEMMA AcceptedFour ==
  ASSUME NEW a \in 240..244, NEW b \in Trail, NEW c \in Trail, NEW d \in Trail
  PROVE  Accepted(PointOfFour(a, b, c, d), 4)
           <=> (a = 240 => b >= 144) /\ (a = 244 => b <= 143)
<1>1. a % 8 = a - 240 /\ b % 64 = b - 128 /\ c % 64 = c - 128 /\ d % 64 = d - 128
  BY ByteBits
<1>2. PICK cp \in Int :
        /\ cp = PointOfFour(a, b, c, d)
        /\ cp = 262144 * (a - 240) + 4096 * (b - 128) + 64 * (c - 128) + (d - 128)
  BY <1>1, SMT DEF Trail, PointOfFour
<1>3. Accepted(cp, 4) <=> cp >= 65536 /\ cp <= 1114111 /\ (cp < 55296 \/ cp > 57343)
  BY AcceptedIs
<1>4. cp >= 65536 <=> (a = 240 => b >= 144)
  BY <1>2 DEF Trail
<1>5. cp <= 1114111 <=> (a = 244 => b <= 143)
  BY <1>2 DEF Trail
<1>6. cp >= 65536 => cp > 57343
  OBVIOUS
<1> QED
  BY <1>2, <1>3, <1>4, <1>5, <1>6

\* The check takes the characters of a text and nothing else.
CheckedStep(s, i, j) ==
  LET len == SequenceLength(s[i])
  IN  /\ len > 0
      /\ i + len - 1 <= Len(s)
      /\ \A k \in 1..(len - 1) : s[i + k] \in 128..191
      /\ Accepted(CodePointAt(s, i, len), len)
      /\ j = i + len

Announces(c, len) ==
  \/ len = 1 /\ c \in 0..127
  \/ len = 2 /\ c \in 194..223
  \/ len = 3 /\ c \in 224..239
  \/ len = 4 /\ c \in 240..244
  \/ len = 0 /\ (c \in 128..193 \/ c \in 245..255)

LEMMA SequenceLengthFacts ==
  ASSUME NEW c \in Byte
  PROVE  Announces(c, SequenceLength(c))
BY DEF Announces, SequenceLength, Byte

\* A character of the bytes a, b, c and d from place i on, in a text of n bytes.
CharacterOf(a, b, c, d, i, j, n) ==
  \/ j = i + 1 /\ i <= n /\ a \in 0..127
  \/ j = i + 2 /\ i + 1 <= n /\ a \in 194..223 /\ b \in Trail
  \/ /\ j = i + 3 /\ i + 2 <= n
     /\ a \in 224..239 /\ b \in Trail /\ c \in Trail
     /\ a = 224 => b >= 160
     /\ a = 237 => b <= 159
  \/ /\ j = i + 4 /\ i + 3 <= n
     /\ a \in 240..244 /\ b \in Trail /\ c \in Trail /\ d \in Trail
     /\ a = 240 => b >= 144
     /\ a = 244 => b <= 143

LEMMA CharacterOfOne ==
  ASSUME NEW a \in 0..127, NEW b, NEW c, NEW d, NEW i, NEW j, NEW n
  PROVE  CharacterOf(a, b, c, d, i, j, n) <=> j = i + 1 /\ i <= n
<1>1. a \notin 194..223 /\ a \notin 224..239 /\ a \notin 240..244
  BY SMT
<1> QED
  BY <1>1, Zenon DEF CharacterOf

LEMMA CharacterOfTwo ==
  ASSUME NEW a \in 194..223, NEW b, NEW c, NEW d, NEW i, NEW j, NEW n
  PROVE  CharacterOf(a, b, c, d, i, j, n) <=> j = i + 2 /\ i + 1 <= n /\ b \in Trail
<1>1. a \notin 0..127 /\ a \notin 224..239 /\ a \notin 240..244
  BY SMT
<1> QED
  BY <1>1, Zenon DEF CharacterOf

LEMMA CharacterOfThree ==
  ASSUME NEW a \in 224..239, NEW b, NEW c, NEW d, NEW i, NEW j, NEW n
  PROVE  CharacterOf(a, b, c, d, i, j, n)
           <=> /\ j = i + 3 /\ i + 2 <= n /\ b \in Trail /\ c \in Trail
               /\ Accepted(PointOfThree(a, b, c), 3)
<1>1. a \notin 0..127 /\ a \notin 194..223 /\ a \notin 240..244
  BY SMT
<1>2. CharacterOf(a, b, c, d, i, j, n)
        <=> /\ j = i + 3 /\ i + 2 <= n /\ b \in Trail /\ c \in Trail
            /\ (a = 224 => b >= 160) /\ (a = 237 => b <= 159)
  BY <1>1, Zenon DEF CharacterOf
<1>3. b \in Trail /\ c \in Trail =>
        (Accepted(PointOfThree(a, b, c), 3) <=> (a = 224 => b >= 160) /\ (a = 237 => b <= 159))
  BY AcceptedThree, Zenon
<1> QED
  BY <1>2, <1>3, Zenon

LEMMA CharacterOfFour ==
  ASSUME NEW a \in 240..244, NEW b, NEW c, NEW d, NEW i, NEW j, NEW n
  PROVE  CharacterOf(a, b, c, d, i, j, n)
           <=> /\ j = i + 4 /\ i + 3 <= n /\ b \in Trail /\ c \in Trail /\ d \in Trail
               /\ Accepted(PointOfFour(a, b, c, d), 4)
<1>1. a \notin 0..127 /\ a \notin 194..223 /\ a \notin 224..239
  BY SMT
<1>2. CharacterOf(a, b, c, d, i, j, n)
        <=> /\ j = i + 4 /\ i + 3 <= n /\ b \in Trail /\ c \in Trail /\ d \in Trail
            /\ (a = 240 => b >= 144) /\ (a = 244 => b <= 143)
  BY <1>1, Zenon DEF CharacterOf
<1>3. b \in Trail /\ c \in Trail /\ d \in Trail =>
        (Accepted(PointOfFour(a, b, c, d), 4) <=> (a = 240 => b >= 144) /\ (a = 244 => b <= 143))
  BY AcceptedFour, Zenon
<1> QED
  BY <1>2, <1>3, Zenon

\* How long a character is says what leads it.
LEMMA CharacterOfEnds ==
  ASSUME NEW a, NEW b, NEW c, NEW d, NEW i \in Int, NEW j, NEW n,
         CharacterOf(a, b, c, d, i, j, n)
  PROVE  /\ j = i + 1 => a \in 0..127
         /\ j = i + 2 => a \in 194..223 /\ b \in Trail
         /\ j = i + 3 => a \in 224..239
         /\ j = i + 4 => a \in 240..244
BY SMT DEF CharacterOf

LEMMA CharacterOfNone ==
  ASSUME NEW a \in Byte, a \in 128..193 \/ a \in 245..255,
         NEW b, NEW c, NEW d, NEW i, NEW j, NEW n
  PROVE  ~CharacterOf(a, b, c, d, i, j, n)
<1>1. a \notin 0..127 /\ a \notin 194..223 /\ a \notin 224..239 /\ a \notin 240..244
  BY SMT DEF Byte
<1> QED
  BY <1>1, Zenon DEF CharacterOf

LEMMA CharacterIs ==
  ASSUME NEW s, NEW i, NEW j
  PROVE  Character(s, i, j) <=> CharacterOf(s[i], s[i + 1], s[i + 2], s[i + 3], i, j, Len(s))
BY Zenon DEF Character, CharacterOf

LEMMA CheckedCharacter ==
  ASSUME NEW s \in Text, NEW i \in 1..Len(s), NEW j
  PROVE  CheckedStep(s, i, j) <=> Character(s, i, j)
<1>1. s[i] \in Byte /\ i \in Int /\ Len(s) \in Nat /\ i <= Len(s)
  BY TextFacts
<1>2. PICK a, b, c, d, n : a = s[i] /\ b = s[i + 1] /\ c = s[i + 2] /\ d = s[i + 3] /\ n = Len(s)
  BY Zenon
<1>3. a \in Byte
  BY <1>1, <1>2, Zenon
<1> DEFINE len == SequenceLength(a)
           trail == \A k \in 1..(len - 1) : s[i + k] \in Trail
<1>4. CheckedStep(s, i, j)
        <=> len > 0 /\ i + len - 1 <= n /\ trail /\ Accepted(CodePointAt(s, i, len), len) /\ j = i + len
  BY <1>2, Zenon DEF CheckedStep, Trail
<1>5. Character(s, i, j) <=> CharacterOf(a, b, c, d, i, j, n)
  BY <1>2, CharacterIs, Zenon
<1>6. /\ CodePointAt(s, i, 1) = a
      /\ CodePointAt(s, i, 2) = PointOfTwo(a, b)
      /\ CodePointAt(s, i, 3) = PointOfThree(a, b, c)
      /\ CodePointAt(s, i, 4) = PointOfFour(a, b, c, d)
  BY <1>2, CodePointIs, Zenon
<1>7. CASE len = 1 /\ a \in 0..127
  <2>1. Accepted(CodePointAt(s, i, len), len)
    BY <1>6, <1>7, AcceptedOne, Zenon
  <2>2. trail /\ i + len - 1 = i /\ i + len = i + 1 /\ len > 0
    BY <1>1, <1>7
  <2> HIDE DEF len, trail
  <2>3. i <= n
    BY <1>1, <1>2, Zenon
  <2>4. Character(s, i, j) <=> j = i + 1
    BY <1>5, <1>7, <2>3, CharacterOfOne, Zenon
  <2>5. CheckedStep(s, i, j) <=> j = i + 1
    BY <1>4, <2>1, <2>2, <2>3
  <2> QED
    BY <2>4, <2>5, Zenon
<1>8. CASE len = 2 /\ a \in 194..223
  <2>1. b \in Trail => Accepted(CodePointAt(s, i, len), len)
    BY <1>6, <1>8, AcceptedTwo, Zenon
  <2>2. trail <=> b \in Trail
    <3>1. 1..(len - 1) = {1}
      BY <1>8
    <3> QED
      BY <1>2, <3>1, Zenon
  <2>3. i + len - 1 = i + 1 /\ i + len = i + 2 /\ len > 0
    BY <1>1, <1>8
  <2> HIDE DEF len, trail
  <2>4. Character(s, i, j) <=> j = i + 2 /\ i + 1 <= n /\ b \in Trail
    BY <1>5, <1>8, CharacterOfTwo, Zenon
  <2>5. CheckedStep(s, i, j) <=> i + 1 <= n /\ b \in Trail /\ j = i + 2
    BY <1>4, <2>1, <2>2, <2>3, Zenon
  <2> QED
    BY <2>4, <2>5, Zenon
<1>9. CASE len = 3 /\ a \in 224..239
  <2>1. trail <=> b \in Trail /\ c \in Trail
    <3>1. 1..(len - 1) = {1, 2}
      BY <1>9
    <3> QED
      BY <1>2, <3>1, Zenon
  <2>2. i + len - 1 = i + 2 /\ i + len = i + 3 /\ len > 0
    BY <1>1, <1>9
  <2> HIDE DEF len, trail
  <2>3. Character(s, i, j)
          <=> /\ j = i + 3 /\ i + 2 <= n /\ b \in Trail /\ c \in Trail
              /\ Accepted(PointOfThree(a, b, c), 3)
    BY <1>5, <1>9, CharacterOfThree, Zenon
  <2>4. Accepted(CodePointAt(s, i, len), len) <=> Accepted(PointOfThree(a, b, c), 3)
    BY <1>6, <1>9, Zenon
  <2> QED
    BY <1>4, <2>1, <2>2, <2>3, <2>4, Zenon
<1>10. CASE len = 4 /\ a \in 240..244
  <2>1. trail <=> b \in Trail /\ c \in Trail /\ d \in Trail
    <3>1. 1..(len - 1) = {1, 2, 3}
      BY <1>10
    <3> QED
      BY <1>2, <3>1, Zenon
  <2>2. i + len - 1 = i + 3 /\ i + len = i + 4 /\ len > 0
    BY <1>1, <1>10
  <2> HIDE DEF len, trail
  <2>3. Character(s, i, j)
          <=> /\ j = i + 4 /\ i + 3 <= n /\ b \in Trail /\ c \in Trail /\ d \in Trail
              /\ Accepted(PointOfFour(a, b, c, d), 4)
    BY <1>5, <1>10, CharacterOfFour, Zenon
  <2>4. Accepted(CodePointAt(s, i, len), len) <=> Accepted(PointOfFour(a, b, c, d), 4)
    BY <1>6, <1>10, Zenon
  <2> QED
    BY <1>4, <2>1, <2>2, <2>3, <2>4, Zenon
<1>11. CASE len = 0 /\ (a \in 128..193 \/ a \in 245..255)
  <2>1. ~(len > 0)
    BY <1>11
  <2> HIDE DEF len, trail
  <2> QED
    BY <1>3, <1>4, <1>5, <1>11, <2>1, CharacterOfNone, Zenon
<1> DEFINE ofOne == len = 1 /\ a \in 0..127
           ofTwo == len = 2 /\ a \in 194..223
           ofThree == len = 3 /\ a \in 224..239
           ofFour == len = 4 /\ a \in 240..244
           ofNone == len = 0 /\ (a \in 128..193 \/ a \in 245..255)
<1>12. ofOne \/ ofTwo \/ ofThree \/ ofFour \/ ofNone
  <2>1. Announces(a, len)
    BY <1>3, SequenceLengthFacts, Zenon
  <2> HIDE DEF len
  <2> QED
    BY <2>1, Zenon DEF Announces
<1>13. /\ ofOne => (CheckedStep(s, i, j) <=> Character(s, i, j))
       /\ ofTwo => (CheckedStep(s, i, j) <=> Character(s, i, j))
       /\ ofThree => (CheckedStep(s, i, j) <=> Character(s, i, j))
       /\ ofFour => (CheckedStep(s, i, j) <=> Character(s, i, j))
       /\ ofNone => (CheckedStep(s, i, j) <=> Character(s, i, j))
  BY <1>7, <1>8, <1>9, <1>10, <1>11
<1> HIDE DEF ofOne, ofTwo, ofThree, ofFour, ofNone
<1> QED
  BY <1>12, <1>13, Zenon


\* A well-formed sequence w of the standard at place i.
Fits(s, i, w) ==
  /\ i + Len(w) - 1 <= Len(s)
  /\ \A k \in DOMAIN w : s[i + k - 1] \in w[k]

LEMMA FitsOne ==
  ASSUME NEW s, NEW i \in Int, NEW A
  PROVE  /\ Len(<<A>>) = 1
         /\ Fits(s, i, <<A>>) <=> i <= Len(s) /\ s[i] \in A
<1>1. Len(<<A>>) = 1 /\ DOMAIN <<A>> = {1} /\ <<A>>[1] = A
  OBVIOUS
<1>2. i + 1 - 1 = i
  OBVIOUS
<1> QED
  BY <1>1, <1>2, Zenon DEF Fits

LEMMA FitsTwo ==
  ASSUME NEW s, NEW i \in Int, NEW A, NEW B
  PROVE  /\ Len(<<A, B>>) = 2
         /\ Fits(s, i, <<A, B>>) <=> i + 1 <= Len(s) /\ s[i] \in A /\ s[i + 1] \in B
<1>1. Len(<<A, B>>) = 2 /\ DOMAIN <<A, B>> = {1, 2} /\ <<A, B>>[1] = A /\ <<A, B>>[2] = B
  OBVIOUS
<1>2. i + 1 - 1 = i /\ i + 2 - 1 = i + 1
  OBVIOUS
<1> QED
  BY <1>1, <1>2, Zenon DEF Fits

LEMMA FitsThree ==
  ASSUME NEW s, NEW i \in Int, NEW A, NEW B, NEW C
  PROVE  /\ Len(<<A, B, C>>) = 3
         /\ Fits(s, i, <<A, B, C>>)
              <=> i + 2 <= Len(s) /\ s[i] \in A /\ s[i + 1] \in B /\ s[i + 2] \in C
<1>1. /\ Len(<<A, B, C>>) = 3 /\ DOMAIN <<A, B, C>> = {1, 2, 3}
      /\ <<A, B, C>>[1] = A /\ <<A, B, C>>[2] = B /\ <<A, B, C>>[3] = C
  OBVIOUS
<1>2. i + 1 - 1 = i /\ i + 2 - 1 = i + 1 /\ i + 3 - 1 = i + 2
  OBVIOUS
<1> QED
  BY <1>1, <1>2, Zenon DEF Fits

LEMMA FitsFour ==
  ASSUME NEW s, NEW i \in Int, NEW A, NEW B, NEW C, NEW D
  PROVE  /\ Len(<<A, B, C, D>>) = 4
         /\ Fits(s, i, <<A, B, C, D>>)
              <=> /\ i + 3 <= Len(s) /\ s[i] \in A /\ s[i + 1] \in B
                  /\ s[i + 2] \in C /\ s[i + 3] \in D
<1>1. /\ Len(<<A, B, C, D>>) = 4 /\ DOMAIN <<A, B, C, D>> = {1, 2, 3, 4}
      /\ <<A, B, C, D>>[1] = A /\ <<A, B, C, D>>[2] = B
      /\ <<A, B, C, D>>[3] = C /\ <<A, B, C, D>>[4] = D
  OBVIOUS
<1>2. i + 1 - 1 = i /\ i + 2 - 1 = i + 1 /\ i + 3 - 1 = i + 2 /\ i + 4 - 1 = i + 3
  OBVIOUS
<1> QED
  BY <1>1, <1>2, Zenon DEF Fits

\* The second byte of the standard's sequences of three and four bytes.
SecondOfThree(a, b) ==
  \/ a \in {224} /\ b \in 160..191
  \/ a \in 225..236 \cup {238, 239} /\ b \in Trail
  \/ a \in {237} /\ b \in 128..159

SecondOfFour(a, b) ==
  \/ a \in {240} /\ b \in 144..191
  \/ a \in 241..243 /\ b \in Trail
  \/ a \in {244} /\ b \in 128..143

LEMMA SecondBytes ==
  ASSUME NEW a \in Byte, NEW b
  PROVE  /\ SecondOfThree(a, b)
              <=> a \in 224..239 /\ b \in Trail /\ (a = 224 => b >= 160) /\ (a = 237 => b <= 159)
         /\ SecondOfFour(a, b)
              <=> a \in 240..244 /\ b \in Trail /\ (a = 240 => b >= 144) /\ (a = 244 => b <= 143)
<1>1. SecondOfThree(a, b)
        <=> a \in 224..239 /\ b \in Trail /\ (a = 224 => b >= 160) /\ (a = 237 => b <= 159)
  BY SMT DEF SecondOfThree, Byte, Trail
<1>2. SecondOfFour(a, b)
        <=> a \in 240..244 /\ b \in Trail /\ (a = 240 => b >= 144) /\ (a = 244 => b <= 143)
  BY SMT DEF SecondOfFour, Byte, Trail
<1> QED
  BY <1>1, <1>2, Zenon

StandardOf(a, b, c, d, i, j, n) ==
  \/ j = i + 1 /\ i <= n /\ a \in 0..127
  \/ j = i + 2 /\ i + 1 <= n /\ a \in 194..223 /\ b \in Trail
  \/ j = i + 3 /\ i + 2 <= n /\ SecondOfThree(a, b) /\ c \in Trail
  \/ j = i + 4 /\ i + 3 <= n /\ SecondOfFour(a, b) /\ c \in Trail /\ d \in Trail

LEMMA CharacterOfStandard ==
  ASSUME NEW a \in Byte, NEW b, NEW c, NEW d, NEW i, NEW j, NEW n
  PROVE  CharacterOf(a, b, c, d, i, j, n) <=> StandardOf(a, b, c, d, i, j, n)
<1> DEFINE one == j = i + 1 /\ i <= n /\ a \in 0..127
           two == j = i + 2 /\ i + 1 <= n /\ a \in 194..223 /\ b \in Trail
           three == j = i + 3 /\ i + 2 <= n /\ SecondOfThree(a, b) /\ c \in Trail
           four == j = i + 4 /\ i + 3 <= n /\ SecondOfFour(a, b) /\ c \in Trail /\ d \in Trail
           threes == /\ j = i + 3 /\ i + 2 <= n
                     /\ a \in 224..239 /\ b \in Trail /\ c \in Trail
                     /\ a = 224 => b >= 160
                     /\ a = 237 => b <= 159
           fours == /\ j = i + 4 /\ i + 3 <= n
                    /\ a \in 240..244 /\ b \in Trail /\ c \in Trail /\ d \in Trail
                    /\ a = 240 => b >= 144
                    /\ a = 244 => b <= 143
<1>1. CharacterOf(a, b, c, d, i, j, n) <=> one \/ two \/ threes \/ fours
  BY Zenon DEF CharacterOf
<1>2. three <=> threes
  <2> DEFINE shape == a \in 224..239 /\ b \in Trail /\ (a = 224 => b >= 160) /\ (a = 237 => b <= 159)
  <2>1. SecondOfThree(a, b) <=> shape
    BY SecondBytes
  <2>2. threes <=> j = i + 3 /\ i + 2 <= n /\ shape /\ c \in Trail
    OBVIOUS
  <2> HIDE DEF shape, threes
  <2> QED
    BY <2>1, <2>2, Zenon
<1>3. four <=> fours
  <2> DEFINE shape == a \in 240..244 /\ b \in Trail /\ (a = 240 => b >= 144) /\ (a = 244 => b <= 143)
  <2>1. SecondOfFour(a, b) <=> shape
    BY SecondBytes
  <2>2. fours <=> j = i + 4 /\ i + 3 <= n /\ shape /\ c \in Trail /\ d \in Trail
    OBVIOUS
  <2> HIDE DEF shape, fours
  <2> QED
    BY <2>1, <2>2, Zenon
<1>4. CharacterOf(a, b, c, d, i, j, n) <=> one \/ two \/ three \/ four
  <2> HIDE DEF one, two, three, four, threes, fours
  <2> QED
    BY <1>1, <1>2, <1>3, Zenon
<1>5. StandardOf(a, b, c, d, i, j, n) <=> one \/ two \/ three \/ four
  BY Zenon DEF StandardOf
<1> HIDE DEF one, two, three, four
<1> QED
  BY <1>4, <1>5, Zenon

LEMMA StandardCharacter ==
  ASSUME NEW s \in Text, NEW i \in 1..Len(s), NEW j
  PROVE  (\E w \in WellFormedSequences : Fits(s, i, w) /\ j = i + Len(w)) <=> Character(s, i, j)
<1>1. s[i] \in Byte /\ i \in Int
  BY TextFacts
<1>2. PICK a, b, c, d, n : a = s[i] /\ b = s[i + 1] /\ c = s[i + 2] /\ d = s[i + 3] /\ n = Len(s)
  BY Zenon
<1> DEFINE Is(w) == Fits(s, i, w) /\ j = i + Len(w)
<1>3. ASSUME NEW A
      PROVE  Is(<<A>>) <=> j = i + 1 /\ i <= n /\ a \in A
  BY <1>1, <1>2, FitsOne, Zenon
<1>4. ASSUME NEW A, NEW B
      PROVE  Is(<<A, B>>) <=> j = i + 2 /\ i + 1 <= n /\ a \in A /\ b \in B
  BY <1>1, <1>2, FitsTwo, Zenon
<1>5. ASSUME NEW A, NEW B
      PROVE  Is(<<A, B, Trail>>) <=> j = i + 3 /\ i + 2 <= n /\ a \in A /\ b \in B /\ c \in Trail
  BY <1>1, <1>2, FitsThree, Zenon
<1>6. ASSUME NEW A, NEW B
      PROVE  Is(<<A, B, Trail, Trail>>)
               <=> j = i + 4 /\ i + 3 <= n /\ a \in A /\ b \in B /\ c \in Trail /\ d \in Trail
  BY <1>1, <1>2, FitsFour, Zenon
<1> HIDE DEF Is
<1> DEFINE One == 0..127
           Two == 194..223
           A3 == {224}
           B3 == 160..191
           C3 == 225..236 \cup {238, 239}
           E3 == {237}
           F3 == 128..159
           A4 == {240}
           B4 == 144..191
           C4 == 241..243
           E4 == {244}
           F4 == 128..143
<1>7. WellFormedSequences =
        { <<One>>, <<Two, Trail>>,
          <<A3, B3, Trail>>, <<C3, Trail, Trail>>, <<E3, F3, Trail>>,
          <<A4, B4, Trail, Trail>>, <<C4, Trail, Trail, Trail>>, <<E4, F4, Trail, Trail>> }
  BY Zenon DEF WellFormedSequences
<1>8. SecondOfThree(a, b)
        <=> (a \in A3 /\ b \in B3) \/ (a \in C3 /\ b \in Trail) \/ (a \in E3 /\ b \in F3)
  BY Zenon DEF SecondOfThree
<1>9. SecondOfFour(a, b)
         <=> (a \in A4 /\ b \in B4) \/ (a \in C4 /\ b \in Trail) \/ (a \in E4 /\ b \in F4)
  BY Zenon DEF SecondOfFour
<1>10. a \in Byte
  BY <1>1, <1>2, Zenon
<1>11. Character(s, i, j) <=> CharacterOf(a, b, c, d, i, j, n)
  BY <1>2, CharacterIs, Zenon
<1>12. CharacterOf(a, b, c, d, i, j, n)
         <=> \/ j = i + 1 /\ i <= n /\ a \in One
             \/ j = i + 2 /\ i + 1 <= n /\ a \in Two /\ b \in Trail
             \/ j = i + 3 /\ i + 2 <= n /\ SecondOfThree(a, b) /\ c \in Trail
             \/ j = i + 4 /\ i + 3 <= n /\ SecondOfFour(a, b) /\ c \in Trail /\ d \in Trail
  <2>1. CharacterOf(a, b, c, d, i, j, n) <=> StandardOf(a, b, c, d, i, j, n)
    BY <1>10, CharacterOfStandard, Zenon
  <2> QED
    BY <2>1, Zenon DEF StandardOf
<1> HIDE DEF One, Two, A3, B3, C3, E3, F3, A4, B4, C4, E4, F4
<1>13. (\E w \in WellFormedSequences : Is(w))
         <=> \/ Is(<<One>>) \/ Is(<<Two, Trail>>)
             \/ Is(<<A3, B3, Trail>>) \/ Is(<<C3, Trail, Trail>>) \/ Is(<<E3, F3, Trail>>)
             \/ Is(<<A4, B4, Trail, Trail>>) \/ Is(<<C4, Trail, Trail, Trail>>)
             \/ Is(<<E4, F4, Trail, Trail>>)
  BY <1>7, Zenon
<1>14. \/ Is(<<A3, B3, Trail>>) \/ Is(<<C3, Trail, Trail>>) \/ Is(<<E3, F3, Trail>>)
       <=> j = i + 3 /\ i + 2 <= n /\ SecondOfThree(a, b) /\ c \in Trail
  BY <1>5, <1>8, Zenon
<1>15. \/ Is(<<A4, B4, Trail, Trail>>) \/ Is(<<C4, Trail, Trail, Trail>>)
       \/ Is(<<E4, F4, Trail, Trail>>)
       <=> j = i + 4 /\ i + 3 <= n /\ SecondOfFour(a, b) /\ c \in Trail /\ d \in Trail
  BY <1>6, <1>9, Zenon
<1>16. (\E w \in WellFormedSequences : Is(w)) <=> Character(s, i, j)
  <2>1. Is(<<One>>) <=> j = i + 1 /\ i <= n /\ a \in One
    BY <1>3
  <2>2. Is(<<Two, Trail>>) <=> j = i + 2 /\ i + 1 <= n /\ a \in Two /\ b \in Trail
    BY <1>4
  <2> QED
    BY <1>11, <1>12, <1>13, <1>14, <1>15, <2>1, <2>2, Zenon
<1> QED
  BY <1>16, Zenon DEF Is


-----------------------------------------------------------------------------
(* The strict check takes the well-formed texts.                           *)

LEMMA CharactersForward ==
  ASSUME NEW s \in Text, NEW i, NEW j, <<i, j>> \in Characters(s)
  PROVE  i \in 1..Len(s) /\ j \in 1..(Len(s) + 1) /\ i < j /\ Character(s, i, j)
<1>1. i \in 1..Len(s) /\ Character(s, i, j)
  BY DEF Characters
<1> QED
  BY <1>1, CharacterFacts

\* A text is well formed when its places can be taken character by character.
LEMMA WellFormedIsTiled ==
  ASSUME NEW s \in Text
  PROVE  WellFormed(s) <=> \E B : Tiling(s, B)
<1>1. PICK n \in Nat : n = Len(s)
  BY TextFacts
<1> DEFINE Standard(f, i) == \E w \in WellFormedSequences :
                               /\ i + Len(w) - 1 <= Len(s)
                               /\ \A k \in DOMAIN w : s[i + k - 1] \in w[k]
                               /\ f[i + Len(w)]
           Step(f, i) == \E j \in 1..(n + 1) : <<i, j>> \in Characters(s) /\ f[j]
           IsFrom(f) == f = [i \in 1..(Len(s) + 1) |-> i = Len(s) + 1 \/ Standard(f, i)]
<1>2. ASSUME NEW f, NEW i \in 1..n
      PROVE  Standard(f, i) <=> Step(f, i)
  <2>1. i \in 1..Len(s)
    BY <1>1
  <2>2. Standard(f, i) <=> \E w \in WellFormedSequences : Fits(s, i, w) /\ f[i + Len(w)]
    BY Zenon DEF Fits
  <2>3. (\E w \in WellFormedSequences : Fits(s, i, w) /\ f[i + Len(w)])
          <=> \E j : Character(s, i, j) /\ f[j]
    <3>1. ASSUME NEW w \in WellFormedSequences, Fits(s, i, w), f[i + Len(w)]
          PROVE  \E j : Character(s, i, j) /\ f[j]
      <4>1. PICK j : j = i + Len(w)
        BY Zenon
      <4>2. Character(s, i, j)
        BY <2>1, <3>1, <4>1, StandardCharacter, Zenon
      <4> QED
        BY <3>1, <4>1, <4>2, Zenon
    <3>2. ASSUME NEW j, Character(s, i, j), f[j]
          PROVE  \E w \in WellFormedSequences : Fits(s, i, w) /\ f[i + Len(w)]
      <4>1. PICK w \in WellFormedSequences : Fits(s, i, w) /\ j = i + Len(w)
        BY <2>1, <3>2, StandardCharacter, SMT
      <4> QED
        BY <3>2, <4>1, Zenon
    <3> QED
      BY <3>1, <3>2, Zenon
  <2>4. ASSUME NEW j, Character(s, i, j)
        PROVE  <<i, j>> \in Characters(s) /\ j \in 1..(n + 1)
    BY <1>1, <2>1, <2>4, CharacterFacts DEF Characters
  <2>5. Step(f, i) <=> \E j : Character(s, i, j) /\ f[j]
    BY <2>4, CharactersForward, Zenon
  <2> HIDE DEF Standard, Step
  <2> QED
    BY <2>2, <2>3, <2>5, Zenon
<1>3. ASSUME NEW f, NEW i \in 1..(n + 1)
      PROVE  (i = Len(s) + 1 \/ Standard(f, i)) = (i \in {n + 1} \/ Step(f, i))
  <2>1. i = n + 1 \/ i \in 1..n
    OBVIOUS
  <2>2. (i = Len(s) + 1 \/ Standard(f, i)) <=> (i \in {n + 1} \/ Step(f, i))
    <3> HIDE DEF Standard, Step
    <3> QED
      BY <1>1, <1>2, <2>1, Zenon
  <2> HIDE DEF Standard, Step
  <2> QED
    BY <2>2, SMT
<1>4. ASSUME NEW f
      PROVE  IsFrom(f) <=> Reaches(f, n + 1, {n + 1}, Characters(s))
  <2>1. [i \in 1..(Len(s) + 1) |-> i = Len(s) + 1 \/ Standard(f, i)]
          = [i \in 1..(n + 1) |-> i \in {n + 1} \/ Step(f, i)]
    <3> HIDE DEF Standard, Step
    <3> QED
      BY <1>1, <1>3, Zenon
  <2> QED
    BY <2>1, Zenon DEF Reaches
<1>5. WellFormed(s) <=> (CHOOSE f : IsFrom(f))[1]
  BY Zenon DEF WellFormed
<1>6. PICK g : IsFrom(g)
  <2> HIDE DEF IsFrom
  <2> QED
    BY <1>4, ReachesSome
<1>7. IsFrom(CHOOSE f : IsFrom(f))
  <2> HIDE DEF IsFrom
  <2> QED
    BY <1>6, Zenon
<1> DEFINE c == CHOOSE f : IsFrom(f)
<1>8. Reaches(c, n + 1, {n + 1}, Characters(s))
  <2> HIDE DEF IsFrom
  <2> QED
    BY <1>4, <1>7, Zenon
<1> HIDE DEF c
<1>9. c[1] <=> \E B : Closed(B, n + 1, {n + 1}, Characters(s)) /\ 1 \in B
  <2>1. \A i, j \in 1..(n + 1) : <<i, j>> \in Characters(s) => i < j
    BY CharactersForward, Zenon
  <2>2. n + 1 \in Nat /\ 1 \in 1..(n + 1)
    OBVIOUS
  <2> QED
    BY <1>8, <2>1, <2>2, ReachesClosed
<1>10. ASSUME NEW B
       PROVE  Closed(B, n + 1, {n + 1}, Characters(s)) /\ 1 \in B <=> Tiling(s, B)
  <2>1. ASSUME Closed(B, n + 1, {n + 1}, Characters(s)), 1 \in B
        PROVE  Tiling(s, B)
    BY <1>1, <2>1, CharactersForward, Zenon DEF Closed, Tiling
  <2>2. ASSUME Tiling(s, B)
        PROVE  Closed(B, n + 1, {n + 1}, Characters(s)) /\ 1 \in B
    <3>1. B \in SUBSET (1..(n + 1)) /\ 1 \in B
      BY <1>1, <2>2, Zenon DEF Tiling
    <3>2. ASSUME NEW i \in B
          PROVE  i \in {n + 1} \/ \E j \in B : <<i, j>> \in Characters(s)
      <4>1. i = n + 1 \/ \E j \in B : Character(s, i, j)
        BY <1>1, <2>2, Zenon DEF Tiling
      <4>2. i = n + 1 \/ i \in 1..Len(s)
        BY <1>1, <3>1
      <4>3. \A j \in B : j \in 1..(Len(s) + 1)
        BY <1>1, <3>1
      <4> QED
        BY <4>1, <4>2, <4>3, Zenon DEF Characters
    <3> QED
      BY <3>1, <3>2, Zenon DEF Closed
  <2> QED
    BY <2>1, <2>2
<1> HIDE DEF IsFrom
<1> QED
  BY <1>5, <1>9, <1>10, Zenon DEF c

\* The strict check accepts a text when its places can be so taken.
LEMMA ValidIsTiled ==
  ASSUME NEW s \in Text
  PROVE  IsValidUtf8(s) <=> \E B : Tiling(s, B)
<1>1. PICK n \in Nat : n = Len(s)
  BY TextFacts
<1> DEFINE Checked(f, i) == LET len == SequenceLength(s[i])
                            IN  /\ len > 0
                                /\ i + len - 1 <= Len(s)
                                /\ \A k \in 1..(len - 1) : s[i + k] \in 128..191
                                /\ Accepted(CodePointAt(s, i, len), len)
                                /\ f[i + len]
           Step(f, i) == \E j \in 1..(n + 4) : <<i, j>> \in Characters(s) /\ f[j]
           ends == (n + 1)..(n + 4)
           IsValid(f) == f = [i \in 1..(Len(s) + 4) |-> i > Len(s) \/ Checked(f, i)]
<1>2. ASSUME NEW f, NEW i \in 1..n
      PROVE  Checked(f, i) <=> Step(f, i)
  <2>1. i \in 1..Len(s)
    BY <1>1
  <2>2. Checked(f, i) <=> \E j : CheckedStep(s, i, j) /\ f[j]
    BY Zenon DEF CheckedStep
  <2>3. (\E j : CheckedStep(s, i, j) /\ f[j]) <=> \E j : Character(s, i, j) /\ f[j]
    BY <2>1, CheckedCharacter, Zenon
  <2>4. ASSUME NEW j, Character(s, i, j)
        PROVE  <<i, j>> \in Characters(s) /\ j \in 1..(n + 4)
    <3>1. j \in 1..(Len(s) + 1)
      BY <2>1, <2>4, CharacterFacts, Zenon
    <3>2. <<i, j>> \in Characters(s)
      BY <2>1, <2>4, <3>1, Zenon DEF Characters
    <3> QED
      BY <1>1, <3>1, <3>2
  <2>5. Step(f, i) <=> \E j : Character(s, i, j) /\ f[j]
    BY <2>4, CharactersForward, Zenon
  <2> HIDE DEF Checked, Step
  <2> QED
    BY <2>2, <2>3, <2>5, Zenon
<1>3. ASSUME NEW f, NEW i \in 1..(n + 4)
      PROVE  (i > Len(s) \/ Checked(f, i)) = (i \in ends \/ Step(f, i))
  <2>1. (i > n /\ i \in ends) \/ (i \in 1..n /\ ~(i > n) /\ i \notin ends)
    OBVIOUS
  <2> HIDE DEF ends
  <2>2. (i > Len(s) \/ Checked(f, i)) <=> (i \in ends \/ Step(f, i))
    <3> HIDE DEF Checked, Step
    <3> QED
      BY <1>1, <1>2, <2>1, Zenon
  <2> HIDE DEF Checked, Step
  <2> QED
    BY <2>2, SMT
<1> HIDE DEF ends
<1>4. ASSUME NEW f
      PROVE  IsValid(f) <=> Reaches(f, n + 4, ends, Characters(s))
  <2>1. [i \in 1..(Len(s) + 4) |-> i > Len(s) \/ Checked(f, i)]
          = [i \in 1..(n + 4) |-> i \in ends \/ Step(f, i)]
    <3> HIDE DEF Checked, Step
    <3> QED
      BY <1>1, <1>3, Zenon
  <2> QED
    BY <2>1, Zenon DEF Reaches
<1>5. IsValidUtf8(s) <=> (CHOOSE f : IsValid(f))[1]
  BY Zenon DEF IsValidUtf8
<1>6. PICK g : IsValid(g)
  <2> HIDE DEF IsValid
  <2> QED
    BY <1>4, ReachesSome
<1>7. IsValid(CHOOSE f : IsValid(f))
  <2> HIDE DEF IsValid
  <2> QED
    BY <1>6, Zenon
<1> DEFINE c == CHOOSE f : IsValid(f)
<1>8. Reaches(c, n + 4, ends, Characters(s))
  <2> HIDE DEF IsValid
  <2> QED
    BY <1>4, <1>7, Zenon
<1> HIDE DEF c
<1>9. c[1] <=> \E B : Closed(B, n + 4, ends, Characters(s)) /\ 1 \in B
  <2>1. \A i, j \in 1..(n + 4) : <<i, j>> \in Characters(s) => i < j
    BY CharactersForward, Zenon
  <2>2. n + 4 \in Nat /\ 1 \in 1..(n + 4)
    OBVIOUS
  <2> QED
    BY <1>8, <2>1, <2>2, ReachesClosed
<1>10. ASSUME NEW B, Closed(B, n + 4, ends, Characters(s)), 1 \in B
       PROVE  \E C : Tiling(s, C)
  <2> DEFINE C == B \cap (1..(n + 1))
  <2>1. C \in SUBSET (1..(Len(s) + 1)) /\ 1 \in C
    BY <1>1, <1>10
  <2>2. ASSUME NEW i \in C
        PROVE  i = Len(s) + 1 \/ \E j \in C : Character(s, i, j)
    <3>1. i \in ends \/ \E j \in B : <<i, j>> \in Characters(s)
      BY <1>10, Zenon DEF Closed
    <3>2. i \in ends => i = Len(s) + 1
      BY <1>1 DEF ends
    <3>3. ASSUME NEW j \in B, <<i, j>> \in Characters(s)
          PROVE  j \in C /\ Character(s, i, j)
      BY <1>1, <3>3, CharactersForward
    <3> HIDE DEF C
    <3> QED
      BY <3>1, <3>2, <3>3, Zenon
  <2> HIDE DEF C
  <2>3. Tiling(s, C)
    BY <2>1, <2>2, Zenon DEF Tiling
  <2> QED
    BY <2>3
<1>11. ASSUME NEW B, Tiling(s, B)
       PROVE  Closed(B, n + 4, ends, Characters(s)) /\ 1 \in B
  <2>1. B \in SUBSET (1..(n + 1)) /\ 1 \in B
    BY <1>1, <1>11, Zenon DEF Tiling
  <2>2. B \in SUBSET (1..(n + 4))
    BY <2>1
  <2>3. ASSUME NEW i \in B
        PROVE  i \in ends \/ \E j \in B : <<i, j>> \in Characters(s)
    <3>1. i = n + 1 \/ \E j \in B : Character(s, i, j)
      BY <1>1, <1>11, Zenon DEF Tiling
    <3>2. i \in ends \/ (i # n + 1 /\ i \in 1..Len(s))
      BY <1>1, <2>1 DEF ends
    <3>3. \A j \in B : j \in 1..(Len(s) + 1)
      BY <1>1, <2>1
    <3> QED
      BY <3>1, <3>2, <3>3, Zenon DEF Characters
  <2> QED
    BY <2>1, <2>2, <2>3, Zenon DEF Closed
<1> HIDE DEF IsValid
<1> QED
  BY <1>5, <1>9, <1>10, <1>11, Zenon DEF c

\* The strict check accepts exactly the texts that the standard calls well formed.
THEOREM CodecStrictCheck ==
  ASSUME NEW s \in Text
  PROVE  IsValidUtf8(s) <=> WellFormed(s)
BY ValidIsTiled, WellFormedIsTiled, Zenon

-----------------------------------------------------------------------------
(* What is done to a well-formed text.                                     *)

\* The bytes of a character after its first are trailing bytes, and none of those
\* leads a character.
LEMMA CharacterWithin ==
  ASSUME NEW s \in Text, NEW i \in 1..Len(s), NEW j, Character(s, i, j),
         NEW p \in 1..Len(s), i < p, p < j
  PROVE  ~(s[p] < 128)
<1>1. s[p] >= 128 /\ s[p] \in Int
  BY CharacterFacts, TextFacts, ByteFacts
<1> QED
  BY <1>1

\* A character stays one where its bytes stand.
LEMMA CharacterMoved ==
  ASSUME NEW s \in Text, NEW i \in 1..Len(s), NEW j, Character(s, i, j),
         NEW t \in Text, NEW m \in Nat, m + (j - i) <= Len(t) + 1, m >= 1,
         \A k \in 0..(j - i - 1) : t[m + k] = s[i + k]
  PROVE  Character(t, m, m + (j - i))
<1>1. Len(s) \in Nat /\ Len(t) \in Nat /\ i \in Int /\ s[i] \in Byte
  BY TextFacts
<1>2. PICK a, b, c, d, n : a = s[i] /\ b = s[i + 1] /\ c = s[i + 2] /\ d = s[i + 3] /\ n = Len(s)
  BY Zenon
<1>3. PICK a2, b2, c2, d2, n2 :
        a2 = t[m] /\ b2 = t[m + 1] /\ c2 = t[m + 2] /\ d2 = t[m + 3] /\ n2 = Len(t)
  BY Zenon
<1>4. CharacterOf(a, b, c, d, i, j, n)
  BY <1>2, CharacterIs, Zenon
<1>5. Character(t, m, m + (j - i)) <=> CharacterOf(a2, b2, c2, d2, m, m + (j - i), n2)
  BY <1>3, CharacterIs, Zenon
<1>6. j = i + 1 \/ j = i + 2 \/ j = i + 3 \/ j = i + 4
  BY <1>4, Zenon DEF CharacterOf
<1>7. n2 \in Nat /\ m + (j - i) <= n2 + 1 /\ a \in Byte
  BY <1>1, <1>2, <1>3
<1>8. CASE j = i + 1
  <2>1. a2 = a
    <3>1. 0 \in 0..(j - i - 1) /\ m + 0 = m /\ i + 0 = i
      BY <1>1, <1>8
    <3> QED
      BY <1>2, <1>3, <3>1, Zenon
  <2>2. m + (j - i) = m + 1 /\ m <= n2
    BY <1>1, <1>7, <1>8
  <2>3. a \in 0..127
    BY <1>1, <1>4, <1>8, CharacterOfEnds
  <2> QED
    BY <1>5, <2>1, <2>2, <2>3, CharacterOfOne, Zenon
<1>9. CASE j = i + 2
  <2>1. a2 = a /\ b2 = b
    <3>1. /\ 0 \in 0..(j - i - 1) /\ m + 0 = m /\ i + 0 = i
          /\ 1 \in 0..(j - i - 1)
      BY <1>1, <1>9
    <3> QED
      BY <1>2, <1>3, <3>1, Zenon
  <2>2. m + (j - i) = m + 2 /\ m + 1 <= n2
    BY <1>1, <1>7, <1>9
  <2>3. a \in 194..223 /\ b \in Trail
    BY <1>1, <1>4, <1>9, CharacterOfEnds
  <2> QED
    BY <1>5, <2>1, <2>2, <2>3, CharacterOfTwo, Zenon
<1>10. CASE j = i + 3
  <2>1. a2 = a /\ b2 = b /\ c2 = c
    <3>1. /\ 0 \in 0..(j - i - 1) /\ m + 0 = m /\ i + 0 = i
          /\ 1 \in 0..(j - i - 1) /\ 2 \in 0..(j - i - 1)
      BY <1>1, <1>10
    <3> QED
      BY <1>2, <1>3, <3>1, Zenon
  <2>2. m + (j - i) = m + 3 /\ m + 2 <= n2
    BY <1>1, <1>7, <1>10
  <2>3. a \in 224..239 /\ b \in Trail /\ c \in Trail /\ Accepted(PointOfThree(a, b, c), 3)
    <3>1. a \in 224..239
      BY <1>1, <1>4, <1>10, CharacterOfEnds
    <3> QED
      BY <1>4, <3>1, CharacterOfThree, Zenon
  <2> QED
    BY <1>5, <2>1, <2>2, <2>3, CharacterOfThree, Zenon
<1>11. CASE j = i + 4
  <2>1. a2 = a /\ b2 = b /\ c2 = c /\ d2 = d
    <3>1. /\ 0 \in 0..(j - i - 1) /\ m + 0 = m /\ i + 0 = i
          /\ 1 \in 0..(j - i - 1) /\ 2 \in 0..(j - i - 1) /\ 3 \in 0..(j - i - 1)
      BY <1>1, <1>11
    <3> QED
      BY <1>2, <1>3, <3>1, Zenon
  <2>2. m + (j - i) = m + 4 /\ m + 3 <= n2
    BY <1>1, <1>7, <1>11
  <2>3. /\ a \in 240..244 /\ b \in Trail /\ c \in Trail /\ d \in Trail
        /\ Accepted(PointOfFour(a, b, c, d), 4)
    <3>1. a \in 240..244
      BY <1>1, <1>4, <1>11, CharacterOfEnds
    <3> QED
      BY <1>4, <3>1, CharacterOfFour, Zenon
  <2> QED
    BY <1>5, <2>1, <2>2, <2>3, CharacterOfFour, Zenon
<1> QED
  BY <1>6, <1>8, <1>9, <1>10, <1>11

LEMMA TilingFacts ==
  ASSUME NEW s \in Text, NEW B, Tiling(s, B)
  PROVE  /\ 1 \in B
         /\ \A i \in B : i \in 1..(Len(s) + 1)
         /\ \A i \in B : i # Len(s) + 1 =>
              i \in 1..Len(s) /\ \E j \in B : Character(s, i, j) /\ i < j
<1>1. Len(s) \in Nat
  BY TextFacts
<1>2. 1 \in B /\ \A i \in B : i \in 1..(Len(s) + 1)
  BY DEF Tiling
<1>3. ASSUME NEW i \in B, i # Len(s) + 1
      PROVE  i \in 1..Len(s) /\ \E j \in B : Character(s, i, j) /\ i < j
  <2>1. i \in 1..Len(s)
    BY <1>1, <1>2, <1>3
  <2>2. PICK j \in B : Character(s, i, j)
    BY <1>3, Zenon DEF Tiling
  <2>3. i < j
    BY <2>1, <2>2, CharacterFacts
  <2> QED
    BY <2>1, <2>2, <2>3
<1> QED
  BY <1>2, <1>3

LEMMA PlainByte == \A a \in Byte : a < 128 => a \in 0..127
BY DEF Byte

\* A text of bytes below 128 is well formed.
LEMMA PlainWellFormed ==
  ASSUME NEW s \in Text, \A b \in 1..Len(s) : s[b] < 128
  PROVE  WellFormed(s)
<1>1. PICK n \in Nat : n = Len(s)
  BY TextFacts
<1>2. ASSUME NEW i \in 1..n
      PROVE  Character(s, i, i + 1)
  <2>1. s[i] \in 0..127
    <3>1. s[i] \in Byte /\ s[i] < 128
      BY <1>1, TextFacts
    <3> QED
      BY <3>1, PlainByte, Zenon
  <2>2. i <= n
    OBVIOUS
  <2> QED
    BY <1>1, <2>1, <2>2, Zenon DEF Character
<1>3. Tiling(s, 1..(n + 1))
  <2>1. ASSUME NEW i \in 1..(n + 1), i # n + 1
        PROVE  i \in 1..n /\ i + 1 \in 1..(n + 1)
    BY <2>1
  <2>2. 1 \in 1..(n + 1)
    OBVIOUS
  <2> QED
    BY <1>1, <1>2, <2>1, <2>2, Zenon DEF Tiling
<1> QED
  BY <1>3, WellFormedIsTiled, Zenon

\* At a byte below 128 a character starts, and behind it the next.
LEMMA PlainByteApart ==
  ASSUME NEW s \in Text, NEW B, Tiling(s, B), NEW p \in 1..Len(s), s[p] < 128
  PROVE  p \in B /\ p + 1 \in B
<1>1. PICK n \in Nat : n = Len(s)
  BY TextFacts
<1> DEFINE K == {i \in 1..p : i \in B}
<1>2. PICK i \in K : \A j \in K : j <= i
  <2>1. K \in SUBSET (1..p) /\ K # {} /\ p \in Nat
    BY <1>1, TilingFacts
  <2> HIDE DEF K
  <2> QED
    BY <2>1, GreatestElement
<1>3. i \in B /\ i \in 1..p /\ p \in 1..n /\ i \in 1..Len(s)
  BY <1>1
<1>4. PICK j \in B : Character(s, i, j) /\ i < j
  <2>1. i # Len(s) + 1
    BY <1>1, <1>3
  <2> QED
    BY <1>3, <2>1, TilingFacts, Zenon
<1>5. j \in 1..(n + 1)
  BY <1>1, TilingFacts
<1>6. p < j
  <2> SUFFICES ASSUME j <= p
               PROVE  FALSE
    BY <1>3, <1>5
  <2>1. j \in K
    BY <1>3, <1>5
  <2>2. j <= i
    BY <1>2, <2>1, Zenon
  <2> QED
    BY <1>3, <1>4, <1>5, <2>2
<1>7. i = p
  <2> SUFFICES ASSUME i < p
               PROVE  FALSE
    BY <1>3
  <2> QED
    BY <1>3, <1>4, <1>6, CharacterWithin
<1>8. j = p + 1
  BY <1>3, <1>4, <1>7, CharacterFacts
<1> QED
  BY <1>3, <1>4, <1>7, <1>8

\* The part of a well-formed text before a byte below 128 is well formed.
LEMMA CutWellFormed ==
  ASSUME NEW s \in Text, WellFormed(s), NEW m \in 0..Len(s), m = Len(s) \/ s[m + 1] < 128,
         NEW t \in Bytes(m), \A b \in 1..m : t[b] = s[b]
  PROVE  WellFormed(t)
<1>1. PICK n \in Nat : n = Len(s) /\ m \in 0..n /\ m \in Nat
  BY TextFacts
<1>2. t \in Text /\ Len(t) = m
  BY <1>1, BytesFacts
<1>3. PICK B : Tiling(s, B)
  BY WellFormedIsTiled, Zenon
<1> DEFINE C == {i \in B : i <= m + 1}
<1>4. ASSUME NEW i \in C, i # m + 1
      PROVE  \E j \in C : Character(t, i, j)
  <2>1. i \in 1..m /\ i \in B /\ i # Len(s) + 1 /\ i \in 1..Len(s) /\ i \in Nat /\ i >= 1
    <3>1. i \in B /\ i <= m + 1 /\ i # m + 1
      BY <1>4
    <3>2. i \in 1..(n + 1)
      BY <1>1, <1>3, <3>1, TilingFacts
    <3> QED
      BY <1>1, <3>1, <3>2
  <2>2. PICK j \in B : Character(s, i, j) /\ i < j
    BY <2>1, <1>3, TilingFacts, Zenon
  <2>3. j \in 1..(n + 1)
    BY <1>1, <1>3, TilingFacts
  <2>4. j <= m + 1
    <3> SUFFICES ASSUME m + 1 < j
                 PROVE  FALSE
      BY <1>1, <2>3
    <3>1. m + 1 \in 1..Len(s) /\ i < m + 1 /\ m # Len(s)
      BY <1>1, <2>1, <2>3
    <3> QED
      BY <2>1, <2>2, <3>1, CharacterWithin
  <2>5. \A k \in 0..(j - i - 1) : i + k \in 1..m
    BY <1>1, <2>1, <2>2, <2>3, <2>4
  <2>6. \A k \in 0..(j - i - 1) : t[i + k] = s[i + k]
    BY <2>5
  <2>7. i + (j - i) = j /\ i + (j - i) <= Len(t) + 1
    BY <1>1, <1>2, <2>1, <2>3, <2>4
  <2>8. Character(t, i, i + (j - i))
    BY <1>2, <2>1, <2>2, <2>6, <2>7, CharacterMoved
  <2>9. Character(t, i, j)
    BY <2>7, <2>8, Zenon
  <2> QED
    BY <2>4, <2>9
<1>5. C \in SUBSET (1..(m + 1)) /\ 1 \in C
  BY <1>1, <1>3, TilingFacts
<1> HIDE DEF C
<1>6. Tiling(t, C)
  BY <1>2, <1>4, <1>5, Zenon DEF Tiling
<1> QED
  BY <1>2, <1>6, WellFormedIsTiled, Zenon

LEMMA RTrimWellFormed ==
  ASSUME NEW s \in Text, WellFormed(s)
  PROVE  WellFormed(RTrim(s))
<1>1. PICK m : m = Len(RTrim(s))
  OBVIOUS
<1>2. TrimsTo(s, m) /\ RTrim(s) \in Text /\ \A b \in 1..m : RTrim(s)[b] = s[b]
  BY <1>1, RTrimFacts
<1>3. Len(s) \in Nat /\ m \in 0..Len(s)
  BY <1>2, TextFacts DEF TrimsTo
<1>4. m = Len(s) \/ s[m + 1] < 128
  <2> SUFFICES ASSUME m # Len(s)
               PROVE  s[m + 1] < 128
    OBVIOUS
  <2>1. m + 1 \in (m + 1)..Len(s)
    BY <1>3
  <2>2. s[m + 1] = Blank
    BY <1>2, <2>1, Zenon DEF TrimsTo
  <2>3. Blank < 128
    BY DEF Blank
  <2> QED
    BY <2>2, <2>3, Zenon
<1>5. RTrim(s) \in Bytes(m)
  BY <1>1, <1>2, <1>3, BytesFacts
<1> QED
  BY <1>2, <1>3, <1>4, <1>5, CutWellFormed

\* Putting a well-formed text into a blank field of a well-formed one, cut or
\* filled up with blanks, makes no other text malformed.
LEMMA SetFieldWellFormed ==
  ASSUME NEW n \in Nat, NEW s \in Bytes(n), WellFormed(s), NEW v \in Text,
         NEW f, f.offset \in Nat, f.length \in Nat, f.offset + f.length <= n,
         \A b \in BytesOf(f) : s[b] = Blank, WellFormed(Cut(v, f.length))
  PROVE  WellFormed(SetFieldRaw(s, f, v))
<1>1. PICK off, len : off = f.offset /\ len = f.length /\ off \in Nat /\ len \in Nat /\ off + len <= n
  OBVIOUS
<1>2. PICK u, m : u = Cut(v, len) /\ m = Len(u)
  OBVIOUS
<1>cut. m = IF Len(v) < len THEN Len(v) ELSE len
  BY <1>1, <1>2, CutFacts
<1>3. u \in Text /\ m \in Nat /\ m <= len /\ WellFormed(u)
  BY <1>1, <1>2, <1>cut, CutFacts, TextFacts
<1>4. PICK t : t = SetFieldRaw(s, f, v)
  OBVIOUS
<1>5. s \in Text /\ Len(s) = n
  BY BytesFacts
<1>6. t \in Bytes(n) /\ t \in Text /\ Len(t) = n
  BY <1>1, <1>4, SetFieldFacts, BytesFacts
<1>7. /\ \A b \in 1..n : b <= off \/ b > off + len => t[b] = s[b]
      /\ \A k \in 1..m : t[off + k] = u[k]
      /\ \A k \in 1..len : k > m => t[off + k] = Blank
  <2>1. ASSUME NEW b \in 1..n, b <= off \/ b > off + len
        PROVE  t[b] = s[b]
    <3>1. b - f.offset \notin 1..f.length
      BY <1>1, <2>1
    <3> QED
      BY <1>1, <1>4, <3>1, SetFieldFacts
  <2>2. ASSUME NEW k \in 1..len
        PROVE  t[off + k] = IF k <= Len(v) THEN v[k] ELSE Blank
    <3>1. PICK b : b = off + k /\ b \in 1..n /\ b - f.offset = k /\ b - f.offset \in 1..f.length
      <4>1. off + k \in 1..n /\ (off + k) - off = k
        BY <1>1
      <4> QED
        BY <1>1, <4>1, Zenon
    <3>2. t[b] = Fitted(v, f.length)[k]
      BY <1>1, <1>4, <3>1, SetFieldFacts
    <3> QED
      BY <1>1, <3>1, <3>2, FittedFacts
  <2>3. \A k \in 1..m : u[k] = v[k] /\ k \in 1..len /\ k <= Len(v)
    BY <1>1, <1>2, <1>3, <1>cut, CutFacts, TextFacts
  <2>4. ASSUME NEW k \in 1..len, k > m
        PROVE  ~(k <= Len(v))
    BY <1>1, <1>cut, <2>4, TextFacts
  <2>5. \A k \in 1..m : t[off + k] = u[k]
    BY <2>2, <2>3, Zenon
  <2>6. \A k \in 1..len : k > m => t[off + k] = Blank
    BY <2>2, <2>4, Zenon
  <2> QED
    BY <2>1, <2>5, <2>6
<1>8. ASSUME NEW b \in (off + 1)..(off + len)
      PROVE  s[b] = Blank /\ s[b] < 128 /\ b \in 1..n
  <2>1. b \in BytesOf(f) /\ b \in 1..n
    BY <1>1 DEF BytesOf
  <2>2. Blank < 128
    BY DEF Blank
  <2> QED
    BY <2>1, <2>2
<1>9. PICK B : Tiling(s, B)
  BY <1>5, WellFormedIsTiled, Zenon
<1>10. PICK D : Tiling(u, D)
  BY <1>3, WellFormedIsTiled, Zenon
<1>11. CASE len = 0
  <2>1. \A b \in 1..n : t[b] = s[b]
    BY <1>1, <1>7, <1>11
  <2>2. t = s
    BY <1>6, <2>1, SameBytes
  <2> QED
    BY <1>4, <2>2
<1>12. CASE len # 0
  <2>1. off + 1 \in B /\ off + len + 1 \in B
    <3>1. off + 1 \in (off + 1)..(off + len) /\ off + len \in (off + 1)..(off + len)
      BY <1>1, <1>12
    <3>2. s[off + 1] < 128 /\ off + 1 \in 1..n /\ s[off + len] < 128 /\ off + len \in 1..n
      BY <1>8, <3>1
    <3> QED
      BY <1>5, <1>9, <3>2, PlainByteApart
  <2> DEFINE before == {i \in B : i <= off}
             inside == {off + k : k \in D}
             blank == (off + m + 1)..(off + len + 1)
             after == {i \in B : i > off + len}
             C == before \cup inside \cup blank \cup after
  <2>2. \A i \in B : i \in 1..(n + 1) /\ i \in Nat
    BY <1>5, <1>9, TilingFacts
  <2>3. \A k \in D : k \in 1..(m + 1) /\ k \in Nat
    <3>1. \A k \in D : k \in 1..(m + 1)
      BY <1>2, <1>3, <1>10, TilingFacts, Zenon
    <3> QED
      BY <1>3, <3>1
  <2>4. off + 1 \in inside
    <3>1. 1 \in D
      BY <1>3, <1>10, TilingFacts
    <3> QED
      BY <3>1
  <2>5. ASSUME NEW i \in before
        PROVE  \E j \in C : Character(t, i, j)
    <3>1. i \in B /\ i \in 1..n /\ i <= off /\ i # Len(s) + 1
      BY <1>1, <1>5, <2>2, <2>5
    <3>2. PICK j \in B : Character(s, i, j) /\ i < j
      BY <1>5, <1>9, <3>1, TilingFacts, Zenon
    <3>3. j <= off + 1
      <4>0. off \in Nat /\ j \in Nat
        BY <1>1, <2>2, <3>2, Zenon
      <4> SUFFICES ASSUME off + 1 < j
                   PROVE  FALSE
        BY <4>0
      <4>a. off + 1 \in (off + 1)..(off + len)
        BY <1>1, <1>12
      <4>b. off + 1 \in 1..n /\ s[off + 1] < 128
        BY <1>8, <4>a
      <4>c. i < off + 1
        BY <3>1, <4>0
      <4>1. off + 1 \in 1..Len(s) /\ i < off + 1 /\ i \in 1..Len(s) /\ s[off + 1] < 128
        BY <1>5, <3>1, <4>b, <4>c, Zenon
      <4>2. PICK p : p = off + 1 /\ p \in 1..Len(s) /\ i < p /\ p < j /\ s[p] < 128
        BY <4>1, Zenon
      <4> QED
        BY <1>5, <3>2, <4>1, <4>2, CharacterWithin, Zenon
    <3>a. off \in Nat /\ i \in Nat /\ j \in Nat /\ off <= n /\ i >= 1
      BY <1>1, <2>2, <3>1, <3>2
    <3>4. \A k \in 0..(j - i - 1) : i + k \in 1..n /\ i + k <= off
      BY <3>3, <3>a
    <3>5. \A k \in 0..(j - i - 1) : t[i + k] = s[i + k]
      BY <1>7, <3>4, Zenon
    <3>6. i + (j - i) = j /\ i + (j - i) <= Len(t) + 1 /\ i \in Nat /\ i >= 1 /\ i \in 1..Len(s)
      BY <1>1, <1>5, <1>6, <2>2, <3>1, <3>2
    <3>7. Character(t, i, i + (j - i))
      BY <1>5, <1>6, <3>2, <3>5, <3>6, CharacterMoved
    <3>8. Character(t, i, j)
      BY <3>6, <3>7, Zenon
    <3>9. j \in before \/ j = off + 1
      BY <1>1, <2>2, <3>2, <3>3
    <3> HIDE DEF before, inside, blank, after
    <3>10. j \in C
      BY <2>4, <3>9
    <3> QED
      BY <3>8, <3>10
  <2>6. ASSUME NEW k \in D, k # m + 1
        PROVE  \E j \in C : Character(t, off + k, j)
    <3>1. k \in 1..m /\ k # Len(u) + 1 /\ k \in 1..Len(u) /\ k \in Nat
      BY <1>2, <1>3, <2>3, <2>6
    <3>2. PICK j \in D : Character(u, k, j) /\ k < j
      BY <1>3, <1>10, <3>1, TilingFacts, Zenon
    <3>3. \A x \in 0..(j - k - 1) : k + x \in 1..m /\ (off + k) + x = off + (k + x)
      BY <1>1, <1>3, <2>3, <3>1, <3>2
    <3>4. \A x \in 0..(j - k - 1) : t[(off + k) + x] = u[k + x]
      BY <1>7, <3>3, Zenon
    <3>a. off \in Nat /\ j \in Int /\ j <= m + 1 /\ m <= len /\ off + len <= n /\ n = Len(t)
      BY <1>1, <1>3, <1>6, <2>3, <3>2
    <3>b. m \in Int /\ len \in Int /\ n \in Int
      BY <1>1, <1>3
    <3>c. off + j <= n + 1
      BY <3>1, <3>a, <3>b, <3>2
    <3>5. /\ (off + k) + (j - k) = off + j /\ (off + k) + (j - k) <= Len(t) + 1
          /\ off + k \in Nat /\ off + k >= 1
      BY <3>1, <3>a, <3>b, <3>c
    <3>6. PICK o : o = off + k
      OBVIOUS
    <3>7. Character(t, o, o + (j - k))
      BY <1>3, <1>6, <3>1, <3>2, <3>4, <3>5, <3>6, CharacterMoved
    <3>8. Character(t, off + k, off + j)
      BY <3>5, <3>6, <3>7, Zenon
    <3>9. off + j \in inside
      BY <3>2
    <3> HIDE DEF before, inside, blank, after
    <3>10. off + j \in C
      BY <3>9
    <3> QED
      BY <3>8, <3>10
  <2>7. ASSUME NEW i \in blank, i # off + len + 1
        PROVE  \E j \in C : Character(t, i, j)
    <3>1. PICK k : k = i - off /\ k \in 1..len /\ k > m /\ off + k = i /\ i \in 1..n
      <4>1. i \in Nat /\ i >= off + m + 1 /\ i <= off + len
        BY <1>1, <1>3, <2>7
      <4>2. i - off \in 1..len /\ i - off > m /\ off + (i - off) = i /\ i \in 1..n
        BY <1>1, <1>3, <4>1
      <4> HIDE DEF blank
      <4> QED
        BY <4>2, Zenon
    <3>2. t[i] = Blank
      BY <1>7, <3>1, Zenon
    <3>3. t[i] \in 0..127
      BY <3>2 DEF Blank
    <3>4. i <= Len(t)
      BY <1>6, <3>1
    <3>5. Character(t, i, i + 1)
      BY <3>3, <3>4, Zenon DEF Character
    <3>6. i + 1 \in blank
      BY <1>1, <1>3, <2>7
    <3> HIDE DEF before, inside, blank, after
    <3>7. i + 1 \in C
      BY <3>6
    <3> QED
      BY <3>5, <3>7
  <2>8. ASSUME NEW i \in after, i # n + 1
        PROVE  \E j \in C : Character(t, i, j)
    <3>1. i \in B /\ i \in 1..n /\ i > off + len /\ i # Len(s) + 1
      BY <1>1, <1>5, <2>2, <2>8
    <3>2. PICK j \in B : Character(s, i, j) /\ i < j
      BY <1>5, <1>9, <3>1, TilingFacts, Zenon
    <3>3. \A k \in 0..(j - i - 1) : i + k \in 1..n /\ i + k > off + len
      BY <1>1, <2>2, <3>1, <3>2
    <3>4. \A k \in 0..(j - i - 1) : t[i + k] = s[i + k]
      BY <1>7, <3>3, Zenon
    <3>5. i + (j - i) = j /\ i + (j - i) <= Len(t) + 1 /\ i \in Nat /\ i >= 1 /\ i \in 1..Len(s)
      BY <1>1, <1>5, <1>6, <2>2, <3>1, <3>2
    <3>6. Character(t, i, i + (j - i))
      BY <1>5, <1>6, <3>2, <3>4, <3>5, CharacterMoved
    <3>7. Character(t, i, j)
      BY <3>5, <3>6, Zenon
    <3>8. j \in after
      BY <1>1, <2>2, <3>1, <3>2
    <3> HIDE DEF before, inside, blank, after
    <3>9. j \in C
      BY <3>8
    <3> QED
      BY <3>7, <3>9
  <2>9. off + len + 1 \in after
    BY <1>1, <2>1
  <2>10. off + (m + 1) \in blank
    BY <1>1, <1>3
  <2>11. C \in SUBSET (1..(n + 1)) /\ 1 \in C
    <3>1. before \subseteq 1..(n + 1) /\ after \subseteq 1..(n + 1)
      BY <2>2
    <3>2. inside \subseteq 1..(n + 1)
      <4>1. ASSUME NEW k \in D
            PROVE  off + k \in 1..(n + 1)
        BY <1>1, <1>3, <2>3
      <4> QED
        BY <4>1
    <3>3. blank \subseteq 1..(n + 1)
      BY <1>1, <1>3
    <3>4. 1 \in before \/ 1 \in inside
      <4>1. 1 \in B
        BY <1>5, <1>9, TilingFacts
      <4>2. CASE off = 0
        BY <2>4, <4>2
      <4>3. CASE off # 0
        BY <1>1, <4>1, <4>3
      <4> QED
        BY <4>2, <4>3
    <3> HIDE DEF before, inside, blank, after
    <3> QED
      BY <3>1, <3>2, <3>3, <3>4
  <2>12. ASSUME NEW i \in C
         PROVE  i = n + 1 \/ \E j \in C : Character(t, i, j)
    <3>1. i \in inside => \E k \in D : i = off + k
      OBVIOUS
    <3> HIDE DEF before, inside, blank, after
    <3>2. i \in before \/ i \in inside \/ i \in blank \/ i \in after
      OBVIOUS
    <3>3. ASSUME i \in blank
          PROVE  i = n + 1 \/ \E j \in C : Character(t, i, j)
      <4> HIDE DEF C
      <4> QED
        BY <2>7, <2>8, <2>9, <3>3, Zenon
    <3>4. ASSUME i \in inside
          PROVE  i = n + 1 \/ \E j \in C : Character(t, i, j)
      <4>1. PICK k \in D : i = off + k
        BY <3>1, <3>4
      <4> HIDE DEF C
      <4>2. CASE k = m + 1
        <5>1. i \in blank
          BY <2>10, <4>1, <4>2, Zenon
        <5> QED
          BY <3>3, <5>1
      <4>3. CASE k # m + 1
        BY <2>6, <4>1, <4>3, Zenon
      <4> QED
        BY <4>2, <4>3
    <3> HIDE DEF C
    <3> QED
      BY <2>5, <2>8, <3>2, <3>3, <3>4, Zenon
  <2> HIDE DEF C
  <2>13. Tiling(t, C)
    BY <1>6, <2>11, <2>12, Zenon DEF Tiling
  <2> QED
    BY <1>4, <1>6, <2>13, WellFormedIsTiled, Zenon
<1> QED
  BY <1>11, <1>12

LEMMA ConcatFacts ==
  ASSUME NEW s \in Text, NEW t \in Text
  PROVE  /\ s \o t \in Text /\ Len(s \o t) = Len(s) + Len(t)
         /\ \A b \in 1..Len(s) : (s \o t)[b] = s[b]
         /\ \A b \in 1..Len(t) : (s \o t)[Len(s) + b] = t[b]
BY DEF Text

\* One well-formed text after another is well formed.
LEMMA ConcatWellFormed ==
  ASSUME NEW s \in Text, WellFormed(s), NEW t \in Text, WellFormed(t)
  PROVE  WellFormed(s \o t)
<1>1. PICK u, n, m : u = s \o t /\ n = Len(s) /\ m = Len(t)
  OBVIOUS
<1>2. n \in Nat /\ m \in Nat
  BY <1>1, TextFacts
<1>3. /\ u \in Text /\ Len(u) = n + m
      /\ \A b \in 1..n : u[b] = s[b]
      /\ \A b \in 1..m : u[n + b] = t[b]
  BY <1>1, ConcatFacts, Zenon
<1>4. PICK B : Tiling(s, B)
  BY WellFormedIsTiled, Zenon
<1>5. PICK D : Tiling(t, D)
  BY WellFormedIsTiled, Zenon
<1> DEFINE first == {i \in B : i <= n}
           second == {n + k : k \in D}
           C == first \cup second
<1>6. \A i \in B : i \in 1..(n + 1) /\ i \in Nat
  <2>1. \A i \in B : i \in 1..(n + 1)
    BY <1>1, <1>4, TilingFacts, Zenon
  <2> QED
    BY <1>2, <2>1
<1>7. \A k \in D : k \in 1..(m + 1) /\ k \in Nat
  <2>1. \A k \in D : k \in 1..(m + 1)
    BY <1>1, <1>5, TilingFacts, Zenon
  <2> QED
    BY <1>2, <2>1
<1>8. n + 1 \in second
  <2>1. 1 \in D
    BY <1>5, TilingFacts
  <2> QED
    BY <2>1
<1>9. ASSUME NEW i \in first
      PROVE  \E j \in C : Character(u, i, j)
  <2>1. i \in B /\ i \in 1..n /\ i <= n /\ i # n + 1
    BY <1>2, <1>6, <1>9
  <2>2. PICK j \in B : Character(s, i, j) /\ i < j
    BY <1>1, <1>4, <2>1, TilingFacts, Zenon
  <2>3. \A k \in 0..(j - i - 1) : i + k \in 1..n
    BY <1>2, <1>6, <2>1, <2>2
  <2>4. \A k \in 0..(j - i - 1) : u[i + k] = s[i + k]
    BY <1>3, <2>3, Zenon
  <2>5. i + (j - i) = j /\ i + (j - i) <= n + m + 1 /\ i \in Nat /\ i >= 1
    BY <1>2, <1>6, <2>1, <2>2
  <2>6. Character(u, i, i + (j - i))
    BY <1>1, <1>3, <2>1, <2>2, <2>4, <2>5, CharacterMoved
  <2>7. Character(u, i, j)
    BY <2>5, <2>6, Zenon
  <2>8. j \in first \/ j = n + 1
    BY <1>2, <1>6
  <2> HIDE DEF first, second
  <2>9. j \in C
    BY <1>8, <2>8
  <2> QED
    BY <2>7, <2>9
<1>10. ASSUME NEW k \in D, k # m + 1
       PROVE  \E j \in C : Character(u, n + k, j)
  <2>1. k \in 1..m
    BY <1>2, <1>7, <1>10
  <2>2. PICK j \in D : Character(t, k, j) /\ k < j
    BY <1>1, <1>5, <1>10, TilingFacts, Zenon
  <2>3. \A x \in 0..(j - k - 1) : k + x \in 1..m /\ (n + k) + x = n + (k + x)
    BY <1>2, <1>7, <2>1, <2>2
  <2>4. PICK o : o = n + k
    OBVIOUS
  <2>5. \A x \in 0..(j - k - 1) : u[o + x] = t[k + x]
    BY <1>3, <2>3, <2>4, Zenon
  <2>6. o + (j - k) = n + j /\ o + (j - k) <= n + m + 1 /\ o \in Nat /\ o >= 1
    BY <1>2, <1>7, <2>1, <2>2, <2>4
  <2>7. Character(u, o, o + (j - k))
    BY <1>1, <1>3, <2>1, <2>2, <2>5, <2>6, CharacterMoved
  <2>8. Character(u, n + k, n + j)
    BY <2>4, <2>6, <2>7, Zenon
  <2>9. n + j \in second
    BY <2>2
  <2> HIDE DEF first, second
  <2>10. n + j \in C
    BY <2>9
  <2> QED
    BY <2>8, <2>10
<1>11. C \in SUBSET (1..(n + m + 1)) /\ 1 \in C
  <2>1. first \subseteq 1..(n + m + 1)
    BY <1>2, <1>6
  <2>2. second \subseteq 1..(n + m + 1)
    <3>1. ASSUME NEW k \in D
          PROVE  n + k \in 1..(n + m + 1)
      BY <1>2, <1>7
    <3> QED
      BY <3>1
  <2>3. 1 \in first \/ 1 \in second
    <3>1. 1 \in B
      BY <1>4, TilingFacts
    <3>2. CASE n = 0
      BY <1>8, <3>2
    <3>3. CASE n # 0
      BY <1>2, <3>1, <3>3
    <3> QED
      BY <3>2, <3>3
  <2> HIDE DEF first, second
  <2> QED
    BY <2>1, <2>2, <2>3
<1>12. ASSUME NEW i \in C
       PROVE  i = n + m + 1 \/ \E j \in C : Character(u, i, j)
  <2>1. ASSUME NEW k \in D
        PROVE  n + k = n + m + 1 \/ \E j \in C : Character(u, n + k, j)
    <3>1. k = m + 1 => n + k = n + m + 1
      BY <1>2
    <3> HIDE DEF C
    <3> QED
      BY <1>10, <3>1, Zenon
  <2>2. i \in first \/ \E k \in D : i = n + k
    OBVIOUS
  <2> HIDE DEF C, first
  <2> QED
    BY <1>9, <2>1, <2>2, Zenon
<1> HIDE DEF C
<1>13. Tiling(u, C)
  BY <1>3, <1>11, <1>12, Zenon DEF Tiling
<1> QED
  BY <1>1, <1>3, <1>13, WellFormedIsTiled, Zenon

-----------------------------------------------------------------------------
(* The text of a code page.                                                *)

\* The first i of the n texts p, one after another, are h[i].
Joins(h, p, n) ==
  /\ h \in [0..n -> Text]
  /\ h[0] = <<>>
  /\ \A i \in 1..n : h[i] = h[i - 1] \o p[i]

LEMMA JoinsSome ==
  ASSUME NEW n \in Nat, NEW p \in [1..n -> Text]
  PROVE  \E h : Joins(h, p, n)
<1> DEFINE step == [x \in Text \X Nat |-> IF x[2] \in 1..n THEN x[1] \o p[x[2]] ELSE x[1]]
<1>1. step \in StepFunctions(Text)
  <2>1. ASSUME NEW x \in Text \X Nat
        PROVE  (IF x[2] \in 1..n THEN x[1] \o p[x[2]] ELSE x[1]) \in Text
    <3>1. PICK s \in Text : s = x[1]
      OBVIOUS
    <3>2. PICK k : k = x[2]
      OBVIOUS
    <3>3. k \in 1..n => s \o p[k] \in Text
      BY ConcatFacts
    <3> QED
      BY <3>1, <3>2, <3>3, Zenon
  <2> QED
    BY <2>1 DEF StepFunctions
<1>2. <<>> \in Text
  BY DEF Text
<1> HIDE DEF step
<1>3. PICK h : FollowsUpTo(h, n, Text, <<>>, step)
  BY <1>1, <1>2, PrimitiveRecursion
<1>4. h \in [0..n -> Text] /\ h[0] = <<>> /\ \A i \in 1..n : h[i] = step[<<h[i - 1], i>>]
  BY <1>3 DEF FollowsUpTo
<1>5. ASSUME NEW i \in 1..n
      PROVE  h[i] = h[i - 1] \o p[i]
  <2>1. i - 1 \in 0..n /\ i \in Nat
    OBVIOUS
  <2>2. PICK s \in Text : s = h[i - 1]
    BY <1>4, <2>1
  <2>3. <<s, i>> \in Text \X Nat
    BY <2>1
  <2>4. step[<<s, i>>] = s \o p[i]
    BY <2>3 DEF step
  <2> QED
    BY <1>4, <2>2, <2>4
<1> QED
  BY <1>4, <1>5 DEF Joins

LEMMA JoinsUnique ==
  ASSUME NEW n \in Nat, NEW p, NEW h, Joins(h, p, n), NEW g, Joins(g, p, n)
  PROVE  \A i \in 0..n : g[i] = h[i]
<1> DEFINE S == {i \in Nat : i <= n => g[i] = h[i]}
<1>1. 0 \in S
  BY DEF Joins
<1>2. ASSUME NEW i \in Nat, i \in S
      PROVE  i + 1 \in S
  <2> SUFFICES ASSUME i + 1 <= n
               PROVE  g[i + 1] = h[i + 1]
    OBVIOUS
  <2>1. i + 1 \in 1..n /\ (i + 1) - 1 = i /\ g[i] = h[i]
    BY <1>2
  <2> QED
    BY <2>1, Zenon DEF Joins
<1> HIDE DEF S
<1>3. Nat \subseteq S
  BY <1>1, <1>2, NatSetInduction
<1> QED
  BY <1>3 DEF S

\* FlattenSeq is what they make together.
LEMMA FlattenSeqIs ==
  ASSUME NEW n \in Nat, NEW p \in [1..n -> Text], NEW h, Joins(h, p, n)
  PROVE  FlattenSeq(p) = h[n]
<1>1. p \in Seq(Text) /\ Len(p) = n
  OBVIOUS
<1>2. CASE n = 0
  <2>1. p = <<>>
    BY <1>1, <1>2
  <2>2. FlattenSeq(p) = p
    BY <1>1, <1>2 DEF FlattenSeq
  <2> QED
    BY <1>2, <2>1, <2>2 DEF Joins
<1>3. CASE n # 0
  <2> DEFINE IsFlat(f) == f = [i \in 1..n |-> IF i = 1 THEN p[i] ELSE f[i - 1] \o p[i]]
             f0 == [i \in 1..n |-> h[i]]
  <2>0. /\ h \in [0..n -> Text] /\ h[0] = <<>>
        /\ \A i \in 1..n : h[i] = h[i - 1] \o p[i]
    BY DEF Joins
  <2>1. FlattenSeq(p) = (CHOOSE f : IsFlat(f))[n]
    BY <1>1, <1>3 DEF FlattenSeq
  <2>2. ASSUME NEW i \in 1..n
        PROVE  f0[i] = IF i = 1 THEN p[i] ELSE f0[i - 1] \o p[i]
    <3>1. CASE i = 1
      <4>0. 1 \in 1..n /\ 1 - 1 = 0
        BY <3>1
      <4>1. h[1] = <<>> \o p[1] /\ p[1] \in Text
        BY <2>0, <4>0, Zenon
      <4>2. <<>> \o p[1] = p[1]
        BY <4>1 DEF Text
      <4> QED
        BY <3>1, <4>1, <4>2
    <3>2. CASE i # 1
      <4>1. i - 1 \in 1..n
        BY <3>2
      <4> QED
        BY <2>0, <3>2, <4>1
    <3> QED
      BY <3>1, <3>2
  <2>3. IsFlat(f0)
    BY <2>2
  <2>4. IsFlat(CHOOSE f : IsFlat(f))
    <3> HIDE DEF IsFlat
    <3> QED
      BY <2>3, Zenon
  <2> DEFINE c == CHOOSE f : IsFlat(f)
             g == [i \in 0..n |-> IF i = 0 THEN <<>> ELSE c[i]]
             S == {i \in Nat : i <= n => g[i] = h[i]}
  <2>5. IsFlat(c)
    BY <2>4
  <2> HIDE DEF c
  <2>6. \A i \in 1..n : c[i] = IF i = 1 THEN p[i] ELSE c[i - 1] \o p[i]
    BY <2>5
  <2>7. 0 \in S
    BY <2>0
  <2>8. ASSUME NEW i \in Nat, i \in S
        PROVE  i + 1 \in S
    <3> SUFFICES ASSUME i + 1 <= n
                 PROVE  g[i + 1] = h[i + 1]
      OBVIOUS
    <3>1. PICK k \in 1..n : k = i + 1 /\ k - 1 = i
      OBVIOUS
    <3>2. g[i] = h[i] /\ h[k] = h[i] \o p[k] /\ p[k] \in Text /\ g[k] = c[k]
      <4>1. h[k] = h[i] \o p[k]
        BY <2>0, <3>1, Zenon
      <4>2. p[k] \in Text
        OBVIOUS
      <4>3. g[i] = h[i]
        BY <2>8, <3>1
      <4>4. g[k] = c[k]
        BY <3>1
      <4> QED
        BY <4>1, <4>2, <4>3, <4>4
    <3>3. CASE i = 0
      <4>1. c[k] = p[k]
        BY <2>6, <3>1, <3>3
      <4>2. h[k] = p[k]
        <5>1. <<>> \o p[k] = p[k]
          BY <3>2 DEF Text
        <5> QED
          BY <2>0, <3>2, <3>3, <5>1
      <4> QED
        BY <3>1, <3>2, <4>1, <4>2
    <3>4. CASE i # 0
      <4>0. k # 1
        BY <3>1, <3>4
      <4>1. c[k] = c[i] \o p[k]
        BY <2>6, <3>1, <4>0, Zenon
      <4>2. g[i] = c[i]
        BY <3>1, <3>4
      <4> QED
        BY <3>1, <3>2, <4>1, <4>2, Zenon
    <3> QED
      BY <3>3, <3>4
  <2> HIDE DEF S
  <2>9. n \in S
    BY <2>7, <2>8, NatSetInduction
  <2>10. g[n] = h[n] /\ g[n] = c[n]
    BY <1>3, <2>9 DEF S
  <2> QED
    BY <2>1, <2>10 DEF c
<1> QED
  BY <1>2, <1>3

\* The texts of one character.
LEMMA TupleOfOne ==
  ASSUME NEW a \in Byte
  PROVE  <<a>> \in Text /\ Len(<<a>>) = 1 /\ <<a>>[1] = a
BY DEF Text

LEMMA TupleOfTwo ==
  ASSUME NEW a \in Byte, NEW b \in Byte
  PROVE  <<a, b>> \in Text /\ Len(<<a, b>>) = 2 /\ <<a, b>>[1] = a /\ <<a, b>>[2] = b
BY DEF Text

LEMMA TupleOfThree ==
  ASSUME NEW a \in Byte, NEW b \in Byte, NEW c \in Byte
  PROVE  /\ <<a, b, c>> \in Text /\ Len(<<a, b, c>>) = 3
         /\ <<a, b, c>>[1] = a /\ <<a, b, c>>[2] = b /\ <<a, b, c>>[3] = c
BY DEF Text

LEMMA CodePointFirst ==
  ASSUME NEW t
  PROVE  /\ CodePointAt(t, 1, 1) = t[1]
         /\ CodePointAt(t, 1, 2) = PointOfTwo(t[1], t[2])
         /\ CodePointAt(t, 1, 3) = PointOfThree(t[1], t[2], t[3])
         /\ Character(t, 1, 3) <=> CharacterOf(t[1], t[2], t[3], t[4], 1, 3, Len(t))
         /\ Character(t, 1, 4) <=> CharacterOf(t[1], t[2], t[3], t[4], 1, 4, Len(t))
<1>1. 1 + 1 = 2 /\ 1 + 2 = 3 /\ 1 + 3 = 4
  OBVIOUS
<1>2. PICK b, c, d : b = t[2] /\ c = t[3] /\ d = t[4]
  OBVIOUS
<1>3. b = t[1 + 1] /\ c = t[1 + 2] /\ d = t[1 + 3]
  BY <1>1, <1>2
<1>4. CodePointAt(t, 1, 1) = t[1]
  BY CodePointIs, Zenon
<1>5. CodePointAt(t, 1, 2) = PointOfTwo(t[1], t[1 + 1])
  BY CodePointIs, Zenon
<1>6. CodePointAt(t, 1, 3) = PointOfThree(t[1], t[1 + 1], t[1 + 2])
  BY CodePointIs, Zenon
<1>7. ASSUME NEW j
      PROVE  Character(t, 1, j) <=> CharacterOf(t[1], t[1 + 1], t[1 + 2], t[1 + 3], 1, j, Len(t))
  BY CharacterIs, Zenon
<1>8. t[1 + 1] = t[2] /\ t[1 + 2] = t[3] /\ t[1 + 3] = t[4]
  BY <1>1
<1> QED
  BY <1>4, <1>5, <1>6, <1>7, <1>8, Zenon

LEMMA OneByte ==
  ASSUME NEW a \in 0..127
  PROVE  /\ <<a>> \in Text /\ WellFormed(<<a>>) /\ Len(<<a>>) = 1
         /\ SequenceLength(<<a>>[1]) = 1 /\ CodePointAt(<<a>>, 1, 1) = a
         /\ <<a>>[1] = a
<1>1. a \in Byte /\ a < 128
  BY DEF Byte
<1>2. PICK t \in Text : t = <<a>> /\ Len(t) = 1 /\ t[1] = a
  <2>1. <<a>> \in Text /\ Len(<<a>>) = 1 /\ <<a>>[1] = a
    BY <1>1, TupleOfOne, Zenon
  <2>2. PICK t : t = <<a>>
    OBVIOUS
  <2> QED
    BY <2>1, <2>2, Zenon
<1>3. WellFormed(t)
  BY <1>1, <1>2, PlainWellFormed
<1>4. SequenceLength(a) = 1
  BY <1>1 DEF SequenceLength
<1>5. CodePointAt(t, 1, 1) = a
  BY <1>2, CodePointFirst, Zenon
<1> QED
  BY <1>2, <1>3, <1>4, <1>5, Zenon

LEMMA TwoBytes ==
  ASSUME NEW a \in 194..223, NEW b \in Trail
  PROVE  /\ <<a, b>> \in Text /\ WellFormed(<<a, b>>) /\ Len(<<a, b>>) = 2
         /\ SequenceLength(<<a, b>>[1]) = 2 /\ CodePointAt(<<a, b>>, 1, 2) = PointOfTwo(a, b)
         /\ <<a, b>>[2] # Blank
<1>1. a \in Byte /\ b \in Byte
  BY DEF Byte, Trail
<1>2. PICK t \in Text : t = <<a, b>> /\ Len(t) = 2 /\ t[1] = a /\ t[2] = b
  <2>1. <<a, b>> \in Text /\ Len(<<a, b>>) = 2 /\ <<a, b>>[1] = a /\ <<a, b>>[2] = b
    BY <1>1, TupleOfTwo, Zenon
  <2>2. PICK t : t = <<a, b>>
    OBVIOUS
  <2> QED
    BY <2>1, <2>2, Zenon
<1>3. SequenceLength(a) = 2
  <2>1. a \in Int /\ 194 <= a /\ a <= 223
    OBVIOUS
  <2> QED
    BY <2>1 DEF SequenceLength
<1>4. CodePointAt(t, 1, 2) = PointOfTwo(a, b)
  BY <1>2, CodePointFirst, Zenon
<1>5. ASSUME NEW c, NEW d
      PROVE  CharacterOf(a, b, c, d, 1, 3, 2)
  BY SMT DEF CharacterOf
<1>6. Character(t, 1, 3)
  BY <1>2, <1>5, CodePointFirst, Zenon
<1>7. Tiling(t, {1, 3})
  <2>1. {1, 3} \in SUBSET (1..(2 + 1)) /\ 2 + 1 = 3
    OBVIOUS
  <2> QED
    BY <1>2, <1>6, <2>1, Zenon DEF Tiling
<1>8. WellFormed(t)
  BY <1>7, WellFormedIsTiled, Zenon
<1>9. b # Blank
  BY DEF Trail, Blank
<1> QED
  BY <1>2, <1>3, <1>4, <1>8, <1>9, Zenon

LEMMA ThreeBytes ==
  ASSUME NEW a \in 224..227, NEW b \in Trail, NEW c \in Trail, a = 224 => b >= 160
  PROVE  /\ <<a, b, c>> \in Text /\ WellFormed(<<a, b, c>>) /\ Len(<<a, b, c>>) = 3
         /\ SequenceLength(<<a, b, c>>[1]) = 3
         /\ CodePointAt(<<a, b, c>>, 1, 3) = PointOfThree(a, b, c)
         /\ <<a, b, c>>[3] # Blank
<1>0. a \in Byte /\ b \in Byte /\ c \in Byte
  BY DEF Byte, Trail
<1>1. a \in 224..239 /\ a # 237
  OBVIOUS
<1>2. PICK t \in Text : t = <<a, b, c>> /\ Len(t) = 3 /\ t[1] = a /\ t[2] = b /\ t[3] = c
  <2>1. /\ <<a, b, c>> \in Text /\ Len(<<a, b, c>>) = 3
        /\ <<a, b, c>>[1] = a /\ <<a, b, c>>[2] = b /\ <<a, b, c>>[3] = c
    BY <1>0, TupleOfThree
  <2> QED
    BY <2>1, Zenon
<1>3. SequenceLength(a) = 3
  BY DEF SequenceLength
<1>4. CodePointAt(t, 1, 3) = PointOfThree(a, b, c)
  BY <1>2, CodePointFirst, Zenon
<1>5. ASSUME NEW d
      PROVE  CharacterOf(a, b, c, d, 1, 4, 3)
  BY <1>1, SMT DEF CharacterOf
<1>6. Character(t, 1, 4)
  BY <1>2, <1>5, CodePointFirst, Zenon
<1>7. Tiling(t, {1, 4})
  <2>1. {1, 4} \in SUBSET (1..(3 + 1)) /\ 3 + 1 = 4
    OBVIOUS
  <2> QED
    BY <1>2, <1>6, <2>1, Zenon DEF Tiling
<1>8. WellFormed(t)
  BY <1>7, WellFormedIsTiled, Zenon
<1>9. c # Blank
  BY DEF Trail, Blank
<1> QED
  BY <1>2, <1>3, <1>4, <1>8, <1>9, Zenon

LEMMA Utf8OfSmall ==
  ASSUME NEW a \in 0..127
  PROVE  /\ Utf8Of(a) \in Text /\ WellFormed(Utf8Of(a))
         /\ Len(Utf8Of(a)) = 1
         /\ SequenceLength(Utf8Of(a)[1]) = 1
         /\ CodePointAt(Utf8Of(a), 1, 1) = a
         /\ Utf8Of(a)[1] = a
         /\ a = Blank => Utf8Of(a) = <<Blank>>
<1>1. Utf8Of(a) = <<a>>
  BY DEF Utf8Of
<1> QED
  BY <1>1, OneByte, Zenon

\* The bytes of a code point below 16384, which all those of the code pages are.
LEMMA Utf8OfFacts ==
  ASSUME NEW cp \in Nat, cp < 16384
  PROVE  /\ Utf8Of(cp) \in Text /\ WellFormed(Utf8Of(cp))
         /\ Len(Utf8Of(cp)) \in 1..3
         /\ SequenceLength(Utf8Of(cp)[1]) = Len(Utf8Of(cp))
         /\ CodePointAt(Utf8Of(cp), 1, Len(Utf8Of(cp))) = cp
         /\ cp # Blank => Utf8Of(cp)[Len(Utf8Of(cp))] # Blank
         /\ cp = Blank => Utf8Of(cp) = <<Blank>>
<1>1. CASE cp < 128
  <2>1. cp \in 0..127
    BY <1>1
  <2>2. /\ Utf8Of(cp) \in Text /\ WellFormed(Utf8Of(cp))
        /\ Len(Utf8Of(cp)) = 1
        /\ SequenceLength(Utf8Of(cp)[1]) = 1
        /\ CodePointAt(Utf8Of(cp), 1, 1) = cp
        /\ Utf8Of(cp)[1] = cp
        /\ cp = Blank => Utf8Of(cp) = <<Blank>>
    BY <2>1, Utf8OfSmall
  <2> QED
    BY <2>2
<1>2. CASE cp >= 128 /\ cp < 2048
  <2>1. PICK a, b \in Int : a = 192 + cp \div 64 /\ b = 128 + (cp % 64)
    OBVIOUS
  <2>2. a \in 194..223 /\ b \in 128..191
    BY <1>2, <2>1
  <2>3. Utf8Of(cp) = <<a, b>>
    BY <1>2, <2>1 DEF Utf8Of
  <2>4. b \in Trail
    BY <2>2 DEF Trail
  <2>5. /\ <<a, b>> \in Text /\ WellFormed(<<a, b>>) /\ Len(<<a, b>>) = 2
        /\ SequenceLength(<<a, b>>[1]) = 2 /\ CodePointAt(<<a, b>>, 1, 2) = PointOfTwo(a, b)
        /\ <<a, b>>[2] # Blank
    BY <2>2, <2>4, TwoBytes
  <2>6. a % 32 = a - 192 /\ b % 64 = b - 128
    BY <2>2, <2>4, ByteBits
  <2>7. PointOfTwo(a, b) = 64 * (cp \div 64) + (cp % 64)
    BY <2>1, <2>6, SMT DEF PointOfTwo
  <2>8. PointOfTwo(a, b) = cp
    BY <2>7
  <2>9. cp # Blank
    BY <1>2 DEF Blank
  <2> QED
    BY <2>3, <2>5, <2>8, <2>9
<1>3. CASE cp >= 2048
  <2>1. PICK a, b, c \in Int : /\ a = 224 + cp \div 4096
                              /\ b = 128 + ((cp \div 64) % 64)
                              /\ c = 128 + (cp % 64)
    OBVIOUS
  <2>2. a \in 224..227 /\ b \in 128..191 /\ c \in 128..191
    BY <1>3, <2>1
  <2>3. ASSUME a = 224
        PROVE  b >= 160
    <3>1. PICK q \in Int : q = cp \div 64 /\ q >= 32 /\ q < 64
      <4>1. cp \div 4096 = 0
        BY <2>1, <2>3
      <4> QED
        BY <1>3, <4>1
    <3>2. q % 64 = q
      BY <3>1
    <3> QED
      BY <2>1, <3>1, <3>2
  <2>4. Utf8Of(cp) = <<a, b, c>>
    BY <1>3, <2>1, SMT DEF Utf8Of
  <2>5. b \in Trail /\ c \in Trail /\ a \in 224..239
    BY <2>2 DEF Trail
  <2>6. /\ <<a, b, c>> \in Text /\ WellFormed(<<a, b, c>>) /\ Len(<<a, b, c>>) = 3
        /\ SequenceLength(<<a, b, c>>[1]) = 3
        /\ CodePointAt(<<a, b, c>>, 1, 3) = PointOfThree(a, b, c)
        /\ <<a, b, c>>[3] # Blank
    BY <2>2, <2>3, <2>5, ThreeBytes
  <2>7. a % 16 = a - 224 /\ b % 64 = b - 128 /\ c % 64 = c - 128
    BY <2>5, ByteBits
  <2>8. PointOfThree(a, b, c) = 4096 * (cp \div 4096) + 64 * ((cp \div 64) % 64) + (cp % 64)
    BY <2>1, <2>7, SMT DEF PointOfThree
  <2>9. 4096 * (cp \div 4096) + 64 * ((cp \div 64) % 64) + (cp % 64) = cp
    OBVIOUS
  <2>10. cp # Blank
    BY <1>3 DEF Blank
  <2> QED
    BY <2>4, <2>6, <2>8, <2>9, <2>10
<1> QED
  BY <1>1, <1>2, <1>3, SMT


\* The code points of a code page are below 16384; only the blank is a blank.
LEMMA HighFacts ==
  ASSUME NEW k \in 1..32
  PROVE  /\ CP1252_HIGH[k] \in Nat /\ CP1252_HIGH[k] < 16384 /\ CP1252_HIGH[k] > 128
         /\ CP1252_HIGH[k] > 255 \/ CP1252_HIGH[k] = 127 + k
BY SMTT(60) DEF CP1252_HIGH

LEMMA HighInjective ==
  ASSUME NEW k \in 1..32, NEW j \in 1..32, CP1252_HIGH[k] = CP1252_HIGH[j]
  PROVE  k = j
BY SMTT(60) DEF CP1252_HIGH

LEMMA CodePointFacts ==
  ASSUME NEW b \in Byte, NEW e
  PROVE  /\ CodePoint(b, e) \in Nat /\ CodePoint(b, e) < 16384
         /\ CodePoint(b, e) = Blank <=> b = Blank
<1>1. CASE e = CP1252 /\ b \in 128..159
  <2>1. PICK k \in 1..32 : k = b - 127
    BY <1>1
  <2>2. CodePoint(b, e) = CP1252_HIGH[k]
    BY <1>1, <2>1 DEF CodePoint
  <2> QED
    BY <1>1, <2>2, HighFacts, SMT DEF Blank
<1>2. CASE ~(e = CP1252 /\ b \in 128..159)
  BY <1>2, SMT DEF CodePoint, Byte
<1> QED
  BY <1>1, <1>2

LEMMA EmptyWellFormed == <<>> \in Text /\ Len(<<>>) = 0 /\ WellFormed(<<>>)
<1>1. <<>> \in Text /\ Len(<<>>) = 0
  BY DEF Text
<1>2. \A b \in 1..Len(<<>>) : <<>>[b] < 128
  BY <1>1
<1> QED
  BY <1>1, <1>2, PlainWellFormed

\* What the bytes of a code page become, one by one.
Pieces(raw, e) == [i \in 1..Len(raw) |-> Utf8Of(CodePoint(raw[i], e))]

LEMMA PieceFacts ==
  ASSUME NEW raw \in Text, NEW e, NEW i \in 1..Len(raw)
  PROVE  /\ Pieces(raw, e)[i] = Utf8Of(CodePoint(raw[i], e))
         /\ raw[i] \in Byte
         /\ CodePoint(raw[i], e) \in Nat /\ CodePoint(raw[i], e) < 16384
         /\ CodePoint(raw[i], e) = Blank <=> raw[i] = Blank
         /\ Pieces(raw, e)[i] \in Text /\ WellFormed(Pieces(raw, e)[i])
<1>1. Pieces(raw, e)[i] = Utf8Of(CodePoint(raw[i], e))
  BY DEF Pieces
<1>2. raw[i] \in Byte
  BY TextFacts
<1>3. PICK b \in Byte : b = raw[i]
  BY <1>2
<1>4. /\ CodePoint(b, e) \in Nat /\ CodePoint(b, e) < 16384
      /\ CodePoint(b, e) = Blank <=> b = Blank
  BY CodePointFacts
<1>5. PICK cp \in Nat : cp = CodePoint(b, e) /\ cp < 16384
  BY <1>4
<1>6. Utf8Of(cp) \in Text /\ WellFormed(Utf8Of(cp))
  BY <1>5, Utf8OfFacts
<1> QED
  BY <1>1, <1>2, <1>3, <1>4, <1>5, <1>6

LEMMA CodePageText ==
  ASSUME NEW raw \in Text, NEW e \in {LATIN1, CP1252}
  PROVE  \E h : Joins(h, Pieces(raw, e), Len(raw)) /\ DecodeText(raw, e) = h[Len(raw)]
<1>1. Len(raw) \in Nat /\ DOMAIN raw = 1..Len(raw)
  BY TextFacts
<1>2. Pieces(raw, e) \in [1..Len(raw) -> Text]
  <2>1. \A i \in 1..Len(raw) : Pieces(raw, e)[i] \in Text
    BY PieceFacts
  <2> QED
    BY <2>1, Zenon DEF Pieces
<1>3. PICK h : Joins(h, Pieces(raw, e), Len(raw))
  BY <1>1, <1>2, JoinsSome
<1>4. DecodeText(raw, e) = FlattenSeq(Pieces(raw, e))
  BY <1>1 DEF DecodeText, Pieces
<1> QED
  BY <1>1, <1>2, <1>3, <1>4, FlattenSeqIs

LEMMA JoinsWellFormed ==
  ASSUME NEW n \in Nat, NEW p, NEW h, Joins(h, p, n),
         \A i \in 1..n : p[i] \in Text /\ WellFormed(p[i])
  PROVE  \A i \in 0..n : h[i] \in Text /\ WellFormed(h[i])
<1> DEFINE S == {i \in Nat : i <= n => h[i] \in Text /\ WellFormed(h[i])}
<1>1. 0 \in S
  BY EmptyWellFormed DEF Joins
<1>2. ASSUME NEW i \in Nat, i \in S
      PROVE  i + 1 \in S
  <2> SUFFICES ASSUME i + 1 <= n
               PROVE  h[i + 1] \in Text /\ WellFormed(h[i + 1])
    OBVIOUS
  <2>1. PICK k \in 1..n : k = i + 1 /\ k - 1 = i
    OBVIOUS
  <2>2. h[i] \in Text /\ WellFormed(h[i])
    BY <1>2, <2>1
  <2>3. h[k] = h[i] \o p[k]
    BY <2>1 DEF Joins
  <2>4. p[k] \in Text /\ WellFormed(p[k])
    OBVIOUS
  <2>5. WellFormed(h[i] \o p[k])
    BY <2>2, <2>4, ConcatWellFormed
  <2>6. h[i] \o p[k] \in Text
    BY <2>2, <2>4, ConcatFacts
  <2> QED
    BY <2>1, <2>3, <2>5, <2>6
<1> HIDE DEF S
<1>3. \A i \in Nat : i \in S
  BY <1>1, <1>2, NatSetInduction
<1> QED
  BY <1>3 DEF S

\* What a text decodes to is well formed, and only what is no text does not decode.
LEMMA DecodesWellFormed ==
  ASSUME NEW raw \in Text, NEW e \in TextEncodings, Decodes(raw, e)
  PROVE  DecodeText(raw, e) \in Text /\ WellFormed(DecodeText(raw, e))
<1>1. Len(raw) \in Nat /\ DOMAIN raw = 1..Len(raw)
  BY TextFacts
<1>2. CASE e \in {LATIN1, CP1252}
  <2>1. PICK h : Joins(h, Pieces(raw, e), Len(raw)) /\ DecodeText(raw, e) = h[Len(raw)]
    BY <1>2, CodePageText
  <2>2. \A i \in 1..Len(raw) : Pieces(raw, e)[i] \in Text /\ WellFormed(Pieces(raw, e)[i])
    BY PieceFacts
  <2>3. \A i \in 0..Len(raw) : h[i] \in Text /\ WellFormed(h[i])
    BY <1>1, <2>1, <2>2, JoinsWellFormed
  <2>4. Len(raw) \in 0..Len(raw)
    BY <1>1
  <2> QED
    BY <2>1, <2>3, <2>4
<1>3. CASE e \notin {LATIN1, CP1252}
  <2>1. DecodeText(raw, e) = raw
    BY <1>3 DEF DecodeText
  <2>2. (\A i \in 1..Len(raw) : raw[i] < 128) \/ IsValidUtf8(raw)
    BY <1>1, <1>3 DEF Decodes
  <2>3. WellFormed(raw)
    BY <2>2, PlainWellFormed, CodecStrictCheck
  <2> QED
    BY <2>1, <2>3
<1> QED
  BY <1>2, <1>3

LEMMA DecodesNotIsMalformed ==
  ASSUME NEW raw \in Text, case.encoding \in TextEncodings, ~Decodes(raw, case.encoding)
  PROVE  Malformed(raw)
<1>1. DOMAIN raw = 1..Len(raw) /\ \A i \in 1..Len(raw) : raw[i] \in Byte
  BY TextFacts
<1>2. /\ case.encoding \in {UTF8, ASCII}
      /\ \E i \in DOMAIN raw : ~(raw[i] < 128)
      /\ case.encoding = UTF8 => ~IsValidUtf8(raw)
  BY DEF Decodes, TextEncodings
<1>3. CASE case.encoding = UTF8
  BY <1>2, <1>3, CodecStrictCheck DEF Malformed
<1>4. CASE case.encoding = ASCII
  <2>1. PICK i \in DOMAIN raw : ~(raw[i] < 128)
    BY <1>2
  <2>2. PICK b \in Byte : b = raw[i]
    BY <1>1, <2>1
  <2>3. b > 127
    BY <2>1, <2>2 DEF Byte
  <2> QED
    BY <1>4, <2>1, <2>2, <2>3 DEF Malformed
<1> QED
  BY <1>2, <1>3, <1>4

-----------------------------------------------------------------------------
(* What is refused.                                                        *)

\* The SDATA being composed is well-formed as long as no character was cut at the
\* end of its field and no field was put over another.
Clean ==
  /\ case.origin = "sql" /\ pc \in {"sdata", "not_encoded"} /\ Disjoint
  /\ \A j \in 1..(next - 1) : WellFormed(Cut(case.values[j], case.rules[j].length))
  => WellFormed(sdata)

\* The encoder has stopped where it throws, and still would.
Stopped == pc = "not_encoded" => SdataRefused

RefusalInv == CodecInv /\ Clean /\ Stopped

LEMMA RefusalInvInit == Init => RefusalInv
<1> SUFFICES ASSUME Init
             PROVE  RefusalInv
  OBVIOUS
<1>1. CodecInv
  BY CodecInvInit
<1>2. Stopped
  <2>1. case.origin \in {"sql", "file", "control"}
    BY <1>1, OriginFacts DEF CodecInv
  <2>2. pc # "not_encoded"
    BY <2>1 DEF Init
  <2> QED
    BY <2>2 DEF Stopped
<1>3. WellFormed(Blanks(SDATA_LEN))
  <2>1. /\ Blanks(SDATA_LEN) \in Text /\ Len(Blanks(SDATA_LEN)) = SDATA_LEN
        /\ \A b \in 1..SDATA_LEN : Blanks(SDATA_LEN)[b] = Blank
    BY Lengths, BytesFacts
  <2>2. Blank < 128
    BY DEF Blank
  <2> QED
    BY <2>1, <2>2, PlainWellFormed
<1>4. case.origin = "sql" => sdata = Blanks(SDATA_LEN)
  BY DEF Init
<1>5. Clean
  BY <1>3, <1>4 DEF Clean
<1> QED
  BY <1>1, <1>2, <1>5 DEF RefusalInv

LEMMA CleanStep ==
  ASSUME CodecInv, Clean, [Next]_vars
  PROVE  Clean'
<1>1. case' = case /\ Len(case.rules) \in Nat /\ next \in 1..(Len(case.rules) + 1)
  BY StepFacts, CaseFacts DEF CodecInv, Types
<1>2. CASE EncodeField
  <2>1. /\ pc = "sdata" /\ pc' = "sdata" /\ next' = next + 1
        /\ sdata' = SetFieldRaw(sdata, case.rules[next], case.values[next])
        /\ next \in DOMAIN case.rules /\ Len(case.rules) = Len(case.values)
        /\ InBounds(case.rules[next])
    BY <1>2 DEF EncodeField
  <2>2. case.origin = "sql"
    BY <2>1, OriginFacts DEF CodecInv
  <2>3. PICK n \in Nat : n = next
    BY <1>1
  <2> SUFFICES ASSUME Disjoint,
                      \A j \in 1..(next' - 1) : WellFormed(Cut(case.values[j], case.rules[j].length))
               PROVE  WellFormed(sdata')
    BY <1>1 DEF Clean, Disjoint
  <2>4. \A j \in 1..n : WellFormed(Cut(case.values[j], case.rules[j].length))
    <3>1. next' - 1 = n
      BY <2>1, <2>3
    <3> QED
      BY <3>1
  <2>5. WellFormed(sdata)
    <3>1. \A j \in 1..(next - 1) : j \in 1..n
      BY <2>3
    <3> QED
      BY <2>1, <2>2, <2>4, <3>1 DEF Clean
  <2>6. /\ DOMAIN case.rules = 1..Len(case.rules) /\ n \in 1..Len(case.rules)
        /\ DOMAIN case.values = 1..Len(case.values) /\ n \in 1..Len(case.values)
        /\ case.values[n] \in Text
    BY <2>1, <2>3, CaseFacts DEF CodecInv, Types
  <2>7. PICK f : f = case.rules[n]
    OBVIOUS
  <2>8. f.offset \in Nat /\ f.length \in Nat /\ f.offset + f.length <= SDATA_LEN
    <3>1. f.offset \in Int /\ f.length \in Int
      BY <2>6, <2>7, CaseFacts DEF CodecInv, Types
    <3> QED
      BY <2>1, <2>3, <2>7, <3>1, InBoundsFacts
  <2>9. sdata \in Bytes(SDATA_LEN) /\ SDATA_LEN \in Nat
    BY Lengths DEF CodecInv, Types
  <2>10. \A b \in BytesOf(f) : sdata[b] = Blank
    <3> SUFFICES ASSUME NEW b \in BytesOf(f)
                 PROVE  sdata[b] = Blank
      OBVIOUS
    <3>1. Composed(n)
      BY <2>1, <2>2, <2>3 DEF CodecInv, SdataHolds
    <3>2. b \in 1..SDATA_LEN
      BY <2>8, <2>9 DEF BytesOf
    <3>3. ASSUME NEW j \in 1..(n - 1)
          PROVE  b \notin BytesOf(case.rules[j])
      <4>1. j \in DOMAIN case.rules /\ n \in DOMAIN case.rules /\ j # n
        BY <2>6
      <4>2. BytesOf(case.rules[j]) \cap BytesOf(f) = {}
        BY <2>7, <4>1 DEF Disjoint
      <4> QED
        BY <4>2
    <3> QED
      BY <3>1, <3>2, <3>3 DEF Composed
  <2>11. WellFormed(Cut(case.values[n], f.length))
    <3>1. n \in 1..n
      BY <2>6
    <3> QED
      BY <2>4, <2>7, <3>1
  <2>12. WellFormed(SetFieldRaw(sdata, f, case.values[n]))
    BY <2>5, <2>6, <2>8, <2>9, <2>10, <2>11, SetFieldWellFormed
  <2> QED
    BY <2>1, <2>3, <2>7, <2>12
<1>3. CASE ~EncodeField
  <2>1. sdata' = sdata
    BY <1>3, StepFacts
  <2>2. pc' \in {"sdata", "not_encoded"} => pc \in {"sdata", "not_encoded"} /\ next' = next
    BY <1>3 DEF Next, vars, RefuseSdata, EncodedSdata, EncodeRecord, ReadIdocScan, ReadField,
       RefuseField, ReadDone, EncodeControlRecord, ReadIdocControlScan
  <2> QED
    BY <1>1, <2>1, <2>2 DEF Clean, Disjoint
<1> QED
  BY <1>2, <1>3

LEMMA StoppedStep ==
  ASSUME Stopped, [Next]_vars
  PROVE  Stopped'
<1>1. CASE RefuseSdata
  <2>1. UNCHANGED <<case, sdata, next>> /\ SdataRefused
    BY <1>1 DEF RefuseSdata
  <2>2. SdataRefused'
    BY <2>1 DEF SdataRefused
  <2> QED
    BY <2>2 DEF Stopped
<1>2. CASE UNCHANGED vars
  <2>1. UNCHANGED <<case, sdata, next, pc>>
    BY <1>2 DEF vars
  <2>2. SdataRefused => SdataRefused'
    BY <2>1 DEF SdataRefused
  <2> QED
    BY <2>1, <2>2 DEF Stopped
<1>3. CASE ~RefuseSdata /\ Next
  <2>1. pc' # "not_encoded"
    BY <1>3 DEF Next, EncodeField, EncodedSdata, EncodeRecord, ReadIdocScan, ReadField,
       RefuseField, ReadDone, EncodeControlRecord, ReadIdocControlScan
  <2> QED
    BY <2>1 DEF Stopped
<1> QED
  BY <1>1, <1>2, <1>3

LEMMA RefusalInvariance == Spec => []RefusalInv
<1>1. RefusalInv /\ [Next]_vars => RefusalInv'
  BY CodecInvStep, CleanStep, StoppedStep DEF RefusalInv
<1> QED
  BY RefusalInvInit, <1>1, PTL DEF Spec

\* A field is read from bytes of the SDATA.
LEMMA SliceFacts ==
  ASSUME CodecInv, Reading, NEW i \in 1..Len(case.rules), InBounds(case.rules[i])
  PROVE  Slice(i) \in Text
<1>1. case.rules[i].offset \in Int /\ case.rules[i].length \in Int
  BY CaseFacts DEF CodecInv, Types
<1>2. /\ case.rules[i].offset \in Nat /\ case.rules[i].length \in Nat
      /\ case.rules[i].offset + case.rules[i].length <= SDATA_LEN
  BY <1>1, InBoundsFacts
<1>3. sdata \in Bytes(SDATA_LEN) /\ SDATA_LEN \in Nat
  BY Lengths DEF CodecInv, Types
<1>4. Slice(i) = GetFieldRaw(sdata, case.rules[i])
  BY FieldsRead
<1>5. GetFieldRaw(sdata, case.rules[i]) \in Bytes(case.rules[i].length)
  BY <1>2, <1>3, GetFieldFacts
<1> QED
  BY <1>2, <1>4, <1>5, BytesFacts

\* Delivered text is well-formed UTF-8 whatever bytes a file holds, and only what is
\* no text, no value or out of bounds is refused.  An SDATA is refused by the encoder
\* only where a character was cut at the end of its field, or fields overlap.
THEOREM CodecRefusesExactlyMalformed == Spec => []RefusesExactlyMalformed
<1>1. RefusalInv => RefusesExactlyMalformed
  <2> SUFFICES ASSUME RefusalInv
               PROVE  RefusesExactlyMalformed
    OBVIOUS
  <2>0. /\ CodecInv /\ case.encoding \in TextEncodings
        /\ Len(case.rules) \in Nat /\ DOMAIN case.rules = 1..Len(case.rules)
        /\ DOMAIN case.values = 1..Len(case.values)
    BY CaseFacts DEF RefusalInv, CodecInv, Types, IsCase
  <2>1. ASSUME NEW i \in DOMAIN cells, KindOf(i) = "text"
        PROVE  WellFormed(cells[i])
    <3>1. Reading
      <4>1. SUFFICES ASSUME ~Reading
                     PROVE  FALSE
        OBVIOUS
      <4>2. cells = <<>>
        BY <2>0, <4>1 DEF CodecInv, CellsHold
      <4> QED
        BY <2>1, <4>2
    <3>2. /\ i \in 1..(next - 1) /\ cells[i] = CellOf(i) /\ i \in 1..Len(case.rules)
          /\ InBounds(case.rules[i]) /\ Decodes(Slice(i), case.encoding)
      BY <2>0, <2>1, <3>1, FieldsRead
    <3>3. Slice(i) \in Text
      BY <2>0, <3>1, <3>2, SliceFacts
    <3>4. TextOf(i) \in Text /\ WellFormed(TextOf(i))
      BY <2>0, <3>2, <3>3, DecodesWellFormed DEF TextOf
    <3>5. cells[i] = RTrim(TextOf(i))
      BY <2>1, <3>2 DEF CellOf
    <3> QED
      BY <3>4, <3>5, RTrimWellFormed
  <2>2. ASSUME pc = "refused", case.origin # "control"
        PROVE  \/ ~InBounds(case.rules[next])
               \/ Malformed(Slice(next))
               \/ KindOf(next) # "text" /\ case.strict
    <3>1. Reading
      BY <2>2 DEF Reading
    <3>2. next \in 1..Len(case.rules) /\ FieldThrows(next)
      BY <2>0, <2>2, <3>1 DEF CodecInv, CellsHold
    <3>3. CASE InBounds(case.rules[next]) /\ ~Decodes(Slice(next), case.encoding)
      <4>1. Slice(next) \in Text
        BY <2>0, <3>1, <3>2, <3>3, SliceFacts
      <4> QED
        BY <2>0, <3>3, <4>1, DecodesNotIsMalformed
    <3> QED
      BY <3>2, <3>3 DEF FieldThrows
  <2>3. ASSUME pc = "refused", case.origin = "control"
        PROVE  \E i \in 1..36 : Malformed(GetFieldRaw(record, EDI_DC40_FIELDS[i]))
    <3>1. PICK i \in 1..36 : ~Decodes(ControlRaw(i), case.encoding)
      BY <2>0, <2>3 DEF CodecInv, RowHolds
    <3>2. /\ case.values \in Seq(Text)
          /\ ControlRaw(i) = IF i \in DOMAIN case.values
                             THEN Fitted(case.values[i], ControlLengths[i])
                             ELSE Blanks(ControlLengths[i])
      BY <2>0, <2>3, ControlRecordRead
    <3>3. ControlLengths[i] \in Nat
      BY ControlFieldFacts
    <3>4. Blanks(ControlLengths[i]) \in Text
      BY <3>3, BytesFacts
    <3>5. ControlRaw(i) \in Text
      <4>1. CASE i \in DOMAIN case.values
        <5>1. case.values[i] \in Text
          BY <3>2, <4>1
        <5>2. Fitted(case.values[i], ControlLengths[i]) \in Bytes(ControlLengths[i])
          BY <3>3, <5>1, FittedFacts
        <5>3. Fitted(case.values[i], ControlLengths[i]) \in Text
          BY <3>3, <5>2, BytesFacts
        <5> QED
          BY <3>2, <4>1, <5>3
      <4>2. CASE i \notin DOMAIN case.values
        BY <3>2, <3>4, <4>2
      <4> QED
        BY <4>1, <4>2
    <3> QED
      BY <2>0, <3>1, <3>5, DecodesNotIsMalformed DEF ControlRaw
  <2>4. ASSUME pc = "not_encoded"
        PROVE  \/ Len(case.rules) # Len(case.values)
               \/ ~Disjoint
               \/ \E i \in DOMAIN case.rules :
                    \/ ~InBounds(case.rules[i])
                    \/ ~WellFormed(Cut(case.values[i], case.rules[i].length))
    <3>1. SdataRefused
      BY <2>4 DEF RefusalInv, Stopped
    <3>2. CASE next > Len(case.rules) /\ ~WellFormed(sdata)
      <4>1. case.origin = "sql"
        BY <2>0, <2>4, OriginFacts DEF CodecInv
      <4>2. \A j \in 1..(next - 1) : j \in DOMAIN case.rules
        BY <2>0 DEF CodecInv, Types
      <4> QED
        BY <2>4, <3>2, <4>1, <4>2 DEF RefusalInv, Clean
    <3> QED
      BY <3>1, <3>2 DEF SdataRefused
  <2> QED
    BY <2>1, <2>2, <2>3, <2>4 DEF RefusesExactlyMalformed
<1> QED
  BY <1>1, RefusalInvariance, PTL

-----------------------------------------------------------------------------
(* The code points of a text, and the bytes they stand for.                *)

\* A list read by jumps: at i the head of i, and then what is read at i + len[i].
ReadAt(g, i, n, len, head) ==
  IF i > n \/ len[i] = 0 THEN <<>> ELSE <<head[i]>> \o g[i + len[i]]

Reads(g, n, len, head) == g = [i \in 1..(n + 4) |-> ReadAt(g, i, n, len, head)]

\* There is such a list, since jumps go forward.
LEMMA ReadsSome ==
  ASSUME NEW n \in Nat, NEW len, NEW head, \A i \in 1..n : len[i] \in 0..4
  PROVE  \E g : Reads(g, n, len, head)
<1> DEFINE At(g, i) == ReadAt(g, i, n, len, head)
           From(g, k) == /\ g = [i \in 1..(n + 4) |-> g[i]]
                         /\ \A i \in k..(n + 4) : g[i] = At(g, i)
           S == {j \in Nat : j <= n => \E g : From(g, n + 1 - j)}
<1>1. 0 \in S
  <2> DEFINE g == [i \in 1..(n + 4) |-> <<>>]
  <2>1. g = [i \in 1..(n + 4) |-> g[i]]
    OBVIOUS
  <2>2. ASSUME NEW i \in (n + 1)..(n + 4)
        PROVE  g[i] = At(g, i)
    <3>1. i > n /\ i \in 1..(n + 4)
      OBVIOUS
    <3> QED
      BY <3>1 DEF ReadAt
  <2> HIDE DEF g
  <2>3. From(g, n + 1)
    <3> HIDE DEF At
    <3> QED
      BY <2>1, <2>2
  <2>4. n + 1 - 0 = n + 1
    OBVIOUS
  <2> HIDE DEF From
  <2> QED
    BY <2>3, <2>4
<1>2. ASSUME NEW j \in Nat, j \in S
      PROVE  j + 1 \in S
  <2> SUFFICES ASSUME j + 1 <= n
               PROVE  \E g : From(g, n + 1 - (j + 1))
    OBVIOUS
  <2>1. PICK k \in 1..n : k = n + 1 - (j + 1) /\ k + 1 = n + 1 - j
    OBVIOUS
  <2>2. PICK g : From(g, k + 1)
    <3> HIDE DEF From
    <3> QED
      BY <1>2, <2>1
  <2> DEFINE f == [i \in 1..(n + 4) |-> IF i = k THEN At(g, i) ELSE g[i]]
  <2>3. f = [i \in 1..(n + 4) |-> f[i]]
    OBVIOUS
  <2>4. ASSUME NEW i \in k..(n + 4)
        PROVE  At(f, i) = At(g, i)
    <3>1. CASE i > n \/ len[i] = 0
      BY <3>1 DEF ReadAt
    <3>2. CASE ~(i > n \/ len[i] = 0)
      <4>1. i \in 1..n
        BY <3>2
      <4>2. PICK l \in 1..4 : l = len[i]
        BY <3>2, <4>1
      <4>3. i + l \in 1..(n + 4) /\ i + l # k
        BY <4>1, <4>2
      <4>4. f[i + l] = g[i + l]
        BY <4>3
      <4> HIDE DEF f
      <4> QED
        BY <3>2, <4>2, <4>4 DEF ReadAt
    <3> QED
      BY <3>1, <3>2
  <2>5. ASSUME NEW i \in k..(n + 4)
        PROVE  f[i] = At(f, i)
    <3>1. i \in 1..(n + 4) /\ (i = k \/ i \in (k + 1)..(n + 4))
      OBVIOUS
    <3>2. f[i] = At(g, i)
      <4> HIDE DEF At
      <4> QED
        BY <2>2, <3>1
    <3> HIDE DEF f, At
    <3> QED
      BY <2>4, <3>2
  <2> HIDE DEF f, At
  <2>6. From(f, k)
    BY <2>3, <2>5
  <2> HIDE DEF From
  <2> QED
    BY <2>1, <2>6
<1> HIDE DEF S
<1>3. n \in S
  BY <1>1, <1>2, NatSetInduction
<1>4. PICK g : From(g, n + 1 - n)
  <2> HIDE DEF From
  <2> QED
    BY <1>3 DEF S
<1>5. n + 1 - n = 1
  OBVIOUS
<1>6. g = [i \in 1..(n + 4) |-> At(g, i)]
  <2> HIDE DEF At
  <2>1. From(g, 1)
    <3> HIDE DEF From
    <3> QED
      BY <1>4, <1>5
  <2> QED
    BY <2>1
<1> QED
  BY <1>6 DEF Reads

LEMMA CodePointsReads ==
  ASSUME NEW s \in Text
  PROVE  \E g : /\ CodePoints(s) = g[1]
                /\ \A i \in 1..(Len(s) + 4) :
                     g[i] = IF i > Len(s) \/ SequenceLength(s[i]) = 0 THEN <<>>
                            ELSE <<CodePointAt(s, i, SequenceLength(s[i]))>>
                                   \o g[i + SequenceLength(s[i])]
<1>1. PICK n \in Nat : n = Len(s)
  BY TextFacts
<1> DEFINE Body(g, i) == IF i > Len(s) \/ SequenceLength(s[i]) = 0 THEN <<>>
                         ELSE <<CodePointAt(s, i, SequenceLength(s[i]))>>
                                \o g[i + SequenceLength(s[i])]
           len == [i \in 1..n |-> SequenceLength(s[i])]
           head == [i \in 1..n |-> CodePointAt(s, i, SequenceLength(s[i]))]
           IsRead(g) == g = [i \in 1..(Len(s) + 4) |-> Body(g, i)]
<1>2. \A i \in 1..n : len[i] \in 0..4
  <2>1. \A b \in Byte : SequenceLength(b) \in 0..4
    BY DEF SequenceLength, Byte
  <2>2. \A i \in 1..n : s[i] \in Byte
    BY <1>1, TextFacts
  <2> QED
    BY <2>1, <2>2
<1>3. PICK g : Reads(g, n, len, head)
  <2> HIDE DEF len, head
  <2> QED
    BY <1>2, ReadsSome
<1>4. ASSUME NEW i \in 1..(n + 4)
      PROVE  ReadAt(g, i, n, len, head) = Body(g, i)
  <2>1. CASE i > n
    BY <1>1, <2>1 DEF ReadAt
  <2>2. CASE ~(i > n)
    <3>1. i \in 1..n
      BY <2>2
    <3>2. len[i] = SequenceLength(s[i]) /\ head[i] = CodePointAt(s, i, SequenceLength(s[i]))
      BY <3>1
    <3> HIDE DEF len, head
    <3> QED
      BY <1>1, <3>2, Zenon DEF ReadAt
  <2> QED
    BY <2>1, <2>2
<1> HIDE DEF len, head
<1>5. IsRead(g)
  <2> HIDE DEF Body
  <2>1. [i \in 1..(n + 4) |-> ReadAt(g, i, n, len, head)] = [i \in 1..(Len(s) + 4) |-> Body(g, i)]
    BY <1>1, <1>4, Zenon
  <2> QED
    BY <1>3, <2>1, Zenon DEF Reads
<1>6. CodePoints(s) = (CHOOSE f : IsRead(f))[1]
  BY Zenon DEF CodePoints
<1> DEFINE c == CHOOSE f : IsRead(f)
<1>7. IsRead(c)
  <2> HIDE DEF IsRead
  <2> QED
    BY <1>5, Zenon
<1> HIDE DEF c
<1>8. \A i \in 1..(Len(s) + 4) : c[i] = Body(c, i)
  <2> HIDE DEF Body
  <2> QED
    BY <1>7, Zenon
<1> HIDE DEF IsRead
<1> QED
  BY <1>6, <1>8, Zenon DEF c

\* A character of one to three bytes that is moved stands for the same code point.
LEMMA CodePointMoved ==
  ASSUME NEW s, NEW i \in Nat, NEW t, NEW l \in 1..3, \A x \in 1..l : s[i + x] = t[x]
  PROVE  CodePointAt(s, i + 1, l) = CodePointAt(t, 1, l)
<1>1. i + 1 + 1 = i + 2 /\ i + 1 + 2 = i + 3
  OBVIOUS
<1>2. /\ CodePointAt(s, i + 1, 1) = s[i + 1]
      /\ CodePointAt(s, i + 1, 2) = PointOfTwo(s[i + 1], s[i + 2])
      /\ CodePointAt(s, i + 1, 3) = PointOfThree(s[i + 1], s[i + 2], s[i + 3])
  <2>1. CodePointAt(s, i + 1, 1) = s[i + 1]
    BY CodePointIs, Zenon
  <2>2. CodePointAt(s, i + 1, 2) = PointOfTwo(s[i + 1], s[i + 1 + 1])
    BY CodePointIs, Zenon
  <2>3. CodePointAt(s, i + 1, 3) = PointOfThree(s[i + 1], s[i + 1 + 1], s[i + 1 + 2])
    BY CodePointIs, Zenon
  <2> QED
    BY <1>1, <2>1, <2>2, <2>3
<1>3. /\ CodePointAt(t, 1, 1) = t[1]
      /\ CodePointAt(t, 1, 2) = PointOfTwo(t[1], t[2])
      /\ CodePointAt(t, 1, 3) = PointOfThree(t[1], t[2], t[3])
  BY CodePointFirst, Zenon
<1>4. CASE l = 1
  <2>1. s[i + 1] = t[1]
    BY <1>4
  <2> QED
    BY <1>2, <1>3, <1>4, <2>1, Zenon
<1>5. CASE l = 2
  <2>1. s[i + 1] = t[1] /\ s[i + 2] = t[2]
    BY <1>5
  <2> QED
    BY <1>2, <1>3, <1>5, <2>1, Zenon
<1>6. CASE l = 3
  <2>1. s[i + 1] = t[1] /\ s[i + 2] = t[2] /\ s[i + 3] = t[3]
    BY <1>6
  <2> QED
    BY <1>2, <1>3, <1>6, <2>1, Zenon
<1> QED
  BY <1>4, <1>5, <1>6

\* Each join begins with the ones before it.
LEMMA JoinsBegin ==
  ASSUME NEW n \in Nat, NEW p \in [1..n -> Text], NEW h, Joins(h, p, n), NEW k \in 0..n
  PROVE  \A m \in k..n : /\ h[m] \in Text /\ h[k] \in Text
                         /\ Len(h[k]) <= Len(h[m])
                         /\ \A b \in 1..Len(h[k]) : h[m][b] = h[k][b]
<1> DEFINE Begins(s, t) == Len(s) <= Len(t) /\ \A b \in 1..Len(s) : t[b] = s[b]
           S == {j \in Nat : k + j <= n => Begins(h[k], h[k + j])}
<1>0. \A i \in 0..n : h[i] \in Text /\ Len(h[i]) \in Nat
  <2>1. \A i \in 0..n : h[i] \in Text
    BY DEF Joins
  <2> QED
    BY <2>1, TextFacts
<1>1. 0 \in S
  BY <1>0
<1>2. ASSUME NEW j \in Nat, j \in S
      PROVE  j + 1 \in S
  <2> SUFFICES ASSUME k + (j + 1) <= n
               PROVE  Begins(h[k], h[k + (j + 1)])
    OBVIOUS
  <2>1. PICK i \in 1..n : i = k + (j + 1) /\ i - 1 = k + j /\ i - 1 \in 0..n
    OBVIOUS
  <2>2. h[i] = h[i - 1] \o p[i] /\ p[i] \in Text /\ h[i - 1] \in Text
    BY <1>0, <2>1 DEF Joins
  <2>3. Len(h[i]) = Len(h[i - 1]) + Len(p[i]) /\ \A b \in 1..Len(h[i - 1]) : h[i][b] = h[i - 1][b]
    BY <2>2, ConcatFacts
  <2>4. Begins(h[k], h[i - 1])
    BY <1>2, <2>1
  <2>5. Len(h[k]) \in Nat /\ Len(h[i - 1]) \in Nat /\ Len(p[i]) \in Nat
    BY <1>0, <2>1, <2>2, TextFacts
  <2>6. Begins(h[k], h[i])
    BY <2>3, <2>4, <2>5
  <2> QED
    BY <2>1, <2>6
<1> HIDE DEF S
<1>3. \A j \in Nat : j \in S
  BY <1>1, <1>2, NatSetInduction
<1>4. ASSUME NEW m \in k..n
      PROVE  Begins(h[k], h[m])
  <2>1. PICK j \in Nat : m = k + j
    <3>1. m - k \in Nat /\ m = k + (m - k)
      OBVIOUS
    <3> QED
      BY <3>1
  <2>2. k + j <= n
    BY <2>1
  <2> HIDE DEF Begins
  <2>3. Begins(h[k], h[k + j])
    BY <1>3, <2>2 DEF S
  <2> QED
    BY <2>1, <2>3
<1>5. \A m \in k..n : m \in 0..n
  OBVIOUS
<1> QED
  BY <1>0, <1>4, <1>5

\* One more code point before a list of them.
LEMMA OneBefore ==
  ASSUME NEW c \in Int, NEW t \in Seq(Int)
  PROVE  /\ <<c>> \o t \in Seq(Int) /\ Len(<<c>> \o t) = Len(t) + 1
         /\ (<<c>> \o t)[1] = c
         /\ \A k \in 1..Len(t) : (<<c>> \o t)[k + 1] = t[k]
OBVIOUS

\* Where the k-th byte of a code page begins in the text: its first byte announces
\* it, and it stands for the byte's code point.
LEMMA PieceAt ==
  ASSUME NEW raw \in Text, NEW e, NEW h, Joins(h, Pieces(raw, e), Len(raw)),
         NEW m \in 0..Len(raw), NEW k \in 1..m
  PROVE  LET s == h[m]
             i == Len(h[k - 1])
             l == SequenceLength(s[i + 1])
         IN  /\ i \in Nat /\ i + 1 \in 1..Len(s) /\ l \in 1..3
             /\ i + l = Len(h[k])
             /\ CodePointAt(s, i + 1, l) = CodePoint(raw[k], e)
<1>1. PICK n \in Nat : n = Len(raw) /\ m \in 0..n /\ k \in 1..n /\ k - 1 \in 0..n /\ k \in 0..n
  BY TextFacts
<1>2. PICK p \in [1..n -> Text] : p = Pieces(raw, e)
  <2>1. \A j \in 1..n : Pieces(raw, e)[j] \in Text
    BY <1>1, PieceFacts
  <2>2. Pieces(raw, e) \in [1..n -> Text]
    BY <1>1, <2>1, Zenon DEF Pieces
  <2> QED
    BY <2>2
<1>3. Joins(h, p, n)
  BY <1>1, <1>2
<1>4. PICK cp \in Nat : cp = CodePoint(raw[k], e) /\ p[k] = Utf8Of(cp) /\ cp < 16384
  BY <1>1, <1>2, PieceFacts
<1>5. PICK l \in 1..3 : /\ l = Len(p[k]) /\ p[k] \in Text
                        /\ SequenceLength(p[k][1]) = l
                        /\ CodePointAt(p[k], 1, l) = cp
  <2>1. PICK t : t = Utf8Of(cp)
    OBVIOUS
  <2>2. t \in Text /\ Len(t) \in 1..3 /\ SequenceLength(t[1]) = Len(t) /\ CodePointAt(t, 1, Len(t)) = cp
    BY <1>4, <2>1, Utf8OfFacts
  <2>3. p[k] = t
    BY <1>4, <2>1
  <2> QED
    BY <2>2, <2>3
<1>6. /\ h[m] \in Text /\ h[k] \in Text /\ h[k - 1] \in Text
      /\ Len(h[k]) <= Len(h[m])
      /\ \A b \in 1..Len(h[k]) : h[m][b] = h[k][b]
  <2>1. k \in 0..n /\ m \in k..n /\ k - 1 \in 0..n /\ k \in (k - 1)..n
    BY <1>1
  <2> QED
    BY <1>3, <2>1, JoinsBegin
<1>7. PICK i, j \in Nat : i = Len(h[k - 1]) /\ j = Len(h[k])
  BY <1>6, TextFacts
<1>8. j = i + l /\ \A b \in 1..l : h[k][i + b] = p[k][b]
  <2>1. h[k] = h[k - 1] \o p[k]
    BY <1>1, <1>3 DEF Joins
  <2>2. PICK s, t \in Text : s = h[k - 1] /\ t = p[k]
    BY <1>5, <1>6
  <2>3. Len(s \o t) = Len(s) + Len(t) /\ \A b \in 1..Len(t) : (s \o t)[Len(s) + b] = t[b]
    BY ConcatFacts
  <2> QED
    BY <1>5, <1>7, <2>1, <2>2, <2>3
<1>9. \A b \in 1..l : h[m][i + b] = p[k][b]
  <2> SUFFICES ASSUME NEW b \in 1..l
               PROVE  h[m][i + b] = p[k][b]
    OBVIOUS
  <2>1. i + b \in 1..j
    BY <1>8
  <2> QED
    BY <1>6, <1>7, <1>8, <2>1
<1>10. h[m][i + 1] = p[k][1]
  <2>1. 1 \in 1..l
    OBVIOUS
  <2> QED
    BY <1>9, <2>1
<1>11. CodePointAt(h[m], i + 1, l) = CodePointAt(p[k], 1, l)
  <2>1. PICK s, t : s = h[m] /\ t = p[k]
    OBVIOUS
  <2>2. \A x \in 1..l : s[i + x] = t[x]
    BY <1>9, <2>1
  <2>3. CodePointAt(s, i + 1, l) = CodePointAt(t, 1, l)
    BY <2>2, CodePointMoved
  <2> QED
    BY <2>1, <2>3
<1>12. SequenceLength(h[m][i + 1]) = l
  BY <1>5, <1>10
<1>13. i + 1 \in 1..Len(h[m])
  <2>1. Len(h[m]) \in Nat
    BY <1>6, TextFacts
  <2> QED
    BY <1>6, <1>7, <1>8, <2>1
<1> QED
  BY <1>4, <1>5, <1>7, <1>8, <1>11, <1>12, <1>13

\* The code points of the text are those of the bytes.
LEMMA CodePointsOfPage ==
  ASSUME NEW raw \in Text, NEW e, NEW h, Joins(h, Pieces(raw, e), Len(raw)),
         NEW m \in 0..Len(raw)
  PROVE  /\ Len(CodePoints(h[m])) = m
         /\ \A k \in 1..m : CodePoints(h[m])[k] = CodePoint(raw[k], e)
<1>1. PICK s : s = h[m]
  OBVIOUS
<1>2. \A k \in 0..m : h[k] \in Text /\ Len(h[k]) \in Nat
  <2>1. \A k \in 0..m : k \in 0..Len(raw)
    BY TextFacts
  <2>2. \A k \in 0..m : h[k] \in Text
    BY <2>1 DEF Joins
  <2> QED
    BY <2>2, TextFacts
<1>3. m \in Nat /\ m \in 0..m /\ s \in Text /\ h[0] = <<>>
  BY <1>1, <1>2 DEF Joins
<1>4. PICK g : /\ CodePoints(s) = g[1]
               /\ \A i \in 1..(Len(s) + 4) :
                    g[i] = IF i > Len(s) \/ SequenceLength(s[i]) = 0 THEN <<>>
                           ELSE <<CodePointAt(s, i, SequenceLength(s[i]))>>
                                  \o g[i + SequenceLength(s[i])]
  BY <1>3, CodePointsReads
<1>5. Len(s) \in Nat
  BY <1>3, TextFacts
<1> DEFINE c(k) == CodePoint(raw[k], e)
           From(j) == /\ g[Len(h[m - j]) + 1] \in Seq(Int) /\ Len(g[Len(h[m - j]) + 1]) = j
                      /\ \A k \in 1..j : g[Len(h[m - j]) + 1][k] = c(m - j + k)
           S == {j \in Nat : j <= m => From(j)}
<1>6. 0 \in S
  <2>1. m - 0 = m
    BY <1>3
  <2>2. g[Len(s) + 1] = <<>>
    <3>1. Len(s) + 1 \in 1..(Len(s) + 4) /\ Len(s) + 1 > Len(s)
      BY <1>5
    <3> QED
      BY <1>4, <3>1
  <2>3. <<>> \in Seq(Int) /\ Len(<<>>) = 0
    OBVIOUS
  <2>4. From(0)
    <3> HIDE DEF c
    <3>1. g[Len(h[m - 0]) + 1] = <<>>
      BY <1>1, <2>1, <2>2
    <3>2. \A k \in 1..0 : FALSE
      OBVIOUS
    <3> QED
      BY <2>3, <3>1, <3>2
  <2> HIDE DEF From
  <2> QED
    BY <2>4
<1>7. ASSUME NEW j \in Nat, j \in S
      PROVE  j + 1 \in S
  <2> SUFFICES ASSUME j + 1 <= m
               PROVE  From(j + 1)
    <3> HIDE DEF From
    <3> QED
      OBVIOUS
  <2>1. PICK k \in 1..m : k = m - j /\ k - 1 = m - (j + 1)
    BY <1>3
  <2>2. PICK i, l : i = Len(h[k - 1]) /\ l = SequenceLength(s[i + 1])
    OBVIOUS
  <2>3. /\ i \in Nat /\ i + 1 \in 1..Len(s) /\ l \in 1..3
        /\ i + l = Len(h[k])
        /\ CodePointAt(s, i + 1, l) = c(k)
    BY <1>1, <2>2, PieceAt
  <2>4. c(k) \in Int
    <3>1. k \in 1..Len(raw)
      BY <2>1, TextFacts
    <3> QED
      BY <3>1, PieceFacts
  <2> HIDE DEF c
  <2>5. PICK t : t = g[Len(h[k]) + 1]
    OBVIOUS
  <2>6. t \in Seq(Int) /\ Len(t) = j /\ \A x \in 1..j : t[x] = c(k + x)
    <3>1. From(j)
      <4> HIDE DEF From
      <4> QED
        BY <1>7, <2>1
    <3> QED
      BY <2>1, <2>5, <3>1
  <2>7. g[i + 1] = <<c(k)>> \o t
    <3>1. i + 1 \in 1..(Len(s) + 4) /\ ~(i + 1 > Len(s))
      BY <1>5, <2>3
    <3>2. l # 0 /\ i + 1 + l = Len(h[k]) + 1
      BY <2>3
    <3>3. g[i + 1] = <<CodePointAt(s, i + 1, l)>> \o g[i + 1 + l]
      BY <1>4, <2>2, <3>1, <3>2
    <3> QED
      BY <2>3, <2>5, <3>2, <3>3
  <2>8. /\ g[i + 1] \in Seq(Int) /\ Len(g[i + 1]) = j + 1
        /\ g[i + 1][1] = c(k)
        /\ \A x \in 1..j : g[i + 1][x + 1] = t[x]
    BY <2>4, <2>6, <2>7, OneBefore
  <2>9. ASSUME NEW x \in 1..(j + 1)
        PROVE  g[i + 1][x] = c(k - 1 + x)
    <3>1. CASE x = 1
      <4>1. k - 1 + x = k
        BY <3>1
      <4> QED
        BY <2>8, <3>1, <4>1
    <3>2. CASE x # 1
      <4>1. PICK y \in 1..j : x = y + 1 /\ k - 1 + x = k + y
        <5>1. x - 1 \in 1..j /\ x = (x - 1) + 1 /\ k - 1 + x = k + (x - 1)
          BY <3>2
        <5> QED
          BY <5>1
      <4> QED
        BY <2>6, <2>8, <4>1
    <3> QED
      BY <3>1, <3>2
  <2> QED
    BY <2>1, <2>2, <2>8, <2>9
<1> HIDE DEF S
<1>8. m \in S
  BY <1>3, <1>6, <1>7, NatSetInduction
<1>9. From(m)
  <2> HIDE DEF From
  <2> QED
    BY <1>3, <1>8 DEF S
<1>10. m - m = 0 /\ Len(h[0]) + 1 = 1 /\ \A k \in 1..m : m - m + k = k
  BY <1>3
<1>11. Len(g[1]) = m /\ \A k \in 1..m : g[1][k] = c(k)
  BY <1>9, <1>10
<1> QED
  BY <1>1, <1>4, <1>11

\* Blanks at the end of a field are blanks at the end of its text.
LEMMA BlankTail ==
  ASSUME NEW raw \in Text, NEW e, NEW h, Joins(h, Pieces(raw, e), Len(raw)),
         NEW m \in 0..Len(raw), \A b \in (m + 1)..Len(raw) : raw[b] = Blank
  PROVE  \A b \in (Len(h[m]) + 1)..Len(h[Len(raw)]) : h[Len(raw)][b] = Blank
<1>1. PICK n \in Nat : n = Len(raw) /\ m \in 0..n
  BY TextFacts
<1>2. PICK a \in Nat : a = Len(h[m])
  <2>1. h[m] \in Text
    BY DEF Joins
  <2> QED
    BY <2>1, TextFacts
<1> DEFINE Trails(s) == \A b \in (a + 1)..Len(s) : s[b] = Blank
           S == {j \in Nat : m + j <= n => Trails(h[m + j])}
<1>3. 0 \in S
  <2>1. Trails(h[m])
    BY <1>2
  <2>2. m + 0 = m
    BY <1>1
  <2> HIDE DEF Trails
  <2> QED
    BY <2>1, <2>2
<1>4. ASSUME NEW j \in Nat, j \in S
      PROVE  j + 1 \in S
  <2> SUFFICES ASSUME m + (j + 1) <= n
               PROVE  Trails(h[m + (j + 1)])
    <3> HIDE DEF Trails
    <3> QED
      OBVIOUS
  <2>1. PICK k \in 1..n : k = m + (j + 1) /\ k - 1 = m + j /\ k - 1 \in 0..n /\ k \in (m + 1)..n
    BY <1>1
  <2>2. PICK s, t : s = h[k - 1] /\ t = Pieces(raw, e)[k]
    OBVIOUS
  <2>3. h[k] = s \o t /\ s \in Text
    BY <1>1, <2>1, <2>2 DEF Joins
  <2>4. t = <<Blank>>
    <3>1. raw[k] = Blank
      BY <1>1, <2>1
    <3>2. PICK cp \in Nat : cp = CodePoint(raw[k], e) /\ t = Utf8Of(cp) /\ cp < 16384 /\ cp = Blank
      BY <1>1, <2>2, <3>1, PieceFacts
    <3> QED
      BY <3>2, Utf8OfFacts
  <2>5. t \in Text /\ Len(t) = 1 /\ t[1] = Blank
    BY <2>4, ByteFacts, TupleOfOne
  <2>6. /\ Len(s \o t) = Len(s) + Len(t)
        /\ \A b \in 1..Len(s) : (s \o t)[b] = s[b]
        /\ \A b \in 1..Len(t) : (s \o t)[Len(s) + b] = t[b]
    BY <2>3, <2>5, ConcatFacts
  <2>7. Trails(s)
    <3>1. m + j <= n
      BY <1>1
    <3> HIDE DEF Trails
    <3> QED
      BY <1>4, <2>1, <2>2, <3>1
  <2>8. PICK len \in Nat : len = Len(s)
    BY <2>3, TextFacts
  <2>9. 1 \in 1..Len(t)
    BY <2>5
  <2>10. Len(s \o t) = len + 1 /\ (s \o t)[len + 1] = Blank
    BY <2>5, <2>6, <2>8, <2>9
  <2>11. Trails(s \o t)
    <3> SUFFICES ASSUME NEW b \in (a + 1)..(len + 1)
                 PROVE  (s \o t)[b] = Blank
      BY <2>10
    <3>1. b = len + 1 \/ (b \in 1..len /\ b \in (a + 1)..len)
      OBVIOUS
    <3> QED
      BY <2>6, <2>7, <2>8, <2>10, <3>1
  <2> HIDE DEF Trails
  <2> QED
    BY <2>1, <2>3, <2>11
<1> HIDE DEF S
<1>5. n - m \in Nat /\ m + (n - m) = n
  BY <1>1
<1>6. n - m \in S
  BY <1>3, <1>4, <1>5, NatSetInduction
<1>7. Trails(h[n])
  <2> HIDE DEF Trails
  <2> QED
    BY <1>1, <1>5, <1>6 DEF S
<1> QED
  BY <1>1, <1>2, <1>7

\* So trimming the text keeps what the bytes that trimming the field keeps became.
LEMMA TrimmedPage ==
  ASSUME NEW raw \in Text, NEW e, NEW h, Joins(h, Pieces(raw, e), Len(raw)),
         NEW m \in 0..Len(raw), TrimsTo(raw, m)
  PROVE  RTrim(h[Len(raw)]) = h[m]
<1>1. PICK n \in Nat : n = Len(raw) /\ m \in 0..n /\ n \in 0..n /\ n \in m..n
  BY TextFacts
<1>2. /\ m = 0 \/ raw[m] # Blank
      /\ \A b \in (m + 1)..n : raw[b] = Blank
  BY <1>1 DEF TrimsTo
<1>3. Pieces(raw, e) \in [1..n -> Text]
  <2>1. \A j \in 1..n : Pieces(raw, e)[j] \in Text
    BY <1>1, PieceFacts
  <2> QED
    BY <1>1, <2>1, Zenon DEF Pieces
<1>4. PICK s, t : s = h[n] /\ t = h[m]
  OBVIOUS
<1>5. s \in Text /\ t \in Text /\ Len(t) <= Len(s) /\ \A b \in 1..Len(t) : s[b] = t[b]
  BY <1>1, <1>3, <1>4, JoinsBegin
<1>6. PICK a \in Nat : a = Len(t) /\ a \in 0..Len(s)
  BY <1>5, TextFacts
<1>7. \A b \in (a + 1)..Len(s) : s[b] = Blank
  BY <1>1, <1>2, <1>4, <1>6, BlankTail
<1>8. a = 0 \/ t[a] # Blank
  <2>1. CASE m = 0
    <3>1. t = <<>>
      BY <1>4, <2>1 DEF Joins
    <3> QED
      BY <1>6, <3>1
  <2>2. CASE m # 0
    <3>1. PICK k \in 1..n : k = m /\ k - 1 \in 0..n
      BY <1>1, <2>2
    <3>2. PICK u, v : u = h[k - 1] /\ v = Pieces(raw, e)[k]
      OBVIOUS
    <3>3. t = u \o v /\ u \in Text
      BY <1>1, <1>4, <3>1, <3>2 DEF Joins
    <3>4. PICK cp \in Nat : cp = CodePoint(raw[k], e) /\ v = Utf8Of(cp) /\ cp < 16384 /\ cp # Blank
      <4>1. k \in 1..Len(raw) /\ raw[k] # Blank
        BY <1>1, <1>2, <2>2, <3>1
      <4>2. /\ Pieces(raw, e)[k] = Utf8Of(CodePoint(raw[k], e))
            /\ CodePoint(raw[k], e) \in Nat /\ CodePoint(raw[k], e) < 16384
            /\ CodePoint(raw[k], e) = Blank <=> raw[k] = Blank
        BY <4>1, PieceFacts
      <4> QED
        BY <3>2, <4>1, <4>2
    <3>5. v \in Text /\ Len(v) \in 1..3 /\ v[Len(v)] # Blank
      BY <3>4, Utf8OfFacts
    <3>6. Len(u \o v) = Len(u) + Len(v) /\ \A b \in 1..Len(v) : (u \o v)[Len(u) + b] = v[b]
      BY <3>3, <3>5, ConcatFacts
    <3>7. Len(v) \in 1..Len(v)
      BY <3>5
    <3>8. (u \o v)[Len(u) + Len(v)] # Blank
      BY <3>5, <3>6, <3>7
    <3> QED
      BY <1>6, <3>3, <3>6, <3>8
  <2> QED
    BY <2>1, <2>2
<1>9. a = 0 \/ s[a] # Blank
  <2>1. a # 0 => a \in 1..Len(t)
    BY <1>6
  <2> QED
    BY <1>5, <1>8, <2>1
<1>10. TrimsTo(s, a)
  BY <1>6, <1>7, <1>9 DEF TrimsTo
<1>11. RTrim(s) \in Bytes(a) /\ \A b \in 1..a : RTrim(s)[b] = s[b]
  BY <1>5, <1>10, RTrimIs
<1>12. t \in Bytes(a)
  BY <1>5, <1>6, TextFacts
<1>13. \A b \in 1..a : RTrim(s)[b] = t[b]
  BY <1>5, <1>6, <1>11
<1>14. RTrim(s) = t
  BY <1>11, <1>12, <1>13, SameBytes
<1> QED
  BY <1>1, <1>4, <1>14

\* A code point of a code page stands for one byte.
LEMMA BytesForOne ==
  ASSUME NEW b \in Byte, NEW e \in {LATIN1, CP1252}
  PROVE  BytesFor(CodePoint(b, e), e) = {b}
<1>1. DOMAIN CP1252_HIGH = 1..32
  BY DEF CP1252_HIGH
<1> DEFINE High(cp) == {127 + k : k \in {k \in 1..32 : CP1252_HIGH[k] = cp}}
<1>2. CASE e = LATIN1
  <2>1. e # CP1252
    BY <1>2 DEF LATIN1, CP1252
  <2> QED
    BY <2>1 DEF BytesFor, CodePoint
<1>3. CASE e = CP1252 /\ b \in 128..159
  <2>1. PICK j \in 1..32 : j = b - 127 /\ b = 127 + j
    <3>1. b - 127 \in 1..32 /\ b = 127 + (b - 127)
      BY <1>3
    <3> QED
      BY <3>1
  <2>2. PICK cp \in Nat : cp = CP1252_HIGH[j] /\ (cp > 255 \/ cp = 127 + j)
    BY HighFacts
  <2>3. CodePoint(b, e) = cp
    BY <1>3, <2>1, <2>2 DEF CodePoint
  <2>4. {k \in 1..32 : CP1252_HIGH[k] = cp} = {j}
    BY <2>2, HighInjective
  <2>5. High(cp) = {b}
    BY <2>1, <2>4
  <2>6. {cp} \cap (0..127 \cup 160..255) = {}
    BY <2>1, <2>2
  <2> HIDE DEF High
  <2>7. BytesFor(cp, e) = High(cp) \cup ({cp} \cap (0..127 \cup 160..255))
    BY <1>1, <1>3 DEF BytesFor, High
  <2> QED
    BY <2>3, <2>5, <2>6, <2>7
<1>4. CASE e = CP1252 /\ b \notin 128..159
  <2>1. CodePoint(b, e) = b
    BY <1>4 DEF CodePoint
  <2>2. \A k \in 1..32 : CP1252_HIGH[k] # b
    <3> SUFFICES ASSUME NEW k \in 1..32, CP1252_HIGH[k] = b
                 PROVE  FALSE
      OBVIOUS
    <3>1. b > 255 \/ b = 127 + k
      BY HighFacts
    <3> QED
      BY <1>4, <3>1 DEF Byte
  <2>3. High(b) = {}
    BY <2>2
  <2>4. {b} \cap (0..127 \cup 160..255) = {b}
    <3>1. b \in 0..127 \/ b \in 160..255
      BY <1>4 DEF Byte
    <3>2. ASSUME NEW X, NEW Y, b \in X \/ b \in Y
          PROVE  {b} \cap (X \cup Y) = {b}
      BY <3>2
    <3>3. PICK X, Y : X = 0..127 /\ Y = 160..255
      OBVIOUS
    <3> QED
      BY <3>1, <3>2, <3>3
  <2> HIDE DEF High
  <2>5. BytesFor(b, e) = High(b) \cup ({b} \cap (0..127 \cup 160..255))
    BY <1>1, <1>4 DEF BytesFor, High
  <2> QED
    BY <2>1, <2>3, <2>4, <2>5
<1> QED
  BY <1>2, <1>3, <1>4

\* From the text of a field its bytes can be had back, up to trailing blanks: UTF-8
\* and ASCII text is the field's bytes, and each character of a code page stands for
\* one byte only.
THEOREM CodecTextLossless == Spec => []TextLossless
<1>1. CodecInv => TextLossless
  <2> SUFFICES ASSUME CodecInv, NEW i \in DOMAIN cells, KindOf(i) = "text"
               PROVE  IF case.encoding \in {UTF8, ASCII} THEN cells[i] = RTrim(Slice(i))
                      ELSE /\ Len(CodePoints(cells[i])) = Len(RTrim(Slice(i)))
                           /\ \A k \in DOMAIN RTrim(Slice(i)) :
                                BytesFor(CodePoints(cells[i])[k], case.encoding)
                                  = {RTrim(Slice(i))[k]}
    BY DEF TextLossless
  <2>1. Reading
    <3>1. SUFFICES ASSUME ~Reading
                   PROVE  FALSE
      OBVIOUS
    <3>2. cells = <<>>
      BY <3>1 DEF CodecInv, CellsHold
    <3> QED
      BY <3>2
  <2>2. cells[i] = CellOf(i) /\ i \in 1..Len(case.rules) /\ InBounds(case.rules[i])
    BY <2>1, FieldsRead
  <2>3. PICK raw \in Text : raw = Slice(i)
    BY <2>1, <2>2, SliceFacts
  <2>4. PICK e \in TextEncodings : e = case.encoding
    BY DEF CodecInv, Types, IsCase
  <2>5. cells[i] = RTrim(DecodeText(raw, e))
    BY <2>2, <2>3, <2>4 DEF CellOf, TextOf
  <2>6. CASE e \in {UTF8, ASCII}
    <3>1. cells[i] = RTrim(raw)
      BY <2>5, <2>6, DecodeAsIs
    <3> QED
      BY <2>3, <2>4, <2>6, <3>1
  <2>7. CASE e \notin {UTF8, ASCII}
    <3>1. e \in {LATIN1, CP1252}
      BY <2>7 DEF TextEncodings
    <3>2. PICK h : Joins(h, Pieces(raw, e), Len(raw)) /\ DecodeText(raw, e) = h[Len(raw)]
      BY <3>1, CodePageText
    <3>3. PICK slice, m : slice = RTrim(raw) /\ m = Len(slice)
      OBVIOUS
    <3>4. slice \in Text /\ TrimsTo(raw, m) /\ \A k \in 1..m : slice[k] = raw[k]
      BY <3>3, RTrimFacts
    <3>5. m \in 0..Len(raw) /\ DOMAIN slice = 1..m /\ \A k \in 1..m : k \in 1..Len(raw)
      <4>1. Len(raw) \in Nat /\ DOMAIN slice = 1..m
        BY <3>3, <3>4, TextFacts
      <4> QED
        BY <3>4, <4>1 DEF TrimsTo
    <3>6. cells[i] = h[m]
      BY <2>5, <3>2, <3>4, <3>5, TrimmedPage
    <3>7. PICK cps : cps = CodePoints(h[m])
      OBVIOUS
    <3>8. Len(cps) = m /\ \A k \in 1..m : cps[k] = CodePoint(raw[k], e)
      BY <3>2, <3>5, <3>7, CodePointsOfPage
    <3>9. ASSUME NEW k \in 1..m
          PROVE  BytesFor(cps[k], e) = {slice[k]}
      <4>1. raw[k] \in Byte /\ slice[k] = raw[k] /\ cps[k] = CodePoint(raw[k], e)
        BY <3>4, <3>5, <3>8, TextFacts
      <4>2. BytesFor(CodePoint(raw[k], e), e) = {raw[k]}
        BY <3>1, <4>1, BytesForOne
      <4> QED
        BY <4>1, <4>2
    <3> QED
      BY <2>3, <2>4, <2>7, <3>3, <3>5, <3>6, <3>7, <3>8, <3>9
  <2> QED
    BY <2>6, <2>7
<1> QED
  BY <1>1, CodecInvariance, PTL

-----------------------------------------------------------------------------
(* The digits of a number.                                                 *)

AreDigits(s) == s \in Text /\ \A i \in 1..Len(s) : IsDigit(s[i])

\* The partial results of Number, backwards, are the number without its low-order
\* digits.
LEMMA UptoFacts ==
  ASSUME NEW s, AreDigits(s), NEW g, IsUpto(g, s)
  PROVE  /\ \A k \in 0..Len(s) : g[k] \in Nat /\ WithoutDigits(g[Len(s)], Len(s) - k) = g[k]
         /\ \A k \in 1..Len(s) : g[k] % 10 = Digit(s[k])
         /\ \A k \in Nat : k >= Len(s) => WithoutDigits(g[Len(s)], k) = 0
<1>1. PICK n \in Nat : n = Len(s)
  BY TextFacts DEF AreDigits
<1>2. \A k \in 1..n : Digit(s[k]) \in 0..9
  BY <1>1 DEF AreDigits, IsDigit, Digit
<1>3. g[0] = 0 /\ \A k \in 1..n : g[k] = 10 * g[k - 1] + Digit(s[k])
  BY <1>1 DEF IsUpto
<1>4. \A k \in 0..n : g[k] \in Nat
  <2> DEFINE S == {k \in Nat : k <= n => g[k] \in Nat}
  <2>1. 0 \in S
    BY <1>3
  <2>2. ASSUME NEW k \in Nat, k \in S
        PROVE  k + 1 \in S
    <3> SUFFICES ASSUME k + 1 <= n
                 PROVE  g[k + 1] \in Nat
      OBVIOUS
    <3>1. k + 1 \in 1..n /\ (k + 1) - 1 = k /\ g[k] \in Nat
      BY <1>1, <2>2
    <3>2. PICK d \in 0..9 : d = Digit(s[k + 1])
      BY <1>2, <3>1
    <3>3. g[k + 1] = 10 * g[k] + d
      BY <1>3, <3>1, <3>2
    <3> QED
      BY <3>1, <3>3
  <2> HIDE DEF S
  <2>3. Nat \subseteq S
    BY <2>1, <2>2, NatSetInduction
  <2> QED
    BY <1>1, <2>3 DEF S
<1>5. ASSUME NEW k \in 1..n
      PROVE  g[k] % 10 = Digit(s[k]) /\ g[k] \div 10 = g[k - 1]
  <2>1. PICK d \in 0..9 : d = Digit(s[k])
    BY <1>2
  <2>2. PICK m \in Nat : m = g[k - 1]
    BY <1>1, <1>4
  <2>3. g[k] = 10 * m + d
    BY <1>3, <2>1, <2>2
  <2>4. (10 * m + d) % 10 = d /\ (10 * m + d) \div 10 = m
    OBVIOUS
  <2> QED
    BY <2>1, <2>2, <2>3, <2>4
<1>6. PICK v \in Nat : v = g[n]
  BY <1>1, <1>4
<1>7. /\ WithoutDigits(v, 0) = v
      /\ \A k \in Nat : WithoutDigits(v, k + 1) = WithoutDigits(v, k) \div 10
  BY WithoutDigitsFacts
<1>8. \A k \in 0..n : WithoutDigits(v, n - k) = g[k]
  <2> DEFINE S == {k \in Nat : k <= n => WithoutDigits(v, k) = g[n - k]}
  <2>1. 0 \in S
    BY <1>1, <1>6, <1>7
  <2>2. ASSUME NEW k \in Nat, k \in S
        PROVE  k + 1 \in S
    <3> SUFFICES ASSUME k + 1 <= n
                 PROVE  WithoutDigits(v, k + 1) = g[n - (k + 1)]
      OBVIOUS
    <3>1. PICK j \in 1..n : j = n - k /\ n - (k + 1) = j - 1
      BY <1>1
    <3>2. WithoutDigits(v, k) = g[j]
      BY <2>2, <3>1
    <3>3. g[j] \div 10 = g[j - 1]
      BY <1>5
    <3> QED
      BY <1>7, <3>1, <3>2, <3>3
  <2> HIDE DEF S
  <2>3. Nat \subseteq S
    BY <2>1, <2>2, NatSetInduction
  <2>4. ASSUME NEW k \in 0..n
        PROVE  WithoutDigits(v, n - k) = g[k]
    <3>1. PICK j \in Nat : j = n - k /\ j <= n /\ n - j = k
      BY <1>1
    <3> QED
      BY <2>3, <3>1 DEF S
  <2> QED
    BY <2>4
<1>9. ASSUME NEW k \in Nat, k >= n
      PROVE  WithoutDigits(v, k) = 0
  <2> DEFINE S == {j \in Nat : WithoutDigits(v, n + j) = 0}
  <2>1. 0 \in S
    <3>1. n + 0 = n - 0 /\ 0 \in 0..n
      BY <1>1
    <3> QED
      BY <1>3, <1>8, <3>1
  <2>2. ASSUME NEW j \in Nat, j \in S
        PROVE  j + 1 \in S
    <3>1. PICK m \in Nat : m = n + j /\ n + (j + 1) = m + 1
      BY <1>1
    <3>2. WithoutDigits(v, m) = 0
      BY <2>2, <3>1
    <3>3. WithoutDigits(v, m + 1) = 0 \div 10
      BY <1>7, <3>2
    <3>4. 0 \div 10 = 0
      OBVIOUS
    <3> QED
      BY <3>1, <3>3, <3>4
  <2> HIDE DEF S
  <2>3. Nat \subseteq S
    BY <2>1, <2>2, NatSetInduction
  <2>4. PICK j \in Nat : n + j = k
    <3>1. k - n \in Nat /\ n + (k - n) = k
      BY <1>1, <1>9
    <3> QED
      BY <3>1
  <2> QED
    BY <2>3, <2>4 DEF S
<1> QED
  BY <1>1, <1>4, <1>5, <1>6, <1>8, <1>9

\* The digits of a text are those of its number.
LEMMA NumberDigits ==
  ASSUME NEW s, AreDigits(s)
  PROVE  /\ Number(s) \in Nat
         /\ \A i \in 1..Len(s) : WithoutDigits(Number(s), Len(s) - i) % 10 = Digit(s[i])
         /\ \A k \in Nat : k >= Len(s) => WithoutDigits(Number(s), k) = 0
<1>1. PICK g : IsUpto(g, s) /\ Number(s) = g[Len(s)]
  BY NumberRecursion DEF AreDigits
<1>2. Len(s) \in 0..Len(s) /\ \A i \in 1..Len(s) : i \in 0..Len(s)
  BY TextFacts DEF AreDigits
<1> QED
  BY <1>1, <1>2, UptoFacts

\* A number is zero where all its digits are.
LEMMA ZeroDigits ==
  ASSUME NEW s, AreDigits(s), NEW k \in 0..Len(s), \A i \in 1..k : Digit(s[i]) = 0
  PROVE  WithoutDigits(Number(s), Len(s) - k) = 0
<1>1. PICK g : IsUpto(g, s) /\ Number(s) = g[Len(s)]
  BY NumberRecursion DEF AreDigits
<1>2. PICK n \in Nat : n = Len(s)
  BY TextFacts DEF AreDigits
<1> DEFINE S == {j \in Nat : j <= k => g[j] = 0}
<1>3. 0 \in S
  BY <1>1 DEF IsUpto
<1>4. ASSUME NEW j \in Nat, j \in S
      PROVE  j + 1 \in S
  <2> SUFFICES ASSUME j + 1 <= k
               PROVE  g[j + 1] = 0
    OBVIOUS
  <2>1. j + 1 \in 1..n /\ j + 1 \in 1..k /\ (j + 1) - 1 = j /\ g[j] = 0
    BY <1>2, <1>4
  <2>2. g[j + 1] = 10 * 0 + 0
    BY <1>1, <1>2, <2>1 DEF IsUpto
  <2> QED
    BY <2>2
<1> HIDE DEF S
<1>5. Nat \subseteq S
  BY <1>3, <1>4, NatSetInduction
<1>6. k \in Nat /\ k <= k
  BY <1>2
<1>7. g[k] = 0
  BY <1>5, <1>6 DEF S
<1> QED
  BY <1>1, <1>7, UptoFacts

\* The digits at the beginning of a text are the number without those at its end.
LEMMA BeginningNumber ==
  ASSUME NEW s, AreDigits(s), NEW t, AreDigits(t), Len(t) <= Len(s),
         \A i \in 1..Len(t) : t[i] = s[i]
  PROVE  \A k \in Nat : WithoutDigits(Number(t), k) =
                          WithoutDigits(Number(s), k + (Len(s) - Len(t)))
<1>1. PICK n \in Nat, m \in Nat : n = Len(s) /\ m = Len(t) /\ m <= n
  BY TextFacts DEF AreDigits
<1>2. PICK g : IsUpto(g, s) /\ Number(s) = g[n]
  BY <1>1, NumberRecursion DEF AreDigits
<1>3. PICK h : IsUpto(h, t) /\ Number(t) = h[m]
  BY <1>1, NumberRecursion DEF AreDigits
<1> DEFINE S == {j \in Nat : j <= m => h[j] = g[j]}
<1>4. 0 \in S
  BY <1>2, <1>3 DEF IsUpto
<1>5. ASSUME NEW j \in Nat, j \in S
      PROVE  j + 1 \in S
  <2> SUFFICES ASSUME j + 1 <= m
               PROVE  h[j + 1] = g[j + 1]
    OBVIOUS
  <2>1. PICK i : i = j + 1 /\ i \in 1..n /\ i \in 1..m /\ i - 1 = j /\ h[j] = g[j]
    BY <1>1, <1>5
  <2>2. g[i] = 10 * g[i - 1] + Digit(s[i]) /\ h[i] = 10 * h[i - 1] + Digit(t[i])
    BY <1>1, <1>2, <1>3, <2>1 DEF IsUpto
  <2> QED
    BY <1>1, <2>1, <2>2
<1> HIDE DEF S
<1>6. Nat \subseteq S
  BY <1>4, <1>5, NatSetInduction
<1>7. ASSUME NEW k \in Nat, k <= m
      PROVE  WithoutDigits(h[m], k) = WithoutDigits(g[n], k + (n - m))
  <2>1. PICK j \in Nat : j = m - k /\ j <= m /\ j \in 0..m /\ j \in 0..n /\ k = m - j /\ k + (n - m) = n - j
    <3>1. m - k \in Nat /\ k = m - (m - k) /\ k + (n - m) = n - (m - k)
      BY <1>1, <1>7
    <3>2. m - k <= m /\ m - k \in 0..m /\ m - k \in 0..n
      BY <1>1, <1>7
    <3> QED
      BY <3>1, <3>2
  <2>2. WithoutDigits(h[m], m - j) = h[j] /\ WithoutDigits(g[n], n - j) = g[j]
    BY <1>1, <1>2, <1>3, <2>1, UptoFacts
  <2>3. h[j] = g[j]
    BY <1>6, <2>1 DEF S
  <2> QED
    BY <2>1, <2>2, <2>3
<1>8. ASSUME NEW k \in Nat, ~(k <= m)
      PROVE  WithoutDigits(h[m], k) = WithoutDigits(g[n], k + (n - m))
  <2>1. k >= m /\ k + (n - m) \in Nat /\ k + (n - m) >= n
    BY <1>1, <1>8
  <2> QED
    BY <1>1, <1>2, <1>3, <2>1, UptoFacts
<1> QED
  BY <1>1, <1>2, <1>3, <1>7, <1>8

\* A text of digits is its number with leading zeros.
LEMMA ZeroPadOfNumber ==
  ASSUME NEW s, AreDigits(s)
  PROVE  ZeroPad(Number(s), Len(s)) = s
<1>1. PICK n \in Nat : n = Len(s) /\ s \in Bytes(n)
  BY TextFacts DEF AreDigits
<1>2. Number(s) \in Nat
  BY NumberDigits
<1>3. ASSUME NEW i \in 1..n
      PROVE  ZeroPad(Number(s), n)[i] = s[i]
  <2>1. ZeroPad(Number(s), n)[i] = 48 + (WithoutDigits(Number(s), n - i) % 10)
    BY <1>2, ZeroPadFacts
  <2>2. WithoutDigits(Number(s), n - i) % 10 = Digit(s[i])
    BY <1>1, NumberDigits
  <2>3. s[i] \in Int
    BY <1>1 DEF AreDigits, IsDigit
  <2> QED
    BY <2>1, <2>2, <2>3 DEF Digit
<1>4. ZeroPad(Number(s), n) \in Bytes(n)
  BY <1>2, ZeroPadFacts
<1> QED
  BY <1>1, <1>3, <1>4, SameBytes

\* The last two digits, and the number before them.
LEMMA LastTwo ==
  ASSUME NEW s, AreDigits(s), NEW m \in Nat, Len(s) = m + 2
  PROVE  /\ AreDigits(SubSeq(s, 1, m)) /\ Len(SubSeq(s, 1, m)) = m
         /\ Number(SubSeq(s, 1, m)) \in Nat
         /\ Number(SubSeq(s, m + 1, m + 2)) \in 0..99
         /\ Number(s) = 100 * Number(SubSeq(s, 1, m)) + Number(SubSeq(s, m + 1, m + 2))
<1>1. PICK a : /\ a = SubSeq(s, 1, m) /\ AreDigits(a) /\ Len(a) = m
               /\ \A i \in 1..m : a[i] = s[i]
  <2>0. s \in Text /\ m \in Nat /\ m <= Len(s)
    BY DEF AreDigits
  <2>1. s \in Text /\ \A i \in 1..m : i \in 1..Len(s)
    BY <2>0
  <2>2. SubSeq(s, 1, m) \in Bytes(m) /\ \A i \in 1..m : SubSeq(s, 1, m)[i] = s[i]
    BY <2>0, BeginningFacts, Zenon
  <2>3. PICK a : a = SubSeq(s, 1, m) /\ a \in Bytes(m) /\ \A i \in 1..m : a[i] = s[i]
    BY <2>2
  <2>4. a \in Text /\ Len(a) = m
    BY <2>3, BytesFacts
  <2> QED
    BY <2>1, <2>3, <2>4 DEF AreDigits
<1>2. PICK b : /\ b = SubSeq(s, m + 1, m + 2) /\ AreDigits(b) /\ Len(b) = 2
               /\ b[1] = s[m + 1] /\ b[2] = s[m + 2]
  <2>1. s \in Text /\ 2 \in Nat /\ m + 2 <= Len(s) /\ \A i \in 1..2 : m + i \in 1..Len(s)
    BY DEF AreDigits
  <2>2. /\ SubSeq(s, m + 1, m + 2) \in Bytes(2)
        /\ \A i \in 1..2 : SubSeq(s, m + 1, m + 2)[i] = s[m + i]
    BY <2>1, PartFacts
  <2>3. PICK b : /\ b = SubSeq(s, m + 1, m + 2) /\ b \in Bytes(2)
                 /\ \A i \in 1..2 : b[i] = s[m + i]
    BY <2>2
  <2>4. b \in Text /\ Len(b) = 2
    BY <2>1, <2>3, BytesFacts
  <2>5. b[1] = s[m + 1] /\ b[2] = s[m + 2]
    <3>1. 1 \in 1..2 /\ 2 \in 1..2
      OBVIOUS
    <3> QED
      BY <2>3, <3>1
  <2>6. AreDigits(b)
    <3>1. \A i \in 1..2 : IsDigit(b[i])
      BY <2>1, <2>3 DEF AreDigits
    <3> QED
      BY <2>4, <3>1 DEF AreDigits
  <2> QED
    BY <2>3, <2>4, <2>5, <2>6
<1>3. PICK d, e \in 0..9 : d = Digit(s[m + 1]) /\ e = Digit(s[m + 2])
  <2>1. m + 1 \in 1..Len(s) /\ m + 2 \in 1..Len(s)
    OBVIOUS
  <2> QED
    BY <2>1 DEF AreDigits, IsDigit, Digit
<1>4. Number(b) = 10 * d + e
  <2>1. PICK g : IsUpto(g, b) /\ Number(b) = g[2]
    BY <1>2, NumberRecursion DEF AreDigits
  <2>2. 1 \in 1..2 /\ 2 \in 1..2 /\ 1 - 1 = 0 /\ 2 - 1 = 1
    OBVIOUS
  <2>3. g[0] = 0 /\ g[1] = 10 * g[0] + Digit(b[1]) /\ g[2] = 10 * g[1] + Digit(b[2])
    BY <1>2, <2>1, <2>2 DEF IsUpto
  <2> QED
    BY <1>2, <1>3, <2>1, <2>3
<1>5. PICK g : IsUpto(g, s) /\ Number(s) = g[m + 2]
  BY NumberRecursion DEF AreDigits
<1>6. PICK v \in Nat : v = Number(a) /\ v = g[m]
  <2>1. Number(a) \in Nat
    BY <1>1, NumberDigits
  <2>2. WithoutDigits(Number(a), 0) = WithoutDigits(Number(s), (m + 2) - m) /\ m \in 0..(m + 2)
    <3>1. Len(a) <= Len(s) /\ 0 \in Nat
      BY <1>1
    <3>2. \A i \in 1..Len(a) : a[i] = s[i]
      BY <1>1
    <3>3. \A k \in Nat : WithoutDigits(Number(a), k) = WithoutDigits(Number(s), k + (Len(s) - Len(a)))
      BY <1>1, <3>1, <3>2, BeginningNumber
    <3>4. WithoutDigits(Number(a), 0) = WithoutDigits(Number(s), 0 + (Len(s) - Len(a)))
      BY <3>1, <3>3
    <3>5. 0 + (Len(s) - Len(a)) = (m + 2) - m
      BY <1>1
    <3> QED
      BY <3>4, <3>5
  <2>3. WithoutDigits(g[m + 2], (m + 2) - m) = g[m]
    BY <1>5, <2>2, UptoFacts
  <2>4. WithoutDigits(Number(a), 0) = Number(a)
    BY <2>1, WithoutDigitsFacts
  <2> QED
    BY <1>5, <2>1, <2>2, <2>3, <2>4
<1>7. g[m + 1] = 10 * v + d
  <2>1. m + 1 \in 1..Len(s) /\ (m + 1) - 1 = m
    OBVIOUS
  <2> QED
    BY <1>3, <1>5, <1>6, <2>1 DEF IsUpto
<1>8. g[m + 2] = 10 * (10 * v + d) + e
  <2>1. m + 2 \in 1..Len(s) /\ (m + 2) - 1 = m + 1
    OBVIOUS
  <2> QED
    BY <1>3, <1>5, <1>7, <2>1 DEF IsUpto
<1>9. 10 * (10 * v + d) + e = 100 * v + (10 * d + e) /\ 10 * d + e \in 0..99
  OBVIOUS
<1> QED
  BY <1>1, <1>2, <1>4, <1>5, <1>6, <1>8, <1>9

TwoMore(s, m, i, n) ==
  /\ AreDigits(SubSeq(s, 1, m)) /\ Len(SubSeq(s, 1, m)) = m
  /\ Number(SubSeq(s, 1, m)) \in Nat
  /\ Number(SubSeq(s, i, n)) \in 0..99
  /\ Number(s) = 100 * Number(SubSeq(s, 1, m)) + Number(SubSeq(s, i, n))

LEMMA TwoMoreHolds ==
  ASSUME NEW s, AreDigits(s), NEW m \in Nat, NEW i, NEW n,
         i = m + 1, n = m + 2, Len(s) = n
  PROVE  TwoMore(s, m, i, n)
<1>1. Len(s) = m + 2
  OBVIOUS
<1>2. TwoMore(s, m, m + 1, m + 2)
  BY <1>1, LastTwo DEF TwoMore
<1> QED
  BY <1>2

\* A part of the beginning of a text is that part of the text.
LEMMA PartOfBeginning ==
  ASSUME NEW s \in Text, NEW n \in Nat, n <= Len(s), NEW a \in Nat, NEW k \in Nat, a + k <= n
  PROVE  SubSeq(SubSeq(s, 1, n), a + 1, a + k) = SubSeq(s, a + 1, a + k)
<1>1. Len(s) \in Nat
  BY TextFacts
<1>2. 0 + n <= Len(s) /\ 0 + 1 = 1 /\ 0 + n = n /\ \A b \in 1..n : 0 + b = b
  OBVIOUS
<1>3. /\ SubSeq(s, 0 + 1, 0 + n) \in Bytes(n)
      /\ \A b \in 1..n : SubSeq(s, 0 + 1, 0 + n)[b] = s[0 + b]
  BY <1>2, PartFacts
<1>4. PICK t : t = SubSeq(s, 1, n) /\ t \in Bytes(n) /\ \A b \in 1..n : t[b] = s[b]
  BY <1>2, <1>3
<1>5. t \in Text /\ Len(t) = n
  BY <1>4, BytesFacts
<1>6. SubSeq(t, a + 1, a + k) \in Bytes(k) /\ \A b \in 1..k : SubSeq(t, a + 1, a + k)[b] = t[a + b]
  BY <1>5, PartFacts
<1>7. a + k <= Len(s)
  BY <1>1
<1>8. SubSeq(s, a + 1, a + k) \in Bytes(k) /\ \A b \in 1..k : SubSeq(s, a + 1, a + k)[b] = s[a + b]
  BY <1>7, PartFacts
<1>9. \A b \in 1..k : a + b \in 1..n
  OBVIOUS
<1>10. \A b \in 1..k : SubSeq(t, a + 1, a + k)[b] = SubSeq(s, a + 1, a + k)[b]
  BY <1>4, <1>6, <1>8, <1>9
<1>11. SubSeq(t, a + 1, a + k) = SubSeq(s, a + 1, a + k)
  BY <1>6, <1>8, <1>10, SameBytes
<1> QED
  BY <1>4, <1>11

-----------------------------------------------------------------------------
(* Dates and times.                                                        *)

\* The number n has b and c as its last four digits, after a.
Parts(n, a, b, c) ==
  /\ a \in Nat /\ b \in 0..99 /\ c \in 0..99
  /\ n = 100 * (100 * a + b) + c

LEMMA PartsFacts ==
  ASSUME NEW n, NEW a, NEW b, NEW c, Parts(n, a, b, c)
  PROVE  n \in Nat /\ n % 100 = c /\ (n \div 100) % 100 = b /\ n \div 10000 = a
<1>0. a \in Nat /\ b \in 0..99 /\ c \in 0..99 /\ n = 100 * (100 * a + b) + c
  BY DEF Parts
<1>1. PICK m \in Nat : m = 100 * a + b
  BY <1>0
<1>2. n = 100 * m + c /\ n \in Nat
  BY <1>0, <1>1
<1>3. n % 100 = c /\ n \div 100 = m
  BY <1>0, <1>2, SMT
<1>4. m % 100 = b
  BY <1>0, <1>1, SMT
<1>5. PICK r \in Nat : r <= 9999 /\ n = 10000 * a + r
  <2>1. 100 * b + c \in Nat /\ 100 * b + c <= 9999
    BY <1>0
  <2>2. n = 10000 * a + (100 * b + c)
    BY <1>0, SMT
  <2> QED
    BY <2>1, <2>2
<1>6. n \div 10000 = a
  BY <1>0, <1>5, SMT
<1> QED
  BY <1>2, <1>3, <1>4, <1>6, SMT

\* Six digits are three numbers of two, as the hour, minute and second of a time.
LEMMA TimeParts ==
  ASSUME NEW s, AreDigits(s), Len(s) = 6
  PROVE  \E h, mi, sec :
           /\ h = Number(SubSeq(s, 1, 2)) /\ mi = Number(SubSeq(s, 3, 4))
           /\ sec = Number(SubSeq(s, 5, 6))
           /\ h \in 0..99 /\ Parts(Number(s), h, mi, sec)
<1> DEFINE s4 == SubSeq(s, 1, 4)
<1>1. /\ AreDigits(s4) /\ Len(s4) = 4
      /\ Number(SubSeq(s, 5, 6)) \in 0..99
      /\ Number(s) = 100 * Number(s4) + Number(SubSeq(s, 5, 6))
  <2>1. 4 \in Nat /\ 5 = 4 + 1 /\ 6 = 4 + 2
    OBVIOUS
  <2>2. TwoMore(s, 4, 5, 6)
    BY <2>1, TwoMoreHolds, Zenon
  <2> QED
    BY <2>2 DEF TwoMore
<1>2. /\ Number(SubSeq(s4, 1, 2)) \in Nat /\ AreDigits(SubSeq(s4, 1, 2)) /\ Len(SubSeq(s4, 1, 2)) = 2
      /\ Number(SubSeq(s4, 3, 4)) \in 0..99
      /\ Number(s4) = 100 * Number(SubSeq(s4, 1, 2)) + Number(SubSeq(s4, 3, 4))
  <2> HIDE DEF s4
  <2>1. 2 \in Nat /\ 3 = 2 + 1 /\ 4 = 2 + 2
    OBVIOUS
  <2>2. TwoMore(s4, 2, 3, 4)
    BY <1>1, <2>1, TwoMoreHolds, Zenon
  <2> QED
    BY <2>2 DEF TwoMore
<1>3. SubSeq(s4, 1, 2) = SubSeq(s, 1, 2) /\ SubSeq(s4, 3, 4) = SubSeq(s, 3, 4)
  <2>1. s \in Text /\ 4 \in Nat /\ 4 <= Len(s)
    BY DEF AreDigits
  <2>2. 0 + 1 = 1 /\ 0 + 2 = 2 /\ 2 + 1 = 3 /\ 2 + 2 = 4 /\ 0 \in Nat /\ 2 \in Nat /\ 0 + 2 <= 4 /\ 2 + 2 <= 4
    OBVIOUS
  <2>3. SubSeq(s4, 0 + 1, 0 + 2) = SubSeq(s, 0 + 1, 0 + 2)
    BY <2>1, <2>2, PartOfBeginning
  <2>4. SubSeq(s4, 2 + 1, 2 + 2) = SubSeq(s, 2 + 1, 2 + 2)
    BY <2>1, <2>2, PartOfBeginning
  <2> QED
    BY <2>2, <2>3, <2>4
<1>4. PICK t : t = SubSeq(s, 1, 2) /\ AreDigits(t) /\ Len(t) = 2
  BY <1>2, <1>3
<1>5. Number(t) \in 0..99
  <2>0. 0 \in Nat /\ 1 = 0 + 1 /\ 2 = 0 + 2
    OBVIOUS
  <2>1. TwoMore(t, 0, 1, 2)
    BY <1>4, <2>0, TwoMoreHolds, Zenon
  <2>2. /\ Len(SubSeq(t, 1, 0)) = 0 /\ AreDigits(SubSeq(t, 1, 0)) /\ Number(SubSeq(t, 1, 0)) \in Nat
        /\ Number(SubSeq(t, 1, 2)) \in 0..99
        /\ Number(t) = 100 * Number(SubSeq(t, 1, 0)) + Number(SubSeq(t, 1, 2))
    BY <2>1 DEF TwoMore
  <2>3. Number(SubSeq(t, 1, 0)) = 0
    <3>1. PICK e : e = SubSeq(t, 1, 0) /\ AreDigits(e) /\ Len(e) = 0
      BY <2>2
    <3>2. PICK g : IsUpto(g, e) /\ Number(e) = g[0]
      BY <3>1, NumberRecursion DEF AreDigits
    <3> QED
      BY <3>1, <3>2 DEF IsUpto
  <2> QED
    BY <2>2, <2>3
<1>6. PICK h, mi, sec :
        /\ h = Number(SubSeq(s, 1, 2)) /\ mi = Number(SubSeq(s, 3, 4))
        /\ sec = Number(SubSeq(s, 5, 6))
        /\ h \in 0..99 /\ mi \in 0..99 /\ sec \in 0..99
  BY <1>1, <1>2, <1>3, <1>4, <1>5
<1>7. Number(s) = 100 * (100 * h + mi) + sec
  <2> HIDE DEF s4
  <2>1. Number(s4) = 100 * h + mi
    BY <1>2, <1>3, <1>6
  <2>2. Number(s) = 100 * Number(s4) + sec
    BY <1>1, <1>6
  <2> QED
    BY <2>1, <2>2
<1> QED
  BY <1>6, <1>7 DEF Parts

\* Eight digits are a year of four digits, a month and a day.
LEMMA DateParts ==
  ASSUME NEW s, AreDigits(s), Len(s) = 8
  PROVE  \E y, m, d :
           /\ y = Number(SubSeq(s, 1, 4)) /\ m = Number(SubSeq(s, 5, 6))
           /\ d = Number(SubSeq(s, 7, 8))
           /\ Parts(Number(s), y, m, d)
<1> DEFINE s6 == SubSeq(s, 1, 6)
<1>1. /\ AreDigits(s6) /\ Len(s6) = 6
      /\ Number(SubSeq(s, 7, 8)) \in 0..99
      /\ Number(s) = 100 * Number(s6) + Number(SubSeq(s, 7, 8))
  <2>1. 6 \in Nat /\ 7 = 6 + 1 /\ 8 = 6 + 2
    OBVIOUS
  <2>2. TwoMore(s, 6, 7, 8)
    BY <2>1, TwoMoreHolds, Zenon
  <2> QED
    BY <2>2 DEF TwoMore
<1>2. /\ Number(SubSeq(s6, 1, 4)) \in Nat
      /\ Number(SubSeq(s6, 5, 6)) \in 0..99
      /\ Number(s6) = 100 * Number(SubSeq(s6, 1, 4)) + Number(SubSeq(s6, 5, 6))
  <2> HIDE DEF s6
  <2>1. 4 \in Nat /\ 5 = 4 + 1 /\ 6 = 4 + 2
    OBVIOUS
  <2>2. TwoMore(s6, 4, 5, 6)
    BY <1>1, <2>1, TwoMoreHolds, Zenon
  <2> QED
    BY <2>2 DEF TwoMore
<1>3. SubSeq(s6, 1, 4) = SubSeq(s, 1, 4) /\ SubSeq(s6, 5, 6) = SubSeq(s, 5, 6)
  <2>1. s \in Text /\ 6 \in Nat /\ 6 <= Len(s)
    BY DEF AreDigits
  <2>2. 0 + 1 = 1 /\ 0 + 4 = 4 /\ 4 + 1 = 5 /\ 4 + 2 = 6 /\ 0 \in Nat /\ 4 \in Nat /\ 2 \in Nat /\ 0 + 4 <= 6 /\ 4 + 2 <= 6
    OBVIOUS
  <2>3. SubSeq(s6, 0 + 1, 0 + 4) = SubSeq(s, 0 + 1, 0 + 4)
    BY <2>1, <2>2, PartOfBeginning
  <2>4. SubSeq(s6, 4 + 1, 4 + 2) = SubSeq(s, 4 + 1, 4 + 2)
    BY <2>1, <2>2, PartOfBeginning
  <2> QED
    BY <2>2, <2>3, <2>4
<1>4. PICK y, m, d :
        /\ y = Number(SubSeq(s, 1, 4)) /\ m = Number(SubSeq(s, 5, 6))
        /\ d = Number(SubSeq(s, 7, 8))
        /\ y \in Nat /\ m \in 0..99 /\ d \in 0..99
  BY <1>1, <1>2, <1>3
<1>5. Number(s) = 100 * (100 * y + m) + d
  <2> HIDE DEF s6
  <2>1. Number(s6) = 100 * y + m
    BY <1>2, <1>3, <1>4
  <2>2. Number(s) = 100 * Number(s6) + d
    BY <1>1, <1>4
  <2> QED
    BY <2>1, <2>2
<1> QED
  BY <1>4, <1>5 DEF Parts

LEMMA AllDigitsFacts ==
  ASSUME NEW s \in Text
  PROVE  AllDigits(s) <=> AreDigits(s) /\ Len(s) > 0
<1>1. Len(s) \in Nat /\ DOMAIN s = 1..Len(s) /\ (s = <<>> <=> Len(s) = 0)
  BY TextFacts DEF Text
<1> QED
  BY <1>1 DEF AllDigits, AreDigits

\* A date is read as the number of its digits if those are a date of the calendar.
LEMMA DateIsValue ==
  ASSUME NEW text \in Text, NEW rule, Kind(rule) = "date"
  PROVE  /\ IsValue(rule, text) <=>
              /\ Len(text) = 8 /\ AllDigits(text)
              /\ IsDate(Number(SubSeq(text, 1, 4)), Number(SubSeq(text, 5, 6)),
                        Number(SubSeq(text, 7, 8)))
         /\ IsValue(rule, text) => Denotes(rule, text, Number(text))
<1>1. \A n : Denotes(rule, text, n) <=>
               text = ZeroPad(n, 8) /\ IsDate(n \div 10000, (n \div 100) % 100, n % 100)
  <2> HIDE DEF IsDate, ZeroPad
  <2> QED
    BY DEF Denotes
<1>2. IsValue(rule, text) <=> AllDigits(text) /\ Denotes(rule, text, Number(text))
  BY DEF IsValue
<1>3. AllDigits(text) => AreDigits(text)
  BY AllDigitsFacts
<1>4. AllDigits(text) /\ text = ZeroPad(Number(text), 8) => Len(text) = 8
  <2> SUFFICES ASSUME AllDigits(text), text = ZeroPad(Number(text), 8)
               PROVE  Len(text) = 8
    OBVIOUS
  <2>1. Number(text) \in Int
    BY <1>3, NumberDigits
  <2>2. PICK n \in Nat : n = 8
    OBVIOUS
  <2>3. ZeroPad(Number(text), n) \in Bytes(n)
    BY <2>1, ZeroPadFacts, Zenon
  <2>4. text \in Bytes(n)
    BY <2>2, <2>3, Zenon
  <2>5. Len(text) = n
    BY <2>4, BytesFacts, Zenon
  <2> QED
    BY <2>2, <2>5, Zenon
<1>5. ASSUME AllDigits(text), Len(text) = 8
      PROVE  /\ text = ZeroPad(Number(text), 8)
             /\ Number(text) \div 10000 = Number(SubSeq(text, 1, 4))
             /\ (Number(text) \div 100) % 100 = Number(SubSeq(text, 5, 6))
             /\ Number(text) % 100 = Number(SubSeq(text, 7, 8))
  <2>1. text = ZeroPad(Number(text), 8)
    BY <1>3, <1>5, ZeroPadOfNumber
  <2>2. PICK y, m, d :
          /\ y = Number(SubSeq(text, 1, 4)) /\ m = Number(SubSeq(text, 5, 6))
          /\ d = Number(SubSeq(text, 7, 8))
          /\ Parts(Number(text), y, m, d)
    BY <1>3, <1>5, DateParts
  <2>3. PICK n : n = Number(text) /\ Parts(n, y, m, d)
    BY <2>2
  <2>4. n % 100 = d /\ (n \div 100) % 100 = m /\ n \div 10000 = y
    BY <2>3, PartsFacts, SMT
  <2> QED
    BY <2>1, <2>2, <2>3, <2>4, SMT
<1> QED
  BY <1>1, <1>2, <1>4, <1>5, SMT

LEMMA TimeIsValue ==
  ASSUME NEW text \in Text, NEW rule, Kind(rule) = "time"
  PROVE  /\ IsValue(rule, text) <=>
              /\ Len(text) = 6 /\ AllDigits(text)
              /\ Number(SubSeq(text, 1, 2)) <= 23
              /\ IsValidTime(Number(SubSeq(text, 1, 2)), Number(SubSeq(text, 3, 4)),
                             Number(SubSeq(text, 5, 6)))
         /\ IsValue(rule, text) => Denotes(rule, text, Number(text))
<1>1. \A n : Denotes(rule, text, n) <=>
               text = ZeroPad(n, 6) /\ n <= 235959 /\ (n \div 100) % 100 < 60 /\ n % 100 < 60
  <2> HIDE DEF ZeroPad
  <2> QED
    BY DEF Denotes
<1>2. IsValue(rule, text) <=> AllDigits(text) /\ Denotes(rule, text, Number(text))
  BY DEF IsValue
<1>3. AllDigits(text) => AreDigits(text)
  BY AllDigitsFacts
<1>4. AllDigits(text) /\ text = ZeroPad(Number(text), 6) => Len(text) = 6
  <2> SUFFICES ASSUME AllDigits(text), text = ZeroPad(Number(text), 6)
               PROVE  Len(text) = 6
    OBVIOUS
  <2>1. Number(text) \in Int
    BY <1>3, NumberDigits
  <2>2. PICK n \in Nat : n = 6
    OBVIOUS
  <2>3. ZeroPad(Number(text), n) \in Bytes(n)
    BY <2>1, ZeroPadFacts, Zenon
  <2>4. text \in Bytes(n)
    BY <2>2, <2>3, Zenon
  <2>5. Len(text) = n
    BY <2>4, BytesFacts, Zenon
  <2> QED
    BY <2>2, <2>5, Zenon
<1>5. ASSUME AllDigits(text), Len(text) = 6
      PROVE  /\ text = ZeroPad(Number(text), 6)
             /\ /\ Number(text) <= 235959
                /\ (Number(text) \div 100) % 100 < 60 /\ Number(text) % 100 < 60
                <=>
                /\ Number(SubSeq(text, 1, 2)) <= 23
                /\ IsValidTime(Number(SubSeq(text, 1, 2)), Number(SubSeq(text, 3, 4)),
                               Number(SubSeq(text, 5, 6)))
  <2>1. text = ZeroPad(Number(text), 6)
    BY <1>3, <1>5, ZeroPadOfNumber
  <2>2. PICK h, mi, sec :
          /\ h = Number(SubSeq(text, 1, 2)) /\ mi = Number(SubSeq(text, 3, 4))
          /\ sec = Number(SubSeq(text, 5, 6))
          /\ Parts(Number(text), h, mi, sec)
    BY <1>3, <1>5, TimeParts
  <2>3. PICK n : n = Number(text) /\ Parts(n, h, mi, sec)
    BY <2>2
  <2>4. n % 100 = sec /\ (n \div 100) % 100 = mi
    BY <2>3, PartsFacts, SMT
  <2>5. n <= 235959 /\ mi < 60 /\ sec < 60 <=> h <= 23 /\ IsValidTime(h, mi, sec)
    BY <2>3, SMT DEF IsValidTime, Parts
  <2>6. /\ n <= 235959 /\ (n \div 100) % 100 < 60 /\ n % 100 < 60
        <=> h <= 23 /\ IsValidTime(h, mi, sec)
    BY <2>4, <2>5, SMT
  <2> HIDE DEF IsValidTime
  <2> QED
    BY <2>1, <2>2, <2>3, <2>6, SMT
<1> QED
  BY <1>1, <1>2, <1>4, <1>5, SMT

-----------------------------------------------------------------------------
(* The shape of a decimal.                                                 *)

\* The position p is that of the first point of s, or one past the end.
PointsTo(s, p) ==
  /\ p \in 1..(Len(s) + 1)
  /\ p <= Len(s) => s[p] = Point
  /\ \A i \in 1..Len(s) : i < p => s[i] # Point

LEMMA PointAtIs ==
  ASSUME NEW s \in Text, NEW p, PointsTo(s, p)
  PROVE  PointAt(s) = p
<1> DEFINE points == {i \in DOMAIN s : s[i] = Point}
           IsFirst(i) == i \in points /\ \A j \in points : i <= j
<1>1. DOMAIN s = 1..Len(s) /\ Len(s) \in Nat
  BY TextFacts
<1>2. /\ p \in 1..(Len(s) + 1) /\ (p <= Len(s) => s[p] = Point)
      /\ \A i \in 1..Len(s) : i < p => s[i] # Point
  BY DEF PointsTo
<1>3. CASE p <= Len(s)
  <2>1. p \in points /\ \A j \in points : p <= j
    BY <1>1, <1>2, <1>3
  <2>2. \A j \in points : j \in Int
    BY <1>1
  <2> HIDE DEF points
  <2>3. ASSUME NEW i, IsFirst(i)
        PROVE  i = p
    BY <1>1, <1>2, <2>1, <2>2, <2>3
  <2>4. (CHOOSE i \in points : \A j \in points : i <= j) = p
    BY <2>1, <2>3
  <2>5. points # {}
    BY <2>1
  <2> QED
    BY <2>4, <2>5 DEF PointAt, points
<1>4. CASE ~(p <= Len(s))
  <2>1. p = Len(s) + 1
    BY <1>1, <1>2, <1>4
  <2>2. points = {}
    BY <1>1, <1>2, <2>1
  <2> QED
    BY <2>1, <2>2 DEF PointAt
<1> QED
  BY <1>3, <1>4

LEMMA PointsToSome ==
  ASSUME NEW s \in Text
  PROVE  PointsTo(s, PointAt(s))
<1> DEFINE points == {i \in 1..Len(s) : s[i] = Point}
<1>1. Len(s) \in Nat
  BY TextFacts
<1>2. CASE points = {}
  <2>1. PointsTo(s, Len(s) + 1)
    BY <1>1, <1>2 DEF PointsTo
  <2> QED
    BY <2>1, PointAtIs
<1>3. CASE points # {}
  <2>1. points \in SUBSET Nat
    BY <1>1
  <2>2. PICK p \in points : \A j \in points : p <= j
    BY <1>3, <2>1, LeastElement
  <2>3. PointsTo(s, p)
    BY <1>1, <2>2 DEF PointsTo
  <2> QED
    BY <2>3, PointAtIs
<1> QED
  BY <1>2, <1>3

\* After the first o bytes of the text come r bytes that are digits but for a point
\* at q, if q <= r; all other bytes are signs.
Shape(text, o, r, q) ==
  /\ o \in Nat /\ r \in Nat /\ o + r <= Len(text) /\ q \in 1..(r + 1)
  /\ \A a \in 1..r : IF a = q THEN text[o + a] = Point ELSE IsDigit(text[o + a])
  /\ \A i \in 1..Len(text) : i <= o \/ i > o + r => text[i] \in {Plus, Minus}

\* The bytes around the r bytes after o are no digits and no points.
LEMMA ShapeFacts ==
  ASSUME NEW text \in Text, NEW o, NEW r, NEW q, Shape(text, o, r, q)
  PROVE  /\ PointAt(text) = IF q <= r THEN o + q ELSE Len(text) + 1
         /\ \A i : i \in Digits(text) <=> \E a \in 1..r : a # q /\ i = o + a
<1>1. /\ o \in Nat /\ r \in Nat /\ o + r <= Len(text) /\ q \in 1..(r + 1)
      /\ \A a \in 1..r : IF a = q THEN text[o + a] = Point ELSE IsDigit(text[o + a])
      /\ \A i \in 1..Len(text) : i <= o \/ i > o + r => text[i] \in {Plus, Minus}
  BY DEF Shape
<1>2. DOMAIN text = 1..Len(text) /\ Len(text) \in Nat
  BY TextFacts
<1>3. \A c : (IsDigit(c) => c # Point) /\ (c \in {Plus, Minus} => c # Point /\ ~IsDigit(c))
  BY DEF IsDigit, Point, Plus, Minus
<1>4. ~IsDigit(Point)
  BY DEF IsDigit, Point
<1>5. ASSUME NEW i \in 1..Len(text)
      PROVE  \/ i <= o \/ i > o + r
             \/ \E a \in 1..r : i = o + a
  <2> SUFFICES ASSUME ~(i <= o), ~(i > o + r)
               PROVE  \E a \in 1..r : i = o + a
    OBVIOUS
  <2>1. i - o \in 1..r /\ i = o + (i - o)
    BY <1>1
  <2> QED
    BY <2>1
<1>6. \A a \in 1..r : o + a \in 1..Len(text)
  BY <1>1, <1>2
<1>7. ASSUME NEW i
      PROVE  i \in Digits(text) <=> \E a \in 1..r : a # q /\ i = o + a
  <2>1. ASSUME i \in Digits(text)
        PROVE  \E a \in 1..r : a # q /\ i = o + a
    <3>1. i \in 1..Len(text) /\ IsDigit(text[i])
      BY <1>2, <2>1 DEF Digits
    <3>2. ~(i <= o \/ i > o + r)
      BY <1>1, <1>3, <3>1
    <3>3. PICK a \in 1..r : i = o + a
      BY <1>5, <3>1, <3>2
    <3>4. a # q
      BY <1>1, <1>4, <3>1, <3>3
    <3> QED
      BY <3>3, <3>4
  <2>2. ASSUME NEW a \in 1..r, a # q, i = o + a
        PROVE  i \in Digits(text)
    <3>1. i \in 1..Len(text)
      BY <1>6, <2>2
    <3>2. IsDigit(text[i])
      BY <1>1, <2>2
    <3> QED
      BY <1>2, <3>1, <3>2 DEF Digits
  <2> QED
    BY <2>1, <2>2
<1>8. \A i \in 1..Len(text) : text[i] = Point => i = o + q /\ q <= r
  <2> SUFFICES ASSUME NEW i \in 1..Len(text), text[i] = Point
               PROVE  i = o + q /\ q <= r
    OBVIOUS
  <2>1. ~(i <= o \/ i > o + r)
    BY <1>1, <1>3
  <2>2. PICK a \in 1..r : i = o + a
    BY <1>5, <2>1
  <2>3. a = q
    BY <1>1, <1>4, <2>2
  <2> QED
    BY <1>1, <2>2, <2>3
<1>9. PointsTo(text, IF q <= r THEN o + q ELSE Len(text) + 1)
  <2>1. CASE q <= r
    <3>1. PICK p : p = o + q /\ p \in 1..Len(text) /\ text[p] = Point
      BY <1>1, <1>6, <2>1
    <3>2. \A i \in 1..Len(text) : i < p => text[i] # Point
      BY <1>1, <1>2, <1>8, <3>1
    <3>3. PointsTo(text, p)
      BY <1>2, <3>1, <3>2 DEF PointsTo
    <3> QED
      BY <2>1, <3>1, <3>3
  <2>2. CASE ~(q <= r)
    <3>1. \A i \in 1..Len(text) : text[i] # Point
      BY <1>8, <2>2
    <3>2. PointsTo(text, Len(text) + 1)
      BY <1>2, <3>1 DEF PointsTo
    <3> QED
      BY <2>2, <3>2
  <2> QED
    BY <2>1, <2>2
<1> QED
  BY <1>7, <1>9, PointAtIs

\* The places of the digits: from q - 2 + decimals down to decimals before the point,
\* from decimals - 1 down after it.
LEMMA ShapePlaces ==
  ASSUME NEW text \in Text, NEW o, NEW r, NEW q, Shape(text, o, r, q), NEW decimals \in Nat
  PROVE  /\ \A a \in 1..r : a < q => Place(text, decimals, o + a) = decimals + (q - 1 - a)
         /\ \A a \in 1..r : a > q => Place(text, decimals, o + a) = decimals - (a - q)
         /\ Cardinality({i \in Digits(text) : i > PointAt(text)}) = IF q <= r THEN r - q ELSE 0
<1>1. o \in Nat /\ r \in Nat /\ o + r <= Len(text) /\ q \in 1..(r + 1) /\ Len(text) \in Nat
  BY TextFacts DEF Shape
<1>2. PICK p : p = PointAt(text) /\ p = IF q <= r THEN o + q ELSE Len(text) + 1
  BY ShapeFacts
<1>3. \A i : i \in Digits(text) <=> \E a \in 1..r : a # q /\ i = o + a
  BY ShapeFacts
<1>4. \A i : i \in Digits(text) <=> i \in (o + 1)..(o + r) /\ i # o + q
  <2> TAKE i
  <2>1. ASSUME NEW a \in 1..r, a # q, i = o + a
        PROVE  i \in (o + 1)..(o + r) /\ i # o + q
    BY <1>1, <2>1
  <2>2. ASSUME i \in (o + 1)..(o + r), i # o + q
        PROVE  \E a \in 1..r : a # q /\ i = o + a
    <3>1. i - o \in 1..r /\ i - o # q /\ i = o + (i - o)
      BY <1>1, <2>2
    <3> QED
      BY <3>1
  <2> QED
    BY <1>3, <2>1, <2>2
<1>5. ASSUME NEW a \in 1..r
      PROVE  /\ {j \in Digits(text) : j > o + a /\ j < p} =
                   IF a < q THEN (o + a + 1)..(o + q - 1) ELSE {}
             /\ {j \in Digits(text) : j <= o + a /\ j > p} =
                   IF a > q THEN (o + q + 1)..(o + a) ELSE {}
  <2>1. \A i : i \in {j \in Digits(text) : j > o + a /\ j < p} <=>
                 i \in IF a < q THEN (o + a + 1)..(o + q - 1) ELSE {}
    BY <1>1, <1>2, <1>4
  <2>2. \A i : i \in {j \in Digits(text) : j <= o + a /\ j > p} <=>
                 i \in IF a > q THEN (o + q + 1)..(o + a) ELSE {}
    BY <1>1, <1>2, <1>4
  <2> QED
    BY <2>1, <2>2
<1>6. {j \in Digits(text) : j > p} = IF q <= r THEN (o + q + 1)..(o + r) ELSE {}
  <2>1. \A i : i \in {j \in Digits(text) : j > p} <=>
                 i \in IF q <= r THEN (o + q + 1)..(o + r) ELSE {}
    BY <1>1, <1>2, <1>4
  <2> QED
    BY <2>1
<1>7. /\ Cardinality({}) = 0
      /\ \A a, b \in Int : a <= b + 1 => Cardinality(a..b) = b - a + 1
  BY FS_EmptySet, FS_Interval
<1>8. ASSUME NEW a \in 1..r, a < q
      PROVE  Place(text, decimals, o + a) = decimals + (q - 1 - a)
  <2>1. /\ {j \in Digits(text) : j > o + a /\ j < PointAt(text)} = (o + a + 1)..(o + q - 1)
        /\ {j \in Digits(text) : j <= o + a /\ j > PointAt(text)} = {}
    <3>1. a < q /\ ~(a > q)
      BY <1>1, <1>8
    <3>2. /\ {j \in Digits(text) : j > o + a /\ j < p} = (o + a + 1)..(o + q - 1)
          /\ {j \in Digits(text) : j <= o + a /\ j > p} = {}
      BY <1>5, <3>1
    <3> QED
      BY <1>2, <3>2, Zenon
  <2>2. Cardinality((o + a + 1)..(o + q - 1)) = q - 1 - a
    <3>0. o \in Int /\ q \in Int /\ a \in Int /\ a < q
      BY <1>1, <1>8
    <3>1. PICK x, y \in Int : x = o + a + 1 /\ y = o + q - 1 /\ x <= y + 1 /\ y - x + 1 = q - 1 - a
      BY <3>0
    <3> QED
      BY <1>7, <3>1, Zenon
  <2>3. Place(text, decimals, o + a) = decimals + (q - 1 - a) - 0
    BY <1>7, <2>1, <2>2 DEF Place
  <2> QED
    BY <1>1, <2>3
<1>9. ASSUME NEW a \in 1..r, a > q
      PROVE  Place(text, decimals, o + a) = decimals - (a - q)
  <2>1. /\ {j \in Digits(text) : j > o + a /\ j < PointAt(text)} = {}
        /\ {j \in Digits(text) : j <= o + a /\ j > PointAt(text)} = (o + q + 1)..(o + a)
    <3>1. a > q /\ ~(a < q)
      BY <1>1, <1>9
    <3>2. /\ {j \in Digits(text) : j > o + a /\ j < p} = {}
          /\ {j \in Digits(text) : j <= o + a /\ j > p} = (o + q + 1)..(o + a)
      BY <1>5, <3>1
    <3> QED
      BY <1>2, <3>2, Zenon
  <2>2. Cardinality((o + q + 1)..(o + a)) = a - q
    <3>1. PICK x, y \in Int : x = o + q + 1 /\ y = o + a /\ x <= y + 1 /\ y - x + 1 = a - q
      BY <1>1, <1>9
    <3> QED
      BY <1>7, <3>1
  <2>3. Place(text, decimals, o + a) = decimals + 0 - (a - q)
    BY <1>7, <2>1, <2>2 DEF Place
  <2> QED
    BY <1>1, <2>3
<1>10. Cardinality({i \in Digits(text) : i > PointAt(text)}) = IF q <= r THEN r - q ELSE 0
  <2>1. q <= r => Cardinality((o + q + 1)..(o + r)) = r - q
    <3> SUFFICES ASSUME q <= r
                 PROVE  Cardinality((o + q + 1)..(o + r)) = r - q
      OBVIOUS
    <3>1. PICK x, y \in Int : x = o + q + 1 /\ y = o + r /\ x <= y + 1 /\ y - x + 1 = r - q
      BY <1>1
    <3> QED
      BY <1>7, <3>1
  <2> QED
    BY <1>2, <1>6, <1>7, <2>1
<1> QED
  BY <1>8, <1>9, <1>10

-----------------------------------------------------------------------------
(* The sign of a decimal.                                                  *)

\* The r bytes after the first o are what stays of the text when its sign is taken
\* away, in the order in which SignFirst looks for it.
Layout(text, o, r, negative) ==
  \/ /\ text[Len(text)] = Minus
     /\ negative /\ o = 0 /\ r = Len(text) - 1
  \/ /\ text[Len(text)] # Minus /\ text[1] = Plus /\ Len(text) >= 2 /\ text[2] = Minus
     /\ negative /\ o = 2 /\ r = Len(text) - 2
  \/ /\ text[Len(text)] # Minus /\ text[1] = Plus /\ (Len(text) < 2 \/ text[2] # Minus)
     /\ ~negative /\ o = 1 /\ r = Len(text) - 1
  \/ /\ text[Len(text)] # Minus /\ text[1] = Minus
     /\ negative /\ o = 1 /\ r = Len(text) - 1
  \/ /\ text[Len(text)] # Minus /\ text[1] \notin {Plus, Minus}
     /\ ~negative /\ o = 0 /\ r = Len(text)

\* What CastDecimal makes of a signed text.
IsSigned(s, rest, negative) ==
  /\ s \in Text /\ rest \in Text
  /\ negative <=> s # <<>> /\ Head(s) = Minus
  /\ rest = IF negative THEN Tail(s) ELSE s

\* The r bytes are the text without its sign.
Unsigned(text, o, r, rest, negative) ==
  /\ Layout(text, o, r, negative) /\ negative \in BOOLEAN
  /\ IsSigned(SignFirst(text), rest, negative)
  /\ o \in Nat /\ r \in Nat /\ o + r <= Len(text) /\ Len(rest) = r
  /\ \A a \in 1..r : rest[a] = text[o + a]

LEMMA TailFacts ==
  ASSUME NEW s \in Text, Len(s) > 0
  PROVE  /\ Tail(s) \in Text /\ Len(Tail(s)) = Len(s) - 1
         /\ \A b \in 1..(Len(s) - 1) : Tail(s)[b] = s[b + 1]
         /\ s # <<>> /\ Head(s) = s[1]
<1>1. s \in Seq(Byte) /\ s # <<>>
  BY DEF Text
<1>2. Tail(s) \in Seq(Byte) /\ Len(Tail(s)) = Len(s) - 1 /\ Head(s) = s[1]
  BY <1>1
<1>3. \A b \in 1..(Len(s) - 1) : Tail(s)[b] = s[b + 1]
  BY <1>1
<1> QED
  BY <1>1, <1>2, <1>3 DEF Text

LEMMA SignFirstLayout ==
  ASSUME NEW text \in Text, Len(text) > 0
  PROVE  \E o, r, rest, negative : Unsigned(text, o, r, rest, negative)
<1>1. PICK n \in Nat : n = Len(text) /\ n > 0 /\ text # <<>>
  BY TextFacts, TailFacts
<1>2. Minus # Plus /\ Head(text) = text[1] /\ Last(text) = text[n]
  BY <1>1, TailFacts DEF Minus, Plus, Last
<1>3. CASE text[n] = Minus
  <2>1. PICK u : u = Front(text) /\ u \in Text /\ Len(u) = n - 1 /\ \A b \in 1..(n - 1) : u[b] = text[b]
    <3>1. n - 1 \in Nat /\ n - 1 <= Len(text)
      BY <1>1
    <3>3. /\ SubSeq(text, 1, n - 1) \in Bytes(n - 1)
          /\ \A b \in 1..(n - 1) : SubSeq(text, 1, n - 1)[b] = text[b]
      BY <3>1, BeginningFacts, Zenon
    <3>4. SubSeq(text, 1, n - 1) \in Text /\ Len(SubSeq(text, 1, n - 1)) = n - 1
      BY <3>1, <3>3, BytesFacts
    <3>5. Front(text) = SubSeq(text, 1, n - 1)
      BY <1>1 DEF Front
    <3> QED
      BY <3>3, <3>4, <3>5
  <2>2. PICK m \in Text : m = <<Minus>> /\ Len(m) = 1 /\ m[1] = Minus
    <3>1. Minus \in Byte
      BY DEF Byte, Minus
    <3> QED
      BY <3>1, TupleOfOne
  <2>3. PICK s : /\ s = m \o u /\ s \in Text /\ Len(s) = n /\ s[1] = Minus
                 /\ \A b \in 1..(n - 1) : s[b + 1] = text[b]
    <3>1. /\ m \o u \in Text /\ Len(m \o u) = 1 + (n - 1)
          /\ \A b \in 1..1 : (m \o u)[b] = m[b]
          /\ \A b \in 1..(n - 1) : (m \o u)[1 + b] = u[b]
      BY <2>1, <2>2, ConcatFacts
    <3>2. 1 + (n - 1) = n /\ 1 \in 1..1 /\ \A b \in 1..(n - 1) : 1 + b = b + 1
      BY <1>1
    <3>3. (m \o u)[1] = Minus
      BY <2>2, <3>1, <3>2
    <3>4. \A b \in 1..(n - 1) : (m \o u)[b + 1] = text[b]
      BY <2>1, <3>1, <3>2
    <3>5. m \o u \in Text /\ Len(m \o u) = n
      BY <3>1, <3>2
    <3> QED
      BY <3>3, <3>4, <3>5
  <2>4. SignFirst(text) = s
    BY <1>2, <1>3, <2>1, <2>2, <2>3 DEF SignFirst
  <2>5. PICK rest : /\ rest = Tail(s) /\ rest \in Text /\ Len(rest) = n - 1 /\ Head(s) = Minus /\ s # <<>>
                    /\ \A b \in 1..(n - 1) : rest[b] = text[b]
    <3>1. Len(s) > 0
      BY <1>1, <2>3
    <3>2. /\ Tail(s) \in Text /\ Len(Tail(s)) = Len(s) - 1
          /\ \A b \in 1..(Len(s) - 1) : Tail(s)[b] = s[b + 1]
          /\ s # <<>> /\ Head(s) = s[1]
      BY <2>3, <3>1, TailFacts
    <3>3. Len(s) - 1 = n - 1
      BY <2>3
    <3>4. \A b \in 1..(n - 1) : Tail(s)[b] = text[b]
      BY <2>3, <3>2, <3>3
    <3> QED
      BY <2>3, <3>2, <3>3, <3>4
  <2>6. IsSigned(s, rest, TRUE)
    BY <2>3, <2>5 DEF IsSigned
  <2>7. Layout(text, 0, n - 1, TRUE)
    BY <1>1, <1>3 DEF Layout
  <2>8. 0 \in Nat /\ n - 1 \in Nat /\ 0 + (n - 1) <= n /\ \A a \in 1..(n - 1) : 0 + a = a
    BY <1>1
  <2>9. \A a \in 1..(n - 1) : rest[a] = text[0 + a]
    BY <2>5, <2>8
  <2>10. Unsigned(text, 0, n - 1, rest, TRUE)
    BY <1>1, <2>4, <2>5, <2>6, <2>7, <2>8, <2>9 DEF Unsigned
  <2> QED
    BY <2>10
<1>4. CASE text[n] # Minus /\ text[1] = Plus
  <2>1. PICK s : s = Tail(text) /\ s \in Text /\ Len(s) = n - 1 /\ \A b \in 1..(n - 1) : s[b] = text[b + 1]
    BY <1>1, TailFacts
  <2>2. SignFirst(text) = s
    BY <1>2, <1>4, <2>1 DEF SignFirst
  <2>3. CASE n >= 2 /\ text[2] = Minus
    <3>1. Len(s) > 0 /\ 1 \in 1..(n - 1) /\ 1 + 1 = 2
      BY <2>1, <2>3
    <3>2. s[1] = Minus
      BY <2>1, <2>3, <3>1
    <3>3. PICK rest : /\ rest = Tail(s) /\ rest \in Text /\ Len(rest) = Len(s) - 1 /\ Head(s) = Minus
                      /\ s # <<>> /\ \A b \in 1..(Len(s) - 1) : rest[b] = s[b + 1]
      <4>1. /\ Tail(s) \in Text /\ Len(Tail(s)) = Len(s) - 1
            /\ \A b \in 1..(Len(s) - 1) : Tail(s)[b] = s[b + 1]
            /\ s # <<>> /\ Head(s) = s[1]
        BY <2>1, <3>1, TailFacts
      <4> QED
        BY <3>2, <4>1
    <3>4. n - 2 \in Nat /\ Len(rest) = n - 2 /\ 2 + (n - 2) <= n
      BY <1>1, <2>1, <2>3, <3>3
    <3>5. ASSUME NEW a \in 1..(n - 2)
          PROVE  rest[a] = text[2 + a]
      <4>1. a \in 1..(Len(s) - 1) /\ a + 1 \in 1..(n - 1) /\ (a + 1) + 1 = 2 + a
        BY <1>1, <2>1, <2>3
      <4>2. rest[a] = s[a + 1]
        BY <3>3, <4>1
      <4>3. s[a + 1] = text[(a + 1) + 1]
        BY <2>1, <4>1
      <4> QED
        BY <4>1, <4>2, <4>3
    <3>6. IsSigned(s, rest, TRUE)
      BY <2>1, <3>3 DEF IsSigned
    <3>7. Layout(text, 2, n - 2, TRUE)
      BY <1>1, <1>4, <2>3 DEF Layout
    <3>8. Unsigned(text, 2, n - 2, rest, TRUE)
      BY <1>1, <2>2, <3>4, <3>5, <3>6, <3>7 DEF Unsigned
    <3> QED
      BY <3>8
  <2>4. CASE ~(n >= 2 /\ text[2] = Minus)
    <3>1. ~(s # <<>> /\ Head(s) = Minus)
      <4> SUFFICES ASSUME s # <<>>, Head(s) = Minus
                   PROVE  FALSE
        OBVIOUS
      <4>1. Len(s) > 0
        BY <2>1 DEF Text
      <4>2. s[1] = Minus
        BY <2>1, <4>1, TailFacts
      <4>3. n >= 2 /\ 1 \in 1..(n - 1) /\ 1 + 1 = 2
        BY <1>1, <2>1, <4>1
      <4> QED
        BY <2>1, <2>4, <4>2, <4>3
    <3>2. IsSigned(s, s, FALSE)
      BY <2>1, <3>1 DEF IsSigned
    <3>3. Layout(text, 1, n - 1, FALSE)
      BY <1>1, <1>4, <2>4 DEF Layout
    <3>4. n - 1 \in Nat /\ 1 + (n - 1) <= n /\ \A a \in 1..(n - 1) : 1 + a = a + 1
      BY <1>1
    <3>5. \A a \in 1..(n - 1) : s[a] = text[1 + a]
      BY <2>1, <3>4
    <3>6. Unsigned(text, 1, n - 1, s, FALSE)
      BY <1>1, <2>1, <2>2, <3>2, <3>3, <3>4, <3>5 DEF Unsigned
    <3> QED
      BY <3>6
  <2> QED
    BY <2>3, <2>4
<1>5. CASE text[n] # Minus /\ text[1] # Plus /\ text[1] = Minus
  <2>1. SignFirst(text) = text
    BY <1>2, <1>5 DEF SignFirst
  <2>2. PICK rest : rest = Tail(text) /\ rest \in Text /\ Len(rest) = n - 1 /\ \A b \in 1..(n - 1) : rest[b] = text[b + 1]
    BY <1>1, TailFacts
  <2>3. IsSigned(text, rest, TRUE)
    BY <1>1, <1>2, <1>5, <2>2 DEF IsSigned
  <2>4. Layout(text, 1, n - 1, TRUE)
    BY <1>1, <1>5 DEF Layout
  <2>5. n - 1 \in Nat /\ 1 + (n - 1) <= n /\ \A a \in 1..(n - 1) : 1 + a = a + 1
    BY <1>1
  <2>6. \A a \in 1..(n - 1) : rest[a] = text[1 + a]
    BY <2>2, <2>5
  <2>7. Unsigned(text, 1, n - 1, rest, TRUE)
    BY <1>1, <2>1, <2>2, <2>3, <2>4, <2>5, <2>6 DEF Unsigned
  <2> QED
    BY <2>7
<1>6. CASE text[n] # Minus /\ text[1] # Plus /\ text[1] # Minus
  <2>1. SignFirst(text) = text
    BY <1>2, <1>6 DEF SignFirst
  <2>2. IsSigned(text, text, FALSE)
    BY <1>2, <1>6 DEF IsSigned
  <2>3. Layout(text, 0, n, FALSE)
    BY <1>1, <1>6 DEF Layout
  <2>4. 0 \in Nat /\ 0 + n <= n /\ \A a \in 1..n : 0 + a = a
    BY <1>1
  <2>5. \A a \in 1..n : text[a] = text[0 + a]
    BY <2>4
  <2>6. Unsigned(text, 0, n, text, FALSE)
    BY <1>1, <2>1, <2>2, <2>3, <2>4, <2>5 DEF Unsigned
  <2> QED
    BY <2>6
<1> QED
  BY <1>3, <1>4, <1>5, <1>6

\* A decimal has one sign at an end, or a plus before a minus, and between or before
\* them only digits and at most one point.
LEMMA IsDecimalShape ==
  ASSUME NEW text \in Text, Len(text) > 0, NEW decimals \in Nat,
         NEW o, NEW r, NEW rest, NEW negative, Unsigned(text, o, r, rest, negative),
         NEW q, q = PointAt(rest)
  PROVE  IsDecimal(text, decimals) <=>
           Shape(text, o, r, q) /\ (q > 1 \/ q < r) /\ r - q <= decimals
<1> DEFINE IsSign(i) == text[i] = Plus \/ text[i] = Minus
           Signs == \/ \A i \in 1..Len(text) : ~IsSign(i)
                    \/ 1 \in 1..Len(text) /\ \A i \in 1..Len(text) : IsSign(i) <=> i = 1
                    \/ /\ \A i \in 1..Len(text) : text[i] = Minus <=> i = Len(text)
                       /\ \A i \in 1..Len(text) : text[i] # Plus
                    \/ /\ 1 \in 1..Len(text) /\ 2 \in 1..Len(text)
                       /\ \A i \in 1..Len(text) : text[i] = Plus <=> i = 1
                       /\ \A i \in 1..Len(text) : text[i] = Minus <=> i = 2
           Body == \A i \in 1..Len(text) : IsDigit(text[i]) \/ IsSign(i) \/ text[i] = Point
           OnePoint == \A i, j \in 1..Len(text) : text[i] = Point /\ text[j] = Point => i = j
           After == Cardinality({i \in Digits(text) : i > PointAt(text)})
<1>1. PICK n \in Nat : n = Len(text) /\ n > 0 /\ DOMAIN text = 1..n
  BY TextFacts
<1>2. /\ Layout(text, o, r, negative)
      /\ o \in Nat /\ r \in Nat /\ o + r <= n /\ Len(rest) = r /\ rest \in Text
      /\ \A a \in 1..r : rest[a] = text[o + a]
  BY <1>1 DEF Unsigned, IsSigned
<1>3. /\ q \in 1..(r + 1) /\ (q <= r => rest[q] = Point)
      /\ \A a \in 1..r : a < q => rest[a] # Point
  BY <1>2, PointsToSome DEF PointsTo
<1>b. r \in Nat /\ q \in 1..(r + 1)
  BY <1>2, <1>3, Zenon
<1>4. \A c : /\ IsDigit(c) => c # Point /\ c # Plus /\ c # Minus
             /\ c = Plus => c # Minus /\ c # Point
             /\ c = Minus => c # Point
  BY DEF IsDigit, Point, Plus, Minus
<1>5. IsDecimal(text, decimals) <=>
        Body /\ Digits(text) # {} /\ OnePoint /\ After <= decimals /\ Signs
  <2> DEFINE of(S) == {i \in DOMAIN text : text[i] \in S}
  <2>1. of(48..57 \cup {Plus, Minus, Point}) = DOMAIN text <=> Body
    BY <1>1 DEF IsDigit
  <2>2. (\A i, j \in of({Point}) : i = j) <=> OnePoint
    BY <1>1
  <2>3. of({Plus, Minus}) = {} <=> \A i \in 1..n : ~IsSign(i)
    BY <1>1
  <2>4. of({Plus, Minus}) = {1} <=> 1 \in 1..n /\ \A i \in 1..n : IsSign(i) <=> i = 1
    BY <1>1
  <2>5. of({Minus}) = {n} <=> \A i \in 1..n : text[i] = Minus <=> i = n
    <3>1. n \in 1..n
      BY <1>1
    <3> QED
      BY <1>1, <3>1
  <2>6. of({Plus}) = {} <=> \A i \in 1..n : text[i] # Plus
    BY <1>1
  <2>7. of({Plus}) = {1} <=> 1 \in 1..n /\ \A i \in 1..n : text[i] = Plus <=> i = 1
    BY <1>1
  <2>8. of({Minus}) = {2} <=> 2 \in 1..n /\ \A i \in 1..n : text[i] = Minus <=> i = 2
    BY <1>1
  <2>9. IsDecimal(text, decimals) <=>
          /\ of(48..57 \cup {Plus, Minus, Point}) = DOMAIN text
          /\ Digits(text) # {}
          /\ \A i, j \in of({Point}) : i = j
          /\ After <= decimals
          /\ \/ of({Plus, Minus}) = {}
             \/ of({Plus, Minus}) = {1}
             \/ of({Minus}) = {n} /\ of({Plus}) = {}
             \/ of({Plus}) = {1} /\ of({Minus}) = {2}
    BY <1>1, Zenon DEF IsDecimal
  <2>10. Signs <=> \/ of({Plus, Minus}) = {}
                   \/ of({Plus, Minus}) = {1}
                   \/ of({Minus}) = {n} /\ of({Plus}) = {}
                   \/ of({Plus}) = {1} /\ of({Minus}) = {2}
    <3> HIDE DEF of, IsSign
    <3> QED
      BY <1>1, <2>3, <2>4, <2>5, <2>6, <2>7, <2>8, Zenon
  <2> HIDE DEF of, Body, OnePoint, After, Signs
  <2> QED
    BY <2>1, <2>2, <2>9, <2>10, Zenon
<1> HIDE DEF After
<1>6. ASSUME Body, Digits(text) # {}, OnePoint, Signs
      PROVE  Shape(text, o, r, q) /\ (q > 1 \/ q < r)
  <2>0. PICK k : k \in 1..n /\ IsDigit(text[k])
    BY <1>1, <1>6 DEF Digits
  <2>00. text[k] # Plus /\ text[k] # Minus /\ text[k] # Point
    BY <1>4, <2>0
  <2>1. ASSUME NEW i \in 1..n
        PROVE  i <= o \/ i > o + r <=> IsSign(i)
    <3>0. 1 \in 1..n /\ n \in 1..n /\ (n >= 2 => 2 \in 1..n)
      BY <1>1
    <3>1. CASE \A j \in 1..n : ~IsSign(j)
      BY <1>1, <1>2, <3>0, <3>1, SMT DEF Layout
    <3>2. CASE \A j \in 1..n : IsSign(j) <=> j = 1
      <4>1. n >= 2
        BY <1>1, <2>0, <2>00, <3>2
      <4>2. ~IsSign(n) /\ IsSign(1) /\ ~IsSign(2)
        BY <1>1, <3>0, <3>2, <4>1
      <4>3. o = 1 /\ r = n - 1
        BY <1>1, <1>2, <4>2 DEF Layout
      <4> QED
        BY <1>1, <3>2, <4>3
    <3>3. CASE /\ \A j \in 1..n : text[j] = Minus <=> j = n
               /\ \A j \in 1..n : text[j] # Plus
      <4>1. o = 0 /\ r = n - 1
        BY <1>1, <1>2, <3>0, <3>3 DEF Layout
      <4> QED
        BY <1>1, <3>3, <4>1
    <3>4. CASE /\ 2 \in 1..n
               /\ \A j \in 1..n : text[j] = Plus <=> j = 1
               /\ \A j \in 1..n : text[j] = Minus <=> j = 2
      <4>1. n > 2
        BY <1>1, <2>0, <2>00, <3>4
      <4>2. text[n] # Minus /\ text[1] = Plus /\ text[2] = Minus
        BY <1>1, <3>0, <3>4, <4>1
      <4>3. o = 2 /\ r = n - 2
        BY <1>1, <1>2, <4>1, <4>2 DEF Layout, Plus, Minus
      <4> QED
        BY <1>1, <3>4, <4>3
    <3> QED
      BY <1>1, <1>6, <3>1, <3>2, <3>3, <3>4
  <2>2. \A a \in 1..r : o + a \in 1..n /\ ~(o + a <= o) /\ ~(o + a > o + r)
    BY <1>1, <1>2
  <2>3. ASSUME NEW a \in 1..r
        PROVE  IF a = q THEN text[o + a] = Point ELSE IsDigit(text[o + a])
    <3>1. IsDigit(text[o + a]) \/ text[o + a] = Point
      BY <1>1, <1>6, <2>1, <2>2
    <3>2. CASE a = q
      BY <1>2, <1>3, <3>2
    <3>3. CASE a # q
      <4> SUFFICES ASSUME text[o + a] = Point
                   PROVE  FALSE
        BY <3>1, <3>3, Zenon
      <4>a. rest[a] = Point
        BY <1>2, Zenon
      <4>b. ~(a < q)
        BY <1>3, <4>a, Zenon
      <4>1. q <= r /\ q \in 1..r
        BY <1>b, <4>b
      <4>2. text[o + q] = Point
        BY <1>2, <1>3, <4>1, Zenon
      <4>3. o + a = o + q
        BY <1>1, <1>6, <2>2, <4>1, <4>2
      <4> QED
        BY <1>2, <3>3, <4>1, <4>3
    <3> QED
      BY <3>2, <3>3
  <2>4. Shape(text, o, r, q)
    <3>1. \A i \in 1..n : i <= o \/ i > o + r => text[i] \in {Plus, Minus}
      BY <2>1
    <3> QED
      BY <1>1, <1>2, <1>3, <2>3, <3>1 DEF Shape
  <2>5. PICK a \in 1..r : a # q /\ k = o + a
    <3>1. k \in Digits(text)
      BY <1>1, <2>0 DEF Digits
    <3> QED
      BY <2>4, <3>1, ShapeFacts
  <2> QED
    BY <1>2, <1>3, <2>4, <2>5
<1>7. ASSUME Shape(text, o, r, q), q > 1 \/ q < r
      PROVE  Body /\ Digits(text) # {} /\ OnePoint /\ Signs
  <2>1. /\ \A a \in 1..r : IF a = q THEN text[o + a] = Point ELSE IsDigit(text[o + a])
        /\ \A i \in 1..n : i <= o \/ i > o + r => text[i] = Plus \/ text[i] = Minus
    BY <1>1, <1>7 DEF Shape
  <2>2. ASSUME NEW i \in 1..n
        PROVE  \/ i <= o \/ i > o + r
               \/ \E a \in 1..r : i = o + a
    <3> SUFFICES ASSUME ~(i <= o), ~(i > o + r)
                 PROVE  \E a \in 1..r : i = o + a
      OBVIOUS
    <3>1. i - o \in 1..r /\ i = o + (i - o)
      BY <1>1, <1>2
    <3> QED
      BY <3>1
  <2>3. ASSUME NEW i \in 1..n
        PROVE  /\ IsDigit(text[i]) \/ IsSign(i) \/ text[i] = Point
               /\ IsSign(i) <=> i <= o \/ i > o + r
               /\ text[i] = Point => i = o + q
    <3>1. CASE i <= o \/ i > o + r
      BY <1>4, <2>1, <3>1
    <3>2. CASE \E a \in 1..r : i = o + a
      <4>1. PICK a \in 1..r : i = o + a
        BY <3>2
      <4>2. ~(i <= o) /\ ~(i > o + r)
        BY <1>1, <1>2, <4>1
      <4> QED
        BY <1>4, <2>1, <4>1, <4>2
    <3> QED
      BY <2>2, <3>1, <3>2
  <2>4. Body
    BY <1>1, <2>3
  <2>5. OnePoint
    BY <1>1, <2>3
  <2>6. Digits(text) # {}
    <3>1. \E a \in 1..r : a # q
      <4>1. q > 1 => 1 \in 1..r /\ 1 # q
        BY <1>b
      <4>2. q < r => r \in 1..r /\ r # q
        BY <1>b
      <4> QED
        BY <1>7, <4>1, <4>2
    <3> QED
      BY <1>7, <3>1, ShapeFacts
  <2>7. Signs
    <3>0. 1 \in 1..n /\ n \in 1..n /\ (n >= 2 => 2 \in 1..n)
      BY <1>1
    <3>1. \A i \in 1..n : IsSign(i) <=> i <= o \/ i > o + r
      BY <2>3
    <3>2. CASE o = 0 /\ r = n
      <4>1. \A i \in 1..n : ~IsSign(i)
        BY <1>1, <3>1, <3>2
      <4> QED
        BY <1>1, <4>1
    <3>3. CASE o = 1 /\ r = n - 1
      <4>1. \A i \in 1..n : IsSign(i) <=> i = 1
        BY <1>1, <3>1, <3>3
      <4> QED
        BY <1>1, <3>0, <4>1
    <3>4. CASE o = 0 /\ r = n - 1 /\ text[n] = Minus
      <4>1. \A i \in 1..n : IsSign(i) <=> i = n
        BY <1>1, <3>1, <3>4
      <4>2. text[n] # Plus
        BY <1>4, <3>4
      <4> QED
        BY <1>1, <3>4, <4>1, <4>2
    <3>5. CASE o = 2 /\ r = n - 2 /\ n >= 2 /\ text[1] = Plus /\ text[2] = Minus
      <4>1. \A i \in 1..n : IsSign(i) <=> i = 1 \/ i = 2
        BY <1>1, <3>1, <3>5
      <4>2. text[1] # Minus /\ text[2] # Plus
        BY <1>4, <3>5
      <4>3. /\ \A i \in 1..n : text[i] = Plus <=> i = 1
            /\ \A i \in 1..n : text[i] = Minus <=> i = 2
        BY <3>5, <4>1, <4>2
      <4> QED
        BY <1>1, <3>0, <3>5, <4>3
    <3> HIDE DEF IsSign, Signs
    <3>6. \/ o = 0 /\ r = n
          \/ o = 1 /\ r = n - 1
          \/ o = 0 /\ r = n - 1 /\ text[n] = Minus
          \/ o = 2 /\ r = n - 2 /\ n >= 2 /\ text[1] = Plus /\ text[2] = Minus
      BY <1>1, <1>2 DEF Layout
    <3> QED
      BY <3>2, <3>3, <3>4, <3>5, <3>6
  <2> QED
    BY <2>4, <2>5, <2>6, <2>7
<1>8. ASSUME Shape(text, o, r, q)
      PROVE  After <= decimals <=> r - q <= decimals
  <2>1. After = IF q <= r THEN r - q ELSE 0
    BY <1>8, ShapePlaces DEF After
  <2> HIDE DEF After
  <2> QED
    BY <1>b, <2>1
<1> HIDE DEF Body, OnePoint, Signs
<1> QED
  BY <1>5, <1>6, <1>7, <1>8

-----------------------------------------------------------------------------
(* The digits of a decimal.                                                *)

\* The digits before the point, those after it, and all of them with the zeros that
\* the scale of the column adds.
WholeOf(rest) == SubSeq(rest, 1, PointAt(rest) - 1)
FractionOf(rest) == SubSeq(rest, PointAt(rest) + 1, Len(rest))
ScaledOf(rest, decimals) ==
  WholeOf(rest) \o FractionOf(rest) \o Zeros(decimals - Len(FractionOf(rest)))

\* The point of the r bytes is at q, or at r + 1 if there is none.
HasPointAt(rest, q, r) == q = PointAt(rest) /\ r = Len(rest)

LEMMA EmptyPart ==
  ASSUME NEW s \in Text, NEW a \in Nat, NEW b \in Nat, b < a
  PROVE  SubSeq(s, a, b) \in Text /\ Len(SubSeq(s, a, b)) = 0
<1>1. s \in Seq(Byte)
  BY DEF Text
<1>2. SubSeq(s, a, b) = <<>>
  BY <1>1
<1> QED
  BY <1>2, EmptyWellFormed

LEMMA JoinFacts ==
  ASSUME NEW s \in Text, NEW t \in Text, NEW n \in Nat, n = Len(s), NEW m \in Nat, m = Len(t)
  PROVE  /\ s \o t \in Text /\ Len(s \o t) = n + m
         /\ \A b \in 1..n : (s \o t)[b] = s[b]
         /\ \A b \in 1..m : (s \o t)[n + b] = t[b]
BY ConcatFacts

LEMMA RestParts ==
  ASSUME NEW rest \in Text, NEW q, NEW r, HasPointAt(rest, q, r)
  PROVE  /\ r \in Nat /\ q \in 1..(r + 1)
         /\ WholeOf(rest) \in Text /\ Len(WholeOf(rest)) = q - 1
         /\ \A a \in 1..(q - 1) : WholeOf(rest)[a] = rest[a]
         /\ FractionOf(rest) \in Text
         /\ Len(FractionOf(rest)) = IF q <= r THEN r - q ELSE 0
         /\ \A a \in 1..Len(FractionOf(rest)) : FractionOf(rest)[a] = rest[q + a]
<1>0. q = PointAt(rest) /\ r = Len(rest)
  BY DEF HasPointAt
<1>1. r \in Nat /\ q \in 1..(r + 1)
  BY <1>0, TextFacts, PointsToSome DEF PointsTo
<1>2. /\ WholeOf(rest) \in Text /\ Len(WholeOf(rest)) = q - 1
      /\ \A a \in 1..(q - 1) : WholeOf(rest)[a] = rest[a]
  <2>1. PICK k \in Nat : k = q - 1 /\ 0 + k <= Len(rest) /\ 0 + 1 = 1 /\ 0 + k = k
    BY <1>0, <1>1
  <2>2. /\ SubSeq(rest, 0 + 1, 0 + k) \in Bytes(k)
        /\ \A a \in 1..k : SubSeq(rest, 0 + 1, 0 + k)[a] = rest[0 + a]
    BY <2>1, PartFacts
  <2>3. \A a \in 1..k : 0 + a = a
    OBVIOUS
  <2>4. /\ SubSeq(rest, 1, k) \in Bytes(k)
        /\ \A a \in 1..k : SubSeq(rest, 1, k)[a] = rest[a]
    BY <2>1, <2>2, <2>3
  <2>5. SubSeq(rest, 1, k) \in Text /\ Len(SubSeq(rest, 1, k)) = k
    BY <2>4, BytesFacts
  <2>6. WholeOf(rest) = SubSeq(rest, 1, k)
    BY <2>1 DEF WholeOf, HasPointAt
  <2> QED
    BY <2>1, <2>4, <2>5, <2>6
<1>3. CASE q <= r
  <2>1. PICK k \in Nat : k = r - q /\ q \in Nat /\ q + k <= Len(rest) /\ q + k = r
    BY <1>0, <1>1, <1>3
  <2>2. /\ SubSeq(rest, q + 1, q + k) \in Bytes(k)
        /\ \A a \in 1..k : SubSeq(rest, q + 1, q + k)[a] = rest[q + a]
    <3>1. PICK o \in Nat : o = q /\ o + k <= Len(rest)
      BY <2>1
    <3>2. /\ SubSeq(rest, o + 1, o + k) \in Bytes(k)
          /\ \A a \in 1..k : SubSeq(rest, o + 1, o + k)[a] = rest[o + a]
      BY <3>1, PartFacts
    <3> QED
      BY <3>1, <3>2
  <2>3. SubSeq(rest, q + 1, q + k) \in Text /\ Len(SubSeq(rest, q + 1, q + k)) = k
    BY <2>2, BytesFacts
  <2>4. FractionOf(rest) = SubSeq(rest, q + 1, q + k)
    BY <2>1 DEF FractionOf, HasPointAt
  <2> QED
    BY <1>1, <1>2, <1>3, <2>1, <2>2, <2>3, <2>4
<1>4. CASE ~(q <= r)
  <2>1. q + 1 \in Nat /\ r < q + 1
    BY <1>1, <1>4
  <2>2. SubSeq(rest, q + 1, r) \in Text /\ Len(SubSeq(rest, q + 1, r)) = 0
    BY <1>1, <2>1, EmptyPart
  <2>3. FractionOf(rest) = SubSeq(rest, q + 1, r)
    BY DEF FractionOf, HasPointAt
  <2> QED
    BY <1>1, <1>2, <1>4, <2>2, <2>3
<1> QED
  BY <1>3, <1>4

RestIs(rest, q, r) ==
  /\ r \in Nat /\ q \in 1..(r + 1)
  /\ WholeOf(rest) \in Text /\ Len(WholeOf(rest)) = q - 1
  /\ \A a \in 1..(q - 1) : WholeOf(rest)[a] = rest[a]
  /\ FractionOf(rest) \in Text
  /\ Len(FractionOf(rest)) = IF q <= r THEN r - q ELSE 0
  /\ \A a \in 1..Len(FractionOf(rest)) : FractionOf(rest)[a] = rest[q + a]

LEMMA RestIsParts ==
  ASSUME NEW rest \in Text, NEW q, NEW r, HasPointAt(rest, q, r)
  PROVE  RestIs(rest, q, r)
BY RestParts DEF RestIs

\* CastDecimal accepts digits with at most one point.
LEMMA RestDigits ==
  ASSUME NEW rest \in Text, NEW q \in Nat, NEW r \in Nat, HasPointAt(rest, q, r)
  PROVE  AllDigits(WholeOf(rest) \o FractionOf(rest)) <=>
           (\A a \in 1..r : a # q => IsDigit(rest[a])) /\ (q > 1 \/ q < r)
<1>1. /\ r \in Nat /\ q \in 1..(r + 1)
      /\ WholeOf(rest) \in Text /\ Len(WholeOf(rest)) = q - 1
      /\ \A a \in 1..(q - 1) : WholeOf(rest)[a] = rest[a]
      /\ FractionOf(rest) \in Text
      /\ Len(FractionOf(rest)) = IF q <= r THEN r - q ELSE 0
      /\ \A a \in 1..Len(FractionOf(rest)) : FractionOf(rest)[a] = rest[q + a]
  <2>1. RestIs(rest, q, r)
    BY RestIsParts, Zenon
  <2> QED
    BY <2>1, Zenon DEF RestIs
<1>2. PICK w \in Text, k \in Nat :
        w = WholeOf(rest) /\ k = Len(w) /\ k = q - 1 /\ \A a \in 1..k : w[a] = rest[a]
  <2>1. q - 1 \in Nat
    BY <1>1
  <2> QED
    BY <1>1, <2>1, Zenon
<1>3. PICK f \in Text, n \in Nat :
        /\ f = FractionOf(rest) /\ n = Len(f) /\ n = (IF q <= r THEN r - q ELSE 0)
        /\ \A a \in 1..n : f[a] = rest[q + a]
  BY <1>1
<1>4. PICK t : /\ t = w \o f /\ t \in Text /\ Len(t) = k + n
               /\ \A b \in 1..k : t[b] = w[b]
               /\ \A b \in 1..n : t[k + b] = f[b]
  <2>1. /\ w \o f \in Text /\ Len(w \o f) = k + n
        /\ \A b \in 1..k : (w \o f)[b] = w[b]
        /\ \A b \in 1..n : (w \o f)[k + b] = f[b]
    <3>1. w \in Text /\ f \in Text /\ k \in Nat /\ n \in Nat /\ k = Len(w) /\ n = Len(f)
      BY <1>2, <1>3
    <3> QED
      BY <3>1, JoinFacts
  <2> QED
    BY <2>1, Zenon
<1>a. /\ r \in Nat /\ q \in Nat /\ q >= 1 /\ q <= r + 1 /\ k = q - 1
      /\ (q <= r => n = r - q) /\ (~(q <= r) => n = 0)
  BY <1>1, <1>2, <1>3
<1>5. AllDigits(t) <=> (\A i \in 1..(k + n) : IsDigit(t[i])) /\ k + n > 0
  BY <1>4, AllDigitsFacts DEF AreDigits
<1>6. k + n > 0 <=> q > 1 \/ q < r
  BY <1>1, <1>2, <1>3
<1>7. ASSUME \A i \in 1..(k + n) : IsDigit(t[i]), NEW a \in 1..r, a # q
      PROVE  IsDigit(rest[a])
  <2>1. CASE a < q
    <3>1. a \in 1..k /\ a \in 1..(k + n)
      BY <1>1, <1>2, <2>1
    <3>2. t[a] = rest[a]
      BY <1>2, <1>4, <3>1
    <3> QED
      BY <1>7, <3>1, <3>2
  <2>2. CASE a > q
    <3>1. PICK b : b = a - q /\ b \in 1..n /\ q + b = a /\ k + b \in 1..(k + n)
      BY <1>a, <2>2
    <3>2. t[k + b] = rest[a]
      BY <1>3, <1>4, <3>1
    <3> QED
      BY <1>7, <3>1, <3>2
  <2> QED
    BY <1>1, <1>7, <2>1, <2>2
<1>8. ASSUME \A a \in 1..r : a # q => IsDigit(rest[a]), NEW i \in 1..(k + n)
      PROVE  IsDigit(t[i])
  <2>1. CASE i < q
    <3>1. i \in 1..k /\ i \in 1..r /\ i # q
      BY <1>1, <1>2, <2>1
    <3>2. t[i] = rest[i]
      BY <1>2, <1>4, <3>1
    <3> QED
      BY <1>8, <3>1, <3>2
  <2>2. CASE ~(i < q)
    <3>1. PICK b : b = i - k /\ b \in 1..n /\ k + b = i /\ q + b \in 1..r /\ q + b # q
      BY <1>a, <2>2
    <3>2. t[i] = rest[q + b]
      BY <1>3, <1>4, <3>1
    <3> QED
      BY <1>8, <3>1, <3>2
  <2> QED
    BY <2>1, <2>2
<1> QED
  BY <1>2, <1>3, <1>4, <1>5, <1>6, <1>7, <1>8

\* The position of a digit of the rest among the scaled digits.
PlaceIn(q, a) == IF a < q THEN a ELSE a - 1

LEMMA ScaledFacts ==
  ASSUME NEW rest \in Text, NEW q \in Nat, NEW r \in Nat, HasPointAt(rest, q, r),
         NEW decimals \in Nat, r - q <= decimals,
         \A a \in 1..r : a # q => IsDigit(rest[a])
  PROVE  /\ AreDigits(WholeOf(rest)) /\ AreDigits(ScaledOf(rest, decimals))
         /\ Len(ScaledOf(rest, decimals)) = (q - 1) + decimals
         /\ \A a \in 1..r : a # q =>
              /\ PlaceIn(q, a) \in 1..Len(ScaledOf(rest, decimals))
              /\ ScaledOf(rest, decimals)[PlaceIn(q, a)] = rest[a]
         /\ \A i \in 1..Len(ScaledOf(rest, decimals)) :
              \/ ScaledOf(rest, decimals)[i] = 48
              \/ \E a \in 1..r : a # q /\ i = PlaceIn(q, a)
<1>1. /\ r \in Nat /\ q \in 1..(r + 1)
      /\ WholeOf(rest) \in Text /\ Len(WholeOf(rest)) = q - 1
      /\ \A a \in 1..(q - 1) : WholeOf(rest)[a] = rest[a]
      /\ FractionOf(rest) \in Text
      /\ Len(FractionOf(rest)) = IF q <= r THEN r - q ELSE 0
      /\ \A a \in 1..Len(FractionOf(rest)) : FractionOf(rest)[a] = rest[q + a]
  <2>1. RestIs(rest, q, r)
    BY RestIsParts, Zenon
  <2> QED
    BY <2>1, Zenon DEF RestIs
<1>2. PICK w \in Text, k \in Nat :
        w = WholeOf(rest) /\ k = Len(w) /\ k = q - 1 /\ \A a \in 1..k : w[a] = rest[a]
  <2>1. q - 1 \in Nat
    BY <1>1
  <2> QED
    BY <1>1, <2>1, Zenon
<1>3. PICK f \in Text, n \in Nat :
        /\ f = FractionOf(rest) /\ n = Len(f) /\ n = (IF q <= r THEN r - q ELSE 0)
        /\ \A a \in 1..n : f[a] = rest[q + a]
  <2>1. Len(FractionOf(rest)) \in Nat
    BY <1>1, TextFacts, Zenon
  <2> QED
    BY <1>1, <2>1, Zenon
<1>4. PICK m \in Nat, z \in Text :
        m = decimals - n /\ z = Zeros(m) /\ Len(z) = m /\ \A b \in 1..m : z[b] = 48
  <2>0. r \in Nat /\ q \in 1..(r + 1) /\ n = (IF q <= r THEN r - q ELSE 0)
    BY <1>1, <1>3
  <2>5. decimals - n \in Nat
    BY <2>0
  <2>1. PICK m \in Nat : m = decimals - n
    BY <2>5
  <2>2. 48 \in Byte
    BY DEF Byte
  <2>3. Zeros(m) \in Bytes(m) /\ \A b \in 1..m : Zeros(m)[b] = 48
    BY <2>2 DEF Zeros, Bytes
  <2>4. Zeros(m) \in Text /\ Len(Zeros(m)) = m
    BY <2>3, BytesFacts
  <2> QED
    BY <2>1, <2>3, <2>4
<1>5. PICK t : /\ t = w \o f /\ t \in Text /\ Len(t) = k + n
               /\ \A b \in 1..k : t[b] = w[b]
               /\ \A b \in 1..n : t[k + b] = f[b]
  <2>1. /\ w \o f \in Text /\ Len(w \o f) = k + n
        /\ \A b \in 1..k : (w \o f)[b] = w[b]
        /\ \A b \in 1..n : (w \o f)[k + b] = f[b]
    <3>1. w \in Text /\ f \in Text /\ k \in Nat /\ n \in Nat /\ k = Len(w) /\ n = Len(f)
      BY <1>2, <1>3
    <3> QED
      BY <3>1, JoinFacts
  <2> QED
    BY <2>1, Zenon
<1>6. PICK h \in Nat : h = k + n /\ h = Len(t)
  BY <1>5
<1>7. PICK u : /\ u = t \o z /\ u \in Text /\ Len(u) = h + m
               /\ \A b \in 1..h : u[b] = t[b]
               /\ \A b \in 1..m : u[h + b] = z[b]
  <2>1. /\ t \o z \in Text /\ Len(t \o z) = h + m
        /\ \A b \in 1..h : (t \o z)[b] = t[b]
        /\ \A b \in 1..m : (t \o z)[h + b] = z[b]
    <3>1. t \in Text /\ z \in Text /\ h \in Nat /\ m \in Nat /\ h = Len(t) /\ m = Len(z)
      BY <1>4, <1>5, <1>6
    <3> QED
      BY <3>1, JoinFacts
  <2> QED
    BY <2>1, Zenon
<1>8. u = ScaledOf(rest, decimals)
  BY <1>2, <1>3, <1>4, <1>5, <1>7 DEF ScaledOf
<1>a. /\ r \in Nat /\ q \in Nat /\ q >= 1 /\ q <= r + 1 /\ k = q - 1 /\ h = k + n
      /\ (q <= r => n = r - q) /\ (~(q <= r) => n = 0) /\ m = decimals - n
      /\ Len(u) = h + m
  BY <1>1, <1>2, <1>3, <1>4, <1>6, <1>7
<1>9. PICK l \in Nat : l = (q - 1) + decimals /\ l = Len(u) /\ h <= l /\ l = h + m
  <2>1. (q - 1) + decimals \in Nat /\ (q - 1) + decimals = h + m /\ h <= (q - 1) + decimals
    BY <1>a
  <2> QED
    BY <1>a, <2>1
<1>b. l = (q - 1) + decimals /\ h <= l /\ l = h + m
  BY <1>9
<1>10. ASSUME NEW a \in 1..r, a # q
       PROVE  PlaceIn(q, a) \in 1..l /\ u[PlaceIn(q, a)] = rest[a]
  <2>1. CASE a < q
    <3>1. a \in 1..k /\ a \in 1..h /\ a \in 1..l
      BY <1>a, <1>b, <2>1
    <3>2. u[a] = rest[a]
      BY <1>2, <1>5, <1>7, <3>1
    <3> QED
      BY <2>1, <3>1, <3>2 DEF PlaceIn
  <2>2. CASE a > q
    <3>1. PICK b : b = a - q /\ b \in 1..n /\ q + b = a /\ k + b \in 1..h
      BY <1>a, <1>b, <2>2
    <3>2. PICK i : i = a - 1 /\ i = k + b /\ i \in 1..h /\ i \in 1..l /\ ~(a < q)
      BY <1>a, <1>b, <2>2, <3>1
    <3>3. u[i] = rest[a]
      <4>1. t[k + b] = f[b] /\ f[b] = rest[q + b]
        BY <1>3, <1>5, <3>1
      <4>2. u[i] = t[i]
        BY <1>7, <3>2
      <4> QED
        BY <3>1, <3>2, <4>1, <4>2
    <3> QED
      BY <3>2, <3>3 DEF PlaceIn
  <2> QED
    BY <1>1, <1>10, <2>1, <2>2
<1>11. ASSUME NEW i \in 1..l
       PROVE  \/ u[i] = 48
              \/ \E a \in 1..r : a # q /\ i = PlaceIn(q, a)
  <2>1. CASE i < q
    <3>1. i \in 1..r /\ i # q /\ i = PlaceIn(q, i)
      BY <1>1, <2>1 DEF PlaceIn
    <3> QED
      BY <3>1
  <2>2. CASE ~(i < q) /\ i <= h
    <3>1. PICK a \in 1..r : a = i + 1 /\ a # q /\ ~(a < q) /\ i = a - 1
      BY <1>a, <1>b, <2>2
    <3>2. i = PlaceIn(q, a)
      BY <3>1 DEF PlaceIn
    <3> QED
      BY <3>1, <3>2
  <2>3. CASE ~(i <= h)
    <3>1. PICK b : b = i - h /\ b \in 1..m /\ h + b = i
      BY <1>9, <2>3
    <3> QED
      BY <1>4, <1>7, <3>1
  <2> QED
    BY <2>1, <2>2, <2>3
<1>12. AreDigits(w)
  <2>1. \A a \in 1..k : a \in 1..r /\ a # q
    BY <1>1, <1>2
  <2> QED
    BY <1>2, <2>1 DEF AreDigits
<1>13. AreDigits(u)
  <2>1. ASSUME NEW i \in 1..l
        PROVE  IsDigit(u[i])
    <3>1. IsDigit(48)
      BY DEF IsDigit
    <3> QED
      BY <1>10, <1>11, <3>1
  <2> QED
    BY <1>7, <1>9, <2>1 DEF AreDigits
<1> QED
  BY <1>2, <1>8, <1>9, <1>10, <1>11, <1>12, <1>13


\* The places of the digits of a text of this shape.
HasPlaces(text, o, r, q, decimals) ==
  /\ \A a \in 1..r : a < q => Place(text, decimals, o + a) = decimals + (q - 1 - a)
  /\ \A a \in 1..r : a > q => Place(text, decimals, o + a) = decimals - (a - q)
  /\ \A i : i \in Digits(text) <=> \E a \in 1..r : a # q /\ i = o + a

LEMMA ShapeHasPlaces ==
  ASSUME NEW text \in Text, NEW o, NEW r, NEW q, Shape(text, o, r, q), NEW decimals \in Nat
  PROVE  HasPlaces(text, o, r, q, decimals)
<1>1. /\ \A a \in 1..r : a < q => Place(text, decimals, o + a) = decimals + (q - 1 - a)
      /\ \A a \in 1..r : a > q => Place(text, decimals, o + a) = decimals - (a - q)
      /\ Cardinality({i \in Digits(text) : i > PointAt(text)}) = IF q <= r THEN r - q ELSE 0
  BY ShapePlaces
<1>2. \A i : i \in Digits(text) <=> \E a \in 1..r : a # q /\ i = o + a
  BY ShapeFacts
<1> QED
  BY <1>1, <1>2 DEF HasPlaces

\* The l digits of s are the digits of the rest, at their positions, and zeros.
Scales(s, l, rest, q, r) ==
  /\ AreDigits(s) /\ l = Len(s)
  /\ \A a \in 1..r : a # q => PlaceIn(q, a) \in 1..l /\ s[PlaceIn(q, a)] = rest[a]
  /\ \A i \in 1..l : s[i] = 48 \/ \E a \in 1..r : a # q /\ i = PlaceIn(q, a)

LEMMA ScaledScales ==
  ASSUME NEW rest \in Text, NEW q \in Nat, NEW r \in Nat, HasPointAt(rest, q, r),
         NEW decimals \in Nat, r - q <= decimals,
         \A a \in 1..r : a # q => IsDigit(rest[a])
  PROVE  \E s, l, v : /\ s = ScaledOf(rest, decimals) /\ v = Number(s)
                     /\ l \in Nat /\ l = (q - 1) + decimals /\ Scales(s, l, rest, q, r)
<1>1. PICK s, l : s = ScaledOf(rest, decimals) /\ l = Len(s)
  OBVIOUS
<1>2. /\ AreDigits(s) /\ l = (q - 1) + decimals
      /\ \A a \in 1..r : a # q => PlaceIn(q, a) \in 1..l /\ s[PlaceIn(q, a)] = rest[a]
      /\ \A i \in 1..l : s[i] = 48 \/ \E a \in 1..r : a # q /\ i = PlaceIn(q, a)
  BY <1>1, ScaledFacts
<1>3. Scales(s, l, rest, q, r)
  BY <1>1, <1>2 DEF Scales
<1>4. l \in Nat
  BY <1>1, <1>2, TextFacts DEF AreDigits
<1> QED
  BY <1>1, <1>2, <1>3, <1>4

\* Every digit of the text is at its place in the scaled number, and every other digit
\* of that number is a zero.
LEMMA ScaledDigits ==
  ASSUME NEW text \in Text, NEW o \in Nat, NEW r \in Nat, NEW q \in Nat, Shape(text, o, r, q),
         NEW rest \in Text, HasPointAt(rest, q, r), \A a \in 1..r : rest[a] = text[o + a],
         NEW decimals \in Nat, r - q <= decimals
  PROVE  /\ Number(ScaledOf(rest, decimals)) \in Nat
         /\ \A i \in Digits(text) :
              /\ Place(text, decimals, i) \in Nat
              /\ WithoutDigits(Number(ScaledOf(rest, decimals)), Place(text, decimals, i)) % 10
                   = Digit(text[i])
         /\ \A k \in Nat :
              WithoutDigits(Number(ScaledOf(rest, decimals)), k) % 10 # 0 =>
                \E i \in Digits(text) : Place(text, decimals, i) = k
<1>1. /\ q \in 1..(r + 1)
      /\ \A a \in 1..r : a # q => IsDigit(text[o + a])
  BY DEF Shape
<1>2. \A a \in 1..r : a # q => IsDigit(rest[a])
  BY <1>1
<1>a. HasPlaces(text, o, r, q, decimals)
  BY ShapeHasPlaces
<1>3. PICK s, l, v : /\ s = ScaledOf(rest, decimals) /\ v = Number(s)
                     /\ l \in Nat /\ l = (q - 1) + decimals /\ Scales(s, l, rest, q, r)
  BY <1>2, ScaledScales
<1>4. /\ v \in Nat
      /\ \A i \in 1..l : WithoutDigits(v, l - i) % 10 = Digit(s[i])
      /\ \A k \in Nat : k >= l => WithoutDigits(v, k) = 0
  BY <1>3, NumberDigits DEF Scales
<1>c. l \in Nat
  BY <1>3
<1>5. ASSUME NEW a \in 1..r, a # q
      PROVE  /\ Place(text, decimals, o + a) = l - PlaceIn(q, a)
             /\ PlaceIn(q, a) \in 1..l
  <2>0. /\ a < q => Place(text, decimals, o + a) = decimals + (q - 1 - a)
        /\ a > q => Place(text, decimals, o + a) = decimals - (a - q)
    BY <1>a DEF HasPlaces
  <2>1. l = (q - 1) + decimals
    BY <1>3
  <2>2. PlaceIn(q, a) = IF a < q THEN a ELSE a - 1
    BY DEF PlaceIn
  <2>3. PlaceIn(q, a) \in 1..l
    BY <1>3, <1>5 DEF Scales
  <2> QED
    BY <1>5, <2>0, <2>1, <2>2, <2>3
<1>6. ASSUME NEW i \in Digits(text)
      PROVE  /\ Place(text, decimals, i) \in Nat
             /\ WithoutDigits(v, Place(text, decimals, i)) % 10 = Digit(text[i])
  <2>1. PICK a \in 1..r : a # q /\ i = o + a
    BY <1>a DEF HasPlaces
  <2>2. PICK p : p = PlaceIn(q, a) /\ p \in 1..l /\ Place(text, decimals, i) = l - p
    BY <1>5, <2>1
  <2>3. l - p \in Nat
    BY <1>c, <2>2
  <2>4. s[p] = text[i]
    BY <1>3, <2>1, <2>2 DEF Scales
  <2> QED
    BY <1>4, <2>2, <2>3, <2>4
<1>7. ASSUME NEW k \in Nat, WithoutDigits(v, k) % 10 # 0
      PROVE  \E i \in Digits(text) : Place(text, decimals, i) = k
  <2>1. k < l
    <3>1. 0 % 10 = 0
      OBVIOUS
    <3>2. ~(k >= l)
      BY <1>4, <1>7, <3>1
    <3> QED
      BY <1>c, <3>2
  <2>2. PICK i \in 1..l : l - i = k
    <3>1. l - k \in 1..l /\ l - (l - k) = k
      BY <1>c, <2>1
    <3> QED
      BY <3>1
  <2>3. s[i] # 48
    <3>1. Digit(48) = 0
      BY DEF Digit
    <3>2. Digit(s[i]) # 0
      BY <1>4, <1>7, <2>2
    <3> QED
      BY <3>1, <3>2
  <2>4. PICK a \in 1..r : a # q /\ i = PlaceIn(q, a)
    BY <1>3, <2>3 DEF Scales
  <2>5. o + a \in Digits(text)
    BY <1>a, <2>4 DEF HasPlaces
  <2>6. Place(text, decimals, o + a) = k
    BY <1>5, <2>2, <2>4
  <2> QED
    BY <2>5, <2>6
<1> QED
  BY <1>3, <1>4, <1>6, <1>7

HasDigitsOf(v, text, decimals) ==
  /\ v \in Nat
  /\ \A i \in Digits(text) :
       /\ Place(text, decimals, i) \in Nat
       /\ WithoutDigits(v, Place(text, decimals, i)) % 10 = Digit(text[i])
  /\ \A k \in Nat : WithoutDigits(v, k) % 10 # 0 =>
                     \E i \in Digits(text) : Place(text, decimals, i) = k

LEMMA ScaledHasDigits ==
  ASSUME NEW text \in Text, NEW o \in Nat, NEW r \in Nat, NEW q \in Nat, Shape(text, o, r, q),
         NEW rest \in Text, HasPointAt(rest, q, r), \A a \in 1..r : rest[a] = text[o + a],
         NEW decimals \in Nat, r - q <= decimals
  PROVE  HasDigitsOf(Number(ScaledOf(rest, decimals)), text, decimals)
BY ScaledDigits DEF HasDigitsOf

\* The digits before the point are those of the scaled number above its scale.
LEMMA ScaledRoom ==
  ASSUME NEW rest \in Text, NEW q \in Nat, NEW r \in Nat, HasPointAt(rest, q, r),
         NEW decimals \in Nat, r - q <= decimals,
         \A a \in 1..r : a # q => IsDigit(rest[a]),
         NEW width \in Nat, decimals <= width
  PROVE  WithoutDigits(Number(ScaledOf(rest, decimals)), width) =
           WithoutDigits(Number(WholeOf(rest)), width - decimals)
<1>1. /\ r \in Nat /\ q \in 1..(r + 1)
      /\ Len(WholeOf(rest)) = q - 1
      /\ \A a \in 1..(q - 1) : WholeOf(rest)[a] = rest[a]
  <2>1. RestIs(rest, q, r)
    BY RestIsParts, Zenon
  <2> QED
    BY <2>1, Zenon DEF RestIs
<1>2. AreDigits(WholeOf(rest))
  BY ScaledFacts
<1>3. PICK s, l, v : /\ s = ScaledOf(rest, decimals) /\ v = Number(s)
                     /\ l \in Nat /\ l = (q - 1) + decimals /\ Scales(s, l, rest, q, r)
  BY ScaledScales
<1>0. PICK w, k : /\ w = WholeOf(rest) /\ k = Len(w) /\ AreDigits(w)
                  /\ k = q - 1 /\ \A a \in 1..k : w[a] = rest[a]
  BY <1>1, <1>2
<1>4. k = q - 1 /\ l = (q - 1) + decimals /\ q <= r + 1 /\ q \in Nat /\ q >= 1
  BY <1>0, <1>1, <1>3
<1>5. k <= l /\ l - k = decimals
  BY <1>4
<1>6. ASSUME NEW a \in 1..k
      PROVE  w[a] = s[a]
  <2>1. a \in 1..r /\ a # q /\ a < q
    BY <1>4
  <2>2. PlaceIn(q, a) = a
    BY <2>1 DEF PlaceIn
  <2> QED
    BY <1>0, <1>3, <2>1, <2>2, <1>6 DEF Scales
<1>7. \A j \in Nat : WithoutDigits(Number(w), j) = WithoutDigits(Number(s), j + (l - k))
  <2>1. Len(w) <= Len(s) /\ \A a \in 1..Len(w) : w[a] = s[a]
    BY <1>0, <1>3, <1>5, <1>6 DEF Scales
  <2>2. AreDigits(w) /\ AreDigits(s) /\ k = Len(w) /\ l = Len(s)
    BY <1>0, <1>3 DEF Scales
  <2>3. \A j \in Nat : WithoutDigits(Number(w), j) = WithoutDigits(Number(s), j + (Len(s) - Len(w)))
    BY <2>1, <2>2, BeginningNumber, Zenon
  <2> QED
    BY <2>2, <2>3
<1>8. PICK j \in Nat : j = width - decimals /\ j + decimals = width
  OBVIOUS
<1>9. WithoutDigits(Number(w), j) = WithoutDigits(Number(s), width)
  BY <1>5, <1>7, <1>8
<1> QED
  BY <1>0, <1>3, <1>8, <1>9

\* A decimal has a minus just if it is read as negative.
LEMMA MinusFacts ==
  ASSUME NEW text \in Text, Len(text) > 0, NEW o, NEW r, NEW q, Shape(text, o, r, q),
         NEW negative, Layout(text, o, r, negative)
  PROVE  (\E i \in DOMAIN text : text[i] = Minus) <=> negative
<1>1. PICK n \in Nat : n = Len(text) /\ n >= 1 /\ DOMAIN text = 1..n
  BY TextFacts
<1>2. \A i \in 1..n : text[i] = Minus => i <= o \/ i > o + r
  <2>1. ASSUME NEW i \in 1..n, text[i] = Minus, ~(i <= o), ~(i > o + r)
        PROVE  FALSE
    <3>1. o \in Nat /\ r \in Nat
      BY DEF Shape
    <3>2. PICK a \in 1..r : o + a = i
      <4>1. i - o \in 1..r /\ o + (i - o) = i
        BY <2>1, <3>1
      <4> QED
        BY <4>1
    <3>3. text[i] = Point \/ IsDigit(text[i])
      BY <3>2 DEF Shape
    <3> QED
      BY <2>1, <3>3 DEF IsDigit, Minus, Point
  <2> QED
    BY <2>1
<1>3. 1 \in 1..n /\ n \in 1..n /\ (n >= 2 => 2 \in 1..n)
  BY <1>1
<1>4. CASE text[n] = Minus /\ negative
  BY <1>1, <1>3, <1>4
<1>5. CASE n >= 2 /\ text[2] = Minus /\ negative
  BY <1>1, <1>3, <1>5
<1>6. CASE text[1] = Minus /\ negative
  BY <1>1, <1>3, <1>6
<1>7. CASE o = 1 /\ r = n - 1 /\ text[1] = Plus /\ ~negative
  <2>1. ASSUME NEW i \in 1..n, text[i] = Minus
        PROVE  FALSE
    <3>1. i <= o \/ i > o + r
      BY <1>2, <2>1
    <3>2. i = 1
      BY <1>1, <1>7, <3>1
    <3> QED
      BY <1>7, <2>1, <3>2 DEF Plus, Minus
  <2> QED
    BY <1>1, <1>7, <2>1
<1>8. CASE o = 0 /\ r = n /\ ~negative
  <2>1. ASSUME NEW i \in 1..n, text[i] = Minus
        PROVE  FALSE
    <3>1. i <= o \/ i > o + r
      BY <1>2, <2>1
    <3> QED
      BY <1>1, <1>8, <3>1
  <2> QED
    BY <1>1, <1>8, <2>1
<1> QED
  BY <1>1, <1>4, <1>5, <1>6, <1>7, <1>8 DEF Layout

\* What CastDecimal makes of a text of this shape is what the text denotes, if the
\* digits before its point fit.
LEMMA CastIsWritten ==
  ASSUME NEW text \in Text, Len(text) > 0, NEW o \in Nat, NEW r \in Nat, NEW q \in Nat,
         Shape(text, o, r, q), NEW negative, NEW rest \in Text,
         Unsigned(text, o, r, rest, negative), HasPointAt(rest, q, r),
         NEW decimals \in Nat, r - q <= decimals, NEW width \in Nat, decimals <= width,
         WithoutDigits(Number(WholeOf(rest)), width - decimals) = 0,
         NEW n, n = IF negative THEN -Number(ScaledOf(rest, decimals))
                                ELSE Number(ScaledOf(rest, decimals))
  PROVE  IsWritten(n, text, decimals, width)
<1>1. /\ \A a \in 1..r : rest[a] = text[o + a]
      /\ Layout(text, o, r, negative) /\ negative \in BOOLEAN
  BY DEF Unsigned
<1>2. \A a \in 1..r : a # q => IsDigit(rest[a])
  BY <1>1 DEF Shape
<1>3. PICK v : v = Number(ScaledOf(rest, decimals))
  OBVIOUS
<1>4. /\ v \in Nat
      /\ \A i \in Digits(text) : WithoutDigits(v, Place(text, decimals, i)) % 10 = Digit(text[i])
      /\ \A k \in Nat : WithoutDigits(v, k) % 10 # 0 =>
                          \E i \in Digits(text) : Place(text, decimals, i) = k
  <2>1. HasDigitsOf(Number(ScaledOf(rest, decimals)), text, decimals)
    BY <1>1, ScaledHasDigits, Zenon
  <2>2. HasDigitsOf(v, text, decimals)
    BY <1>3, <2>1, Zenon
  <2> QED
    BY <2>2, Zenon DEF HasDigitsOf
<1>5. WithoutDigits(v, width) = 0
  BY <1>2, <1>3, ScaledRoom
<1>6. (\E i \in DOMAIN text : text[i] = Minus) <=> negative
  BY <1>1, MinusFacts
<1>7. n = IF negative THEN -v ELSE v
  BY <1>3
<1>8. /\ v = IF n < 0 THEN -n ELSE n
      /\ IF negative THEN n <= 0 ELSE n >= 0
  BY <1>1, <1>4, <1>7
<1>9. \A k \in 0..(width - 1) : k \in Nat
  OBVIOUS
<1> QED
  BY <1>4, <1>5, <1>6, <1>8, <1>9 DEF IsWritten

\* If all digits at places from width on are zeros, those before the point fit.
LEMMA RoomFits ==
  ASSUME NEW text \in Text, NEW o \in Nat, NEW r \in Nat, NEW q \in Nat, Shape(text, o, r, q),
         NEW rest \in Text, HasPointAt(rest, q, r), \A a \in 1..r : rest[a] = text[o + a],
         NEW decimals \in Nat, r - q <= decimals, NEW width \in Nat, decimals <= width,
         HasRoom(text, decimals, width)
  PROVE  WithoutDigits(Number(WholeOf(rest)), width - decimals) = 0
<1>1. /\ q \in 1..(r + 1)
      /\ Len(WholeOf(rest)) = q - 1
      /\ \A a \in 1..(q - 1) : WholeOf(rest)[a] = rest[a]
  <2>1. RestIs(rest, q, r)
    BY RestIsParts, Zenon
  <2> QED
    BY <2>1, Zenon DEF RestIs
<1>2. AreDigits(WholeOf(rest))
  <2>1. \A a \in 1..r : a # q => IsDigit(rest[a])
    BY DEF Shape
  <2> QED
    BY <2>1, ScaledFacts
<1>3. PICK w, k : /\ w = WholeOf(rest) /\ k = Len(w) /\ AreDigits(w)
                  /\ k = q - 1 /\ \A a \in 1..k : w[a] = rest[a]
  BY <1>1, <1>2
<1>4. PICK j \in Nat : j = width - decimals
  OBVIOUS
<1>5. k \in Nat /\ k = q - 1 /\ q <= r + 1 /\ j + decimals = width
  BY <1>1, <1>3, <1>4
<1>6. HasPlaces(text, o, r, q, decimals)
  BY ShapeHasPlaces
<1>7. CASE j >= k
  BY <1>3, <1>4, <1>7, NumberDigits
<1>8. CASE ~(j >= k)
  <2>1. PICK m : m = k - j /\ m \in 0..k /\ k - m = j
    <3>1. k - j \in 0..k /\ k - (k - j) = j
      BY <1>5, <1>8
    <3> QED
      BY <3>1
  <2>2. ASSUME NEW a \in 1..m
        PROVE  Digit(w[a]) = 0
    <3>1. a \in 1..k /\ a \in 1..r /\ a < q /\ a # q
      BY <1>5, <2>1
    <3>2. Place(text, decimals, o + a) = decimals + (q - 1 - a) /\ o + a \in Digits(text)
      BY <1>6, <3>1 DEF HasPlaces
    <3>3. decimals + (q - 1 - a) >= width
      BY <1>5, <2>1
    <3>4. Digit(text[o + a]) = 0
      BY <3>2, <3>3 DEF HasRoom
    <3> QED
      BY <1>3, <3>1, <3>4
  <2>3. m \in 0..Len(w)
    BY <1>3, <2>1
  <2>4. WithoutDigits(Number(w), Len(w) - m) = 0
    BY <1>3, <2>2, <2>3, ZeroDigits, Zenon
  <2> QED
    BY <1>3, <1>4, <2>1, <2>4, Zenon
<1> QED
  BY <1>7, <1>8

LEMMA UnsignedFits ==
  ASSUME NEW text \in Text, NEW o \in Nat, NEW r \in Nat, NEW q \in Nat, Shape(text, o, r, q),
         NEW rest \in Text, NEW negative, Unsigned(text, o, r, rest, negative),
         HasPointAt(rest, q, r), NEW decimals \in Nat, r - q <= decimals,
         NEW width \in Nat, decimals <= width, HasRoom(text, decimals, width)
  PROVE  WithoutDigits(Number(WholeOf(rest)), width - decimals) = 0
<1>1. \A a \in 1..r : rest[a] = text[o + a]
  BY DEF Unsigned
<1> QED
  BY <1>1, RoomFits

\* The text has the shape of a decimal just if the bytes without the sign and the point
\* are digits.
LEMMA RestShape ==
  ASSUME NEW text \in Text, Len(text) > 0, NEW o \in Nat, NEW r \in Nat, NEW q \in Nat,
         NEW negative, NEW rest \in Text, Unsigned(text, o, r, rest, negative),
         HasPointAt(rest, q, r)
  PROVE  Shape(text, o, r, q) <=> \A a \in 1..r : a # q => IsDigit(rest[a])
<1>1. /\ o + r <= Len(text) /\ Layout(text, o, r, negative)
      /\ \A a \in 1..r : rest[a] = text[o + a]
  BY DEF Unsigned
<1>2. q \in 1..(r + 1)
  <2>1. RestIs(rest, q, r)
    BY RestIsParts, Zenon
  <2> QED
    BY <2>1, Zenon DEF RestIs
<1>3. \A a \in 1..r : a = q => rest[a] = Point
  <2>1. PointsTo(rest, q) /\ r = Len(rest)
    BY PointsToSome DEF HasPointAt
  <2> QED
    BY <2>1 DEF PointsTo
<1>4. \A i \in 1..Len(text) : i <= o \/ i > o + r => text[i] \in {Plus, Minus}
  <2>1. PICK n \in Nat : n = Len(text)
    BY TextFacts
  <2>2. ASSUME NEW i \in 1..n, i <= o \/ i > o + r
        PROVE  text[i] \in {Plus, Minus}
    <3>1. \/ text[n] = Minus /\ o = 0 /\ r = n - 1
          \/ text[1] = Plus /\ n >= 2 /\ text[2] = Minus /\ o = 2 /\ r = n - 2
          \/ text[1] = Plus /\ o = 1 /\ r = n - 1
          \/ text[1] = Minus /\ o = 1 /\ r = n - 1
          \/ o = 0 /\ r = n
      BY <1>1, <2>1 DEF Layout
    <3>2. CASE text[n] = Minus /\ o = 0 /\ r = n - 1
      <4>1. i = n
        BY <2>2, <3>2
      <4> QED
        BY <3>2, <4>1
    <3>3. CASE text[1] = Plus /\ n >= 2 /\ text[2] = Minus /\ o = 2 /\ r = n - 2
      <4>1. i = 1 \/ i = 2
        BY <2>2, <3>3
      <4> QED
        BY <3>3, <4>1
    <3>4. CASE text[1] \in {Plus, Minus} /\ o = 1 /\ r = n - 1
      <4>1. i = 1
        BY <2>2, <3>4
      <4> QED
        BY <3>4, <4>1
    <3>5. CASE o = 0 /\ r = n
      BY <2>2, <3>5
    <3> QED
      BY <3>1, <3>2, <3>3, <3>4, <3>5
  <2> QED
    BY <2>1, <2>2
<1>5. Shape(text, o, r, q) <=>
        \A a \in 1..r : IF a = q THEN text[o + a] = Point ELSE IsDigit(text[o + a])
  BY <1>1, <1>2, <1>4 DEF Shape
<1> QED
  BY <1>1, <1>3, <1>5

\* The signed text has as much after its point as the text without sign, and no other
\* bytes than a minus before it.
LEMMA SignedFacts ==
  ASSUME NEW s, NEW rest, NEW negative \in BOOLEAN, IsSigned(s, rest, negative),
         NEW q \in Nat, NEW r \in Nat, HasPointAt(rest, q, r)
  PROVE  /\ Len(s) - PointAt(s) = r - q
         /\ (\A a \in 1..r : a # q => IsDigit(rest[a])) =>
              \A i \in DOMAIN s : IsDigit(s[i]) \/ s[i] \in {Minus, Point}
<1>1. s \in Text /\ rest \in Text
  BY DEF IsSigned
<1>2. PointsTo(rest, q) /\ r = Len(rest) /\ q \in 1..(r + 1)
  BY <1>1, PointsToSome, RestParts DEF HasPointAt
<1>a. q \in 1..(r + 1)
  BY <1>2
<1>3. (\A a \in 1..r : a # q => IsDigit(rest[a])) =>
        \A a \in 1..r : IsDigit(rest[a]) \/ rest[a] = Point
  BY <1>2 DEF PointsTo
<1>4. CASE negative
  <2>1. s # <<>> /\ Head(s) = Minus /\ rest = Tail(s)
    BY <1>4 DEF IsSigned
  <2>2. Len(s) > 0
    BY <1>1, <2>1, TextFacts, EmptyWellFormed
  <2>3. PICK n \in Nat : n = Len(s) /\ DOMAIN s = 1..n /\ n > 0
    BY <1>1, <2>2, TextFacts
  <2>4. /\ r = n - 1 /\ s[1] = Minus
        /\ \A b \in 1..(n - 1) : rest[b] = s[b + 1]
    BY <1>1, <1>2, <2>1, <2>2, <2>3, TailFacts
  <2>5. PICK p : p = q + 1 /\ p \in 1..(n + 1)
    BY <1>2, <2>3, <2>4
  <2>6. PointsTo(s, p)
    <3>1. ASSUME p <= n
          PROVE  s[p] = Point
      <4>1. q \in 1..(n - 1) /\ q <= r
        BY <1>a, <2>3, <2>4, <2>5, <3>1
      <4>2. rest[q] = Point
        BY <1>2, <4>1 DEF PointsTo
      <4> QED
        BY <2>4, <2>5, <4>1, <4>2
    <3>2. ASSUME NEW i \in 1..n, i < p
          PROVE  s[i] # Point
      <4>1. CASE i = 1
        BY <2>4, <4>1 DEF Minus, Point
      <4>2. CASE i # 1
        <5>1. PICK b : b = i - 1 /\ b \in 1..(n - 1) /\ b \in 1..r /\ b < q /\ b + 1 = i
          BY <2>3, <2>4, <2>5, <3>2, <4>2
        <5>2. rest[b] # Point
          BY <1>2, <5>1 DEF PointsTo
        <5> QED
          BY <2>4, <5>1, <5>2
      <4> QED
        BY <4>1, <4>2
    <3> QED
      BY <2>3, <2>5, <3>1, <3>2 DEF PointsTo
  <2>7. PointAt(s) = p
    BY <1>1, <2>6, PointAtIs
  <2>8. Len(s) - PointAt(s) = r - q
    BY <2>3, <2>4, <2>5, <2>7
  <2>9. ASSUME \A a \in 1..r : IsDigit(rest[a]) \/ rest[a] = Point, NEW i \in 1..n
        PROVE  IsDigit(s[i]) \/ s[i] \in {Minus, Point}
    <3>1. CASE i = 1
      BY <2>4, <3>1
    <3>2. CASE i # 1
      <4>1. PICK b : b = i - 1 /\ b \in 1..(n - 1) /\ b \in 1..r /\ b + 1 = i
        BY <2>3, <2>4, <3>2
      <4> QED
        BY <2>4, <2>9, <4>1
    <3> QED
      BY <3>1, <3>2
  <2> QED
    BY <1>3, <2>3, <2>8, <2>9
<1>5. CASE ~negative
  <2>1. s = rest
    BY <1>5 DEF IsSigned
  <2>2. Len(s) = r /\ PointAt(s) = q /\ DOMAIN s = 1..r
    BY <1>1, <1>2, <2>1, TextFacts DEF HasPointAt
  <2> QED
    BY <1>3, <2>1, <2>2
<1> QED
  BY <1>4, <1>5

SignedAs(s, rest, q, r) ==
  /\ Len(s) - PointAt(s) = r - q
  /\ (\A a \in 1..r : a # q => IsDigit(rest[a])) =>
       \A i \in DOMAIN s : IsDigit(s[i]) \/ s[i] \in {Minus, Point}

LEMMA SignedHolds ==
  ASSUME NEW s, NEW rest, NEW negative \in BOOLEAN, IsSigned(s, rest, negative),
         NEW q \in Nat, NEW r \in Nat, HasPointAt(rest, q, r)
  PROVE  SignedAs(s, rest, q, r)
BY SignedFacts DEF SignedAs

LEMMA CastIs ==
  ASSUME NEW s, NEW rest, NEW negative \in BOOLEAN, IsSigned(s, rest, negative),
         NEW width, NEW decimals
  PROVE  CastDecimal(s, width, decimals) =
           IF /\ AllDigits(WholeOf(rest) \o FractionOf(rest))
              /\ WithoutDigits(Number(WholeOf(rest)), width - decimals) = 0
           THEN TheValue(IF negative THEN -Number(ScaledOf(rest, decimals))
                                     ELSE Number(ScaledOf(rest, decimals)))
           ELSE Invalid
<1>1. negative <=> s # <<>> /\ Head(s) = Minus
  BY DEF IsSigned
<1>2. CASE negative
  <2>1. rest = Tail(s)
    BY <1>2 DEF IsSigned
  <2> QED
    BY <1>1, <1>2, <2>1 DEF CastDecimal, WholeOf, FractionOf, ScaledOf
<1>3. CASE ~negative
  <2>1. rest = s
    BY <1>3 DEF IsSigned
  <2> QED
    BY <1>1, <1>3, <2>1 DEF CastDecimal, WholeOf, FractionOf, ScaledOf
<1> QED
  BY <1>2, <1>3

\* A decimal is read as what it denotes; what is refused is no decimal, or has more
\* digits before its point than the column.
LEMMA DecimalIsValue ==
  ASSUME NEW text \in Text, Len(text) > 0, NEW rule, Kind(rule) = "decimal",
         NEW decimals \in Nat, decimals = rule.decimals,
         NEW width \in Nat, width = Width(rule), decimals <= width,
         NEW v, v = ParseDecimal(text, rule)
  PROVE  /\ v.ok => ~v.null /\ Denotes(rule, text, v.of)
         /\ ~v.ok => ~IsValue(rule, text)
<1>1. PICK o, r, rest, negative : Unsigned(text, o, r, rest, negative)
  BY SignFirstLayout
<1>2. PICK s : s = SignFirst(text)
  OBVIOUS
<1>3. /\ o \in Nat /\ r \in Nat /\ negative \in BOOLEAN /\ IsSigned(s, rest, negative)
      /\ rest \in Text /\ s \in Text /\ Len(rest) = r
      /\ \A a \in 1..r : rest[a] = text[o + a]
  BY <1>1, <1>2 DEF Unsigned, IsSigned
<1>4. PICK q : HasPointAt(rest, q, r)
  BY <1>3 DEF HasPointAt
<1>a. q \in 1..(r + 1)
  BY <1>3, <1>4, RestParts, Zenon
<1>5. q \in 1..(r + 1) /\ q \in Nat
  BY <1>3, <1>a
<1>6. IsDecimal(text, decimals) <=>
        Shape(text, o, r, q) /\ (q > 1 \/ q < r) /\ r - q <= decimals
  BY <1>1, <1>4, IsDecimalShape DEF HasPointAt
<1>7. Shape(text, o, r, q) <=> \A a \in 1..r : a # q => IsDigit(rest[a])
  <2>1. /\ o \in Nat /\ r \in Nat /\ q \in Nat /\ rest \in Text
        /\ Unsigned(text, o, r, rest, negative) /\ HasPointAt(rest, q, r)
    BY <1>1, <1>3, <1>4, <1>5
  <2> QED
    BY <2>1, RestShape
<1>8. AllDigits(WholeOf(rest) \o FractionOf(rest)) <=>
        Shape(text, o, r, q) /\ (q > 1 \/ q < r)
  BY <1>3, <1>4, <1>5, <1>7, RestDigits
<1>9. /\ Len(s) - PointAt(s) <= decimals <=> r - q <= decimals
      /\ Shape(text, o, r, q) =>
           \A i \in DOMAIN s : IsDigit(s[i]) \/ s[i] \in {Minus, Point}
  <2>1. SignedAs(s, rest, q, r)
    BY <1>3, <1>4, <1>5, SignedHolds, Zenon
  <2> QED
    BY <1>7, <2>1, Zenon DEF SignedAs
<1> DEFINE BeforeFits == WithoutDigits(Number(WholeOf(rest)), width - decimals) = 0
<1> DEFINE value == IF negative THEN -Number(ScaledOf(rest, decimals))
                                ELSE Number(ScaledOf(rest, decimals))
<1> HIDE DEF BeforeFits, value
<1>10. CastDecimal(s, width, decimals) =
         IF AllDigits(WholeOf(rest) \o FractionOf(rest)) /\ BeforeFits THEN TheValue(value) ELSE Invalid
  BY <1>3, CastIs DEF BeforeFits, value
<1>11. v = IF IsDecimal(text, decimals) /\ BeforeFits THEN TheValue(value) ELSE Invalid
  <2>1. v = IF /\ \A i \in DOMAIN s : IsDigit(s[i]) \/ s[i] \in {Minus, Point}
               /\ Len(s) - PointAt(s) <= decimals
            THEN CastDecimal(s, width, decimals)
            ELSE Invalid
    BY <1>2 DEF ParseDecimal
  <2> QED
    BY <1>6, <1>8, <1>9, <1>10, <2>1
<1>12. CASE IsDecimal(text, decimals) /\ BeforeFits
  <2>1. v.ok /\ ~v.null /\ v.of = value
    BY <1>11, <1>12 DEF TheValue
  <2>2. IsWritten(value, text, decimals, width)
    BY <1>1, <1>3, <1>4, <1>5, <1>6, <1>12, CastIsWritten DEF BeforeFits, value
  <2>3. Denotes(rule, text, value)
    BY <1>12, <2>2 DEF Denotes
  <2> QED
    BY <2>1, <2>3
<1>13. CASE ~(IsDecimal(text, decimals) /\ BeforeFits)
  <2>1. ~v.ok
    BY <1>11, <1>13 DEF Invalid
  <2>2. ASSUME IsDecimal(text, decimals)
        PROVE  ~HasRoom(text, decimals, width)
    <3>1. Shape(text, o, r, q) /\ r - q <= decimals /\ ~BeforeFits
      BY <1>6, <1>13, <2>2
    <3>2. ASSUME HasRoom(text, decimals, width)
          PROVE  WithoutDigits(Number(WholeOf(rest)), width - decimals) = 0
      <4>1. /\ o \in Nat /\ r \in Nat /\ q \in Nat /\ rest \in Text
            /\ Unsigned(text, o, r, rest, negative)
            /\ HasPointAt(rest, q, r) /\ Shape(text, o, r, q) /\ r - q <= decimals
        BY <1>1, <1>3, <1>4, <1>5, <3>1
      <4> QED
        BY <3>2, <4>1, UnsignedFits
    <3> QED
      BY <3>1, <3>2 DEF BeforeFits
  <2> QED
    BY <2>1, <2>2 DEF IsValue
<1> QED
  BY <1>12, <1>13

-----------------------------------------------------------------------------
(* Typed columns.                                                          *)

LEMMA ReverseText ==
  ASSUME NEW s \in Text
  PROVE  /\ Reverse(s) \in Text /\ Len(Reverse(s)) = Len(s)
         /\ \A b \in 1..Len(s) : Reverse(s)[b] = s[(Len(s) - b) + 1]
<1>1. PICK n \in Nat : n = Len(s)
  BY TextFacts
<1>2. \A b \in 1..n : (n - b) + 1 \in 1..n
  OBVIOUS
<1>3. \A b \in 1..n : s[(n - b) + 1] \in Byte
  BY <1>1, <1>2, TextFacts
<1>4. Reverse(s) = [b \in 1..n |-> s[(n - b) + 1]]
  BY <1>1 DEF Reverse
<1>5. Reverse(s) \in Bytes(n)
  BY <1>3, <1>4 DEF Bytes
<1> QED
  BY <1>1, <1>4, <1>5, BytesFacts

LEMMA TrimmedText ==
  ASSUME NEW s \in Text
  PROVE  Trimmed(s) \in Text
<1>1. RTrim(Reverse(s)) \in Text
  BY ReverseText, RTrimFacts
<1> QED
  BY <1>1, ReverseText, RTrimFacts DEF Trimmed

\* A value is what the text denotes, NULL stands for blanks and the date of zeros, and
\* what is refused is no value.
LEMMA TypedIsValue ==
  ASSUME NEW raw \in Text, NEW rule, rule.length \in Int, rule.decimals \in Int,
         Kind(rule) # "text",
         NEW text, text = Trimmed(raw), NEW v, v = ParseTypedValue(rule, raw)
  PROVE  /\ v.ok /\ ~v.null => Denotes(rule, text, v.of)
         /\ v.ok /\ v.null => text = <<>> \/ (text = Zeros(8) /\ Kind(rule) = "date")
         /\ ~v.ok => ~IsValue(rule, text)
<1>1. text \in Text
  BY TrimmedText
<1>2. CASE text = <<>>
  <2>1. v = NullValue
    BY <1>2 DEF ParseTypedValue
  <2> QED
    BY <1>2, <2>1 DEF NullValue
<1>3. CASE text # <<>> /\ Kind(rule) = "date"
  <2>1. v = ParseDate(text)
    BY <1>3 DEF ParseTypedValue
  <2>2. CASE text = Zeros(8)
    <3>1. v = NullValue
      BY <2>1, <2>2 DEF ParseDate
    <3> QED
      BY <1>3, <2>2, <3>1 DEF NullValue
  <2>3. CASE text # Zeros(8)
    <3>1. v = IF IsValue(rule, text) THEN TheValue(Number(text)) ELSE Invalid
      BY <1>1, <1>3, <2>1, <2>3, DateIsValue DEF ParseDate
    <3>2. IsValue(rule, text) => Denotes(rule, text, Number(text))
      BY <1>1, <1>3, DateIsValue
    <3> QED
      BY <3>1, <3>2 DEF TheValue, Invalid
  <2> QED
    BY <2>2, <2>3
<1>4. CASE text # <<>> /\ Kind(rule) = "time"
  <2>1. v = ParseTime(text)
    BY <1>4 DEF ParseTypedValue
  <2>2. v = IF IsValue(rule, text) THEN TheValue(Number(text)) ELSE Invalid
    BY <1>1, <1>4, <2>1, TimeIsValue DEF ParseTime
  <2>3. IsValue(rule, text) => Denotes(rule, text, Number(text))
    BY <1>1, <1>4, TimeIsValue
  <2> QED
    BY <2>2, <2>3 DEF TheValue, Invalid
<1>5. CASE text # <<>> /\ Kind(rule) = "decimal"
  <2>1. v = ParseDecimal(text, rule)
    BY <1>5 DEF ParseTypedValue
  <2>2. Len(text) > 0
    BY <1>1, <1>5 DEF Text
  <2>3. PICK decimals \in Nat : decimals = rule.decimals
    <3>1. rule.decimals >= 0
      BY <1>5 DEF Kind
    <3> QED
      BY <3>1
  <2>4. PICK width \in Nat : width = Width(rule) /\ decimals <= width
    BY <2>3 DEF Width, Larger
  <2> QED
    BY <1>1, <1>5, <2>1, <2>2, <2>3, <2>4, DecimalIsValue
<1>6. Kind(rule) \in {"date", "time", "decimal", "text"}
  BY DEF Kind
<1> QED
  BY <1>2, <1>3, <1>4, <1>5, <1>6

\* A typed column holds exactly what the text denotes, or NULL where there is no value;
\* strict refuses only text that is no value (ParseTypedValue, ReadSegmentScan).
THEOREM CodecTypedExact == Spec => []TypedExact
<1>1. CodecInv => TypedExact
  <2> SUFFICES ASSUME CodecInv
               PROVE  TypedExact
    OBVIOUS
  <2>0. /\ case.encoding \in TextEncodings
        /\ Len(case.rules) \in Nat /\ DOMAIN case.rules = 1..Len(case.rules)
        /\ \A i \in 1..Len(case.rules) :
             case.rules[i].length \in Int /\ case.rules[i].decimals \in Int
    BY CaseFacts DEF CodecInv, Types, IsCase
  <2>1. ASSUME Reading, NEW i \in 1..Len(case.rules), InBounds(case.rules[i]),
               Decodes(Slice(i), case.encoding), KindOf(i) # "text",
               NEW text, text = Trimmed(TextOf(i)), NEW rule, rule = case.rules[i],
               NEW v, v = Parsed(i)
        PROVE  /\ v.ok /\ ~v.null => Denotes(rule, text, v.of)
               /\ v.ok /\ v.null => text = <<>> \/ (text = Zeros(8) /\ Kind(rule) = "date")
               /\ ~v.ok => ~IsValue(rule, text)
    <3>1. Slice(i) \in Text
      BY <2>1, SliceFacts
    <3>2. TextOf(i) \in Text
      BY <2>0, <2>1, <3>1, DecodesWellFormed DEF TextOf
    <3>3. Kind(rule) # "text"
      BY <2>1 DEF KindOf
    <3>4. rule.length \in Int /\ rule.decimals \in Int
      BY <2>0, <2>1
    <3>5. v = ParseTypedValue(rule, TextOf(i))
      BY <2>1 DEF Parsed
    <3> QED
      BY <2>1, <3>2, <3>3, <3>4, <3>5, TypedIsValue
  <2>2. ASSUME NEW i \in DOMAIN cells, KindOf(i) # "text",
               NEW text, text = Trimmed(TextOf(i)), NEW rule, rule = case.rules[i]
        PROVE  IF cells[i].null
               THEN \/ text = <<>>
                    \/ text = Zeros(8) /\ Kind(rule) = "date"
                    \/ ~case.strict /\ ~IsValue(rule, text)
               ELSE Denotes(rule, text, cells[i].of)
    <3>1. Reading
      <4>1. SUFFICES ASSUME ~Reading
                     PROVE  FALSE
        OBVIOUS
      <4>2. cells = <<>>
        BY <4>1 DEF CodecInv, CellsHold
      <4> QED
        BY <2>2, <4>2
    <3>2. /\ i \in 1..(next - 1) /\ cells[i] = CellOf(i) /\ i \in 1..Len(case.rules)
          /\ InBounds(case.rules[i]) /\ Decodes(Slice(i), case.encoding)
      BY <2>2, <3>1, FieldsRead
    <3>3. PICK v : v = Parsed(i)
      OBVIOUS
    <3>4. /\ v.ok /\ ~v.null => Denotes(rule, text, v.of)
          /\ v.ok /\ v.null => text = <<>> \/ (text = Zeros(8) /\ Kind(rule) = "date")
          /\ ~v.ok => ~IsValue(rule, text)
      BY <2>1, <2>2, <3>1, <3>2, <3>3
    <3>5. cells[i] = IF v.ok THEN v ELSE NullValue
      BY <2>2, <3>2, <3>3 DEF CellOf
    <3>6. ~v.ok => ~case.strict
      <4>1. ~FieldThrows(i)
        BY <3>1, <3>2 DEF CodecInv, CellsHold
      <4> QED
        BY <2>2, <3>3, <4>1 DEF FieldThrows
    <3>7. CASE v.ok
      BY <3>4, <3>5, <3>7
    <3>8. CASE ~v.ok
      <4>1. cells[i].null
        BY <3>5, <3>8 DEF NullValue
      <4> QED
        BY <3>4, <3>6, <3>8, <4>1
    <3> QED
      BY <3>7, <3>8
  <2>3. ASSUME pc = "refused", case.origin # "control", KindOf(next) # "text",
               InBounds(case.rules[next]), ~Malformed(Slice(next))
        PROVE  ~IsValue(case.rules[next], Trimmed(TextOf(next)))
    <3>1. Reading
      BY <2>3 DEF Reading
    <3>2. next \in 1..Len(case.rules) /\ FieldThrows(next)
      BY <2>0, <2>3, <3>1 DEF CodecInv, CellsHold
    <3>3. Slice(next) \in Text
      BY <2>3, <3>1, <3>2, SliceFacts
    <3>4. Decodes(Slice(next), case.encoding)
      BY <2>0, <2>3, <3>3, DecodesNotIsMalformed
    <3>5. ~Parsed(next).ok
      BY <2>3, <3>2, <3>4 DEF FieldThrows
    <3> QED
      BY <2>1, <2>3, <3>1, <3>2, <3>4, <3>5
  <2> QED
    BY <2>2, <2>3 DEF TypedExact
<1> QED
  BY <1>1, CodecInvariance, PTL

LEMMA AsciiAlone ==
  ASSUME NEW c \in Byte, c < 128
  PROVE  SequenceLength(c) = 1
<1>1. c \in 0..127
  BY DEF Byte
<1> QED
  BY <1>1 DEF SequenceLength

\* A page of bytes below 128 has as many characters as bytes.
LEMMA PlainPage ==
  ASSUME NEW raw \in Text, NEW e, NEW h, Joins(h, Pieces(raw, e), Len(raw)),
         \A b \in 1..Len(h[Len(raw)]) : h[Len(raw)][b] < 128
  PROVE  Len(h[Len(raw)]) = Len(raw)
<1>1. PICK n \in Nat : n = Len(raw)
  BY TextFacts
<1>2. Pieces(raw, e) \in [1..n -> Text]
  <2>1. \A j \in 1..n : Pieces(raw, e)[j] \in Text
    BY <1>1, PieceFacts
  <2> QED
    BY <1>1, <2>1, Zenon DEF Pieces
<1> DEFINE S == {j \in Nat : j <= n => Len(h[j]) = j}
<1>3. 0 \in S
  <2>1. h[0] = <<>>
    BY DEF Joins
  <2> QED
    BY <2>1
<1>4. ASSUME NEW j \in Nat, j \in S
      PROVE  j + 1 \in S
  <2> SUFFICES ASSUME j + 1 <= n
               PROVE  Len(h[j + 1]) = j + 1
    OBVIOUS
  <2>1. PICK k \in 1..n : k = j + 1 /\ k - 1 = j /\ k \in 0..n /\ n \in k..n
    <3>1. j + 1 \in 1..n /\ (j + 1) - 1 = j /\ j + 1 \in 0..n /\ n \in (j + 1)..n
      OBVIOUS
    <3> QED
      BY <3>1
  <2>2. PICK s, t : s = h[j] /\ t = Pieces(raw, e)[k]
    OBVIOUS
  <2>3. h[k] = s \o t /\ s \in Text
    BY <1>1, <2>1, <2>2 DEF Joins
  <2>4. PICK cp \in Nat : cp < 16384 /\ t = Utf8Of(cp)
    BY <1>1, <2>1, <2>2, PieceFacts
  <2>5. t \in Text /\ Len(t) \in 1..3 /\ SequenceLength(t[1]) = Len(t)
    BY <2>4, Utf8OfFacts
  <2>6. PICK len \in Nat : len = Len(s) /\ len = j
    <3>1. Len(s) = j
      BY <1>4, <2>2
    <3> QED
      BY <3>1
  <2>7. PICK u, m : u = s \o t /\ m = Len(t)
    OBVIOUS
  <2>8. Len(u) = len + m /\ \A b \in 1..m : u[len + b] = t[b]
    <3>1. s \in Text /\ t \in Text /\ len \in Nat /\ m \in Nat /\ len = Len(s) /\ m = Len(t)
      BY <2>3, <2>5, <2>6, <2>7
    <3> QED
      BY <2>7, <3>1, JoinFacts
  <2>9. 1 \in 1..m /\ len + 1 \in 1..(len + m)
    BY <2>5, <2>7
  <2>10. t[1] = u[len + 1] /\ u[len + 1] < 128
    <3>1. /\ Len(u) <= Len(h[n])
          /\ \A b \in 1..Len(u) : h[n][b] = u[b]
      <4>1. Joins(h, Pieces(raw, e), n)
        BY <1>1
      <4>2. /\ Len(h[k]) <= Len(h[n])
            /\ \A b \in 1..Len(h[k]) : h[n][b] = h[k][b]
        BY <1>2, <2>1, <4>1, JoinsBegin
      <4> QED
        BY <2>3, <2>7, <4>2
    <3>2. PICK p \in Nat : p = Len(h[n])
      <4>1. h[n] \in Text
        BY <1>1 DEF Joins
      <4> QED
        BY <4>1, TextFacts
    <3>3. len + 1 \in 1..p /\ len + 1 \in 1..Len(u)
      <4>1. len + m <= p /\ m \in Nat /\ Len(u) = len + m
        BY <2>5, <2>7, <2>8, <3>1, <3>2
      <4> QED
        BY <2>9, <4>1
    <3>4. h[n][len + 1] < 128
      BY <1>1, <3>2, <3>3
    <3> QED
      BY <2>8, <2>9, <3>1, <3>3, <3>4
  <2>11. m = 1
    <3>1. PICK c \in Byte : c = t[1] /\ c < 128
      BY <2>5, <2>7, <2>9, <2>10, TextFacts
    <3>2. SequenceLength(c) = 1
      BY <3>1, AsciiAlone
    <3> QED
      BY <2>5, <2>7, <3>1, <3>2
  <2> QED
    BY <2>1, <2>3, <2>6, <2>7, <2>8, <2>11
<1> HIDE DEF S
<1>5. n \in S
  BY <1>1, <1>3, <1>4, NatSetInduction
<1> QED
  BY <1>1, <1>5 DEF S

\* Only blanks are trimmed.
LEMMA TrimmedBytes ==
  ASSUME NEW s \in Text
  PROVE  /\ Len(Trimmed(s)) <= Len(s)
         /\ \A b \in 1..Len(s) : \/ s[b] = Blank
                                 \/ \E c \in 1..Len(Trimmed(s)) : Trimmed(s)[c] = s[b]
<1>1. PICK n \in Nat : n = Len(s)
  BY TextFacts
<1>2. PICK u : u = Reverse(s) /\ u \in Text /\ Len(u) = n /\ \A b \in 1..n : u[b] = s[(n - b) + 1]
  BY <1>1, ReverseText
<1>3. PICK v, k : /\ v = RTrim(u) /\ v \in Text /\ k = Len(v) /\ TrimsTo(u, k)
                  /\ \A b \in 1..k : v[b] = u[b]
  BY <1>2, RTrimFacts
<1>4. k \in 0..n /\ \A b \in (k + 1)..n : u[b] = Blank
  BY <1>2, <1>3 DEF TrimsTo
<1>5. PICK w : w = Reverse(v) /\ w \in Text /\ Len(w) = k /\ \A b \in 1..k : w[b] = v[(k - b) + 1]
  BY <1>3, ReverseText
<1>6. PICK x, m : /\ x = RTrim(w) /\ x \in Text /\ m = Len(x) /\ TrimsTo(w, m)
                  /\ \A b \in 1..m : x[b] = w[b]
  BY <1>5, RTrimFacts
<1>7. m \in 0..k /\ \A b \in (m + 1)..k : w[b] = Blank
  BY <1>5, <1>6 DEF TrimsTo
<1>8. x = Trimmed(s)
  BY <1>2, <1>3, <1>5, <1>6 DEF Trimmed
<1>9. m <= n
  BY <1>4, <1>7
<1>10. ASSUME NEW b \in 1..n
       PROVE  s[b] = Blank \/ \E c \in 1..m : x[c] = s[b]
  <2>1. PICK i \in 1..n : i = (n - b) + 1 /\ (n - i) + 1 = b
    <3>1. (n - b) + 1 \in 1..n /\ (n - ((n - b) + 1)) + 1 = b
      OBVIOUS
    <3> QED
      BY <3>1
  <2>2. u[i] = s[b]
    BY <1>2, <2>1
  <2>3. CASE i > k
    <3>1. i \in (k + 1)..n
      BY <1>4, <2>3
    <3> QED
      BY <1>4, <2>2, <3>1
  <2>4. CASE i <= k
    <3>1. PICK c \in 1..k : c = (k - i) + 1 /\ (k - c) + 1 = i /\ i \in 1..k
      <4>1. (k - i) + 1 \in 1..k /\ (k - ((k - i) + 1)) + 1 = i /\ i \in 1..k
        BY <1>4, <2>4
      <4> QED
        BY <4>1
    <3>2. w[c] = s[b]
      BY <1>3, <1>5, <2>2, <3>1
    <3>3. c \in (m + 1)..k \/ c \in 1..m
      BY <1>7
    <3> QED
      BY <1>6, <1>7, <3>2, <3>3
  <2> QED
    BY <1>4, <2>3, <2>4
<1> QED
  BY <1>1, <1>6, <1>8, <1>9, <1>10

\* A text with all the digits of the scale after its point, and no longer than the
\* column is wide, has room in it.
LEMMA FullScaleRoom ==
  ASSUME NEW text \in Text, Len(text) > 0, NEW decimals \in Nat, NEW width \in Nat,
         decimals < width, Len(text) <= width, IsDecimal(text, decimals),
         Cardinality({i \in Digits(text) : i > PointAt(text)}) = decimals
  PROVE  HasRoom(text, decimals, width)
<1>1. PICK o, r, rest, negative : Unsigned(text, o, r, rest, negative)
  BY SignFirstLayout
<1>2. PICK q : q = PointAt(rest)
  OBVIOUS
<1>3. Shape(text, o, r, q)
  BY <1>1, <1>2, IsDecimalShape
<1>4. /\ o \in Nat /\ r \in Nat /\ q \in Nat /\ q >= 1 /\ q <= r + 1 /\ r <= width
  <2>1. o \in Nat /\ r \in Nat /\ o + r <= Len(text) /\ q \in 1..(r + 1)
    BY <1>3 DEF Shape
  <2>2. Len(text) \in Nat
    BY TextFacts
  <2> QED
    BY <2>1, <2>2
<1>5. HasPlaces(text, o, r, q, decimals)
  BY <1>3, ShapeHasPlaces
<1>6. decimals = IF q <= r THEN r - q ELSE 0
  BY <1>3, ShapePlaces
<1>7. ASSUME NEW i \in Digits(text)
      PROVE  ~(Place(text, decimals, i) >= width)
  <2>1. PICK a \in 1..r : a # q /\ i = o + a
    BY <1>5 DEF HasPlaces
  <2>2. CASE a < q
    <3>1. Place(text, decimals, i) = decimals + (q - 1 - a)
      BY <1>5, <2>1, <2>2 DEF HasPlaces
    <3>2. ~(decimals + (q - 1 - a) >= width)
      BY <1>4, <1>6, <2>2
    <3> QED
      BY <3>1, <3>2
  <2>3. CASE a > q
    <3>1. Place(text, decimals, i) = decimals - (a - q)
      BY <1>5, <2>1, <2>3 DEF HasPlaces
    <3>2. ~(decimals - (a - q) >= width)
      BY <1>4, <2>3
    <3> QED
      BY <3>1, <3>2
  <2> QED
    BY <1>4, <2>1, <2>2, <2>3
<1> QED
  BY <1>7 DEF HasRoom

\* The text of a number has at most as many characters as its field has bytes.
LEMMA NumberNoLonger ==
  ASSUME NEW raw \in Text, NEW e \in TextEncodings, Decodes(raw, e),
         NEW text, text = Trimmed(DecodeText(raw, e)), NEW decimals, IsDecimal(text, decimals)
  PROVE  /\ text \in Text /\ Len(text) > 0
         /\ Len(text) <= Len(raw)
<1>1. PICK s \in Text : s = DecodeText(raw, e)
  BY DecodesWellFormed
<1>2. text \in Text /\ Len(text) \in Nat /\ DOMAIN text = 1..Len(text)
  BY <1>1, TrimmedText, TextFacts
<1>3. Len(text) > 0
  <2>1. Digits(text) # {}
    BY DEF IsDecimal
  <2> QED
    BY <1>2, <2>1 DEF Digits
<1>4. Len(text) <= Len(s)
  BY <1>1, TrimmedBytes
<1>5. Len(s) = Len(raw)
  <2>1. CASE e \in {UTF8, ASCII}
    BY <1>1, <2>1, DecodeAsIs
  <2>2. CASE e \notin {UTF8, ASCII}
    <3>1. e \in {LATIN1, CP1252}
      BY <2>2 DEF TextEncodings
    <3>2. PICK h : Joins(h, Pieces(raw, e), Len(raw)) /\ s = h[Len(raw)]
      BY <1>1, <3>1, CodePageText
    <3>3. ASSUME NEW c \in 1..Len(text)
          PROVE  text[c] < 128
      <4>1. text[c] \in 48..57 \cup {Plus, Minus, Point}
        BY <1>2 DEF IsDecimal
      <4> QED
        BY <4>1 DEF Plus, Minus, Point
    <3>4. ASSUME NEW b \in 1..Len(s)
          PROVE  s[b] < 128
      <4>1. s[b] = Blank \/ \E c \in 1..Len(text) : text[c] = s[b]
        BY <1>1, TrimmedBytes
      <4> QED
        BY <3>3, <4>1 DEF Blank
    <3> QED
      BY <3>2, <3>4, PlainPage
  <2> QED
    BY <2>1, <2>2
<1> QED
  BY <1>2, <1>3, <1>4, <1>5

\* A decimal written with all the digits its scale has is never refused nor NULL: the
\* width that ApplyTypedMapping gives the column is enough for the field's length.
THEOREM CodecFullScaleFits == Spec => []FullScaleFits
<1>1. CodecInv /\ TypedExact => FullScaleFits
  <2> SUFFICES ASSUME CodecInv, TypedExact, NEW i \in DOMAIN case.rules,
                      case.origin # "control", KindOf(i) = "decimal",
                      i \in DOMAIN cells \/ (pc = "refused" /\ next = i),
                      InBounds(case.rules[i]), ~Malformed(Slice(i)),
                      FullScale(case.rules[i], Trimmed(TextOf(i)))
               PROVE  i \in DOMAIN cells /\ ~cells[i].null
    BY DEF FullScaleFits
  <2>0. /\ case.encoding \in TextEncodings
        /\ Len(case.rules) \in Nat /\ DOMAIN case.rules = 1..Len(case.rules)
        /\ \A j \in 1..Len(case.rules) :
             /\ case.rules[j].offset \in Int /\ case.rules[j].length \in Int
             /\ case.rules[j].decimals \in Int
    BY CaseFacts DEF CodecInv, Types, IsCase
  <2>1. Reading
    <3>1. CASE i \in DOMAIN cells
      <4>1. SUFFICES ASSUME ~Reading
                     PROVE  FALSE
        OBVIOUS
      <4>2. cells = <<>>
        BY <4>1 DEF CodecInv, CellsHold
      <4> QED
        BY <3>1, <4>2
    <3>2. CASE pc = "refused"
      BY <3>2 DEF Reading
    <3> QED
      BY <3>1, <3>2
  <2>2. PICK rule : /\ rule = case.rules[i] /\ Kind(rule) = "decimal"
                    /\ rule.offset \in Int /\ rule.length \in Int /\ rule.decimals \in Int
    BY <2>0 DEF KindOf
  <2>3. PICK decimals \in Nat : decimals = rule.decimals
    <3>1. rule.decimals >= 0
      BY <2>2 DEF Kind
    <3> QED
      BY <2>2, <3>1
  <2>4. PICK width \in Nat : width = Width(rule) /\ decimals < width /\ rule.length <= width
    BY <2>2, <2>3 DEF Width, Larger
  <2>5. PICK text : text = Trimmed(TextOf(i))
    OBVIOUS
  <2>6. /\ IsDecimal(text, decimals)
        /\ Cardinality({j \in Digits(text) : j > PointAt(text)}) = decimals
    BY <2>2, <2>3, <2>5 DEF FullScale
  <2>7. Slice(i) \in Text /\ Len(Slice(i)) = rule.length
    <3>1. Slice(i) \in Text
      BY <2>0, <2>1, SliceFacts
    <3>2. /\ rule.offset \in Nat /\ rule.length \in Nat
          /\ rule.offset + rule.length <= SDATA_LEN
      BY <2>2, InBoundsFacts
    <3>3. Slice(i) = GetFieldRaw(sdata, rule)
      BY <2>0, <2>1, <2>2, FieldsRead
    <3>4. sdata \in Bytes(SDATA_LEN) /\ SDATA_LEN \in Nat
      BY Lengths DEF CodecInv, Types
    <3>5. GetFieldRaw(sdata, rule) \in Bytes(rule.length)
      BY <3>2, <3>4, GetFieldFacts
    <3> QED
      BY <3>1, <3>2, <3>3, <3>5, BytesFacts
  <2>8. Decodes(Slice(i), case.encoding)
    BY <2>0, <2>7, DecodesNotIsMalformed
  <2>9. /\ text \in Text /\ Len(text) > 0
        /\ Len(text) <= Len(Slice(i))
    BY <2>0, <2>5, <2>6, <2>7, <2>8, NumberNoLonger DEF TextOf
  <2>10. HasRoom(text, decimals, width)
    <3>1. Len(text) <= width
      <4>1. Len(text) \in Nat
        BY <2>9, TextFacts
      <4> QED
        BY <2>2, <2>4, <2>7, <2>9, <4>1
    <3> QED
      BY <2>4, <2>6, <2>9, <3>1, FullScaleRoom
  <2>11. IsValue(rule, text)
    BY <2>2, <2>3, <2>4, <2>6, <2>10 DEF IsValue
  <2>12. ~(pc = "refused" /\ next = i)
    BY <2>2, <2>5, <2>11 DEF TypedExact
  <2>13. i \in DOMAIN cells
    BY <2>12
  <2>14. ~cells[i].null
    <3>1. text # <<>>
      BY <2>9
    <3> QED
      BY <2>2, <2>5, <2>11, <2>13, <3>1 DEF TypedExact
  <2> QED
    BY <2>13, <2>14
<1>2. Spec => []TypedExact
  BY CodecTypedExact
<1> QED
  BY <1>1, <1>2, CodecInvariance, PTL
=============================================================================
