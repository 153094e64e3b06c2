---------------------------- MODULE TextEncoding ----------------------------
(***************************************************************************)
(* The text of a field: code pages, the strict UTF-8 check and the decoder *)
(* of src/src/idoc/idoc_format.cpp.  A text is a sequence of bytes; what   *)
(* reaches SQL is UTF-8.                                                   *)
(***************************************************************************)
EXTENDS Integers, Sequences, SequencesExt

Byte == 0..255
Blank == 32

UTF8 == "utf-8"
ASCII == "ascii"
LATIN1 == "latin-1"
CP1252 == "cp1252"
TextEncodings == {UTF8, ASCII, LATIN1, CP1252}

\* The code points of the bytes 128..159 of Windows-1252; the five undefined bytes
\* stand for themselves.
CP1252_HIGH ==
  << 8364,  129, 8218,  402, 8222, 8230, 8224, 8225,  710, 8240,  352, 8249, 338, 141, 381, 143,
      144, 8216, 8217, 8220, 8221, 8226, 8211, 8212,  732, 8482,  353, 8250, 339, 157, 382, 376 >>

\* (Mutant) the first byte of the table is missed.
CodePointAfter128(b, e) == IF e = CP1252 /\ b \in 129..159 THEN CP1252_HIGH[b - 127] ELSE b

\* The other bytes, and all bytes of Latin-1, are their own code points.
CodePoint(b, e) == IF e = CP1252 /\ b \in 128..159 THEN CP1252_HIGH[b - 127] ELSE b

\* AppendUtf8; the code points of the code pages need at most three bytes.
Utf8Of(cp) ==
  IF cp < 128 THEN <<cp>>
  ELSE IF cp < 2048 THEN <<192 + cp \div 64, 128 + (cp % 64)>>
  ELSE <<224 + cp \div 4096, 128 + ((cp \div 64) % 64), 128 + (cp % 64)>>

-----------------------------------------------------------------------------
(* The strict UTF-8 check.                                                 *)

\* The bytes a lead byte announces, 0 for a byte that cannot lead.
SequenceLength(c) ==
  CASE c < 128 -> 1
    [] c \in 194..223 -> 2
    [] c \in 224..239 -> 3
    [] c \in 240..244 -> 4
    [] OTHER -> 0

\* The code point of the len bytes of s at i: the lead's bits, then six of each
\* byte that follows.
CodePointAt(s, i, len) ==
  CASE len = 1 -> s[i]
    [] len = 2 -> 64 * (s[i] % 32) + (s[i + 1] % 64)
    [] len = 3 -> 4096 * (s[i] % 16) + 64 * (s[i + 1] % 64) + (s[i + 2] % 64)
    [] len = 4 -> 262144 * (s[i] % 8) + 4096 * (s[i + 1] % 64) + 64 * (s[i + 2] % 64)
                    + (s[i + 3] % 64)

\* (Mutant) surrogates pass.
AcceptedWithSurrogates(cp, len) ==
  /\ len = 3 => cp >= 2048
  /\ len = 4 => cp >= 65536 /\ cp <= 1114111

\* No overlong form, no surrogate, nothing above U+10FFFF.
Accepted(cp, len) ==
  /\ len = 3 => cp >= 2048
  /\ len = 4 => cp >= 65536 /\ cp <= 1114111
  /\ cp \notin 55296..57343

IsValidUtf8(s) ==
  LET valid[i \in 1..(Len(s) + 4)] ==
        \/ i > Len(s)
        \/ LET len == SequenceLength(s[i])
           IN  /\ len > 0
               /\ i + len - 1 <= Len(s)
               /\ \A k \in 1..(len - 1) : s[i + k] \in 128..191
               /\ Accepted(CodePointAt(s, i, len), len)
               /\ valid[i + len]
  IN  valid[1]

-----------------------------------------------------------------------------
(* Decoding.                                                               *)

Decodes(raw, e) ==
  \/ \A i \in DOMAIN raw : raw[i] < 128
  \/ e \in {LATIN1, CP1252}
  \/ e = UTF8 /\ IsValidUtf8(raw)

\* What DecodeText returns when it does not throw.
DecodeText(raw, e) ==
  IF e \in {LATIN1, CP1252}
  THEN FlattenSeq([i \in DOMAIN raw |-> Utf8Of(CodePoint(raw[i], e))])
  ELSE raw

RTrim(s) ==
  LET kept == {i \in DOMAIN s : s[i] # Blank}
  IN  SubSeq(s, 1, IF kept = {} THEN 0 ELSE CHOOSE i \in kept : \A j \in kept : j <= i)

-----------------------------------------------------------------------------
(* The reference: the well-formed byte sequences of the Unicode standard.  *)

Trail == 128..191

WellFormedSequences ==
  { <<0..127>>, <<194..223, Trail>>,
    <<{224}, 160..191, Trail>>, <<225..236 \cup {238, 239}, Trail, Trail>>,
    <<{237}, 128..159, Trail>>,
    <<{240}, 144..191, Trail, Trail>>, <<241..243, Trail, Trail, Trail>>,
    <<{244}, 128..143, Trail, Trail>> }

\* A text is well formed if it is a concatenation of such sequences.
WellFormed(s) ==
  LET from[i \in 1..(Len(s) + 1)] ==
        \/ i = Len(s) + 1
        \/ \E w \in WellFormedSequences :
             /\ i + Len(w) - 1 <= Len(s)
             /\ \A k \in DOMAIN w : s[i + k - 1] \in w[k]
             /\ from[i + Len(w)]
  IN  from[1]

=============================================================================
