----------------------- MODULE StreamerRefinementProofs -----------------------
(***************************************************************************)
(* RecordStreamer implements RecordFeed: streaming hands out what parsing  *)
(* the whole file gives, in the same order, and ends as it ends, however   *)
(* the source cuts the file into reads.                                    *)
(*                                                                         *)
(* The parse of the whole file is a walk over its positions.  The argument *)
(* is that what has been handed out, followed by the walk from the first   *)
(* position not yet consumed, stays the walk from the start.  The last     *)
(* section shows the same of the file up to its last line feed, which is   *)
(* what a lenient read of a cut-off file salvages.                         *)
(***************************************************************************)
EXTENDS RecordStreamerProofs, FiniteSetTheorems

\* What a walk gives from a position on.
Walks == [ok : BOOLEAN, records : Seq(Seq(Byte))]

\* The walk of WalkFixed, from every position.
IsFixedWalk(data, w) ==
  w = [p \in 1..(Len(data) + 1) |->
         LET end == p + BlockLen(data, p) - 1
         IN  IF p > Len(data) THEN Stop(TRUE)
             ELSE IF end > Len(data) THEN Stop(FALSE)
             ELSE Prepend(SubSeq(data, p, end), w[end + 1])]

FixedWalk(data) == CHOOSE w : IsFixedWalk(data, w)

\* The walk of WalkTerminated, from every position.
IsTerminatedWalk(data, fr, w) ==
  w = [p \in 1..(Len(data) + 1) |->
         LET nl   == FirstLf(data, p)
             line == StripCr(SubSeq(data, p, nl - 1), fr)
         IN  IF p > Len(data) THEN Stop(TRUE)
             ELSE IF nl = 0 THEN Prepend(SubSeq(data, p, Len(data)), Stop(TRUE))
             ELSE IF ~GeometryOk(line) THEN Stop(FALSE)
             ELSE Prepend(line, w[nl + 1])]

TerminatedWalk(data, fr) == CHOOSE w : IsTerminatedWalk(data, fr, w)

-----------------------------------------------------------------------------
(* The walks exist, so they are what their definitions say.                *)

\* A stopped walk, and one with a record in front, are walks.
LEMMA WalkType ==
  ASSUME NEW r \in Seq(Byte), NEW w \in Walks, NEW b \in BOOLEAN
  PROVE  /\ Stop(b) \in Walks
         /\ Prepend(r, w) \in Walks
         /\ Prepend(r, w).ok = w.ok
         /\ Prepend(r, w).records = <<r>> \o w.records
<1>1. <<>> \in Seq(Seq(Byte)) /\ <<r>> \in Seq(Seq(Byte)) /\ w.records \in Seq(Seq(Byte))
  BY DEF Walks
<1>2. <<r>> \o w.records \in Seq(Seq(Byte))
  BY <1>1, ConcatProperties
<1>3. Prepend(r, w) = [ok |-> w.ok, records |-> <<r>> \o w.records]
  <2>1. PICK v : v = <<r>> \o w.records
    OBVIOUS
  <2>2. [w EXCEPT !.records = v] = [ok |-> w.ok, records |-> v]
    BY DEF Walks
  <2>3. Prepend(r, w) = [w EXCEPT !.records = v]
    BY <2>1 DEF Prepend
  <2> QED
    BY <2>1, <2>2, <2>3
<1> QED
  BY <1>1, <1>2, <1>3 DEF Stop, Walks

\* A part of the file is a sequence of bytes, wherever it begins and ends.
LEMMA PartType ==
  ASSUME NEW data \in Seq(Byte), NEW p \in Nat \ {0}, NEW q \in Nat, q <= Len(data)
  PROVE  SubSeq(data, p, q) \in Seq(Byte)
BY PartFacts

\* A fixed-width record has at least one byte.
LEMMA BlockLenFacts ==
  ASSUME NEW data, NEW p
  PROVE  /\ BlockLen(data, p) \in {CONTROL_RECORD_LEN, DATA_RECORD_LEN}
         /\ BlockLen(data, p) \in Nat /\ BlockLen(data, p) >= Len(Magic)
         /\ BlockLen(data, p) > 0
BY LengthFacts DEF BlockLen

\* The walk over fixed-width records.
LEMMA FixedWalkFacts ==
  ASSUME NEW data \in Seq(Byte)
  PROVE  /\ WalkFixed(data) = FixedWalk(data)[1]
         /\ IsFixedWalk(data, FixedWalk(data))
         /\ FixedWalk(data) \in [1..(Len(data) + 1) -> Walks]
<1> DEFINE n == Len(data) + 1
           End(p) == p + BlockLen(data, p) - 1
           Goes(p) == p <= Len(data) /\ End(p) <= Len(data)
           base == [p \in 1..n |-> IF p > Len(data) THEN Stop(TRUE) ELSE Stop(FALSE)]
           next == [p \in 1..n |-> IF Goes(p) THEN End(p) + 1 ELSE 0]
           step == [x \in (1..n) \X Walks |->
                      IF Goes(x[1]) THEN Prepend(SubSeq(data, x[1], End(x[1])), x[2]) ELSE x[2]]
<1>1. Len(data) \in Nat /\ n \in Nat
  BY LenProperties
<1>2. \A p \in 1..n : End(p) \in Nat /\ End(p) >= p /\ p \in Nat \ {0}
  BY <1>1, BlockLenFacts
<1>3. base \in [1..n -> Walks]
  <2>1. Stop(TRUE) \in Walks /\ Stop(FALSE) \in Walks
    BY EmptySeq DEF Stop, Walks
  <2> QED
    BY <2>1
<1>4. next \in Jumps(n)
  BY <1>1, <1>2 DEF Jumps
<1>5. step \in JumpSteps(n, Walks)
  <2>1. ASSUME NEW x \in (1..n) \X Walks
        PROVE  (IF Goes(x[1]) THEN Prepend(SubSeq(data, x[1], End(x[1])), x[2]) ELSE x[2]) \in Walks
    <3>1. CASE Goes(x[1])
      <4>1. x[1] \in 1..n /\ x[2] \in Walks
        OBVIOUS
      <4>2. SubSeq(data, x[1], End(x[1])) \in Seq(Byte)
        BY <1>2, <3>1, <4>1, PartType
      <4>3. Prepend(SubSeq(data, x[1], End(x[1])), x[2]) \in Walks
        BY <4>1, <4>2, WalkType
      <4> QED
        BY <3>1, <4>3
    <3>2. CASE ~Goes(x[1])
      BY <3>2
    <3> QED
      BY <3>1, <3>2
  <2> QED
    BY <2>1 DEF JumpSteps
<1> HIDE DEF base, next, step
<1>6. PICK g : FollowsJumps(g, n, Walks, base, next, step)
  BY <1>1, <1>3, <1>4, <1>5, JumpRecursion
<1>7. g \in [1..n -> Walks] /\ \A p \in 1..n : g[p] = JumpValue(p, base, next, step, g)
  BY <1>6 DEF FollowsJumps
<1>8. ASSUME NEW p \in 1..n
      PROVE  g[p] = IF p > Len(data) THEN Stop(TRUE)
                    ELSE IF End(p) > Len(data) THEN Stop(FALSE)
                    ELSE Prepend(SubSeq(data, p, End(p)), g[End(p) + 1])
  <2>0. g[p] = JumpValue(p, base, next, step, g) /\ p \in Nat /\ End(p) \in Nat
    BY <1>2, <1>7
  <2>1. CASE Goes(p)
    <3>1. next[p] = End(p) + 1 /\ next[p] # 0 /\ End(p) + 1 \in 1..n
      BY <1>1, <1>2, <2>1 DEF next
    <3>2. <<p, g[End(p) + 1]>> \in (1..n) \X Walks
      BY <1>7, <3>1
    <3>3. step[<<p, g[End(p) + 1]>>] = Prepend(SubSeq(data, p, End(p)), g[End(p) + 1])
      BY <2>1, <3>2 DEF step
    <3>4. ~(p > Len(data)) /\ ~(End(p) > Len(data))
      BY <1>1, <2>0, <2>1
    <3>5. g[p] = Prepend(SubSeq(data, p, End(p)), g[End(p) + 1])
      BY <2>0, <3>1, <3>3 DEF JumpValue
    <3> QED
      BY <3>4, <3>5
  <2>2. CASE ~Goes(p)
    <3>1. next[p] = 0
      BY <2>2 DEF next
    <3>2. g[p] = IF p > Len(data) THEN Stop(TRUE) ELSE Stop(FALSE)
      BY <2>0, <3>1 DEF JumpValue, base
    <3>3. p > Len(data) \/ End(p) > Len(data)
      BY <1>1, <2>0, <2>2
    <3> QED
      BY <3>2, <3>3
  <2> QED
    BY <2>1, <2>2
<1>9. IsFixedWalk(data, g)
  BY <1>7, <1>8 DEF IsFixedWalk
<1>10. IsFixedWalk(data, FixedWalk(data))
  <2>1. \E w : IsFixedWalk(data, w)
    BY <1>9
  <2> QED
    BY <2>1 DEF FixedWalk
<1> DEFINE f == FixedWalk(data)
<1>11. /\ DOMAIN f = 1..n
       /\ \A p \in 1..n : f[p] = IF p > Len(data) THEN Stop(TRUE)
                                 ELSE IF End(p) > Len(data) THEN Stop(FALSE)
                                 ELSE Prepend(SubSeq(data, p, End(p)), f[End(p) + 1])
       /\ f = [p \in 1..n |-> f[p]]
  <2> HIDE DEF f
  <2>1. IsFixedWalk(data, f)
    BY <1>10 DEF f
  <2> QED
    BY <2>1 DEF IsFixedWalk
<1> HIDE DEF f
<1> DEFINE S == {k \in Nat : \A p \in 1..n : n - k < p => f[p] \in Walks}
<1>12. 0 \in S
  BY <1>1
<1>13. ASSUME NEW k \in Nat, k \in S
       PROVE  k + 1 \in S
  <2>1. ASSUME NEW p \in 1..n, n - (k + 1) < p
        PROVE  f[p] \in Walks
    <3>0. Stop(TRUE) \in Walks /\ Stop(FALSE) \in Walks
      BY EmptySeq DEF Stop, Walks
    <3>1. CASE Goes(p)
      <4>1. End(p) + 1 \in 1..n /\ n - k < End(p) + 1 /\ p \in Nat /\ ~(p > Len(data)) /\ ~(End(p) > Len(data))
        BY <1>1, <1>2, <2>1, <3>1
      <4>2. f[End(p) + 1] \in Walks /\ SubSeq(data, p, End(p)) \in Seq(Byte)
        BY <1>2, <1>13, <3>1, <4>1, PartType
      <4>3. f[p] = Prepend(SubSeq(data, p, End(p)), f[End(p) + 1])
        BY <1>11, <4>1
      <4> QED
        BY <4>2, <4>3, WalkType
    <3>2. CASE ~Goes(p)
      <4>1. p > Len(data) \/ End(p) > Len(data)
        BY <1>1, <1>2, <3>2
      <4> QED
        BY <1>11, <3>0, <4>1
    <3> QED
      BY <3>1, <3>2
  <2> QED
    BY <2>1
<1> HIDE DEF S
<1>14. n \in S
  BY <1>1, <1>12, <1>13, NatSetInduction
<1>15. \A p \in 1..n : f[p] \in Walks
  BY <1>1, <1>14 DEF S
<1>16. f \in [1..n -> Walks]
  BY <1>11, <1>15
<1>17. WalkFixed(data) = FixedWalk(data)[1]
  BY DEF WalkFixed, FixedWalk, IsFixedWalk
<1> QED
  BY <1>10, <1>16, <1>17 DEF f

\* A line, stripped, is a sequence of bytes, and the next one begins after it.
LEMMA LineFacts ==
  ASSUME NEW data \in Seq(Byte), NEW fr, NEW p \in 1..Len(data)
  PROVE  /\ FirstLf(data, p) \in Nat
         /\ FirstLf(data, p) # 0 => FirstLf(data, p) \in p..Len(data)
         /\ StripCr(SubSeq(data, p, FirstLf(data, p) - 1), fr) \in Seq(Byte)
         /\ SubSeq(data, p, Len(data)) \in Seq(Byte)
         /\ StripCr(SubSeq(data, p, Len(data)), fr) \in Seq(Byte)
<1>1. Len(data) \in Nat /\ p \in Nat \ {0}
  BY LenProperties
<1> DEFINE nl == FirstLf(data, p)
<1>2. nl \in Nat /\ (nl # 0 => nl \in p..Len(data))
  BY <1>1, FirstLfFacts
<1> HIDE DEF nl
<1>3. SubSeq(data, p, nl - 1) \in Seq(Byte)
  <2>1. CASE nl = 0
    <3>1. \A i \in p..(nl - 1) : data[i] \in Byte
      BY <1>1, <2>1
    <3> QED
      BY <1>1, <1>2, <3>1, <2>1, SubSeqProperties
  <2>2. CASE nl # 0
    <3>1. nl - 1 \in Nat /\ nl - 1 <= Len(data)
      BY <1>1, <1>2, <2>2
    <3> QED
      BY <1>1, <3>1, PartType
  <2> QED
    BY <2>1, <2>2
<1>4. SubSeq(data, p, Len(data)) \in Seq(Byte)
  BY <1>1, PartType
<1> QED
  BY <1>2, <1>3, <1>4, StripCrType DEF nl

\* The walk over checked lines.
LEMMA TerminatedWalkFacts ==
  ASSUME NEW data \in Seq(Byte), NEW fr
  PROVE  /\ WalkTerminated(data, fr) = TerminatedWalk(data, fr)[1]
         /\ IsTerminatedWalk(data, fr, TerminatedWalk(data, fr))
         /\ TerminatedWalk(data, fr) \in [1..(Len(data) + 1) -> Walks]
<1> DEFINE n == Len(data) + 1
           Nl(p) == FirstLf(data, p)
           Line(p) == StripCr(SubSeq(data, p, Nl(p) - 1), fr)
           Rest(p) == SubSeq(data, p, Len(data))
           Goes(p) == p <= Len(data) /\ Nl(p) # 0 /\ GeometryOk(Line(p))
           Stops(p) == IF p > Len(data) THEN Stop(TRUE)
                       ELSE IF Nl(p) = 0 THEN Prepend(Rest(p), Stop(TRUE))
                       ELSE Stop(FALSE)
           base == [p \in 1..n |-> Stops(p)]
           next == [p \in 1..n |-> IF Goes(p) THEN Nl(p) + 1 ELSE 0]
           step == [x \in (1..n) \X Walks |->
                      IF Goes(x[1]) THEN Prepend(Line(x[1]), x[2]) ELSE x[2]]
<1>1. Len(data) \in Nat /\ n \in Nat
  BY LenProperties
<1>2. \A p \in 1..n : p <= Len(data) =>
        /\ Nl(p) \in Nat /\ (Nl(p) # 0 => Nl(p) \in p..Len(data))
        /\ Line(p) \in Seq(Byte) /\ Rest(p) \in Seq(Byte)
  <2> TAKE p \in 1..n
  <2> SUFFICES ASSUME p <= Len(data)
               PROVE  /\ Nl(p) \in Nat /\ (Nl(p) # 0 => Nl(p) \in p..Len(data))
                      /\ Line(p) \in Seq(Byte) /\ Rest(p) \in Seq(Byte)
    OBVIOUS
  <2>1. p \in 1..Len(data)
    BY <1>1
  <2> QED
    BY <2>1, LineFacts
<1>0. Stop(TRUE) \in Walks /\ Stop(FALSE) \in Walks
  BY EmptySeq DEF Stop, Walks
<1> HIDE DEF Nl, Line, Rest
<1>3. \A p \in 1..n : Stops(p) \in Walks
  <2> TAKE p \in 1..n
  <2>1. CASE ~(p > Len(data)) /\ Nl(p) = 0
    <3>1. Rest(p) \in Seq(Byte)
      BY <1>1, <1>2, <2>1
    <3>2. Prepend(Rest(p), Stop(TRUE)) \in Walks
      BY <1>0, <3>1, WalkType
    <3> QED
      BY <2>1, <3>2
  <2> QED
    BY <1>0, <2>1
<1> HIDE DEF Stops
<1>4. base \in [1..n -> Walks]
  BY <1>3
<1>5. next \in Jumps(n)
  <2>1. \A p \in 1..n : Goes(p) => Nl(p) + 1 \in 1..n /\ p < Nl(p) + 1
    BY <1>1, <1>2
  <2> HIDE DEF Goes
  <2> QED
    BY <1>1, <2>1 DEF Jumps
<1>6. step \in JumpSteps(n, Walks)
  <2>1. ASSUME NEW x \in (1..n) \X Walks
        PROVE  (IF Goes(x[1]) THEN Prepend(Line(x[1]), x[2]) ELSE x[2]) \in Walks
    <3>0. x[1] \in 1..n /\ x[2] \in Walks
      OBVIOUS
    <3>1. CASE Goes(x[1])
      <4>1. Line(x[1]) \in Seq(Byte)
        BY <1>2, <3>0, <3>1
      <4>2. Prepend(Line(x[1]), x[2]) \in Walks
        BY <3>0, <4>1, WalkType
      <4> QED
        BY <3>1, <4>2
    <3>2. CASE ~Goes(x[1])
      BY <3>2
    <3> QED
      BY <3>1, <3>2
  <2> QED
    BY <2>1 DEF JumpSteps
<1> HIDE DEF base, next, step
<1>7. PICK g : FollowsJumps(g, n, Walks, base, next, step)
  BY <1>1, <1>4, <1>5, <1>6, JumpRecursion
<1>8. g \in [1..n -> Walks] /\ \A p \in 1..n : g[p] = JumpValue(p, base, next, step, g)
  BY <1>7 DEF FollowsJumps
<1> DEFINE Eqn(w, p) == w[p] = IF p > Len(data) THEN Stop(TRUE)
                               ELSE IF Nl(p) = 0 THEN Prepend(Rest(p), Stop(TRUE))
                               ELSE IF ~GeometryOk(Line(p)) THEN Stop(FALSE)
                               ELSE Prepend(Line(p), w[Nl(p) + 1])
<1>9. ASSUME NEW p \in 1..n
      PROVE  Eqn(g, p)
  <2>0. g[p] = JumpValue(p, base, next, step, g) /\ p \in Nat
    BY <1>1, <1>8
  <2>1. CASE Goes(p)
    <3>1. next[p] = Nl(p) + 1 /\ next[p] # 0 /\ Nl(p) + 1 \in 1..n
      BY <1>1, <1>2, <2>1 DEF next
    <3>2. <<p, g[Nl(p) + 1]>> \in (1..n) \X Walks
      BY <1>8, <3>1
    <3>3. step[<<p, g[Nl(p) + 1]>>] = Prepend(Line(p), g[Nl(p) + 1])
      BY <2>1, <3>2 DEF step
    <3>4. ~(p > Len(data))
      BY <1>1, <2>0, <2>1
    <3>5. g[p] = Prepend(Line(p), g[Nl(p) + 1])
      BY <2>0, <3>1, <3>3 DEF JumpValue
    <3> QED
      BY <2>1, <3>4, <3>5
  <2>2. CASE ~Goes(p)
    <3>1. next[p] = 0
      BY <2>2 DEF next
    <3>2. g[p] = Stops(p)
      BY <2>0, <3>1 DEF JumpValue, base
    <3>3. p > Len(data) \/ Nl(p) = 0 \/ ~GeometryOk(Line(p))
      BY <1>1, <2>0, <2>2
    <3> QED
      BY <3>2, <3>3 DEF Stops
  <2> QED
    BY <2>1, <2>2
<1>10. IsTerminatedWalk(data, fr, g)
  BY <1>8, <1>9 DEF IsTerminatedWalk, Nl, Line, Rest
<1>11. IsTerminatedWalk(data, fr, TerminatedWalk(data, fr))
  <2>1. \E w : IsTerminatedWalk(data, fr, w)
    BY <1>10
  <2> QED
    BY <2>1 DEF TerminatedWalk
<1> DEFINE f == TerminatedWalk(data, fr)
<1>12. /\ \A p \in 1..n : Eqn(f, p)
       /\ f = [p \in 1..n |-> f[p]]
  <2> HIDE DEF f
  <2>1. IsTerminatedWalk(data, fr, f)
    BY <1>11 DEF f
  <2> QED
    BY <2>1 DEF IsTerminatedWalk, Nl, Line, Rest
<1> HIDE DEF f
<1> DEFINE S == {k \in Nat : \A p \in 1..n : n - k < p => f[p] \in Walks}
<1>13. 0 \in S
  BY <1>1
<1>14. ASSUME NEW k \in Nat, k \in S
       PROVE  k + 1 \in S
  <2>1. ASSUME NEW p \in 1..n, n - (k + 1) < p
        PROVE  f[p] \in Walks
    <3>1. CASE Goes(p)
      <4>1. Nl(p) + 1 \in 1..n /\ n - k < Nl(p) + 1 /\ p \in Nat /\ ~(p > Len(data))
        BY <1>1, <1>2, <2>1, <3>1
      <4>2. f[Nl(p) + 1] \in Walks /\ Line(p) \in Seq(Byte)
        BY <1>2, <1>14, <3>1, <4>1
      <4>3. f[p] = Prepend(Line(p), f[Nl(p) + 1])
        BY <1>12, <3>1, <4>1
      <4> QED
        BY <4>2, <4>3, WalkType
    <3>2. CASE ~Goes(p)
      <4>1. p > Len(data) \/ Nl(p) = 0 \/ ~GeometryOk(Line(p))
        BY <1>1, <3>2
      <4>2. f[p] = Stops(p)
        BY <1>12, <4>1 DEF Stops
      <4> QED
        BY <1>3, <4>2
    <3> QED
      BY <3>1, <3>2
  <2> QED
    BY <2>1
<1> HIDE DEF S
<1>15. n \in S
  BY <1>1, <1>13, <1>14, NatSetInduction
<1>16. \A p \in 1..n : f[p] \in Walks
  BY <1>1, <1>15 DEF S
<1>17. f \in [1..n -> Walks]
  BY <1>12, <1>16
<1>18. WalkTerminated(data, fr) = TerminatedWalk(data, fr)[1]
  BY DEF WalkTerminated, TerminatedWalk, IsTerminatedWalk
<1> QED
  BY <1>11, <1>17, <1>18 DEF f

\* Record i of the records rs, numbered.
NumberedAt(rs, i) ==
  [document_key |-> Cardinality({j \in 1..i : IsControlRecord(rs[j])}),
   record_index |-> i - 1,
   is_control   |-> IsControlRecord(rs[i]),
   bytes        |-> rs[i]]

\* Numbered gives a record for each.
LEMMA NumberedFacts ==
  ASSUME NEW rs \in Seq(Seq(Byte))
  PROVE  /\ Numbered(rs) \in Seq(IdocRecord)
         /\ Len(Numbered(rs)) = Len(rs)
         /\ \A i \in 1..Len(rs) : Numbered(rs)[i] = NumberedAt(rs, i)
<1> DEFINE n == Len(rs)
           num == Numbered(rs)
<1>1. n \in Nat /\ rs \in [1..n -> Seq(Byte)] /\ DOMAIN rs = 1..n
  BY LenProperties
<1>2. num = [i \in 1..n |-> NumberedAt(rs, i)]
  BY <1>1 DEF Numbered, NumberedAt
<1>3. \A i \in 1..n : NumberedAt(rs, i) \in IdocRecord
  <2> TAKE i \in 1..n
  <2>1. i \in Nat /\ i - 1 \in Nat /\ rs[i] \in Seq(Byte)
    BY <1>1
  <2>2. IsFiniteSet(1..i)
    BY <2>1, FS_Interval
  <2>3. {j \in 1..i : IsControlRecord(rs[j])} \subseteq 1..i
    OBVIOUS
  <2>4. Cardinality({j \in 1..i : IsControlRecord(rs[j])}) \in Nat
    BY <2>2, <2>3, FS_Subset, FS_CardinalityType
  <2>5. IsControlRecord(rs[i]) \in BOOLEAN
    BY DEF IsControlRecord, MagicAt
  <2> QED
    BY <2>1, <2>4, <2>5 DEF NumberedAt, IdocRecord
<1> HIDE DEF num
<1>4. num \in [1..n -> IdocRecord] /\ \A i \in 1..n : num[i] = NumberedAt(rs, i)
  BY <1>2, <1>3
<1>5. num \in Seq(IdocRecord) /\ Len(num) = n
  BY SMTT(30), <1>1, <1>4, IsASeq, LenProperties
<1> QED
  BY <1>4, <1>5 DEF num

\* The number of a record depends on the records up to it.
LEMMA NumberedPrefix ==
  ASSUME NEW rs, NEW ss, NEW i \in Nat \ {0}, \A j \in 1..i : rs[j] = ss[j]
  PROVE  NumberedAt(rs, i) = NumberedAt(ss, i)
<1>1. {j \in 1..i : IsControlRecord(rs[j])} = {j \in 1..i : IsControlRecord(ss[j])}
  OBVIOUS
<1>2. rs[i] = ss[i]
  OBVIOUS
<1> QED
  BY <1>1, <1>2 DEF NumberedAt

\* The number of one more record.
LEMMA NumberedNext ==
  ASSUME NEW rs \in Seq(Seq(Byte)), NEW r \in Seq(Byte)
  PROVE  /\ Numbered(Append(rs, r)) = Append(Numbered(rs), NumberedAt(Append(rs, r), Len(rs) + 1))
         /\ NumberedAt(Append(rs, r), Len(rs) + 1)
              = [document_key |-> Cardinality({j \in 1..Len(rs) : IsControlRecord(rs[j])})
                                    + (IF IsControlRecord(r) THEN 1 ELSE 0),
                 record_index |-> Len(rs),
                 is_control   |-> IsControlRecord(r),
                 bytes        |-> r]
<1> DEFINE n == Len(rs)
           rr == Append(rs, r)
           new == NumberedAt(rr, n + 1)
<1>1. n \in Nat
  BY LenProperties
<1>2. /\ rr \in Seq(Seq(Byte)) /\ Len(rr) = n + 1
      /\ \A i \in 1..n : rr[i] = rs[i]
      /\ rr[n + 1] = r
  BY AppendProperties
<1> HIDE DEF n, rr
<1>3. Numbered(rr) \in Seq(IdocRecord) /\ Len(Numbered(rr)) = n + 1
      /\ \A i \in 1..(n + 1) : Numbered(rr)[i] = NumberedAt(rr, i)
  BY <1>2, NumberedFacts
<1>4. Numbered(rs) \in Seq(IdocRecord) /\ Len(Numbered(rs)) = n
      /\ \A i \in 1..n : Numbered(rs)[i] = NumberedAt(rs, i)
  BY NumberedFacts DEF n
<1>5. n + 1 \in 1..(n + 1) /\ n + 1 \in Nat
  BY <1>1
<1>6. new \in IdocRecord
  <2>1. \A i \in 1..Len(Numbered(rr)) : Numbered(rr)[i] \in IdocRecord
    BY <1>3, ElementOfSeq
  <2> QED
    BY <1>3, <1>5, <2>1
<1> HIDE DEF new
<1>7. /\ Append(Numbered(rs), new) \in Seq(IdocRecord)
      /\ Len(Append(Numbered(rs), new)) = n + 1
      /\ \A i \in 1..n : Append(Numbered(rs), new)[i] = Numbered(rs)[i]
      /\ Append(Numbered(rs), new)[n + 1] = new
  BY <1>4, <1>6, AppendProperties
<1>8. \A i \in 1..(n + 1) : Numbered(rr)[i] = Append(Numbered(rs), new)[i]
  <2> TAKE i \in 1..(n + 1)
  <2>1. CASE i = n + 1
    BY <1>3, <1>7, <2>1 DEF new
  <2>2. CASE i # n + 1
    <3>1. i \in 1..n /\ i \in Nat \ {0} /\ \A j \in 1..i : j \in 1..n
      BY <1>1, <2>2
    <3>2. NumberedAt(rr, i) = NumberedAt(rs, i)
      BY <1>2, <3>1, NumberedPrefix
    <3> QED
      BY <1>3, <1>4, <1>7, <3>1, <3>2
  <2> QED
    BY <2>1, <2>2
<1>9. Numbered(rr) = Append(Numbered(rs), new)
  BY <1>3, <1>7, <1>8, SeqEqual
<1> DEFINE old == {j \in 1..n : IsControlRecord(rs[j])}
           all == {j \in 1..(n + 1) : IsControlRecord(rr[j])}
<1>10. all = IF IsControlRecord(r) THEN old \cup {n + 1} ELSE old
  <2>1. \A j \in 1..(n + 1) : IsControlRecord(rr[j]) <=>
          (j \in 1..n /\ IsControlRecord(rs[j])) \/ (j = n + 1 /\ IsControlRecord(r))
    <3> TAKE j \in 1..(n + 1)
    <3>1. CASE j = n + 1
      BY <1>1, <1>2, <3>1
    <3>2. CASE j # n + 1
      <4>1. j \in 1..n
        BY <1>1, <3>2
      <4> QED
        BY <1>2, <3>2, <4>1
    <3> QED
      BY <3>1, <3>2
  <2>2. \A j \in 1..n : j \in 1..(n + 1)
    BY <1>1
  <2> QED
    BY <1>5, <2>1, <2>2
<1>11. IsFiniteSet(old) /\ n + 1 \notin old /\ Cardinality(old) \in Nat
  <2>1. IsFiniteSet(1..n)
    BY <1>1, FS_Interval
  <2>2. old \subseteq 1..n
    OBVIOUS
  <2>3. IsFiniteSet(old)
    BY <2>1, <2>2, FS_Subset
  <2> QED
    BY <1>1, <2>3, FS_CardinalityType
<1>12. Cardinality(all) = Cardinality(old) + (IF IsControlRecord(r) THEN 1 ELSE 0)
  <2> HIDE DEF old, all
  <2>1. Cardinality(old \cup {n + 1}) = Cardinality(old) + 1
    BY <1>11, FS_AddElement
  <2>2. CASE IsControlRecord(r)
    BY <1>10, <2>1, <2>2
  <2>3. CASE ~IsControlRecord(r)
    BY <1>10, <1>11, <2>3
  <2> QED
    BY <2>2, <2>3
<1>13. new = [document_key |-> Cardinality(all), record_index |-> n,
              is_control |-> IsControlRecord(r), bytes |-> r]
  <2>1. n + 1 - 1 = n
    BY <1>1
  <2>2. PICK k : k = n + 1
    OBVIOUS
  <2>3. NumberedAt(rr, k) = [document_key |-> Cardinality({j \in 1..k : IsControlRecord(rr[j])}),
                            record_index |-> k - 1,
                            is_control |-> IsControlRecord(rr[k]), bytes |-> rr[k]]
    BY DEF NumberedAt
  <2>4. k - 1 = n
    BY <1>1, <2>2
  <2>5. rr[k] = r
    BY <1>2, <2>2
  <2>6. all = {j \in 1..k : IsControlRecord(rr[j])}
    BY <2>2, Zenon
  <2> QED
    BY <2>2, <2>3, <2>4, <2>5, <2>6 DEF new
<1> QED
  BY <1>9, <1>12, <1>13 DEF new, rr, n

-----------------------------------------------------------------------------
(* The buffer as a part of the file.                                       *)

\* The bytes the file has lost to the records.
Consumed == src_pos - Len(buf)

\* Numbers around the buffer.
LEMMA ConsumedFacts ==
  ASSUME TypeOK, Window
  PROVE  /\ Consumed \in Nat /\ Consumed + Len(buf) = src_pos /\ src_pos <= Len(input.image)
         /\ Len(buf) \in Nat /\ Len(input.image) \in Nat /\ src_pos \in Nat
         /\ buf \in Seq(Byte) /\ input.image \in Seq(Byte)
         /\ \A i \in 1..Len(buf) : buf[i] = input.image[Consumed + i]
<1>1. /\ Len(buf) \in Nat /\ Len(input.image) \in Nat /\ src_pos \in Nat /\ src_pos <= Len(input.image)
      /\ buf \in Seq(Byte) /\ input.image \in Seq(Byte)
  BY LenProperties DEF TypeOK
<1>2. Len(buf) <= src_pos /\ \A i \in 1..Len(buf) : buf[i] = input.image[Consumed + i]
  BY DEF Window, Consumed
<1> QED
  BY <1>1, <1>2 DEF Consumed

\* A part of the buffer is a part of the file.
LEMMA BufferIsPart ==
  ASSUME TypeOK, Window, NEW n \in 0..Len(buf)
  PROVE  SubSeq(buf, 1, n) = SubSeq(input.image, Consumed + 1, Consumed + n)
<1>0. /\ Consumed \in Nat /\ Consumed + Len(buf) = src_pos /\ src_pos <= Len(input.image)
      /\ Len(buf) \in Nat /\ Len(input.image) \in Nat /\ src_pos \in Nat
      /\ buf \in Seq(Byte) /\ input.image \in Seq(Byte)
      /\ \A i \in 1..Len(buf) : buf[i] = input.image[Consumed + i]
      /\ n \in Nat /\ n <= Len(buf)
  BY ConsumedFacts
<1> DEFINE a == SubSeq(buf, 1, n)
<1>1. a \in Seq(Byte) /\ Len(a) = n /\ \A i \in 1..n : a[i] = buf[i]
  <2>1. n - 1 + 1 = n /\ \A i \in 1..n : 1 + i - 1 = i
    BY <1>0
  <2>2. /\ a \in Seq(Byte)
        /\ Len(a) = IF 1 <= n THEN n - 1 + 1 ELSE 0
        /\ \A i \in 1..(n - 1 + 1) : a[i] = buf[1 + i - 1]
    BY <1>0, PartFacts
  <2> HIDE DEF a
  <2> QED
    BY <1>0, <2>1, <2>2
<1>2. PICK m \in Nat : m = Consumed + 1
  BY <1>0
<1>3. PICK q \in Nat : q = Consumed + n
  BY <1>0
<1> DEFINE b == SubSeq(input.image, m, q)
<1>4. b \in Seq(Byte) /\ Len(b) = n /\ \A i \in 1..n : b[i] = input.image[Consumed + i]
  <2>1. m > 0 /\ q <= Len(input.image) /\ q - m + 1 = n /\ (m <= q <=> 1 <= n)
        /\ \A i \in 1..n : m + i - 1 = Consumed + i
    BY <1>0, <1>2, <1>3
  <2>2. /\ b \in Seq(Byte)
        /\ Len(b) = IF m <= q THEN q - m + 1 ELSE 0
        /\ \A i \in 1..(q - m + 1) : b[i] = input.image[m + i - 1]
    BY <1>0, <2>1, PartFacts
  <2> HIDE DEF b
  <2>3. Len(b) = n
    BY <1>0, <2>1, <2>2
  <2>4. ASSUME NEW i \in 1..n
        PROVE  b[i] = input.image[Consumed + i]
    <3>1. i \in 1..(q - m + 1) /\ m + i - 1 = Consumed + i
      BY <2>1
    <3> QED
      BY <2>2, <3>1
  <2> QED
    BY <2>2, <2>3, <2>4
<1> HIDE DEF a, b
<1>5. \A i \in 1..n : a[i] = b[i]
  <2> TAKE i \in 1..n
  <2>1. i \in 1..Len(buf)
    BY <1>0
  <2> QED
    BY <1>0, <1>1, <1>4, <2>1
<1>6. a = b
  BY <1>1, <1>4, <1>5, SeqEqual
<1> QED
  BY <1>2, <1>3, <1>6 DEF a, b

\* The type of the next record is known when enough bytes are buffered, or all of
\* them are.
LEMMA SameBlock ==
  ASSUME TypeOK, Window, Len(buf) >= Len(Magic) \/ src_pos = Len(input.image)
  PROVE  BlockLen(buf, 1) = BlockLen(input.image, Consumed + 1)
<1>0. /\ Consumed \in Nat /\ Consumed + Len(buf) = src_pos /\ src_pos <= Len(input.image)
      /\ Len(buf) \in Nat /\ Len(input.image) \in Nat /\ src_pos \in Nat
      /\ Len(Magic) \in Nat
  BY ConsumedFacts, LengthFacts
<1>1. CASE Len(buf) >= Len(Magic)
  <2>1. SubSeq(buf, 1, Len(Magic)) = SubSeq(input.image, Consumed + 1, Consumed + Len(Magic))
    BY <1>0, <1>1, BufferIsPart
  <2>2. /\ 1 + Len(Magic) - 1 = Len(Magic)
        /\ Consumed + 1 + Len(Magic) - 1 = Consumed + Len(Magic)
        /\ Len(buf) - 1 + 1 >= Len(Magic)
        /\ Len(input.image) - (Consumed + 1) + 1 >= Len(Magic)
    BY <1>0, <1>1
  <2>3. MagicAt(buf, 1) <=> MagicAt(input.image, Consumed + 1)
    BY <2>1, <2>2 DEF MagicAt
  <2> QED
    BY <2>3 DEF BlockLen
<1>2. CASE src_pos = Len(input.image) /\ ~(Len(buf) >= Len(Magic))
  <2>1. /\ ~(Len(buf) - 1 + 1 >= Len(Magic))
        /\ ~(Len(input.image) - (Consumed + 1) + 1 >= Len(Magic))
    BY <1>0, <1>2
  <2>2. ~MagicAt(buf, 1) /\ ~MagicAt(input.image, Consumed + 1)
    BY <2>1 DEF MagicAt
  <2> QED
    BY <2>2 DEF BlockLen
<1> QED
  BY <1>1, <1>2

\* The next line feed of the file is the first of the buffer; when the buffer has none
\* and all is read, neither has the file.
LEMMA SameLine ==
  ASSUME TypeOK, Window
  PROVE  /\ FirstLf(buf, 1) # 0 =>
              FirstLf(input.image, Consumed + 1) = Consumed + FirstLf(buf, 1)
         /\ FirstLf(buf, 1) = 0 =>
              \/ FirstLf(input.image, Consumed + 1) = 0
              \/ FirstLf(input.image, Consumed + 1) > src_pos
         /\ FirstLf(input.image, Consumed + 1) \in Nat
         /\ FirstLf(input.image, Consumed + 1) # 0 =>
              FirstLf(input.image, Consumed + 1) \in (Consumed + 1)..Len(input.image)
         /\ FirstLf(buf, 1) # 0 => FirstLf(buf, 1) \in 1..Len(buf)
<1>0. /\ Consumed \in Nat /\ Consumed + Len(buf) = src_pos /\ src_pos <= Len(input.image)
      /\ Len(buf) \in Nat /\ Len(input.image) \in Nat /\ src_pos \in Nat
      /\ buf \in Seq(Byte) /\ input.image \in Seq(Byte)
      /\ \A i \in 1..Len(buf) : buf[i] = input.image[Consumed + i]
  BY ConsumedFacts
<1> DEFINE nl == FirstLf(buf, 1)
           f == FirstLf(input.image, Consumed + 1)
<1>1. /\ nl \in Nat
      /\ nl # 0 => nl \in 1..Len(buf) /\ buf[nl] = LF /\ \A i \in 1..(nl - 1) : buf[i] # LF
      /\ nl = 0 => \A i \in 1..Len(buf) : buf[i] # LF
  BY <1>0, FirstLfFacts
<1>2. /\ f \in Nat
      /\ f # 0 => /\ f \in (Consumed + 1)..Len(input.image) /\ input.image[f] = LF
                  /\ \A i \in (Consumed + 1)..(f - 1) : input.image[i] # LF
      /\ f = 0 => \A i \in (Consumed + 1)..Len(input.image) : input.image[i] # LF
  <2>1. Consumed + 1 \in Nat \ {0}
    BY <1>0
  <2> QED
    BY <1>0, <2>1, FirstLfFacts
<1> HIDE DEF nl, f
<1>3. ASSUME nl # 0
      PROVE  f = Consumed + nl
  <2>1. PICK q \in Nat : q = Consumed + nl
    BY <1>0, <1>1
  <2>2. q \in (Consumed + 1)..Len(input.image) /\ input.image[q] = LF
    BY <1>0, <1>1, <1>3, <2>1
  <2>3. f # 0 /\ f <= q
    BY <1>0, <1>2, <2>1, <2>2
  <2>4. q <= f
    <3> SUFFICES ASSUME f < q
                 PROVE  FALSE
      BY <1>2, <2>1
    <3>1. PICK i \in Nat : i = f - Consumed
      BY <1>0, <1>2, <2>3
    <3>2. i \in 1..(nl - 1) /\ i \in 1..Len(buf) /\ Consumed + i = f
      BY <1>0, <1>1, <1>2, <1>3, <2>1, <2>3, <3>1
    <3> QED
      BY <1>0, <1>1, <1>2, <1>3, <2>3, <3>2
  <2> QED
    BY <1>2, <2>1, <2>3, <2>4
<1>4. ASSUME nl = 0, f # 0
      PROVE  f > src_pos
  <2> SUFFICES ASSUME f <= src_pos
               PROVE  FALSE
    BY <1>0, <1>2
  <2>1. PICK i \in Nat : i = f - Consumed
    BY <1>0, <1>2, <1>4
  <2>2. i \in 1..Len(buf) /\ Consumed + i = f
    BY <1>0, <1>2, <1>4, <2>1
  <2> QED
    BY <1>0, <1>1, <1>2, <1>4, <2>2
<1> QED
  BY <1>1, <1>2, <1>3, <1>4 DEF nl, f

-----------------------------------------------------------------------------
(* What is left to hand out.                                               *)

\* Where the line that begins at p ends: at its line feed, or after the file.
LineEnd(p) ==
  IF FirstLf(input.image, p) = 0 THEN Len(input.image) + 1 ELSE FirstLf(input.image, p)

\* The line that begins at p, as a record.
LineAt(fr, p) == StripCr(SubSeq(input.image, p, LineEnd(p) - 1), fr)

\* What the parse of the whole file gives from position p on.
RestAt(fr, p) ==
  CASE fr = FIXED -> FixedWalk(input.image)[p]
    [] fr # FIXED /\ p > Len(input.image) -> Stop(TRUE)
    [] OTHER -> TerminatedWalk(Completed(input.image, fr), fr)[p]

\* The completed file is the file, up to its end; in it every line ends with a line
\* feed.
LEMMA CompletedFacts ==
  ASSUME TypeOK, NEW fr, fr # FIXED
  PROVE  LET data == input.image
             full == Completed(data, fr)
         IN  /\ full \in Seq(Byte) /\ Len(full) \in Nat
             /\ Len(full) = Len(data) \/ Len(full) = Len(data) + 1
             /\ \A i \in 1..Len(data) : full[i] = data[i]
             /\ \A p \in 1..Len(data) : LineEnd(p) \in p..Len(full) /\ FirstLf(full, p) = LineEnd(p)
             /\ \A p \in 1..Len(data) : LineEnd(p) = Len(data) => full = data
<1> DEFINE data == input.image
           full == Completed(data, fr)
<1>0. data \in Seq(Byte) /\ Len(data) \in Nat
  BY LenProperties DEF TypeOK
<1>1. PICK k \in 0..Len(data) :
        /\ LastLine(data) = SubSeq(data, 1 + k, Len(data))
        /\ k = 0 \/ data[k] = LF
        /\ \A i \in (k + 1)..Len(data) : data[i] # LF
  BY <1>0, LastLineFacts
<1>2. LF \in Byte
  BY DEF Byte
<1>3. full = IF LastLine(data) = <<>> THEN data ELSE Append(data, LF)
  BY DEF Completed
<1> HIDE DEF full
<1>4. /\ Append(data, LF) \in Seq(Byte) /\ Len(Append(data, LF)) = Len(data) + 1
      /\ \A i \in 1..Len(data) : Append(data, LF)[i] = data[i]
      /\ Append(data, LF)[Len(data) + 1] = LF
  BY <1>0, <1>2, AppendProperties
<1>5. /\ full \in Seq(Byte) /\ Len(full) \in Nat
      /\ Len(full) = Len(data) \/ Len(full) = Len(data) + 1
      /\ \A i \in 1..Len(data) : full[i] = data[i]
      /\ Len(full) = Len(data) + 1 => full[Len(data) + 1] = LF
  BY <1>0, <1>3, <1>4
<1>6. LastLine(data) = <<>> <=> k = Len(data)
  <2>1. PICK m \in Nat : m = 1 + k
    BY <1>0
  <2>2. m > 0 /\ (m <= Len(data) <=> k # Len(data)) /\ (k # Len(data) => Len(data) - m + 1 > 0)
    BY <1>0, <2>1
  <2>3. /\ SubSeq(data, m, Len(data)) \in Seq(Byte)
        /\ Len(SubSeq(data, m, Len(data))) = IF m <= Len(data) THEN Len(data) - m + 1 ELSE 0
    BY <1>0, <2>2, PartFacts
  <2>4. LastLine(data) = SubSeq(data, m, Len(data))
    BY <1>1, <2>1
  <2>5. Len(LastLine(data)) = 0 <=> k = Len(data)
    BY <1>0, <2>2, <2>3, <2>4
  <2> QED
    BY <2>3, <2>4, <2>5, EmptySeq
<1>7. ASSUME NEW p \in 1..Len(data)
      PROVE  /\ LineEnd(p) \in p..Len(full) /\ FirstLf(full, p) = LineEnd(p)
             /\ LineEnd(p) = Len(data) => full = data
  <2> DEFINE f == FirstLf(data, p)
             g == FirstLf(full, p)
  <2>0. p \in Nat \ {0} /\ p <= Len(data)
    BY <1>0
  <2>1. /\ f \in Nat
        /\ f # 0 => /\ f \in p..Len(data) /\ data[f] = LF
                    /\ \A i \in p..(f - 1) : data[i] # LF
        /\ f = 0 => \A i \in p..Len(data) : data[i] # LF
    BY <1>0, <2>0, FirstLfFacts
  <2>2. /\ g \in Nat
        /\ g # 0 => /\ g \in p..Len(full) /\ full[g] = LF
                    /\ \A i \in p..(g - 1) : full[i] # LF
        /\ g = 0 => \A i \in p..Len(full) : full[i] # LF
    BY <1>5, <2>0, FirstLfFacts
  <2>3. LineEnd(p) = IF f = 0 THEN Len(data) + 1 ELSE f
    BY DEF LineEnd
  <2> HIDE DEF f, g
  <2>4. CASE f = 0
    <3>1. k < p
      <4> SUFFICES ASSUME p <= k
                   PROVE  FALSE
        BY <1>0, <2>0
      <4>1. k \in p..Len(data) /\ k # 0
        BY <1>0, <2>0
      <4> QED
        BY <1>1, <2>1, <2>4, <4>1
    <3>2. Len(full) = Len(data) + 1 /\ full[Len(data) + 1] = LF
      BY <1>0, <1>3, <1>4, <1>6, <2>0, <3>1
    <3>3. PICK e \in Nat : e = Len(data) + 1
      BY <1>0
    <3>4. e \in p..Len(full) /\ full[e] = LF
      BY <2>0, <3>2, <3>3
    <3>5. g # 0 /\ g <= e
      BY <2>2, <3>2, <3>3, <3>4
    <3>6. ~(g < e)
      <4> SUFFICES ASSUME g < e
                   PROVE  FALSE
        OBVIOUS
      <4>1. g \in p..Len(data) /\ g \in 1..Len(data)
        BY <1>0, <2>0, <2>2, <3>3, <3>5
      <4> QED
        BY <1>5, <2>1, <2>2, <2>4, <3>5, <4>1
    <3>7. g = e
      BY <2>2, <3>5, <3>6
    <3>8. LineEnd(p) = e /\ e # Len(data)
      BY <1>0, <2>3, <2>4, <3>3
    <3> QED
      BY <3>4, <3>7, <3>8 DEF g
  <2>5. CASE f # 0
    <3>1. f \in p..Len(full) /\ f \in 1..Len(data) /\ full[f] = LF
      BY <1>0, <1>5, <2>0, <2>1, <2>5
    <3>2. g # 0 /\ g <= f
      BY <2>1, <2>2, <3>1
    <3>3. ~(g < f)
      <4> SUFFICES ASSUME g < f
                   PROVE  FALSE
        OBVIOUS
      <4>1. g \in p..(f - 1) /\ g \in 1..Len(data)
        BY <1>0, <2>0, <2>1, <2>2, <2>5, <3>2
      <4> QED
        BY <1>5, <2>1, <2>2, <2>5, <3>2, <4>1
    <3>4. g = f
      BY <2>1, <2>2, <3>2, <3>3
    <3>5. ASSUME f = Len(data)
          PROVE  full = data
      <4>1. ~(k < f)
        <5> SUFFICES ASSUME k < f
                     PROVE  FALSE
          OBVIOUS
        <5>1. f \in (k + 1)..Len(data)
          BY <1>0, <2>1, <2>5, <3>5
        <5> QED
          BY <1>1, <2>1, <2>5, <5>1
      <4>2. k = Len(data)
        BY <1>0, <3>5, <4>1
      <4> QED
        BY <1>3, <1>6, <4>2
    <3>6. LineEnd(p) = f
      BY <2>3, <2>5
    <3> QED
      BY <3>1, <3>4, <3>5, <3>6 DEF g
  <2> QED
    BY <2>4, <2>5
<1> QED
  BY <1>5, <1>7 DEF full

\* RestAt is the whole walk at the first byte, nothing after the last, and a walk
\* everywhere.
LEMMA RestFacts ==
  ASSUME TypeOK, NEW fr
  PROVE  /\ fr = FIXED => RestAt(fr, 1) = WalkFixed(input.image)
         /\ fr # FIXED /\ input.image # <<>> =>
              RestAt(fr, 1) = WalkTerminated(Completed(input.image, fr), fr)
         /\ \A p \in 1..(Len(input.image) + 1) :
              /\ RestAt(fr, p) \in Walks
              /\ fr = FIXED =>
                   RestAt(fr, p) =
                     LET end == p + BlockLen(input.image, p) - 1
                     IN  IF p > Len(input.image) THEN Stop(TRUE)
                         ELSE IF end > Len(input.image) THEN Stop(FALSE)
                         ELSE Prepend(SubSeq(input.image, p, end), RestAt(fr, end + 1))
<1> DEFINE data == input.image
<1>0. data \in Seq(Byte) /\ Len(data) \in Nat /\ (data = <<>> <=> Len(data) = 0)
  BY LenProperties, EmptySeq DEF TypeOK
<1>1. CASE fr = FIXED
  <2>1. \A p : RestAt(fr, p) = FixedWalk(data)[p]
    BY <1>1 DEF RestAt
  <2> DEFINE w == FixedWalk(data)
  <2>2. IsFixedWalk(data, w) /\ w \in [1..(Len(data) + 1) -> Walks] /\ WalkFixed(data) = w[1]
    BY <1>0, FixedWalkFacts
  <2> HIDE DEF w
  <2>3. \A p \in 1..(Len(data) + 1) :
          w[p] = LET end == p + BlockLen(data, p) - 1
                 IN  IF p > Len(data) THEN Stop(TRUE)
                     ELSE IF end > Len(data) THEN Stop(FALSE)
                     ELSE Prepend(SubSeq(data, p, end), w[end + 1])
    BY <2>2 DEF IsFixedWalk
  <2>4. \A p \in 1..(Len(data) + 1) : w[p] \in Walks
    BY <2>2
  <2>5. \A p : RestAt(fr, p) = w[p]
    BY <2>1 DEF w
  <2> QED
    BY <1>1, <2>2, <2>3, <2>4, <2>5
<1>2. CASE fr # FIXED
  <2> DEFINE full == Completed(data, fr)
             w == TerminatedWalk(full, fr)
  <2>1. full \in Seq(Byte) /\ Len(full) \in Nat /\ Len(data) <= Len(full)
    BY <1>0, <1>2, CompletedFacts
  <2>a. \A p : RestAt(fr, p) = IF p > Len(data) THEN Stop(TRUE) ELSE w[p]
    BY <1>2 DEF RestAt
  <2> HIDE DEF full
  <2>2. w \in [1..(Len(full) + 1) -> Walks] /\ WalkTerminated(full, fr) = w[1]
    BY <2>1, TerminatedWalkFacts
  <2> HIDE DEF w
  <2>3. Stop(TRUE) \in Walks
    BY EmptySeq DEF Stop, Walks
  <2>4. ASSUME NEW p \in 1..(Len(data) + 1)
        PROVE  RestAt(fr, p) \in Walks
    <3>1. p \in 1..(Len(full) + 1)
      BY <1>0, <2>1
    <3>2. w[p] \in Walks
      BY <2>2, <3>1
    <3> QED
      BY <2>3, <2>a, <3>2
  <2>5. ASSUME data # <<>>
        PROVE  RestAt(fr, 1) = WalkTerminated(full, fr)
    <3>1. ~(1 > Len(data))
      BY <1>0, <2>5
    <3> QED
      BY <2>2, <2>a, <3>1
  <2> QED
    BY <1>2, <2>4, <2>5 DEF full
<1> QED
  BY <1>1, <1>2

\* A line of a terminated file is its next record, or the failure of the parse.
LEMMA RestLine ==
  ASSUME TypeOK, NEW fr, fr # FIXED, NEW p \in 1..Len(input.image)
  PROVE  /\ LineEnd(p) \in Nat /\ LineEnd(p) >= p /\ LineEnd(p) <= Len(input.image) + 1
         /\ LineAt(fr, p) \in Seq(Byte)
         /\ RestAt(fr, p) = IF GeometryOk(LineAt(fr, p))
                            THEN Prepend(LineAt(fr, p), RestAt(fr, LineEnd(p) + 1))
                            ELSE Stop(FALSE)
<1> DEFINE data == input.image
           full == Completed(data, fr)
           w == TerminatedWalk(full, fr)
           e == LineEnd(p)
           line == LineAt(fr, p)
<1>0. data \in Seq(Byte) /\ Len(data) \in Nat /\ p \in Nat \ {0} /\ p <= Len(data)
  BY LenProperties DEF TypeOK
<1>1. /\ full \in Seq(Byte) /\ Len(full) \in Nat
      /\ Len(full) = Len(data) \/ Len(full) = Len(data) + 1
      /\ \A i \in 1..Len(data) : full[i] = data[i]
      /\ e \in p..Len(full) /\ FirstLf(full, p) = e
      /\ e = Len(data) => full = data
  BY CompletedFacts
<1>2. \A q : RestAt(fr, q) = IF q > Len(data) THEN Stop(TRUE) ELSE w[q]
  BY DEF RestAt
<1> HIDE DEF full
<1>3. IsTerminatedWalk(full, fr, w)
  BY <1>1, TerminatedWalkFacts
<1>l. line = StripCr(SubSeq(data, p, e - 1), fr)
  BY DEF LineAt
<1> HIDE DEF w, e, line
<1>4. \A q \in 1..(Len(full) + 1) :
        w[q] = LET nl == FirstLf(full, q)
                   l  == StripCr(SubSeq(full, q, nl - 1), fr)
               IN  IF q > Len(full) THEN Stop(TRUE)
                   ELSE IF nl = 0 THEN Prepend(SubSeq(full, q, Len(full)), Stop(TRUE))
                   ELSE IF ~GeometryOk(l) THEN Stop(FALSE)
                   ELSE Prepend(l, w[nl + 1])
  BY <1>3 DEF IsTerminatedWalk
<1>5. e \in Nat /\ e >= p /\ e <= Len(data) + 1 /\ e # 0
  BY <1>0, <1>1
<1>6. PICK m \in Nat : m = e - 1
  BY <1>0, <1>5
<1>7. m <= Len(data) /\ m <= Len(full)
  BY <1>0, <1>1, <1>5, <1>6
<1>8. SubSeq(full, p, m) = SubSeq(data, p, m)
  <2>1. \A i \in 1..(m - p + 1) : full[p + i - 1] = data[p + i - 1]
    <3> TAKE i \in 1..(m - p + 1)
    <3>1. p + i - 1 \in 1..Len(data)
      BY <1>0, <1>7
    <3> QED
      BY <1>1, <3>1
  <2>2. /\ SubSeq(full, p, m) \in Seq(Byte) /\ SubSeq(data, p, m) \in Seq(Byte)
        /\ Len(SubSeq(full, p, m)) = IF p <= m THEN m - p + 1 ELSE 0
        /\ Len(SubSeq(data, p, m)) = IF p <= m THEN m - p + 1 ELSE 0
        /\ \A i \in 1..(m - p + 1) : SubSeq(full, p, m)[i] = full[p + i - 1]
        /\ \A i \in 1..(m - p + 1) : SubSeq(data, p, m)[i] = data[p + i - 1]
    BY <1>0, <1>1, <1>7, PartFacts
  <2>3. Len(SubSeq(full, p, m)) = Len(SubSeq(data, p, m))
    BY <2>2
  <2>4. \A i \in 1..Len(SubSeq(full, p, m)) : SubSeq(full, p, m)[i] = SubSeq(data, p, m)[i]
    <3> TAKE i \in 1..Len(SubSeq(full, p, m))
    <3>1. i \in 1..(m - p + 1)
      BY <1>0, <2>2
    <3> QED
      BY <2>1, <2>2, <3>1
  <2> QED
    BY <2>2, <2>3, <2>4, SeqEqual
<1>9. line = StripCr(SubSeq(full, p, e - 1), fr) /\ line \in Seq(Byte)
  <2>1. SubSeq(data, p, m) \in Seq(Byte)
    BY <1>0, <1>7, PartType
  <2> QED
    BY <1>6, <1>8, <1>l, <2>1, StripCrType
<1>10. w[p] = IF ~GeometryOk(line) THEN Stop(FALSE) ELSE Prepend(line, w[e + 1])
  <2>1. p \in 1..(Len(full) + 1) /\ ~(p > Len(full))
    BY <1>0, <1>1
  <2> QED
    BY <1>1, <1>4, <1>5, <1>9, <2>1
<1>11. RestAt(fr, e + 1) = w[e + 1]
  <2>1. CASE e < Len(data)
    <3>1. ~(e + 1 > Len(data))
      BY <1>0, <1>5, <2>1
    <3> QED
      BY <1>2, <3>1
  <2>2. CASE ~(e < Len(data))
    <3>1. e = Len(full)
      BY <1>0, <1>1, <1>5, <2>2
    <3>2. PICK q \in Nat : q = e + 1
      BY <1>5
    <3>3. q > Len(data) /\ q > Len(full) /\ q \in 1..(Len(full) + 1)
      BY <1>0, <1>1, <1>5, <2>2, <3>1, <3>2
    <3>4. w[q] = Stop(TRUE)
      BY <1>4, <3>3
    <3> QED
      BY <1>2, <3>2, <3>3, <3>4
  <2> QED
    BY <2>1, <2>2
<1>12. RestAt(fr, p) = w[p]
  <2>1. ~(p > Len(data))
    BY <1>0
  <2> QED
    BY <1>2, <2>1
<1> QED
  BY <1>5, <1>9, <1>10, <1>11, <1>12 DEF e, line

\* A record of FIXED framing is the next of the walk.
LEMMA HeadBlock ==
  ASSUME TypeOK, Window, need = BlockLen(input.image, Consumed + 1), need \in 1..Len(buf)
  PROVE  RestAt(FIXED, Consumed + 1)
           = Prepend(SubSeq(buf, 1, need), RestAt(FIXED, Consumed + need + 1))
<1>0. /\ Consumed \in Nat /\ Consumed + Len(buf) = src_pos /\ src_pos <= Len(input.image)
      /\ Len(buf) \in Nat /\ Len(input.image) \in Nat /\ src_pos \in Nat
  BY ConsumedFacts
<1>1. PICK p \in Nat : p = Consumed + 1
  BY <1>0
<1>2. /\ p \in 1..(Len(input.image) + 1) /\ ~(p > Len(input.image))
      /\ p + need - 1 = Consumed + need /\ ~(p + need - 1 > Len(input.image))
      /\ need \in 0..Len(buf) /\ p + need - 1 + 1 = Consumed + need + 1
  BY SMTT(30), <1>0, <1>1
<1>3. RestAt(FIXED, p) = LET end == p + BlockLen(input.image, p) - 1
                         IN  IF p > Len(input.image) THEN Stop(TRUE)
                             ELSE IF end > Len(input.image) THEN Stop(FALSE)
                             ELSE Prepend(SubSeq(input.image, p, end), RestAt(FIXED, end + 1))
  BY <1>2, RestFacts
<1>4. BlockLen(input.image, p) = need
  BY <1>1
<1>5. RestAt(FIXED, p) = Prepend(SubSeq(input.image, p, p + need - 1), RestAt(FIXED, p + need - 1 + 1))
  BY <1>2, <1>3, <1>4
<1>6. SubSeq(buf, 1, need) = SubSeq(input.image, p, p + need - 1)
  BY <1>1, <1>2, BufferIsPart
<1> QED
  BY <1>1, <1>2, <1>5, <1>6

\* A FIXED file that is cut within a record.
LEMMA RestCut ==
  ASSUME TypeOK, Window, Consumed < Len(input.image),
         Consumed + BlockLen(input.image, Consumed + 1) > Len(input.image)
  PROVE  RestAt(FIXED, Consumed + 1) = Stop(FALSE)
<1> DEFINE data == input.image
<1>0. Consumed \in Nat /\ Len(data) \in Nat
  BY ConsumedFacts
<1>1. PICK p \in Nat : p = Consumed + 1
  BY <1>0
<1>a. BlockLen(data, p) \in Nat
  BY BlockLenFacts
<1>2. p \in 1..(Len(data) + 1) /\ ~(p > Len(data)) /\ p + BlockLen(data, p) - 1 > Len(data)
  BY <1>0, <1>1, <1>a
<1>3. RestAt(FIXED, p) = LET end == p + BlockLen(data, p) - 1
                         IN  IF p > Len(data) THEN Stop(TRUE)
                             ELSE IF end > Len(data) THEN Stop(FALSE)
                             ELSE Prepend(SubSeq(data, p, end), RestAt(FIXED, end + 1))
  BY <1>2, RestFacts
<1> QED
  BY <1>1, <1>2, <1>3

-----------------------------------------------------------------------------
(* What is ahead of the consumer.                                          *)

\* What a read with framing fr that has consumed the bytes before p has still to hand
\* out, and how it ends.
Ahead(fr, p) ==
  IF fr = FIXED
  THEN [ok |-> input.lenient \/ RestAt(fr, p).ok, records |-> RestAt(fr, p).records]
  ELSE RestAt(fr, p)

\* At the end of the file nothing is ahead.
LEMMA AheadEmpty ==
  ASSUME TypeOK, NEW fr
  PROVE  Ahead(fr, Len(input.image) + 1) = Stop(TRUE)
<1> DEFINE data == input.image
<1>0. Len(data) \in Nat
  BY LenProperties DEF TypeOK
<1>1. PICK p \in Nat : p = Len(data) + 1
  BY <1>0
<1>2. p \in 1..(Len(data) + 1) /\ p > Len(data)
  BY <1>0, <1>1
<1>3. CASE fr = FIXED
  <2>1. RestAt(fr, p) = LET end == p + BlockLen(data, p) - 1
                        IN  IF p > Len(data) THEN Stop(TRUE)
                            ELSE IF end > Len(data) THEN Stop(FALSE)
                            ELSE Prepend(SubSeq(data, p, end), RestAt(fr, end + 1))
    BY <1>2, <1>3, RestFacts
  <2>2. RestAt(fr, p) = Stop(TRUE)
    BY <1>2, <2>1
  <2>3. RestAt(fr, p).ok = TRUE /\ RestAt(fr, p).records = <<>>
    BY <2>2 DEF Stop
  <2> QED
    BY <1>1, <1>3, <2>3 DEF Ahead, Stop
<1>4. CASE fr # FIXED
  <2>1. RestAt(fr, p) = Stop(TRUE)
    BY <1>2, <1>4 DEF RestAt
  <2> QED
    BY <1>1, <1>4, <2>1 DEF Ahead
<1> QED
  BY <1>3, <1>4

\* What is ahead is records, and an end.
LEMMA AheadType ==
  ASSUME TypeOK, NEW fr, NEW c \in 0..Len(input.image)
  PROVE  Ahead(fr, c + 1) \in Walks
<1>0. c \in Nat /\ c + 1 \in 1..(Len(input.image) + 1)
  BY LenProperties DEF TypeOK
<1>1. RestAt(fr, c + 1) \in Walks
  BY <1>0, RestFacts
<1>2. CASE fr = FIXED
  <2>1. Ahead(fr, c + 1) = [ok |-> input.lenient \/ RestAt(fr, c + 1).ok, records |-> RestAt(fr, c + 1).records]
    BY <1>2 DEF Ahead
  <2>2. (input.lenient \/ RestAt(fr, c + 1).ok) \in BOOLEAN
    OBVIOUS
  <2>3. RestAt(fr, c + 1).records \in Seq(Seq(Byte))
    BY <1>1 DEF Walks
  <2>4. \A b \in BOOLEAN, l \in Seq(Seq(Byte)) : [ok |-> b, records |-> l] \in Walks
    BY DEF Walks
  <2> QED
    BY <2>1, <2>2, <2>3, <2>4
<1>3. CASE fr # FIXED
  BY <1>1, <1>3 DEF Ahead
<1> QED
  BY <1>2, <1>3

\* A record of FIXED framing that is in the buffer is the next one.
LEMMA AheadBlock ==
  ASSUME TypeOK, Window, need = BlockLen(input.image, Consumed + 1), need \in 1..Len(buf)
  PROVE  Ahead(FIXED, Consumed + 1)
           = Prepend(SubSeq(buf, 1, need), Ahead(FIXED, Consumed + need + 1))
<1>0. /\ Consumed \in Nat /\ Consumed + Len(buf) = src_pos /\ src_pos <= Len(input.image)
      /\ Len(buf) \in Nat /\ Len(input.image) \in Nat /\ src_pos \in Nat /\ buf \in Seq(Byte)
  BY ConsumedFacts
<1> DEFINE r == SubSeq(buf, 1, need)
<1>1. RestAt(FIXED, Consumed + 1) = Prepend(r, RestAt(FIXED, Consumed + need + 1))
  BY HeadBlock
<1>2. r \in Seq(Byte)
  BY <1>0, BufferParts
<1>3. PICK p \in 1..(Len(input.image) + 1) : p = Consumed + need + 1
  BY <1>0
<1> HIDE DEF r
<1> DEFINE w == RestAt(FIXED, p)
<1>4. w \in Walks
  BY RestFacts
<1>5. Ahead(FIXED, p) = [ok |-> input.lenient \/ w.ok, records |-> w.records]
  BY DEF Ahead
<1>6. Ahead(FIXED, Consumed + 1)
        = [ok |-> input.lenient \/ Prepend(r, w).ok, records |-> Prepend(r, w).records]
  BY <1>1, <1>3 DEF Ahead
<1> HIDE DEF w
<1>7. Prepend(r, w).ok = w.ok /\ Prepend(r, w).records = <<r>> \o w.records
  BY <1>2, <1>4, WalkType
<1> DEFINE v == [ok |-> input.lenient \/ w.ok, records |-> w.records]
<1>8. Prepend(r, v) = [ok |-> input.lenient \/ w.ok, records |-> <<r>> \o w.records]
  <2>1. (input.lenient \/ w.ok) \in BOOLEAN /\ w.records \in Seq(Seq(Byte))
    BY <1>4 DEF Walks
  <2>2. v \in Walks /\ v.ok = (input.lenient \/ w.ok) /\ v.records = w.records
    BY <2>1 DEF Walks
  <2> HIDE DEF v
  <2>3. Prepend(r, v) \in Walks /\ Prepend(r, v).ok = v.ok /\ Prepend(r, v).records = <<r>> \o v.records
    BY <1>2, <2>2, WalkType
  <2> QED
    BY <2>2, <2>3 DEF Walks
<1> QED
  BY <1>3, <1>5, <1>6, <1>7, <1>8 DEF r

\* A FIXED file that is cut within the next record ends there.
LEMMA AheadCut ==
  ASSUME TypeOK, Window, Consumed < Len(input.image),
         Consumed + BlockLen(input.image, Consumed + 1) > Len(input.image)
  PROVE  Ahead(FIXED, Consumed + 1) = Stop(input.lenient)
<1>1. RestAt(FIXED, Consumed + 1) = Stop(FALSE)
  BY RestCut
<1>2. Ahead(FIXED, Consumed + 1) = [ok |-> input.lenient \/ Stop(FALSE).ok, records |-> Stop(FALSE).records]
  BY <1>1 DEF Ahead
<1>3. input.lenient \in BOOLEAN
  BY DEF TypeOK
<1> QED
  BY <1>2, <1>3 DEF Stop

\* A line that ends in the buffer is the next record, or the failure of the read.
LEMMA AheadLine ==
  ASSUME TypeOK, Window, NEW fr, fr # FIXED,
         NEW nl, nl = FirstLf(buf, 1), nl # 0
  PROVE  LET line == StripCr(SubSeq(buf, 1, nl - 1), fr)
         IN  /\ line \in Seq(Byte)
             /\ Consumed + nl \in 1..Len(input.image)
             /\ Ahead(fr, Consumed + 1) = IF GeometryOk(line)
                                          THEN Prepend(line, Ahead(fr, Consumed + nl + 1))
                                          ELSE Stop(FALSE)
<1> DEFINE data == input.image
           line == StripCr(SubSeq(buf, 1, nl - 1), fr)
<1>0. /\ Consumed \in Nat /\ Consumed + Len(buf) = src_pos /\ src_pos <= Len(data)
      /\ Len(buf) \in Nat /\ Len(data) \in Nat /\ src_pos \in Nat /\ buf \in Seq(Byte)
      /\ nl \in 1..Len(buf) /\ nl \in Nat
      /\ FirstLf(data, Consumed + 1) = Consumed + nl
  BY ConsumedFacts, SameLine
<1>1. PICK p \in Nat : p = Consumed + 1
  BY <1>0
<1>2. PICK q \in Nat : q = Consumed + nl
  BY <1>0
<1>3. /\ p \in 1..Len(data) /\ q \in 1..Len(data) /\ q # 0 /\ FirstLf(data, p) = q
      /\ nl - 1 \in 0..Len(buf) /\ q - 1 = Consumed + (nl - 1) /\ q + 1 = Consumed + nl + 1
  BY SMTT(30), <1>0, <1>1, <1>2
<1>4. LineEnd(p) = q
  BY <1>3 DEF LineEnd
<1>5. SubSeq(buf, 1, nl - 1) = SubSeq(data, p, q - 1)
  BY <1>1, <1>3, BufferIsPart
<1>6. LineAt(fr, p) = line
  BY <1>4, <1>5 DEF LineAt
<1> HIDE DEF line
<1>7. /\ LineAt(fr, p) \in Seq(Byte)
      /\ RestAt(fr, p) = IF GeometryOk(LineAt(fr, p))
                         THEN Prepend(LineAt(fr, p), RestAt(fr, LineEnd(p) + 1))
                         ELSE Stop(FALSE)
  BY <1>3, RestLine
<1>8. Ahead(fr, p) = RestAt(fr, p) /\ Ahead(fr, q + 1) = RestAt(fr, q + 1)
  BY DEF Ahead
<1>9. Ahead(fr, p) = IF GeometryOk(line) THEN Prepend(line, Ahead(fr, q + 1)) ELSE Stop(FALSE)
  BY <1>4, <1>6, <1>7, <1>8
<1> QED
  BY <1>1, <1>2, <1>3, <1>6, <1>7, <1>9 DEF line

\* What follows the last line feed is the last record, when it is one.
LEMMA AheadLast ==
  ASSUME TypeOK, Window, NEW fr, fr # FIXED,
         FirstLf(input.image, Consumed + 1) = 0, Consumed < Len(input.image)
  PROVE  LET last == SubSeq(input.image, Consumed + 1, Len(input.image))
             line == StripCr(last, fr)
         IN  /\ line \in Seq(Byte)
             /\ Ahead(fr, Consumed + 1) = IF GeometryOk(line) THEN Prepend(line, Stop(TRUE))
                                          ELSE Stop(FALSE)
             /\ src_pos = Len(input.image) => last = buf
<1> DEFINE data == input.image
           last == SubSeq(input.image, Consumed + 1, Len(input.image))
           line == StripCr(last, fr)
<1>0. /\ Consumed \in Nat /\ Consumed + Len(buf) = src_pos /\ src_pos <= Len(data)
      /\ Len(buf) \in Nat /\ Len(data) \in Nat /\ src_pos \in Nat /\ buf \in Seq(Byte)
  BY ConsumedFacts
<1>1. PICK p \in Nat : p = Consumed + 1
  BY <1>0
<1>2. p \in 1..Len(data) /\ FirstLf(data, p) = 0 /\ Len(data) + 1 - 1 = Len(data)
  BY <1>0, <1>1
<1>3. LineEnd(p) = Len(data) + 1
  BY <1>2 DEF LineEnd
<1>4. LineAt(fr, p) = line
  BY <1>1, <1>2, <1>3 DEF LineAt
<1> HIDE DEF line
<1>5. /\ LineAt(fr, p) \in Seq(Byte)
      /\ RestAt(fr, p) = IF GeometryOk(LineAt(fr, p))
                         THEN Prepend(LineAt(fr, p), RestAt(fr, LineEnd(p) + 1))
                         ELSE Stop(FALSE)
  BY <1>2, RestLine
<1>6. RestAt(fr, Len(data) + 1 + 1) = Stop(TRUE)
  <2>1. Len(data) + 1 + 1 > Len(data)
    BY <1>0
  <2> QED
    BY <2>1 DEF RestAt
<1>7. Ahead(fr, p) = IF GeometryOk(line) THEN Prepend(line, Stop(TRUE)) ELSE Stop(FALSE)
  BY <1>3, <1>4, <1>5, <1>6 DEF Ahead
<1>8. ASSUME src_pos = Len(data)
      PROVE  last = buf
  <2>1. SubSeq(buf, 1, Len(buf)) = SubSeq(data, Consumed + 1, Consumed + Len(buf))
    BY <1>0, BufferIsPart
  <2>2. SubSeq(buf, 1, Len(buf)) = buf
    BY <1>0, SubSeqFull
  <2> QED
    BY <1>0, <1>8, <2>1, <2>2
<1> QED
  BY <1>1, <1>4, <1>5, <1>7, <1>8 DEF line

-----------------------------------------------------------------------------
(* The parse of the whole file is what is ahead at its first byte.         *)

\* No records, none numbered.
LEMMA NumberedNone == Numbered(<<>>) = <<>>
<1>1. <<>> \in Seq(Seq(Byte)) /\ Len(<<>>) = 0
  BY EmptySeq
<1>2. Numbered(<<>>) \in Seq(IdocRecord) /\ Len(Numbered(<<>>)) = 0
  BY <1>1, NumberedFacts
<1> QED
  BY <1>2, EmptySeq

\* WholeParse is the numbered records of what is ahead of the first byte.
LEMMA WholeIsAhead ==
  ASSUME TypeOK, NEW fr \in Framing, fr = EffectiveFraming(input), Comparable(input)
  PROVE  WholeParse(input) = [ok |-> Ahead(fr, 1).ok, records |-> Numbered(Ahead(fr, 1).records)]
<1> DEFINE data == input.image
           w == RestAt(fr, 1)
           whole == WholeParse(input)
<1>0. /\ data \in Seq(Byte) /\ Len(data) \in Nat
      /\ data = <<>> <=> Len(data) = 0
      /\ input.lenient \in BOOLEAN
  BY LenProperties, EmptySeq DEF TypeOK
<1>1. fr # "undetectable"
  BY DEF Framing, FIXED, TERMINATED_LF, TERMINATED_CRLF
<1>2. whole = CASE data = <<>> -> Stop(TRUE)
                [] data # <<>> /\ fr = "undetectable" -> Stop(FALSE)
                [] data # <<>> /\ fr = FIXED /\ input.lenient ->
                     [ok |-> TRUE, records |-> ParseImageLenient(data)]
                [] OTHER -> ParseImage(Completed(data, fr), fr)
  BY DEF WholeParse
<1> HIDE DEF whole
<1>3. CASE data = <<>>
  <2>1. Ahead(fr, 1) = Stop(TRUE)
    <3>1. Len(data) + 1 = 1
      BY <1>0, <1>3
    <3> QED
      BY <3>1, AheadEmpty
  <2>2. Ahead(fr, 1).ok = TRUE /\ Numbered(Ahead(fr, 1).records) = <<>>
    BY <2>1, NumberedNone DEF Stop
  <2>3. whole = Stop(TRUE)
    BY <1>2, <1>3, Zenon
  <2> QED
    BY <2>2, <2>3 DEF whole, Stop
<1>4. CASE data # <<>> /\ fr = FIXED
  <2>1. w = WalkFixed(data)
    BY <1>4, RestFacts
  <2>2. Ahead(fr, 1).ok = (input.lenient \/ w.ok) /\ Ahead(fr, 1).records = w.records
    BY <1>4 DEF Ahead
  <2>a. w.ok \in BOOLEAN
    <3>1. 1 \in 1..(Len(data) + 1)
      BY <1>0
    <3>2. w \in Walks
      BY <3>1, RestFacts
    <3> QED
      BY <3>2 DEF Walks
  <2> HIDE DEF w
  <2>3. CASE input.lenient
    <3>1. whole = [ok |-> TRUE, records |-> ParseImageLenient(data)]
      BY <1>1, <1>2, <1>4, <2>3
    <3>2. ParseImageLenient(data) = Numbered(w.records)
      BY <2>1 DEF ParseImageLenient, SplitRecordsLenient
    <3>3. (input.lenient \/ w.ok) = TRUE
      BY <2>3
    <3> QED
      BY <2>2, <3>1, <3>2, <3>3 DEF whole
  <2>4. CASE ~input.lenient
    <3>1. whole = ParseImage(data, FIXED)
      BY <1>1, <1>2, <1>4, <2>4 DEF Completed
    <3>2. ParseImage(data, FIXED) = [ok |-> w.ok, records |-> Numbered(w.records)]
      BY <2>1 DEF ParseImage, SplitRecords
    <3>3. (input.lenient \/ w.ok) = w.ok
      BY <2>4, <2>a
    <3> QED
      BY <2>2, <3>1, <3>2, <3>3 DEF whole
  <2> QED
    BY <2>3, <2>4
<1>5. CASE data # <<>> /\ fr # FIXED
  <2>1. whole = ParseImage(Completed(data, fr), fr)
    BY <1>1, <1>2, <1>5
  <2>2. w = WalkTerminated(Completed(data, fr), fr)
    BY <1>5, RestFacts
  <2>3. Ahead(fr, 1) = w
    BY <1>5 DEF Ahead
  <2> HIDE DEF w
  <2>4. ParseImage(Completed(data, fr), fr) = [ok |-> w.ok, records |-> Numbered(w.records)]
    BY <1>5, <2>2 DEF ParseImage, SplitRecords
  <2> QED
    BY <2>1, <2>3, <2>4 DEF whole
<1> QED
  BY <1>3, <1>4, <1>5

-----------------------------------------------------------------------------
(* The invariant.                                                          *)

\* The input is one that can be compared, and its parse is that of the whole file.
Given ==
  /\ Comparable(input)
  /\ input.whole = WholeParse(input)

\* What is handed out, followed by what is ahead, is what was ahead at the start.
OnTheWay ==
  /\ Ahead(framing, 1).ok = Ahead(framing, Consumed + 1).ok
  /\ Ahead(framing, 1).records = Bytes(out) \o Ahead(framing, Consumed + 1).records

FeedInv ==
  /\ Given
  /\ out = Numbered(Bytes(out))
  /\ pc \notin Stopped =>
       IF framing_known
       THEN /\ framing = EffectiveFraming(input)
            /\ OnTheWay
       ELSE input.framing = "auto" /\ Consumed = 0 /\ out = <<>>
  /\ pc = "block" => need = BlockLen(input.image, Consumed + 1) /\ Len(buf) >= Len(Magic)

\* What the file as a whole gives, once the framing is known.
LEMMA WholeOnTheWay ==
  ASSUME TypeOK, FeedInv, framing_known, pc \notin Stopped
  PROVE  input.whole = [ok      |-> Ahead(framing, Consumed + 1).ok,
                        records |-> Numbered(Bytes(out) \o Ahead(framing, Consumed + 1).records)]
<1>1. framing \in Framing /\ framing = EffectiveFraming(input) /\ input.whole = WholeParse(input)
      /\ OnTheWay /\ Comparable(input)
  BY DEF TypeOK, FeedInv, Given
<1>2. WholeParse(input) = [ok |-> Ahead(framing, 1).ok, records |-> Numbered(Ahead(framing, 1).records)]
  BY <1>1, WholeIsAhead
<1> QED
  BY <1>1, <1>2 DEF OnTheWay

-----------------------------------------------------------------------------
(* The kinds of steps.                                                     *)

\* The document key is the number of control records so far.
LEMMA KeyIsCount ==
  ASSUME TypeOK, Counters, out = Numbered(Bytes(out))
  PROVE  document_key
           = Cardinality({j \in 1..Len(Bytes(out)) : IsControlRecord(Bytes(out)[j])})
<1> DEFINE rs == Bytes(out)
           count == Cardinality({j \in 1..Len(rs) : IsControlRecord(rs[j])})
<1>0. /\ out \in Seq(IdocRecord) /\ rs \in Seq(Seq(Byte)) /\ Len(rs) = Len(out)
      /\ Len(out) \in Nat /\ (out # <<>> => Len(out) # 0) /\ Len(<<>>) = 0
  BY BytesType, LenProperties, EmptySeq DEF TypeOK
<1>1. CASE out = <<>>
  <2>1. 1..Len(rs) = {}
    BY <1>0, <1>1
  <2>2. {j \in 1..Len(rs) : IsControlRecord(rs[j])} = {}
    BY <2>1
  <2>3. Cardinality({}) = 0
    BY FS_EmptySet
  <2> QED
    BY <1>1, <2>2, <2>3 DEF Counters
<1>2. CASE out # <<>>
  <2>1. PICK n \in Nat \ {0} : n = Len(out)
    BY <1>0, <1>2
  <2>2. n \in 1..Len(rs)
    BY <1>0, <2>1
  <2> HIDE DEF rs
  <2>3. Numbered(rs)[n] = NumberedAt(rs, n)
    BY <1>0, <2>2, NumberedFacts
  <2>4. out = Numbered(rs)
    BY DEF rs
  <2>5. out[n].document_key = Cardinality({j \in 1..n : IsControlRecord(rs[j])})
    BY <2>3, <2>4 DEF NumberedAt
  <2>6. document_key = out[n].document_key
    BY <1>2, <2>1 DEF Counters
  <2> QED
    BY <1>0, <2>1, <2>5, <2>6 DEF rs
<1> QED
  BY <1>1, <1>2

\* The record a step hands out is numbered as the parse numbers it.
LEMMA EmitNumbers ==
  ASSUME TypeOK, Counters, out = Numbered(Bytes(out)),
         NEW record \in Seq(Byte), NEW rest, Emit(record, rest)
  PROVE  LET new == NumberedAt(Append(Bytes(out), record), Len(out) + 1)
         IN  /\ out' = Append(out, new)
             /\ new \in IdocRecord
             /\ Bytes(out') = Append(Bytes(out), record)
             /\ out' = Numbered(Bytes(out'))
<1> DEFINE rs == Bytes(out)
           count == Cardinality({j \in 1..Len(rs) : IsControlRecord(rs[j])})
           new == NumberedAt(Append(rs, record), Len(out) + 1)
<1>0. out \in Seq(IdocRecord) /\ rs \in Seq(Seq(Byte)) /\ Len(rs) = Len(out) /\ Len(out) \in Nat
  BY BytesType, LenProperties DEF TypeOK
<1>1. document_key = count /\ record_index = Len(out) /\ document_key \in Nat
  BY KeyIsCount DEF Counters, TypeOK
<1>2. new = [document_key |-> count + (IF IsControlRecord(record) THEN 1 ELSE 0),
             record_index |-> Len(out), is_control |-> IsControlRecord(record), bytes |-> record]
  BY <1>0, NumberedNext
<1> HIDE DEF count, rs, new
<1>3. KeyOf(record) = count + (IF IsControlRecord(record) THEN 1 ELSE 0)
  BY <1>1 DEF KeyOf
<1>4. out' = Append(out, new)
  BY <1>1, <1>2, <1>3 DEF Emit
<1>5. new \in IdocRecord /\ new.bytes = record
  <2>1. KeyOf(record) \in Nat /\ IsControlRecord(record) \in BOOLEAN
    BY <1>1 DEF KeyOf, IsControlRecord, MagicAt
  <2> QED
    BY <1>0, <1>2, <1>3, <2>1 DEF IdocRecord
<1>6. Bytes(Append(out, new)) = Append(rs, record)
  BY <1>0, <1>5, BytesAppend DEF rs
<1>7. Numbered(Append(rs, record)) = Append(Numbered(rs), new)
  BY <1>0, NumberedNext DEF new
<1>8. Numbered(rs) = out
  BY DEF rs
<1>9. Bytes(out') = Append(rs, record)
  BY <1>4, <1>6
<1>10. out' = Numbered(Bytes(out'))
  BY <1>4, <1>7, <1>8, <1>9
<1> QED
  BY <1>4, <1>5, <1>9, <1>10 DEF new, rs

\* The same file is ahead after a step.
LEMMA AheadSame ==
  ASSUME input' = input, framing' = framing, Consumed' = Consumed
  PROVE  /\ Ahead(framing, 1)' = Ahead(framing, 1)
         /\ Ahead(framing, Consumed + 1)' = Ahead(framing, Consumed + 1)
BY Zenon DEF Ahead, RestAt

\* A step that reads, or decides where to go, hands out nothing.
LEMMA StutterStep ==
  ASSUME TypeOK, FeedInv, pc \notin Stopped, pc' \notin Stopped,
         UNCHANGED <<input, framing, framing_known, out>>, Consumed' = Consumed,
         pc' = "block" => need' = BlockLen(input.image, Consumed + 1) /\ Len(buf') >= Len(Magic)
  PROVE  FeedInv' /\ UNCHANGED (Feed!vars)
<1>1. Given'
  BY DEF FeedInv, Given
<1>2. (out = Numbered(Bytes(out)))'
  BY DEF FeedInv
<1>3. ASSUME framing_known
      PROVE  (framing = EffectiveFraming(input) /\ OnTheWay)'
  <2>1. framing = EffectiveFraming(input) /\ OnTheWay
    BY <1>3 DEF FeedInv
  <2>2. OnTheWay'
    BY <2>1, AheadSame DEF OnTheWay
  <2> QED
    BY <2>1, <2>2
<1>4. FeedInv'
  BY <1>1, <1>2, <1>3 DEF FeedInv
<1>5. UNCHANGED (Feed!vars)
  BY DEF Feed!vars
<1> QED
  BY <1>4, <1>5

\* A step that hands out the next record delivers it.
LEMMA DeliverStep ==
  ASSUME TypeOK, Counters, FeedInv, framing_known, pc \notin Stopped,
         NEW record \in Seq(Byte), NEW rest, Emit(record, rest),
         NEW c \in 0..Len(input.image), Consumed' = c,
         Ahead(framing, Consumed + 1) = Prepend(record, Ahead(framing, c + 1))
  PROVE  FeedInv' /\ Feed!Deliver
<1> DEFINE rs == Bytes(out)
           nx == Ahead(framing, c + 1)
           grown == Append(rs, record)
           all == grown \o nx.records
           new == NumberedAt(grown, Len(out) + 1)
<1>0. /\ out \in Seq(IdocRecord) /\ rs \in Seq(Seq(Byte)) /\ Len(rs) = Len(out) /\ Len(out) \in Nat
      /\ UNCHANGED <<input, framing, framing_known>> /\ pc' = "idle"
      /\ out = Numbered(rs) /\ OnTheWay
  BY BytesType, LenProperties DEF TypeOK, Emit, FeedInv
<1>1. nx \in Walks
  BY AheadType
<1>2. out' = Append(out, new) /\ Bytes(out') = grown /\ (out = Numbered(Bytes(out)))'
  BY <1>0, EmitNumbers
<1>3. /\ input.whole = [ok      |-> Ahead(framing, Consumed + 1).ok,
                        records |-> Numbered(rs \o Ahead(framing, Consumed + 1).records)]
  BY WholeOnTheWay
<1> HIDE DEF rs, nx, new
<1>4. /\ Ahead(framing, Consumed + 1).ok = nx.ok
      /\ Ahead(framing, Consumed + 1).records = <<record>> \o nx.records
      /\ nx.records \in Seq(Seq(Byte))
  <2>1. Ahead(framing, Consumed + 1) = Prepend(record, nx)
    BY DEF nx
  <2>2. Prepend(record, nx).ok = nx.ok /\ Prepend(record, nx).records = <<record>> \o nx.records
    BY <1>1, WalkType
  <2> QED
    BY <1>1, <2>1, <2>2 DEF Walks
<1>5. rs \o (<<record>> \o nx.records) = all /\ grown \in Seq(Seq(Byte))
  <2>1. <<record>> \in Seq(Seq(Byte))
    OBVIOUS
  <2>2. rs \o (<<record>> \o nx.records) = (rs \o <<record>>) \o nx.records
    <3> DEFINE S == Seq(Byte)
    <3>1. rs \in Seq(S) /\ <<record>> \in Seq(S) /\ nx.records \in Seq(S)
      BY <1>0, <1>4, <2>1
    <3> HIDE DEF S
    <3>2. \A s, t, u \in Seq(S) : (s \o t) \o u = s \o (t \o u)
      BY SMTT(30), ConcatAssociative
    <3> QED
      BY <3>1, <3>2, Zenon
  <2>3. grown = rs \o <<record>> /\ grown \in Seq(Seq(Byte))
    BY <1>0, AppendIsConcat, AppendProperties
  <2> QED
    BY <2>2, <2>3
<1>6. input.whole.records = Numbered(all) /\ all \in Seq(Seq(Byte))
  <2>1. all \in Seq(Seq(Byte))
    BY <1>4, <1>5, ConcatProperties
  <2>2. input.whole.records = Numbered(rs \o Ahead(framing, Consumed + 1).records)
    BY <1>3
  <2>3. input.whole.records = Numbered(rs \o (<<record>> \o nx.records))
    BY <1>4, <2>2, Zenon
  <2> HIDE DEF all
  <2> QED
    BY <1>5, <2>1, <2>3
<1>7. /\ Len(out) + 1 \in 1..Len(all)
      /\ \A j \in 1..(Len(out) + 1) : all[j] = grown[j]
  <2>1. Len(grown) = Len(out) + 1
    BY <1>0, AppendProperties
  <2> HIDE DEF grown
  <2>2. /\ Len(all) = Len(grown) + Len(nx.records) /\ Len(nx.records) \in Nat
        /\ \A i \in 1..(Len(grown) + Len(nx.records)) :
             all[i] = IF i <= Len(grown) THEN grown[i] ELSE nx.records[i - Len(grown)]
    BY <1>4, <1>5, ConcatProperties, LenProperties
  <2> HIDE DEF all
  <2>a. PICK m \in Nat, k \in Nat : m = Len(out) /\ k = Len(nx.records)
    BY <1>0, <2>2
  <2>b. Len(grown) = m + 1 /\ Len(all) = m + 1 + k
    BY <2>1, <2>2, <2>a
  <2>c. m + 1 \in 1..(m + 1 + k) /\ \A j \in 1..(m + 1) : j \in 1..(m + 1 + k) /\ j <= m + 1
    OBVIOUS
  <2>3. Len(out) + 1 \in 1..Len(all)
    BY <2>a, <2>b, <2>c
  <2>4. \A j \in 1..(Len(out) + 1) : j \in 1..(Len(grown) + Len(nx.records)) /\ j <= Len(grown)
    BY <2>a, <2>b, <2>c
  <2> QED
    BY <2>2, <2>3, <2>4
<1> HIDE DEF all, grown
<1>8. /\ Len(out) < Len(input.whole.records)
      /\ input.whole.records[Len(out) + 1] = new
  <2>1. /\ Len(Numbered(all)) = Len(all)
        /\ \A i \in 1..Len(all) : Numbered(all)[i] = NumberedAt(all, i)
    BY <1>6, NumberedFacts
  <2>2. Len(out) + 1 \in Nat \ {0} /\ Len(all) \in Nat
    BY <1>0, <1>6, LenProperties
  <2>3. NumberedAt(all, Len(out) + 1) = new
    BY <1>7, <2>2, NumberedPrefix DEF new
  <2>4. Numbered(all)[Len(out) + 1] = new
    BY <1>7, <2>1, <2>3
  <2>5. Len(out) < Len(all)
    BY <1>0, <1>7, <2>2
  <2> QED
    BY <1>6, <2>1, <2>4, <2>5
<1>9. Feed!Deliver
  BY <1>0, <1>2, <1>8 DEF Feed!Deliver, Stopped
<1>10. /\ Ahead(framing, 1)' = Ahead(framing, 1)
       /\ Ahead(framing, Consumed + 1)' = nx
  BY <1>0, Zenon DEF Ahead, RestAt, nx
<1>11. OnTheWay'
  <2>1. Ahead(framing, 1).ok = nx.ok /\ Ahead(framing, 1).records = all
    BY <1>0, <1>4, <1>5 DEF OnTheWay, rs
  <2>2. Bytes(out)' = grown
    BY <1>2
  <2> QED
    BY <1>10, <2>1, <2>2 DEF OnTheWay, all
<1>12. Given'
  BY <1>0 DEF FeedInv, Given
<1>13. (framing = EffectiveFraming(input) /\ OnTheWay)'
  BY <1>0, <1>11 DEF FeedInv
<1>14. FeedInv'
  BY <1>0, <1>2, <1>12, <1>13 DEF FeedInv, Stopped
<1> QED
  BY <1>9, <1>14

\* A return ends the feed as the file ends.
LEMMA FinishStep ==
  ASSUME TypeOK, FeedInv, framing_known, pc \notin Stopped,
         NEW how \in Stopped, NEW rest, Return(how, rest),
         Ahead(framing, Consumed + 1) = Stop(how = "end")
  PROVE  FeedInv' /\ Feed!Finish
<1>0. /\ UNCHANGED <<input, out>> /\ pc' = how
      /\ out \in Seq(IdocRecord) /\ Bytes(out) \in Seq(Seq(Byte)) /\ out = Numbered(Bytes(out))
  BY BytesType DEF Return, TypeOK, FeedInv
<1>1. input.whole = [ok      |-> Ahead(framing, Consumed + 1).ok,
                     records |-> Numbered(Bytes(out) \o Ahead(framing, Consumed + 1).records)]
  BY WholeOnTheWay
<1>2. Ahead(framing, Consumed + 1).ok = (how = "end") /\ Ahead(framing, Consumed + 1).records = <<>>
  BY DEF Stop
<1>3. Bytes(out) \o <<>> = Bytes(out)
  BY <1>0, ConcatEmptySeq
<1>a. PICK w : w = Ahead(framing, Consumed + 1)
  OBVIOUS
<1>b. input.whole.ok = w.ok /\ input.whole.records = Numbered(Bytes(out) \o w.records)
  BY <1>1, <1>a
<1>c. w.ok = (how = "end") /\ w.records = <<>>
  BY <1>2, <1>a
<1>4. input.whole.ok = (how = "end") /\ input.whole.records = out
  BY <1>0, <1>3, <1>b, <1>c
<1>5. Feed!Finish
  BY <1>0, <1>4 DEF Feed!Finish, Stopped
<1>6. Given'
  BY <1>0 DEF FeedInv, Given
<1>7. FeedInv'
  BY <1>0, <1>6 DEF FeedInv, Stopped
<1> QED
  BY <1>5, <1>7

-----------------------------------------------------------------------------
(* The actions.                                                            *)

\* What is known before every step of Next.
Before ==
  /\ TypeOK
  /\ Places
  /\ Counters
  /\ Window
  /\ Ends
  /\ FeedInv

\* A step of the streamer keeps the invariant, and is a step of the feed or none.
Follows == FeedInv' /\ [Feed!Next]_(Feed!vars)

\* The kinds of steps follow the feed.
LEMMA KindsFollow ==
  ASSUME Feed!Deliver \/ Feed!Finish \/ UNCHANGED (Feed!vars), FeedInv'
  PROVE  Follows
BY DEF Follows, Feed!Next

\* What is compared is a strict read, unless the framing is FIXED.
LEMMA StrictRead ==
  ASSUME Before, framing_known, pc \notin Stopped, framing # FIXED
  PROVE  ~input.lenient
BY DEF Before, FeedInv, Given, Comparable

\* Next is called: nothing is handed out.
LEMMA CallFollows ==
  ASSUME Before, Call
  PROVE  Follows
<1>1. /\ pc \notin Stopped /\ pc' \notin Stopped /\ pc' # "block"
      /\ UNCHANGED <<input, framing, framing_known, out, src_pos, buf>>
  BY DEF Call, EnterFraming, Stopped
<1>2. Consumed' = Consumed
  BY <1>1 DEF Consumed
<1>3. FeedInv' /\ UNCHANGED (Feed!vars)
  BY <1>1, <1>2, StutterStep DEF Before
<1> QED
  BY <1>3, KindsFollow

\* Read: what comes in is not consumed yet.
LEMMA ReadFollows ==
  ASSUME Before, Read
  PROVE  Follows
<1>0. /\ Len(buf) \in Nat /\ src_pos \in Nat /\ Len(Magic) \in Nat
      /\ TypeOK /\ FeedInv
  BY LenProperties, LengthFacts DEF Before, TypeOK
<1>1. /\ pc \notin Stopped /\ pc' = pc
      /\ UNCHANGED <<input, framing, framing_known, need, out>>
  BY DEF Read, Filling, Stopped
<1>2. Consumed' = Consumed /\ Len(buf') \in Nat /\ Len(buf) <= Len(buf')
  <2>1. CASE UNCHANGED <<src_pos, buf>>
    BY <1>0, <2>1 DEF Consumed
  <2>2. CASE \E n \in 1..ReadSize : src_pos' = src_pos + n /\ Len(buf') = Len(buf) + n
    <3>1. PICK n \in 1..ReadSize : src_pos' = src_pos + n /\ Len(buf') = Len(buf) + n
      BY <2>2
    <3>2. n \in Nat
      BY LengthFacts
    <3> QED
      BY <1>0, <3>1, <3>2 DEF Consumed
  <2> QED
    BY <1>0, <2>1, <2>2, ReadCases
<1>3. pc' = "block" => need' = BlockLen(input.image, Consumed + 1) /\ Len(buf') >= Len(Magic)
  BY <1>0, <1>1, <1>2 DEF FeedInv
<1>4. FeedInv' /\ UNCHANGED (Feed!vars)
  BY <1>0, <1>1, <1>2, <1>3, StutterStep
<1> QED
  BY <1>4, KindsFollow

\* The end of a FIXED file, a record cut short, or the length of the next record.
LEMMA MagicFollows ==
  ASSUME Before, FixedMagic
  PROVE  Follows
<1>0. /\ TypeOK /\ Places /\ Window /\ Ends /\ FeedInv
      /\ pc = "magic" /\ pc \in Filling /\ pc \notin Stopped /\ FillDone
      /\ framing_known /\ framing = FIXED /\ need = Len(Magic)
  BY DEF Before, FixedMagic, Places, Filling, Stopped
<1>1. /\ Consumed \in Nat /\ Consumed + Len(buf) = src_pos /\ src_pos <= Len(input.image)
      /\ Len(buf) \in Nat /\ Len(input.image) \in Nat /\ src_pos \in Nat
      /\ Len(Magic) \in Nat /\ 0 < Len(Magic)
      /\ (buf = <<>> <=> Len(buf) = 0) /\ input.lenient \in BOOLEAN
  BY <1>0, ConsumedFacts, LengthFacts, EmptySeq DEF TypeOK
<1>2. CASE buf = <<>> /\ Return("end", <<>>)
  <2>1. eof
    BY <1>0, <1>1, <1>2, FillFailed
  <2>2. Consumed + 1 = Len(input.image) + 1
    BY <1>0, <1>1, <1>2, <2>1 DEF Ends
  <2>3. Ahead(framing, Consumed + 1) = Stop("end" = "end")
    BY <1>0, <2>2, AheadEmpty
  <2>4. "end" \in Stopped
    BY DEF Stopped
  <2>5. FeedInv' /\ Feed!Finish
    BY <1>0, <1>2, <2>3, <2>4, FinishStep
  <2> QED
    BY <2>5, KindsFollow
<1>3. CASE buf # <<>> /\ Len(buf) < Len(Magic) /\ Malformed
  <2>1. eof
    BY <1>0, <1>1, <1>3, FillFailed
  <2>2. BlockLen(input.image, Consumed + 1) \in Nat /\ BlockLen(input.image, Consumed + 1) >= Len(Magic)
    BY BlockLenFacts
  <2>3. Consumed < Len(input.image) /\ Consumed + BlockLen(input.image, Consumed + 1) > Len(input.image)
    BY <1>0, <1>1, <1>3, <2>1, <2>2 DEF Ends
  <2>4. Ahead(framing, Consumed + 1) = Stop(input.lenient)
    BY <1>0, <2>3, AheadCut
  <2>5. PICK how, rest : how \in Stopped /\ Return(how, rest) /\ input.lenient = (how = "end")
    BY <1>1, <1>3 DEF Malformed, Stopped
  <2>6. FeedInv' /\ Feed!Finish
    BY <1>0, <2>4, <2>5, FinishStep
  <2> QED
    BY <2>6, KindsFollow
<1>4. CASE ~(buf = <<>>) /\ ~(buf # <<>> /\ Len(buf) < Len(Magic))
  <2>1. /\ pc' = "block" /\ need' = BlockLen(buf, 1)
        /\ UNCHANGED <<input, src_pos, buf, framing, framing_known, out>>
    BY <1>4 DEF FixedMagic
  <2>2. Len(buf) >= Len(Magic) /\ pc' \notin Stopped /\ Consumed' = Consumed
    BY <1>1, <1>4, <2>1 DEF Stopped, Consumed
  <2>3. need' = BlockLen(input.image, Consumed + 1)
    BY <1>0, <2>1, <2>2, SameBlock
  <2>4. FeedInv' /\ UNCHANGED (Feed!vars)
    BY <1>0, <2>1, <2>2, <2>3, StutterStep
  <2> QED
    BY <2>4, KindsFollow
<1> QED
  BY <1>2, <1>3, <1>4 DEF FixedMagic

\* A record of a FIXED file, or one cut short.
LEMMA BlockFollows ==
  ASSUME Before, FixedBlock
  PROVE  Follows
<1>0. /\ TypeOK /\ Places /\ Window /\ Ends /\ FeedInv /\ Counters
      /\ pc = "block" /\ pc \in Filling /\ pc \notin Stopped /\ FillDone
      /\ framing_known /\ framing = FIXED
      /\ need = BlockLen(input.image, Consumed + 1) /\ Len(buf) >= Len(Magic)
  BY DEF Before, FixedBlock, Places, Filling, Stopped, FeedInv
<1>1. /\ Consumed \in Nat /\ Consumed + Len(buf) = src_pos /\ src_pos <= Len(input.image)
      /\ Len(buf) \in Nat /\ Len(input.image) \in Nat /\ src_pos \in Nat /\ buf \in Seq(Byte)
      /\ Len(Magic) \in Nat /\ 0 < Len(Magic)
      /\ input.lenient \in BOOLEAN /\ need \in Nat /\ need > 0
  BY <1>0, ConsumedFacts, LengthFacts, BlockLenFacts DEF TypeOK
<1>2. CASE Len(buf) < need /\ Malformed
  <2>1. eof
    BY <1>0, <1>2, FillFailed
  <2>2. Consumed < Len(input.image) /\ Consumed + need > Len(input.image)
    BY <1>0, <1>1, <1>2, <2>1 DEF Ends
  <2>4. Ahead(framing, Consumed + 1) = Stop(input.lenient)
    BY <1>0, <2>2, AheadCut
  <2>5. PICK how, rest : how \in Stopped /\ Return(how, rest) /\ input.lenient = (how = "end")
    BY <1>1, <1>2 DEF Malformed, Stopped
  <2>6. FeedInv' /\ Feed!Finish
    BY <1>0, <2>4, <2>5, FinishStep
  <2> QED
    BY <2>6, KindsFollow
<1>3. CASE ~(Len(buf) < need) /\ Emit(SubSeq(buf, 1, need), SubSeq(buf, need + 1, Len(buf)))
  <2>1. need \in 1..Len(buf) /\ need <= Len(buf)
    BY <1>1, <1>3
  <2>2. SubSeq(buf, 1, need) \in Seq(Byte) /\ Len(SubSeq(buf, need + 1, Len(buf))) = Len(buf) - need
    BY <1>0, <1>1, <2>1, BufferParts
  <2>3. PICK c \in 0..Len(input.image) : c = Consumed + need
    BY <1>1, <2>1
  <2>4. buf' = SubSeq(buf, need + 1, Len(buf)) /\ src_pos' = src_pos
    BY <1>3 DEF Emit
  <2>5. Consumed' = c
    <3>1. Len(buf') = Len(buf) - need
      BY <2>2, <2>4
    <3>2. src_pos - (Len(buf) - need) = c
      BY <1>1, <2>3 DEF Consumed
    <3> QED
      BY <2>4, <3>1, <3>2 DEF Consumed
  <2>6. Ahead(FIXED, Consumed + 1) = Prepend(SubSeq(buf, 1, need), Ahead(FIXED, Consumed + need + 1))
    BY <1>0, <2>1, AheadBlock
  <2>7. Ahead(framing, Consumed + 1) = Prepend(SubSeq(buf, 1, need), Ahead(framing, c + 1))
    BY <1>0, <2>3, <2>6
  <2>8. FeedInv' /\ Feed!Deliver
    BY <1>0, <1>3, <2>2, <2>5, <2>7, DeliverStep
  <2> QED
    BY <2>8, KindsFollow
<1> QED
  BY <1>2, <1>3 DEF FixedBlock

\* A line longer than a record has not the length of one.
LEMMA LongLine ==
  ASSUME NEW line \in Seq(Byte), NEW fr, Len(line) > DATA_RECORD_LEN + 1
  PROVE  ~GeometryOk(StripCr(line, fr))
<1>0. /\ Len(line) \in Nat /\ DATA_RECORD_LEN \in Nat /\ CONTROL_RECORD_LEN \in Nat
      /\ CONTROL_RECORD_LEN + 2 <= DATA_RECORD_LEN
  BY LenProperties, LengthFacts
<1>1. Len(StripCr(line, fr)) \in Nat /\ Len(StripCr(line, fr)) > DATA_RECORD_LEN
  <2>1. CASE StripCr(line, fr) = line
    BY <1>0, <2>1
  <2>2. CASE StripCr(line, fr) # line
    <3>1. StripCr(line, fr) = SubSeq(line, 1, Len(line) - 1)
      BY <2>2 DEF StripCr
    <3>2. PICK m \in Nat : m = Len(line) - 1
      BY <1>0
    <3>3. m <= Len(line) /\ 1 <= m /\ m - 1 + 1 = m /\ m > DATA_RECORD_LEN
      BY <1>0, <3>2
    <3>4. Len(SubSeq(line, 1, m)) = IF 1 <= m THEN m - 1 + 1 ELSE 0
      BY <3>3, PartFacts
    <3> QED
      BY <3>1, <3>2, <3>3, <3>4
  <2> QED
    BY <2>1, <2>2
<1>2. BlockLen(StripCr(line, fr), 1) \in {CONTROL_RECORD_LEN, DATA_RECORD_LEN}
  BY BlockLenFacts
<1> QED
  BY <1>0, <1>1, <1>2 DEF GeometryOk

\* A part of the file has the length of its ends.
LEMMA PartLength ==
  ASSUME NEW data \in Seq(Byte), NEW c \in Nat, NEW n \in Nat, n <= Len(data), c < n
  PROVE  SubSeq(data, c + 1, n) \in Seq(Byte) /\ Len(SubSeq(data, c + 1, n)) = n - c
<1>1. PICK p \in Nat : p = c + 1
  OBVIOUS
<1>2. p > 0 /\ p <= n /\ n - p + 1 = n - c
  BY <1>1
<1>3. SubSeq(data, p, n) \in Seq(Byte) /\ Len(SubSeq(data, p, n)) = IF p <= n THEN n - p + 1 ELSE 0
  BY <1>2, PartFacts
<1> QED
  BY <1>1, <1>2, <1>3

\* A buffer longer than any record without a line feed: the read fails.
LEMMA AheadTooLong ==
  ASSUME TypeOK, Window, NEW fr, fr # FIXED, FirstLf(buf, 1) = 0, TooLong
  PROVE  Ahead(fr, Consumed + 1) = Stop(FALSE)
<1> DEFINE data == input.image
           f == FirstLf(data, Consumed + 1)
<1>0. /\ Consumed \in Nat /\ Consumed + Len(buf) = src_pos /\ src_pos <= Len(data)
      /\ Len(buf) \in Nat /\ Len(data) \in Nat /\ src_pos \in Nat /\ data \in Seq(Byte)
      /\ DATA_RECORD_LEN \in Nat /\ Len(buf) > DATA_RECORD_LEN + 2
  BY ConsumedFacts, LengthFacts DEF TypeOK, TooLong
<1>1. f \in Nat /\ (f = 0 \/ f > src_pos) /\ (f # 0 => f \in (Consumed + 1)..Len(data))
  BY SameLine
<1>2. PICK p \in Nat : p = Consumed + 1
  BY <1>0
<1>3. p \in 1..Len(data) /\ FirstLf(data, p) = f
  BY <1>0, <1>2
<1>4. LineEnd(p) = IF f = 0 THEN Len(data) + 1 ELSE f
  BY <1>3 DEF LineEnd
<1> HIDE DEF f
<1>5. PICK m \in Nat : m = LineEnd(p) - 1
  BY <1>0, <1>1, <1>4
<1>6. Consumed < m /\ m <= Len(data) /\ m - Consumed > DATA_RECORD_LEN + 1
  BY <1>0, <1>1, <1>4, <1>5
<1>7. SubSeq(data, p, m) \in Seq(Byte) /\ Len(SubSeq(data, p, m)) = m - Consumed
  BY <1>0, <1>2, <1>6, PartLength
<1>8. ~GeometryOk(LineAt(fr, p))
  BY <1>5, <1>6, <1>7, LongLine DEF LineAt
<1>9. RestAt(fr, p) = Stop(FALSE)
  BY <1>3, <1>8, RestLine
<1> QED
  BY <1>2, <1>9 DEF Ahead

\* A line, a buffer longer than any line, or the wish for more bytes.
LEMMA SearchFollows ==
  ASSUME Before, SearchLine
  PROVE  Follows
<1> DEFINE nl == FirstLf(buf, 1)
           line == StripCr(SubSeq(buf, 1, nl - 1), framing)
           rest == SubSeq(buf, nl + 1, Len(buf))
<1>0. /\ TypeOK /\ Places /\ Window /\ Ends /\ FeedInv /\ Counters
      /\ pc = "line" /\ pc \notin Stopped /\ framing_known /\ framing # FIXED /\ ~input.lenient
  <2>1. pc = "line" /\ pc \notin Stopped /\ framing_known /\ framing # FIXED
    BY DEF Before, SearchLine, Places, Stopped
  <2> QED
    BY <2>1, StrictRead DEF Before
<1>1. /\ Consumed \in Nat /\ Consumed + Len(buf) = src_pos /\ src_pos <= Len(input.image)
      /\ Len(buf) \in Nat /\ Len(input.image) \in Nat /\ src_pos \in Nat /\ buf \in Seq(Byte)
      /\ input.lenient \in BOOLEAN /\ nl \in Nat /\ (nl # 0 => nl \in 1..Len(buf))
      /\ DATA_RECORD_LEN \in Nat
  <2>1. /\ Consumed \in Nat /\ Consumed + Len(buf) = src_pos /\ src_pos <= Len(input.image)
        /\ Len(buf) \in Nat /\ Len(input.image) \in Nat /\ src_pos \in Nat /\ buf \in Seq(Byte)
    BY <1>0, ConsumedFacts
  <2>2. nl \in Nat /\ (nl # 0 => nl \in 1..Len(buf))
    BY <2>1, FirstLfFacts
  <2> QED
    BY <1>0, <2>1, <2>2, LengthFacts DEF TypeOK
<1>2. SearchLine => CASE nl # 0 -> EmitLine(SubSeq(buf, 1, nl - 1), rest)
           [] nl = 0 /\ TooLong -> Malformed
           [] OTHER -> /\ pc' = "more"
                       /\ UNCHANGED <<input, src_pos, buf, framing, framing_known, out>>
  BY DEF SearchLine
<1>3. CASE nl # 0
  <2>1. EmitLine(SubSeq(buf, 1, nl - 1), rest)
    BY <1>2, <1>3
  <2>2. /\ line \in Seq(Byte)
        /\ Consumed + nl \in 1..Len(input.image)
        /\ Ahead(framing, Consumed + 1) = IF GeometryOk(line)
                                          THEN Prepend(line, Ahead(framing, Consumed + nl + 1))
                                          ELSE Stop(FALSE)
    BY <1>0, <1>3, AheadLine
  <2>3. CASE ~GeometryOk(line)
    <3>1. Return("error", rest)
      BY <1>0, <2>1, <2>3 DEF EmitLine
    <3>2. "error" \in Stopped /\ ("error" = "end") = FALSE
      BY DEF Stopped
    <3>3. Ahead(framing, Consumed + 1) = Stop("error" = "end")
      BY <2>2, <2>3, <3>2
    <3>4. FeedInv' /\ Feed!Finish
      <4> HIDE DEF rest
      <4> QED
        BY <1>0, <3>1, <3>2, <3>3, FinishStep
    <3> QED
      BY <3>4, KindsFollow
  <2>4. CASE GeometryOk(line)
    <3>1. Emit(line, rest)
      BY <2>1, <2>4 DEF EmitLine
    <3>2. PICK c \in 0..Len(input.image) : c = Consumed + nl
      BY <1>1, <2>2
    <3>3. buf' = rest /\ src_pos' = src_pos
      BY <3>1 DEF Emit
    <3>4. Consumed' = c
      <4>1. Len(rest) = Len(buf) - nl
        <5>1. nl <= Len(buf)
          BY <1>1, <1>3
        <5> QED
          BY <1>0, <1>1, <5>1, BufferParts
      <4>2. src_pos - (Len(buf) - nl) = c
        BY <1>1, <3>2 DEF Consumed
      <4> HIDE DEF rest, nl
      <4> QED
        BY <3>3, <4>1, <4>2 DEF Consumed
    <3>5. Ahead(framing, Consumed + 1) = Prepend(line, Ahead(framing, c + 1))
      BY <2>2, <2>4, <3>2
    <3>6. FeedInv' /\ Feed!Deliver
      <4> HIDE DEF rest, line
      <4> QED
        BY <1>0, <2>2, <3>1, <3>4, <3>5, DeliverStep
    <3> QED
      BY <3>6, KindsFollow
  <2> QED
    BY <2>3, <2>4
<1>4. CASE nl = 0 /\ TooLong
  <2>1. Malformed
    BY <1>2, <1>4
  <2>2. Ahead(framing, Consumed + 1) = Stop(FALSE)
    BY <1>0, <1>4, AheadTooLong
  <2>3. Return("error", buf)
    BY <1>0, <2>1 DEF Malformed
  <2>4. "error" \in Stopped /\ ("error" = "end") = FALSE
    BY DEF Stopped
  <2>5. FeedInv' /\ Feed!Finish
    BY <1>0, <2>2, <2>3, <2>4, FinishStep
  <2> QED
    BY <2>5, KindsFollow
<1>5. CASE ~(nl # 0) /\ ~(nl = 0 /\ TooLong)
  <2>1. pc' = "more" /\ UNCHANGED <<input, src_pos, buf, framing, framing_known, out>>
    BY <1>2, <1>5
  <2>2. pc' # "block" /\ pc' \notin Stopped /\ Consumed' = Consumed
    BY <2>1 DEF Stopped, Consumed
  <2>3. FeedInv' /\ UNCHANGED (Feed!vars)
    BY <1>0, <2>1, <2>2, StutterStep
  <2> QED
    BY <2>3, KindsFollow
<1> QED
  BY <1>3, <1>4, <1>5

\* More bytes, the end of the file, or its last line.
LEMMA MoreFollows ==
  ASSUME Before, More
  PROVE  Follows
<1> DEFINE line == StripCr(buf, framing)
<1>0. /\ TypeOK /\ Places /\ Window /\ Ends /\ FeedInv /\ Counters
      /\ pc = "more" /\ pc \in Filling /\ pc \notin Stopped /\ FillDone
      /\ framing_known /\ framing # FIXED /\ ~input.lenient
      /\ before <= DATA_RECORD_LEN + 2 /\ need = before + LookAhead
      /\ before <= Len(buf) /\ \A i \in 1..before : buf[i] # LF
  <2>1. pc = "more" /\ pc \notin Stopped /\ framing_known /\ framing # FIXED
    BY DEF Before, More, Places, Filling, Stopped
  <2>2. ~input.lenient
    BY <2>1, StrictRead
  <2> QED
    BY <2>1, <2>2 DEF Before, More, Places, Filling, Stopped, FeedInv, Ends
<1>1. /\ Consumed \in Nat /\ Consumed + Len(buf) = src_pos /\ src_pos <= Len(input.image)
      /\ Len(buf) \in Nat /\ Len(input.image) \in Nat /\ src_pos \in Nat /\ buf \in Seq(Byte)
      /\ input.lenient \in BOOLEAN /\ DATA_RECORD_LEN \in Nat /\ before \in Nat
      /\ LookAhead \in Nat /\ LookAhead > 0 /\ (buf = <<>> <=> Len(buf) = 0)
  BY <1>0, ConsumedFacts, LengthFacts, EmptySeq DEF TypeOK
<1>2. CASE Grown
  <2>1. pc' = "line" /\ UNCHANGED <<input, src_pos, buf, framing, framing_known, out>>
    BY <1>2 DEF More
  <2>2. pc' # "block" /\ pc' \notin Stopped /\ Consumed' = Consumed
    BY <2>1 DEF Stopped, Consumed
  <2>3. FeedInv' /\ UNCHANGED (Feed!vars)
    BY <1>0, <2>1, <2>2, StutterStep
  <2> QED
    BY <2>3, KindsFollow
<1>3. ASSUME ~Grown
      PROVE  eof /\ Consumed + Len(buf) = Len(input.image) /\ before = Len(buf)
  <2>1. before = Len(buf)
    BY <1>0, <1>1, <1>3 DEF Grown
  <2>2. eof
    BY <1>0, <1>1, <2>1, FillFailed
  <2> QED
    BY <1>0, <1>1, <2>1, <2>2 DEF Ends
<1>4. CASE ~Grown /\ buf = <<>>
  <2>1. Return("end", <<>>)
    BY <1>4 DEF More
  <2>2. Consumed + 1 = Len(input.image) + 1
    BY <1>1, <1>3, <1>4
  <2>3. Ahead(framing, Consumed + 1) = Stop("end" = "end")
    BY <1>0, <2>2, AheadEmpty
  <2>4. "end" \in Stopped
    BY DEF Stopped
  <2>5. FeedInv' /\ Feed!Finish
    BY <1>0, <2>1, <2>3, <2>4, FinishStep
  <2> QED
    BY <2>5, KindsFollow
<1>5. CASE ~Grown /\ buf # <<>>
  <2>1. EmitLine(buf, <<>>)
    BY <1>5 DEF More
  <2>2. eof /\ Consumed < Len(input.image) /\ src_pos = Len(input.image)
    BY <1>0, <1>1, <1>3, <1>5
  <2>3. FirstLf(input.image, Consumed + 1) = 0
    <3>1. /\ FirstLf(buf, 1) # 0 => FirstLf(buf, 1) \in 1..Len(buf) /\ buf[FirstLf(buf, 1)] = LF
      BY <1>1, FirstLfFacts
    <3>2. FirstLf(buf, 1) = 0
      BY <1>0, <1>3, <1>5, <3>1
    <3>3. /\ FirstLf(input.image, Consumed + 1) = 0 \/ FirstLf(input.image, Consumed + 1) > src_pos
          /\ FirstLf(input.image, Consumed + 1) \in Nat
          /\ FirstLf(input.image, Consumed + 1) # 0 =>
               FirstLf(input.image, Consumed + 1) \in (Consumed + 1)..Len(input.image)
      BY <1>0, <3>2, SameLine
    <3> QED
      BY <1>1, <2>2, <3>3
  <2>4. SubSeq(input.image, Consumed + 1, Len(input.image)) = buf
    BY <1>0, <2>2, <2>3, AheadLast
  <2>5. /\ line \in Seq(Byte)
        /\ Ahead(framing, Consumed + 1) = IF GeometryOk(line) THEN Prepend(line, Stop(TRUE))
                                          ELSE Stop(FALSE)
    <3>1. LET last == SubSeq(input.image, Consumed + 1, Len(input.image))
              l == StripCr(last, framing)
          IN  /\ l \in Seq(Byte)
              /\ Ahead(framing, Consumed + 1) = IF GeometryOk(l) THEN Prepend(l, Stop(TRUE))
                                                ELSE Stop(FALSE)
      BY <1>0, <2>2, <2>3, AheadLast
    <3> QED
      BY <2>4, <3>1
  <2> HIDE DEF line
  <2>6. CASE ~GeometryOk(line)
    <3>1. Return("error", <<>>)
      BY <1>0, <2>1, <2>6 DEF EmitLine, line
    <3>2. "error" \in Stopped /\ ("error" = "end") = FALSE
      BY DEF Stopped
    <3>3. Ahead(framing, Consumed + 1) = Stop("error" = "end")
      BY <2>5, <2>6, <3>2
    <3>4. FeedInv' /\ Feed!Finish
      BY <1>0, <3>1, <3>2, <3>3, FinishStep
    <3> QED
      BY <3>4, KindsFollow
  <2>7. CASE GeometryOk(line)
    <3>1. Emit(line, <<>>)
      BY <2>1, <2>7 DEF EmitLine, line
    <3>2. PICK c \in 0..Len(input.image) : c = Len(input.image)
      BY <1>1
    <3>3. buf' = <<>> /\ src_pos' = src_pos
      BY <3>1 DEF Emit
    <3>4. Consumed' = c
      <4>1. Len(buf') = 0
        BY <3>3, EmptySeq
      <4>2. src_pos - 0 = c
        BY <1>1, <2>2, <3>2
      <4> QED
        BY <3>3, <4>1, <4>2 DEF Consumed
    <3>5. Ahead(framing, Consumed + 1) = Prepend(line, Stop(TRUE))
      BY <2>5, <2>7
    <3>6. Ahead(framing, c + 1) = Stop(TRUE)
      BY <1>0, <3>2, AheadEmpty
    <3>7. FeedInv' /\ Feed!Deliver
      BY <1>0, <2>5, <3>1, <3>2, <3>4, <3>5, <3>6, DeliverStep
    <3> QED
      BY <3>7, KindsFollow
  <2> QED
    BY <2>6, <2>7
<1> QED
  BY <1>2, <1>4, <1>5

\* The framing is that of the file, however little of it the first reads gave.
LEMMA DetectedIsEffective ==
  ASSUME TypeOK, Window, Ends, Consumed = 0, input.framing = "auto",
         Len(buf) >= CONTROL_RECORD_LEN + 2 \/ eof
  PROVE  /\ DetectFramingPrefix(buf) = EffectiveFraming(input)
         /\ eof => buf = input.image
<1>0. /\ Consumed + Len(buf) = src_pos /\ src_pos <= Len(input.image)
      /\ Len(buf) \in Nat /\ Len(input.image) \in Nat /\ src_pos \in Nat
      /\ buf \in Seq(Byte) /\ input.image \in Seq(Byte)
      /\ \A i \in 1..Len(buf) : buf[i] = input.image[Consumed + i]
      /\ CONTROL_RECORD_LEN \in Nat
  BY ConsumedFacts, LengthFacts
<1>1. /\ Len(buf) = src_pos
      /\ \A i \in 1..Len(buf) : buf[i] = input.image[i]
  <2>1. \A i \in 1..Len(buf) : Consumed + i = i
    BY <1>0
  <2> QED
    BY <1>0, <2>1
<1>2. ASSUME eof
      PROVE  buf = input.image
  <2>1. Len(buf) = Len(input.image)
    BY <1>1, <1>2 DEF Ends
  <2> QED
    BY <1>0, <1>1, <2>1, SeqEqual
<1>3. EffectiveFraming(input) = DetectFramingPrefix(input.image)
  BY DEF EffectiveFraming
<1>4. CASE Len(buf) >= CONTROL_RECORD_LEN + 2
  <2>1. PICK m \in Nat, k \in Nat : m = CONTROL_RECORD_LEN + 1 /\ k = CONTROL_RECORD_LEN + 2
    BY <1>0
  <2>2. /\ m \in 1..Len(buf) /\ k \in 1..Len(buf)
        /\ m <= Len(buf) /\ k <= Len(buf) /\ m <= Len(input.image) /\ k <= Len(input.image)
        /\ ~(Len(buf) < CONTROL_RECORD_LEN) /\ ~(Len(input.image) < CONTROL_RECORD_LEN)
    BY <1>0, <1>1, <1>4, <2>1
  <2>3. buf[m] = input.image[m] /\ buf[k] = input.image[k]
    BY <1>1, <2>2
  <2>4. TerminatorAfterControl(buf) = TerminatorAfterControl(input.image)
    BY <2>1, <2>2, <2>3 DEF TerminatorAfterControl
  <2>5. DetectFramingPrefix(buf) = DetectFramingPrefix(input.image)
    BY <2>2, <2>4 DEF DetectFramingPrefix
  <2> QED
    BY <1>2, <1>3, <2>5
<1> QED
  BY <1>2, <1>3, <1>4

\* Detection: an empty file, one too short, or its framing.
LEMMA DetectFollows ==
  ASSUME Before, Detect
  PROVE  Follows
<1>0. /\ TypeOK /\ Places /\ Window /\ Ends /\ FeedInv
      /\ pc = "detect" /\ pc \in Filling /\ pc \notin Stopped /\ FillDone
      /\ ~framing_known /\ need = CONTROL_RECORD_LEN + 2
      /\ input.framing = "auto" /\ Consumed = 0 /\ out = <<>>
      /\ Given /\ out = Numbered(Bytes(out))
  BY DEF Before, Detect, Places, Filling, Stopped, FeedInv
<1>1. /\ Len(buf) \in Nat /\ Len(input.image) \in Nat /\ buf \in Seq(Byte)
      /\ CONTROL_RECORD_LEN \in Nat /\ 0 < CONTROL_RECORD_LEN
      /\ (buf = <<>> <=> Len(buf) = 0)
  <2>1. Len(buf) \in Nat /\ Len(input.image) \in Nat /\ buf \in Seq(Byte)
    BY <1>0, ConsumedFacts
  <2>2. CONTROL_RECORD_LEN \in Nat /\ 0 < CONTROL_RECORD_LEN
    BY LengthFacts
  <2> QED
    BY <2>1, <2>2, EmptySeq
<1>2. /\ DetectFramingPrefix(buf) = EffectiveFraming(input)
      /\ eof => buf = input.image
  <2>1. Len(buf) >= CONTROL_RECORD_LEN + 2 \/ eof
    BY <1>0 DEF FillDone
  <2> QED
    BY <1>0, <2>1, DetectedIsEffective
<1>a. ASSUME NEW how \in Stopped, NEW rest, Return(how, rest), input.whole = Stop(how = "end")
      PROVE  Follows
  <2>1. UNCHANGED <<input, out>> /\ pc' = how
    BY <1>a DEF Return
  <2>2. input.whole.ok = (how = "end") /\ input.whole.records = <<>>
    BY <1>a DEF Stop
  <2>3. Feed!Finish
    BY <1>0, <2>1, <2>2 DEF Feed!Finish, Stopped
  <2>4. Given' /\ (out = Numbered(Bytes(out)))'
    BY <1>0, <2>1 DEF Given
  <2>5. FeedInv'
    BY <2>1, <2>4 DEF FeedInv, Stopped
  <2> QED
    BY <2>3, <2>5, KindsFollow
<1>3. CASE buf = <<>>
  <2>1. Return("end", <<>>)
    BY <1>0, <1>3 DEF Detect
  <2>2. eof
    BY <1>0, <1>1, <1>3, FillFailed
  <2>3. input.image = <<>>
    BY <1>2, <1>3, <2>2
  <2>4. WholeParse(input) = Stop(TRUE)
    BY <2>3, Zenon DEF WholeParse
  <2>5. "end" \in Stopped /\ ("end" = "end") = TRUE
    BY DEF Stopped
  <2>6. input.whole = Stop("end" = "end")
    BY <1>0, <2>4, <2>5 DEF Given
  <2> QED
    BY <1>a, <2>1, <2>5, <2>6
<1>4. CASE buf # <<>> /\ Len(buf) < CONTROL_RECORD_LEN
  <2>1. Return("error", buf)
    BY <1>0, <1>4 DEF Detect
  <2>2. eof
    <3>1. Len(buf) < need
      BY <1>0, <1>1, <1>4
    <3> QED
      BY <1>0, <3>1, FillFailed
  <2>3. input.image # <<>> /\ EffectiveFraming(input) = "undetectable"
    BY <1>2, <1>4, <2>2 DEF DetectFramingPrefix
  <2>4. WholeParse(input) = Stop(FALSE)
    <3>1. "undetectable" # FIXED /\ "undetectable" \notin Framing
      BY DEF Framing, FIXED, TERMINATED_LF, TERMINATED_CRLF
    <3> QED
      BY <2>3, <3>1 DEF WholeParse
  <2>5. "error" \in Stopped /\ ("error" = "end") = FALSE
    BY DEF Stopped
  <2>6. input.whole = Stop("error" = "end")
    BY <1>0, <2>4, <2>5 DEF Given
  <2> QED
    BY <1>a, <2>1, <2>5, <2>6
<1>5. CASE ~(buf = <<>>) /\ ~(buf # <<>> /\ Len(buf) < CONTROL_RECORD_LEN)
  <2>1. /\ framing' = DetectFramingPrefix(buf) /\ framing_known' = TRUE
        /\ EnterFraming(framing')
        /\ UNCHANGED <<input, src_pos, buf, out>>
    BY <1>5 DEF Detect
  <2>2. pc' \notin Stopped /\ pc' # "block" /\ Consumed' = 0
    BY <1>0, <2>1 DEF EnterFraming, Stopped, Consumed
  <2>3. framing' = EffectiveFraming(input)
    BY <1>2, <2>1
  <2>4. PICK fr \in Framing : fr = framing'
    BY <1>1, <1>5, <2>1, DetectedFraming
  <2>5. OnTheWay'
    <3>1. 0 \in 0..Len(input.image) /\ 0 + 1 = 1
      BY <1>1
    <3>2. Ahead(fr, 1) \in Walks
      BY <1>0, <3>1, AheadType
    <3>3. Bytes(out) = <<>>
      BY <1>0, BytesType DEF TypeOK
    <3>4. <<>> \o Ahead(fr, 1).records = Ahead(fr, 1).records
      BY <3>2, ConcatEmptySeq DEF Walks
    <3>5. Bytes(out)' = <<>>
      BY <2>1, <3>3
    <3>6. (Consumed + 1)' = 1
      BY <2>2
    <3>7. Ahead(framing, 1)' = Ahead(fr, 1)
      BY <2>1, <2>4, Zenon DEF Ahead, RestAt
    <3>8. Ahead(framing, Consumed + 1)' = Ahead(fr, 1)
      BY <2>1, <2>4, <3>6, Zenon DEF Ahead, RestAt
    <3> QED
      BY <3>4, <3>5, <3>7, <3>8 DEF OnTheWay
  <2>6. (framing = EffectiveFraming(input) /\ OnTheWay)'
    BY <2>1, <2>3, <2>5
  <2>7. Given' /\ (out = Numbered(Bytes(out)))'
    BY <1>0, <2>1 DEF Given
  <2>8. FeedInv'
    BY <2>1, <2>2, <2>6, <2>7 DEF FeedInv
  <2>9. UNCHANGED (Feed!vars)
    BY <1>0, <2>1, <2>2 DEF Feed!vars
  <2> QED
    BY <2>8, <2>9, KindsFollow
<1> QED
  BY <1>3, <1>4, <1>5

-----------------------------------------------------------------------------
(* The refinement.                                                         *)

\* Initially nothing is handed out, and all of the file is ahead.
LEMMA FeedInit ==
  ASSUME Init, Comparable(input)
  PROVE  FeedInv /\ Feed!Init
<1>0. TypeOK
  BY InitType DEF IndInv
<1>1. /\ src_pos = 0 /\ buf = <<>> /\ pc = "idle" /\ out = <<>>
      /\ framing = IF input.framing = "auto" THEN FIXED ELSE input.framing
      /\ framing_known = (input.framing # "auto")
      /\ Len(<<>>) = 0 /\ Len(input.image) \in Nat
  BY <1>0, EmptySeq, LenProperties DEF Init, TypeOK
<1>2. PICK in \in Inputs : input = [image |-> in.image, framing |-> in.framing,
                                  lenient |-> in.lenient, whole |-> WholeParse(in)]
  BY DEF Init
<1>3. Given
  <2>1. /\ input.image = in.image /\ input.framing = in.framing /\ input.lenient = in.lenient
        /\ input.whole = WholeParse(in)
    BY <1>2
  <2>2. EffectiveFraming(input) = EffectiveFraming(in)
    BY <2>1 DEF EffectiveFraming
  <2>3. WholeParse(input) = WholeParse(in)
    BY <2>1, <2>2, Zenon DEF WholeParse
  <2> QED
    BY <2>1, <2>3 DEF Given
<1>4. Consumed = 0
  <2>1. Len(buf) = 0 /\ src_pos = 0
    BY <1>1, Zenon
  <2> QED
    BY <2>1 DEF Consumed
<1>5. Bytes(out) = <<>> /\ out = Numbered(Bytes(out))
  <2>1. Bytes(out) = <<>>
    BY <1>0, <1>1, BytesType DEF TypeOK
  <2> QED
    BY <1>1, <2>1, NumberedNone
<1>6. ASSUME framing_known
      PROVE  /\ framing = EffectiveFraming(input)
             /\ OnTheWay
  <2>1. framing = EffectiveFraming(input)
    BY <1>1, <1>6 DEF EffectiveFraming
  <2>2. 0 \in 0..Len(input.image) /\ 0 + 1 = 1
    BY <1>1
  <2>3. Ahead(framing, 1) \in Walks
    BY <1>0, <2>2, AheadType
  <2>4. <<>> \o Ahead(framing, 1).records = Ahead(framing, 1).records
    BY <2>3, ConcatEmptySeq DEF Walks
  <2>5. Ahead(framing, Consumed + 1) = Ahead(framing, 1)
    BY <1>4, <2>2
  <2> QED
    BY <1>4, <1>5, <2>1, <2>2, <2>4, <2>5 DEF OnTheWay
<1>7. FeedInv
  BY <1>1, <1>3, <1>4, <1>5, <1>6 DEF FeedInv, Stopped
<1>8. Feed!Init
  BY <1>1 DEF Feed!Init, Stopped
<1> QED
  BY <1>7, <1>8

\* Every step keeps the invariant, and is a step of the feed or none.
LEMMA FeedStep ==
  ASSUME Before, [Next]_vars
  PROVE  Follows
<1>1. CASE UNCHANGED vars
  <2>1. UNCHANGED <<input, out, pc, framing, framing_known, src_pos, buf, need>>
    BY <1>1 DEF vars
  <2>2. UNCHANGED (Feed!vars)
    BY <2>1 DEF Feed!vars
  <2>3. FeedInv'
    <3>1. FeedInv /\ Consumed' = Consumed
      BY <2>1 DEF Before, Consumed
    <3>2. OnTheWay <=> OnTheWay'
      BY <2>1, <3>1, AheadSame DEF OnTheWay
    <3> QED
      BY <2>1, <3>1, <3>2 DEF FeedInv, Given
  <2> QED
    BY <2>2, <2>3, KindsFollow
<1> QED
  BY <1>1, CallFollows, ReadFollows, DetectFollows, MagicFollows, BlockFollows, SearchFollows,
     MoreFollows DEF Next, Step

\* A file that can be compared stays one.
LEMMA ComparableStep ==
  ASSUME [Next]_vars
  PROVE  Comparable(input)' <=> Comparable(input)
<1>1. input' = input
  BY DEF Next, Step, Call, Read, Detect, FixedMagic, FixedBlock, SearchLine, More,
         EmitLine, Malformed, Return, Emit, vars
<1> QED
  BY <1>1

\* Streaming delivers what ParseImage delivers for the whole file (ParseImageLenient for
\* a lenient read of FIXED records), in the same order, and ends as it ends, for every
\* file and any sizes of the reads (Next): every step of RecordStreamer is one of
\* RecordFeed or none.
THEOREM StreamerImplementsFeed == Spec => ImplementsFeed
<1> DEFINE C == Comparable(input)
           Inv == IndInv /\ RawInv /\ (C => FeedInv)
           Ahead1 == C => [Feed!Next]_(Feed!vars)
<1>1. Init => Inv /\ (C => Feed!Init)
  BY InitType, RawInit, FeedInit
<1>2. Inv /\ [Next]_vars => Inv' /\ [Ahead1]_vars
  <2> SUFFICES ASSUME Inv, [Next]_vars
               PROVE  Inv' /\ Ahead1
    OBVIOUS
  <2>1. IndInv'
    BY TypeStep, PlacesStep, MemoryStep, KeysStep DEF IndInv
  <2>2. RawInv'
    BY WindowStep, EndsStep, JoinedStep DEF IndInv, RawInv
  <2>3. ASSUME C
        PROVE  FeedInv' /\ [Feed!Next]_(Feed!vars)
    <3>1. Before
      BY <2>3 DEF Before, IndInv, RawInv
    <3> QED
      BY <3>1, FeedStep DEF Follows
  <2>4. C' <=> C
    BY ComparableStep
  <2> QED
    BY <2>1, <2>2, <2>3, <2>4
<1>3. (C => Feed!Init) /\ [][Ahead1]_vars => ImplementsFeed
  BY DEF ImplementsFeed
<1> QED
  BY <1>1, <1>2, <1>3, PTL DEF Spec

-----------------------------------------------------------------------------
(* What a lenient read salvages.                                           *)

\* The file up to its last line feed.
BodyOf(image) == SubSeq(image, 1, Len(image) - Len(LastLine(image)))

\* The records a strict read of it gives, from position p on.
Salvaged(image, fr, p) == TerminatedWalk(BodyOf(image), fr)[p].records

\* These records are the first that were handed out.
HandedOut(records) ==
  /\ Len(records) <= Len(out)
  /\ \A i \in 1..Len(records) : out[i].bytes = records[i]

\* What was handed out, followed by what a strict read of the rest gives, is what it
\* gives of the whole, or more than that was handed out.
Salvage ==
  LET complete == Salvaged(input.image, framing, 1)
  IN  \/ /\ pc \notin Stopped
         /\ Consumed <= Len(BodyOf(input.image))
         /\ complete = Bytes(out) \o Salvaged(input.image, framing, Consumed + 1)
      \/ HandedOut(complete)

SalvageInv ==
  /\ out = Numbered(Bytes(out))
  /\ ~framing_known /\ pc \notin Stopped => Consumed = 0
  /\ input.lenient /\ framing_known /\ framing # FIXED => Salvage

\* The body ends with a line feed, and none follows it.
LEMMA BodyFacts ==
  ASSUME NEW data \in Seq(Byte)
  PROVE  /\ BodyOf(data) \in Seq(Byte)
         /\ Len(BodyOf(data)) \in Nat /\ Len(BodyOf(data)) <= Len(data) /\ Len(data) \in Nat
         /\ \A i \in 1..Len(BodyOf(data)) : BodyOf(data)[i] = data[i]
         /\ Len(BodyOf(data)) = 0 \/ data[Len(BodyOf(data))] = LF
         /\ \A i \in (Len(BodyOf(data)) + 1)..Len(data) : data[i] # LF
<1>0. Len(data) \in Nat
  BY LenProperties
<1>1. PICK k \in 0..Len(data) :
        /\ LastLine(data) = SubSeq(data, 1 + k, Len(data))
        /\ k = 0 \/ data[k] = LF
        /\ \A i \in (k + 1)..Len(data) : data[i] # LF
  BY LastLineFacts
<1>2. PICK q \in Nat : q = 1 + k
  BY <1>1
<1>3. Len(SubSeq(data, q, Len(data))) = Len(data) - k
  <2>1. q > 0 /\ (IF q <= Len(data) THEN Len(data) - q + 1 ELSE 0) = Len(data) - k
    BY <1>0, <1>1, <1>2
  <2> QED
    BY <1>0, <2>1, PartFacts
<1>4. Len(data) - Len(LastLine(data)) = k /\ k \in Nat /\ k <= Len(data)
  BY <1>0, <1>1, <1>2, <1>3
<1> DEFINE b == SubSeq(data, 1, k)
<1>5. BodyOf(data) = b
  BY <1>4 DEF BodyOf
<1>6. k - 1 + 1 = k /\ (IF 1 <= k THEN k - 1 + 1 ELSE 0) = k /\ \A i \in 1..k : 1 + i - 1 = i
  BY <1>4
<1>7. /\ b \in Seq(Byte) /\ Len(b) = IF 1 <= k THEN k - 1 + 1 ELSE 0
      /\ \A i \in 1..(k - 1 + 1) : b[i] = data[1 + i - 1]
  BY <1>4, PartFacts
<1> HIDE DEF b
<1>8. b \in Seq(Byte) /\ Len(b) = k /\ \A i \in 1..k : b[i] = data[i]
  BY <1>6, <1>7
<1> QED
  BY <1>0, <1>1, <1>4, <1>5, <1>8

\* A strict read of the body, from its positions on.
LEMMA SalvagedFacts ==
  ASSUME NEW data \in Seq(Byte), NEW fr, NEW p \in 1..(Len(BodyOf(data)) + 1)
  PROVE  /\ Salvaged(data, fr, p) \in Seq(Seq(Byte))
         /\ p = Len(BodyOf(data)) + 1 => Salvaged(data, fr, p) = <<>>
<1> DEFINE body == BodyOf(data)
           w == TerminatedWalk(body, fr)
<1>1. body \in Seq(Byte) /\ Len(body) \in Nat
  BY BodyFacts
<1>2. IsTerminatedWalk(body, fr, w) /\ w \in [1..(Len(body) + 1) -> Walks]
  BY <1>1, TerminatedWalkFacts
<1>3. Salvaged(data, fr, p) = w[p].records
  BY DEF Salvaged
<1> HIDE DEF w, body
<1>4. p \in 1..(Len(body) + 1)
  BY DEF body
<1>5. w[p] \in Walks
  BY <1>2, <1>4
<1>6. p = Len(body) + 1 => w[p] = Stop(TRUE)
  <2>1. w[p] = LET nl   == FirstLf(body, p)
                   line == StripCr(SubSeq(body, p, nl - 1), fr)
               IN  IF p > Len(body) THEN Stop(TRUE)
                   ELSE IF nl = 0 THEN Prepend(SubSeq(body, p, Len(body)), Stop(TRUE))
                   ELSE IF ~GeometryOk(line) THEN Stop(FALSE)
                   ELSE Prepend(line, w[nl + 1])
    BY <1>2, <1>4 DEF IsTerminatedWalk
  <2>2. p = Len(body) + 1 => p > Len(body)
    BY <1>1
  <2> QED
    BY <2>1, <2>2
<1> QED
  BY <1>3, <1>5, <1>6 DEF Walks, Stop, body

\* A strict read of the body takes l, which ends before nl, for the next record, or
\* ends there.
TakesLine(data, fr, c, nl, l) ==
  /\ nl \in (c + 1)..Len(BodyOf(data))
  /\ l \in Seq(Byte)
  /\ GeometryOk(l) => Salvaged(data, fr, c + 1) = <<l>> \o Salvaged(data, fr, nl + 1)
  /\ ~GeometryOk(l) => Salvaged(data, fr, c + 1) = <<>>

\* A line of the file is one of the body, if anything is left of the body.
LEMMA SalvagedLine ==
  ASSUME NEW data \in Seq(Byte), NEW fr, NEW c \in Nat, c < Len(BodyOf(data)),
         NEW nl, nl = FirstLf(data, c + 1),
         NEW l, l = StripCr(SubSeq(data, c + 1, nl - 1), fr)
  PROVE  TakesLine(data, fr, c, nl, l)
<1> DEFINE body == BodyOf(data)
           w == TerminatedWalk(body, fr)
<1>1. /\ body \in Seq(Byte) /\ Len(body) \in Nat /\ Len(body) <= Len(data) /\ Len(data) \in Nat
      /\ \A i \in 1..Len(body) : body[i] = data[i]
      /\ Len(body) = 0 \/ data[Len(body)] = LF
  BY BodyFacts
<1>2. IsTerminatedWalk(body, fr, w) /\ w \in [1..(Len(body) + 1) -> Walks]
  BY <1>1, TerminatedWalkFacts
<1>3. \A q : Salvaged(data, fr, q) = w[q].records
  BY DEF Salvaged
<1>4. c < Len(body)
  BY DEF body
<1> HIDE DEF w, body
<1>5. PICK p \in Nat : p = c + 1
  OBVIOUS
<1>6. p \in 1..(Len(body) + 1) /\ p \in 1..Len(body) /\ p \in 1..Len(data) /\ ~(p > Len(body))
      /\ p \in Nat \ {0}
  BY <1>1, <1>4, <1>5
<1>7. /\ nl \in Nat
      /\ nl # 0 => nl \in p..Len(data) /\ data[nl] = LF /\ \A i \in p..(nl - 1) : data[i] # LF
      /\ nl = 0 => \A i \in p..Len(data) : data[i] # LF
  BY <1>5, <1>6, FirstLfFacts
<1>8. data[Len(body)] = LF /\ Len(body) \in p..Len(data)
  BY <1>1, <1>4, <1>6
<1>9. nl # 0 /\ nl <= Len(body) /\ nl \in p..Len(body)
  <2>1. nl # 0
    BY <1>7, <1>8
  <2>2. ~(Len(body) < nl)
    <3> SUFFICES ASSUME Len(body) < nl
                 PROVE  FALSE
      OBVIOUS
    <3>1. Len(body) \in p..(nl - 1)
      BY <1>1, <1>6, <1>7, <2>1
    <3> QED
      BY <1>7, <1>8, <2>1, <3>1
  <2> QED
    BY <1>1, <1>6, <1>7, <2>1, <2>2
<1>10. FirstLf(body, p) = nl
  <2> DEFINE f == FirstLf(body, p)
  <2>1. /\ f \in Nat
        /\ f # 0 => f \in p..Len(body) /\ body[f] = LF /\ \A i \in p..(f - 1) : body[i] # LF
        /\ f = 0 => \A i \in p..Len(body) : body[i] # LF
    BY <1>1, <1>6, FirstLfFacts
  <2> HIDE DEF f
  <2>2. body[nl] = LF
    BY <1>1, <1>6, <1>7, <1>9
  <2>3. f # 0 /\ f \in p..Len(body) /\ data[f] = LF
    BY <1>1, <1>6, <1>9, <2>1, <2>2
  <2>4. ~(f < nl)
    <3> SUFFICES ASSUME f < nl
                 PROVE  FALSE
      OBVIOUS
    <3>1. f \in p..(nl - 1)
      BY <1>6, <1>7, <2>1, <2>3
    <3> QED
      BY <1>7, <1>9, <2>3, <3>1
  <2>5. ~(nl < f)
    <3> SUFFICES ASSUME nl < f
                 PROVE  FALSE
      OBVIOUS
    <3>1. nl \in p..(f - 1)
      BY <1>6, <1>9, <2>1, <2>3
    <3> QED
      BY <2>1, <2>2, <2>3, <3>1
  <2>6. f = nl
    BY <1>7, <2>1, <2>4, <2>5
  <2> QED
    BY <2>6 DEF f
<1>11. PICK m \in Nat : m = nl - 1
  BY <1>6, <1>7, <1>9
<1>12. SubSeq(body, p, m) = SubSeq(data, p, m)
  <2>1. m <= Len(body) /\ m <= Len(data) /\ p > 0
    BY <1>1, <1>6, <1>7, <1>9, <1>11
  <2> DEFINE a == SubSeq(body, p, m)
             b == SubSeq(data, p, m)
  <2>2. /\ a \in Seq(Byte) /\ Len(a) = IF p <= m THEN m - p + 1 ELSE 0
        /\ \A i \in 1..(m - p + 1) : a[i] = body[p + i - 1]
    BY <1>1, <2>1, PartFacts
  <2>3. /\ b \in Seq(Byte) /\ Len(b) = IF p <= m THEN m - p + 1 ELSE 0
        /\ \A i \in 1..(m - p + 1) : b[i] = data[p + i - 1]
    BY <2>1, PartFacts
  <2> HIDE DEF a, b
  <2>4. \A i \in 1..Len(a) : a[i] = b[i]
    <3> TAKE i \in 1..Len(a)
    <3>1. i \in 1..(m - p + 1)
      BY <1>6, <2>2
    <3>2. p + i - 1 \in 1..Len(body)
      BY <1>1, <1>6, <2>1, <3>1
    <3> QED
      BY <1>1, <2>2, <2>3, <3>1, <3>2
  <2>5. a = b
    BY <2>2, <2>3, <2>4, SeqEqual
  <2> QED
    BY <2>5 DEF a, b
<1> DEFINE line == StripCr(SubSeq(data, p, m), fr)
<1>13. line \in Seq(Byte)
  <2>1. m <= Len(data)
    BY <1>1, <1>7, <1>9, <1>11
  <2> QED
    BY <1>6, <2>1, PartType, StripCrType
<1>14. line = StripCr(SubSeq(body, p, nl - 1), fr)
  BY <1>11, <1>12
<1> HIDE DEF line
<1>15. w[p] = IF ~GeometryOk(line) THEN Stop(FALSE) ELSE Prepend(line, w[nl + 1])
  <2>1. w[p] = LET n == FirstLf(body, p)
                   s == StripCr(SubSeq(body, p, n - 1), fr)
               IN  IF p > Len(body) THEN Stop(TRUE)
                   ELSE IF n = 0 THEN Prepend(SubSeq(body, p, Len(body)), Stop(TRUE))
                   ELSE IF ~GeometryOk(s) THEN Stop(FALSE)
                   ELSE Prepend(s, w[n + 1])
    BY <1>2, <1>6 DEF IsTerminatedWalk
  <2> QED
    BY <1>6, <1>9, <1>10, <1>14, <2>1
<1>16. nl + 1 \in 1..(Len(body) + 1)
  BY <1>1, <1>6, <1>9
<1>17. w[nl + 1] \in Walks
  BY <1>2, <1>16
<1>18. Prepend(line, w[nl + 1]).records = <<line>> \o w[nl + 1].records
  BY <1>13, <1>17, WalkType
<1>19. Stop(FALSE).records = <<>>
  BY DEF Stop
<1>20. line = l
  BY <1>5, <1>11 DEF line
<1> QED
  BY <1>3, <1>5, <1>9, <1>13, <1>15, <1>18, <1>19, <1>20 DEF body, TakesLine

\* A record between two sequences of records.
LEMMA ConcatOne ==
  ASSUME NEW a \in Seq(Seq(Byte)), NEW r \in Seq(Byte), NEW b \in Seq(Seq(Byte))
  PROVE  a \o (<<r>> \o b) = Append(a, r) \o b
<1> DEFINE S == Seq(Byte)
<1>0. r \in S /\ a \in Seq(S) /\ b \in Seq(S)
  OBVIOUS
<1> HIDE DEF S
<1>1. <<r>> \in Seq(S)
  BY <1>0
<1>2. (a \o <<r>>) \o b = a \o (<<r>> \o b)
  BY <1>0, <1>1, ConcatAssociative
<1>3. a \o <<r>> = Append(a, r)
  BY <1>0, AppendIsConcat
<1> QED
  BY <1>1, <1>2, <1>3

\* Nothing is left of the body: the records so far are all of it.
LEMMA SalvagedAll ==
  ASSUME TypeOK, Salvage, pc \notin Stopped,
         \A c \in Nat : c = Consumed /\ c <= Len(BodyOf(input.image)) =>
           Salvaged(input.image, framing, c + 1) = <<>>,
         Consumed \in Nat
  PROVE  HandedOut(Salvaged(input.image, framing, 1))
<1> DEFINE complete == Salvaged(input.image, framing, 1)
<1>0. Bytes(out) \in Seq(Seq(Byte)) /\ Len(Bytes(out)) = Len(out) /\ Len(out) \in Nat
      /\ \A i \in 1..Len(out) : Bytes(out)[i] = out[i].bytes
  BY BytesType, LenProperties DEF TypeOK
<1>1. CASE HandedOut(complete)
  BY <1>1
<1>2. CASE /\ Consumed <= Len(BodyOf(input.image))
           /\ complete = Bytes(out) \o Salvaged(input.image, framing, Consumed + 1)
  <2>1. complete = Bytes(out) \o <<>>
    BY <1>2
  <2>2. complete = Bytes(out)
    BY <1>0, <2>1, ConcatEmptySeq
  <2> HIDE DEF complete
  <2>3. HandedOut(complete)
    BY <1>0, <2>2 DEF HandedOut
  <2> QED
    BY <2>3 DEF complete
<1> QED
  BY <1>1, <1>2 DEF Salvage

\* What was handed out stays so when more is.
LEMMA HandedOutMore ==
  ASSUME TypeOK, NEW r, NEW records \in Seq(Seq(Byte)), HandedOut(records),
         out' = Append(out, r), r \in IdocRecord
  PROVE  HandedOut(records)'
<1>1. /\ Len(out) \in Nat /\ Len(out') = Len(out) + 1 /\ Len(records) \in Nat
      /\ \A i \in 1..Len(out) : out'[i] = out[i]
  BY AppendProperties, LenProperties DEF TypeOK
<1> QED
  BY <1>1 DEF HandedOut

\* A step that moves no byte out of the buffer.
LEMMA SalvageStutter ==
  ASSUME TypeOK, SalvageInv, pc \notin Stopped, pc' \notin Stopped, Consumed' = Consumed,
         UNCHANGED <<input, framing, framing_known, out>>
  PROVE  SalvageInv'
BY DEF SalvageInv, Salvage, HandedOut

\* The end of a lenient read that has nothing more to salvage.
LEMMA SalvageReturn ==
  ASSUME TypeOK, Window, SalvageInv, pc \notin Stopped, pc' \in Stopped,
         UNCHANGED <<input, framing, framing_known, out>>,
         input.lenient /\ framing_known /\ framing # FIXED =>
           \A c \in Nat : c = Consumed /\ c <= Len(BodyOf(input.image)) =>
             Salvaged(input.image, framing, c + 1) = <<>>
  PROVE  SalvageInv'
<1>1. (out = Numbered(Bytes(out)))'
  BY DEF SalvageInv
<1>2. ASSUME input.lenient, framing_known, framing # FIXED
      PROVE  HandedOut(Salvaged(input.image, framing, 1))
  BY <1>2, ConsumedFacts, SalvagedAll DEF SalvageInv
<1>3. (input.lenient /\ framing_known /\ framing # FIXED => Salvage)'
  BY <1>2 DEF Salvage, HandedOut
<1> QED
  BY <1>1, <1>3 DEF SalvageInv

\* A line that is handed out is the next record of the body, or no record of it.
LEMMA SalvageEmit ==
  ASSUME TypeOK, Counters, Window, SalvageInv, pc \notin Stopped,
         input.lenient, framing_known, framing # FIXED,
         NEW record \in Seq(Byte), NEW rest, Emit(record, rest),
         NEW n \in Nat, Consumed' = Consumed + n,
         \A c \in Nat : c = Consumed /\ c <= Len(BodyOf(input.image)) =>
           \/ Salvaged(input.image, framing, c + 1) = <<>>
           \/ /\ Salvaged(input.image, framing, c + 1)
                   = <<record>> \o Salvaged(input.image, framing, c + n + 1)
              /\ c + n <= Len(BodyOf(input.image))
  PROVE  SalvageInv'
<1> DEFINE complete == Salvaged(input.image, framing, 1)
           Left(c) == Salvaged(input.image, framing, c + 1)
           body == BodyOf(input.image)
<1>0. /\ Consumed \in Nat /\ input.image \in Seq(Byte) /\ Len(body) \in Nat
      /\ Bytes(out) \in Seq(Seq(Byte)) /\ complete \in Seq(Seq(Byte))
      /\ \A c \in Nat : c <= Len(body) => Left(c) \in Seq(Seq(Byte))
  <2>1. Consumed \in Nat /\ input.image \in Seq(Byte) /\ Len(body) \in Nat
    BY ConsumedFacts, BodyFacts
  <2>2. \A p \in 1..(Len(body) + 1) : Salvaged(input.image, framing, p) \in Seq(Seq(Byte))
    BY <2>1, SalvagedFacts
  <2>3. \A c \in Nat : c <= Len(body) => c + 1 \in 1..(Len(body) + 1)
    BY <2>1
  <2>4. 1 \in 1..(Len(body) + 1)
    BY <2>1
  <2> QED
    BY <2>1, <2>2, <2>3, <2>4, BytesType DEF TypeOK
<1>1. /\ out' = Append(out, NumberedAt(Append(Bytes(out), record), Len(out) + 1))
      /\ NumberedAt(Append(Bytes(out), record), Len(out) + 1) \in IdocRecord
      /\ Bytes(out') = Append(Bytes(out), record)
      /\ out' = Numbered(Bytes(out'))
  BY EmitNumbers DEF SalvageInv
<1>2. /\ UNCHANGED <<input, framing, framing_known>> /\ pc' \notin Stopped
  BY DEF Emit, Stopped
<1>3. Salvage
  BY DEF SalvageInv
<1>4. ASSUME HandedOut(complete)
      PROVE  Salvage'
  <2>1. HandedOut(complete)'
    BY <1>0, <1>1, <1>2, <1>4, HandedOutMore
  <2> QED
    BY <2>1 DEF Salvage
<1>5. ASSUME Consumed <= Len(body), complete = Bytes(out) \o Left(Consumed)
      PROVE  Salvage'
  <2>1. CASE Left(Consumed) = <<>>
    <3>1. complete = Bytes(out)
      BY <1>0, <1>5, <2>1, ConcatEmptySeq
    <3>2. HandedOut(complete)
      <4>1. Len(out) \in Nat /\ Len(Bytes(out)) = Len(out)
            /\ \A i \in 1..Len(out) : Bytes(out)[i] = out[i].bytes
        BY BytesType, LenProperties DEF TypeOK
      <4> QED
        BY <3>1, <4>1 DEF HandedOut
    <3> QED
      BY <1>4, <3>2
  <2>2. CASE /\ Left(Consumed) = <<record>> \o Left(Consumed + n)
             /\ Consumed + n <= Len(body)
    <3>1. PICK c \in Nat : c = Consumed + n /\ c <= Len(body)
      BY <1>0, <2>2
    <3>2. PICK a \in Seq(Seq(Byte)), b \in Seq(Seq(Byte)) : a = Bytes(out) /\ b = Left(c)
      BY <1>0, <3>1
    <3>3. a \o (<<record>> \o b) = Append(a, record) \o b
      BY ConcatOne
    <3>4. Bytes(out) \o (<<record>> \o Left(Consumed + n))
            = Append(Bytes(out), record) \o Left(Consumed + n)
      BY <3>1, <3>2, <3>3
    <3>5. complete = Bytes(out') \o Left(Consumed')
      BY <1>1, <1>5, <2>2, <3>4
    <3> QED
      BY <1>2, <2>2, <3>5 DEF Salvage
  <2> QED
    BY <1>0, <1>5, <2>1, <2>2
<1>6. Salvage'
  BY <1>3, <1>4, <1>5 DEF Salvage
<1> QED
  BY <1>1, <1>2, <1>6 DEF SalvageInv

\* Where no whole line is to come, a strict read of the body has nothing to give: the
\* body is at its end, or what follows is longer than any record.
LEMMA SalvagedNone ==
  ASSUME TypeOK, Window, FirstLf(buf, 1) = 0, TooLong \/ src_pos = Len(input.image),
         NEW fr, NEW c \in Nat, c = Consumed, c <= Len(BodyOf(input.image))
  PROVE  Salvaged(input.image, fr, c + 1) = <<>>
<1> DEFINE data == input.image
           body == BodyOf(data)
           nl == FirstLf(data, c + 1)
<1>0. /\ c + Len(buf) = src_pos /\ src_pos <= Len(data)
      /\ Len(buf) \in Nat /\ Len(data) \in Nat /\ src_pos \in Nat /\ data \in Seq(Byte)
      /\ DATA_RECORD_LEN \in Nat
      /\ Len(body) \in Nat /\ Len(body) <= Len(data)
  BY ConsumedFacts, LengthFacts, BodyFacts
<1>1. CASE c = Len(body)
  <2>1. c + 1 \in 1..(Len(body) + 1)
    BY <1>0, <1>1
  <2> QED
    BY <1>0, <1>1, <2>1, SalvagedFacts
<1>2. CASE c # Len(body)
  <2>1. c < Len(body)
    BY <1>0, <1>2
  <2>a. PICK line : line = StripCr(SubSeq(data, c + 1, nl - 1), fr)
    OBVIOUS
  <2>2. /\ nl \in (c + 1)..Len(body)
        /\ ~GeometryOk(line) => Salvaged(data, fr, c + 1) = <<>>
    <3>1. data \in Seq(Byte) /\ c < Len(BodyOf(data))
      BY <1>0, <2>1
    <3>2. TakesLine(data, fr, c, nl, line)
      BY <2>a, <3>1, SalvagedLine
    <3> QED
      BY <3>2 DEF TakesLine
  <2>3. nl = 0 \/ nl > src_pos
    BY SameLine
  <2> HIDE DEF nl
  <2>4. nl > src_pos /\ nl \in Nat /\ nl <= Len(data)
    BY <1>0, <2>2, <2>3
  <2>5. PICK m \in Nat : m = nl - 1
    BY <1>0, <2>4
  <2>6. c < m /\ m <= Len(data) /\ m - c > DATA_RECORD_LEN + 1
    BY <1>0, <2>4, <2>5 DEF TooLong
  <2>7. SubSeq(data, c + 1, m) \in Seq(Byte) /\ Len(SubSeq(data, c + 1, m)) = m - c
    BY <1>0, <2>6, PartLength
  <2>8. ~GeometryOk(StripCr(SubSeq(data, c + 1, m), fr))
    BY <2>6, <2>7, LongLine
  <2> QED
    BY <2>2, <2>5, <2>8, <2>a
<1> QED
  BY <1>1, <1>2

\* A strict read, and FIXED framing, have nothing to salvage.
LEMMA SalvageElse ==
  ASSUME TypeOK, Counters, SalvageInv, framing_known, ~input.lenient \/ framing = FIXED,
         UNCHANGED <<input, framing, framing_known>>,
         \/ out' = out
         \/ \E record \in Seq(Byte) : \E rest : Emit(record, rest)
  PROVE  SalvageInv'
<1>1. (out = Numbered(Bytes(out)))'
  <2>1. CASE out' = out
    BY <2>1 DEF SalvageInv
  <2>2. ASSUME NEW record \in Seq(Byte), NEW rest, Emit(record, rest)
        PROVE  out' = Numbered(Bytes(out'))
    BY <2>2, EmitNumbers DEF SalvageInv
  <2> QED
    BY <2>1, <2>2
<1> QED
  BY <1>1 DEF SalvageInv

\* A search for the next line: it is handed out, or there is none.
LEMMA SalvageSearch ==
  ASSUME TypeOK, Places, Counters, Window, SalvageInv, SearchLine
  PROVE  SalvageInv'
<1> DEFINE nl == FirstLf(buf, 1)
           line == StripCr(SubSeq(buf, 1, nl - 1), framing)
           rest == SubSeq(buf, nl + 1, Len(buf))
           body == BodyOf(input.image)
<1>0. /\ Consumed \in Nat /\ Consumed + Len(buf) = src_pos /\ src_pos <= Len(input.image)
      /\ Len(buf) \in Nat /\ Len(input.image) \in Nat /\ src_pos \in Nat /\ buf \in Seq(Byte)
      /\ input.image \in Seq(Byte) /\ Len(body) \in Nat
      /\ input.lenient \in BOOLEAN /\ nl \in Nat /\ (nl # 0 => nl \in 1..Len(buf))
      /\ pc = "line" /\ pc \notin Stopped /\ framing_known /\ framing # FIXED
  <2>1. /\ Consumed \in Nat /\ Consumed + Len(buf) = src_pos /\ src_pos <= Len(input.image)
        /\ Len(buf) \in Nat /\ Len(input.image) \in Nat /\ src_pos \in Nat /\ buf \in Seq(Byte)
        /\ input.image \in Seq(Byte)
    BY ConsumedFacts
  <2>2. nl \in Nat /\ (nl # 0 => nl \in 1..Len(buf))
    BY <2>1, FirstLfFacts
  <2>3. Len(body) \in Nat
    BY <2>1, BodyFacts
  <2> QED
    BY <2>1, <2>2, <2>3 DEF TypeOK, SearchLine, Places, Stopped
<1>1. CASE nl # 0
  <2>1. EmitLine(SubSeq(buf, 1, nl - 1), rest)
    BY <1>1 DEF SearchLine
  <2>2. nl \in Nat /\ nl > 0 /\ nl <= Len(buf)
    BY <1>0, <1>1
  <2>3. SubSeq(buf, 1, nl - 1) \in Seq(Byte) /\ rest \in Seq(Byte) /\ Len(rest) = Len(buf) - nl
    <3> HIDE DEF nl
    <3> QED
      BY <2>2, BufferParts
  <2>4. line \in Seq(Byte) /\ (Return("error", rest) \/ Emit(line, rest))
    BY <2>1, <2>3, EmitLineCases
  <2>5. CASE ~input.lenient
    <3> HIDE DEF line, rest
    <3>1. UNCHANGED <<input, framing, framing_known>>
          /\ (out' = out \/ \E record \in Seq(Byte) : \E left : Emit(record, left))
      BY <2>4 DEF Return, Emit
    <3> QED
      BY <1>0, <2>5, <3>1, SalvageElse
  <2>6. CASE input.lenient
    <3>1. Emit(line, rest)
      BY <2>1, <2>6 DEF EmitLine
    <3>2. Consumed' = Consumed + nl
      <4>1. buf' = rest /\ src_pos' = src_pos
        BY <3>1 DEF Emit
      <4> HIDE DEF rest, nl
      <4>2. Len(buf') = Len(buf) - nl
        BY <2>3, <4>1
      <4>3. src_pos - (Len(buf) - nl) = Consumed + nl
        BY <1>0, <2>2
      <4> QED
        BY <4>1, <4>2, <4>3 DEF Consumed
    <3>3. ASSUME NEW c \in Nat, c = Consumed, c <= Len(body)
          PROVE  \/ Salvaged(input.image, framing, c + 1) = <<>>
                 \/ /\ Salvaged(input.image, framing, c + 1)
                         = <<line>> \o Salvaged(input.image, framing, c + nl + 1)
                    /\ c + nl <= Len(body)
      <4>1. CASE c = Len(body)
        <5>1. c + 1 \in 1..(Len(body) + 1)
          BY <1>0, <4>1
        <5> QED
          BY <1>0, <4>1, <5>1, SalvagedFacts
      <4>2. CASE c < Len(body)
        <5>1. PICK f : f = FirstLf(input.image, c + 1)
          OBVIOUS
        <5>a. PICK l : l = StripCr(SubSeq(input.image, c + 1, f - 1), framing)
          OBVIOUS
        <5>2. /\ f \in (c + 1)..Len(body)
              /\ GeometryOk(l) => Salvaged(input.image, framing, c + 1)
                                    = <<l>> \o Salvaged(input.image, framing, f + 1)
              /\ ~GeometryOk(l) => Salvaged(input.image, framing, c + 1) = <<>>
          <6>1. input.image \in Seq(Byte)
            BY <1>0
          <6>2. c < Len(BodyOf(input.image))
            BY <4>2
          <6> HIDE DEF body, line, rest, nl
          <6>3. TakesLine(input.image, framing, c, f, l)
            BY <5>1, <5>a, <6>1, <6>2, SalvagedLine
          <6> QED
            BY <6>3 DEF TakesLine, body
        <5>3. f = c + nl
          BY <1>1, <3>3, <5>1, SameLine
        <5>4. SubSeq(input.image, c + 1, f - 1) = SubSeq(buf, 1, nl - 1)
          <6>1. PICK k \in 0..Len(buf) : k = nl - 1
            BY <1>0, <2>2
          <6>2. SubSeq(buf, 1, k) = SubSeq(input.image, Consumed + 1, Consumed + k)
            BY BufferIsPart
          <6>3. Consumed + k = f - 1
            BY <1>0, <3>3, <5>3, <6>1
          <6> QED
            BY <3>3, <6>1, <6>2, <6>3
        <5>5. f + 1 = c + nl + 1 /\ c + nl <= Len(body)
          BY <1>0, <5>2, <5>3
        <5>6. l = line
          BY <5>4, <5>a
        <5> HIDE DEF line, nl
        <5> QED
          BY <5>2, <5>5, <5>6
      <4>3. c = Len(body) \/ c < Len(body)
        BY <1>0, <3>3
      <4> HIDE DEF line, rest, nl, body
      <4> QED
        BY <4>1, <4>2, <4>3
    <3> HIDE DEF line, rest, nl
    <3>4. nl \in Nat
      BY <1>0
    <3> QED
      BY <1>0, <2>4, <2>6, <3>1, <3>2, <3>3, <3>4, SalvageEmit
  <2> QED
    BY <1>0, <2>5, <2>6
<1>2. CASE nl = 0 /\ TooLong
  <2>1. Malformed
    BY <1>2 DEF SearchLine
  <2>2. pc' \in Stopped /\ UNCHANGED <<input, framing, framing_known, out>>
    BY <2>1 DEF Malformed, Return, Stopped
  <2>3. \A c \in Nat : c = Consumed /\ c <= Len(body) =>
          Salvaged(input.image, framing, c + 1) = <<>>
    BY <1>2, SalvagedNone
  <2> QED
    BY <1>0, <2>2, <2>3, SalvageReturn
<1>3. CASE nl = 0 /\ ~TooLong
  <2>1. pc' = "more" /\ UNCHANGED <<input, src_pos, buf, framing, framing_known, out>>
    BY <1>3 DEF SearchLine
  <2>2. pc' \notin Stopped /\ Consumed' = Consumed
    BY <2>1 DEF Stopped, Consumed
  <2> QED
    BY <1>0, <2>1, <2>2, SalvageStutter
<1> QED
  BY <1>1, <1>2, <1>3

\* More bytes, the end of the file, or its last line, which no strict read of the body
\* gives.
LEMMA SalvageMore ==
  ASSUME TypeOK, Places, Counters, Window, Ends, SalvageInv, More
  PROVE  SalvageInv'
<1> DEFINE line == StripCr(buf, framing)
<1>0. /\ Consumed \in Nat /\ Consumed + Len(buf) = src_pos /\ Len(buf) \in Nat
      /\ buf \in Seq(Byte) /\ <<>> \in Seq(Byte) /\ Len(<<>>) = 0
      /\ before \in Nat /\ LookAhead \in Nat /\ LookAhead > 0 /\ input.lenient \in BOOLEAN
      /\ pc = "more" /\ pc \in Filling /\ pc \notin Stopped /\ FillDone
      /\ framing_known /\ framing # FIXED /\ need = before + LookAhead
      /\ before <= Len(buf) /\ \A i \in 1..before : buf[i] # LF
  BY ConsumedFacts, LengthFacts, EmptySeq DEF TypeOK, More, Places, Ends, Filling, Stopped
<1>1. CASE Grown
  <2>1. pc' = "line" /\ UNCHANGED <<input, src_pos, buf, framing, framing_known, out>>
    BY <1>1 DEF More
  <2>2. pc' \notin Stopped /\ Consumed' = Consumed
    BY <2>1 DEF Stopped, Consumed
  <2> QED
    BY <1>0, <2>1, <2>2, SalvageStutter
<1>2. ASSUME ~Grown
      PROVE  \A c \in Nat : c = Consumed /\ c <= Len(BodyOf(input.image)) =>
               Salvaged(input.image, framing, c + 1) = <<>>
  <2>1. before = Len(buf)
    BY <1>0, <1>2 DEF Grown
  <2>2. eof
    BY <1>0, <2>1, FillFailed
  <2>3. src_pos = Len(input.image)
    BY <2>2 DEF Ends
  <2>4. FirstLf(buf, 1) = 0
    <3>1. FirstLf(buf, 1) # 0 => FirstLf(buf, 1) \in 1..Len(buf) /\ buf[FirstLf(buf, 1)] = LF
      BY <1>0, FirstLfFacts
    <3> QED
      BY <1>0, <2>1, <3>1
  <2> QED
    BY <2>3, <2>4, SalvagedNone
<1>3. CASE ~Grown /\ buf = <<>>
  <2>1. Return("end", <<>>)
    BY <1>3 DEF More
  <2>2. pc' \in Stopped /\ UNCHANGED <<input, framing, framing_known, out>>
    BY <2>1 DEF Return, Stopped
  <2> QED
    BY <1>0, <1>2, <1>3, <2>2, SalvageReturn
<1>4. CASE ~Grown /\ buf # <<>>
  <2>1. EmitLine(buf, <<>>)
    BY <1>4 DEF More
  <2>2. line \in Seq(Byte) /\ (Return("error", <<>>) \/ Emit(line, <<>>))
    BY <1>0, <2>1, EmitLineCases
  <2>3. CASE ~input.lenient
    <3> HIDE DEF line
    <3>1. UNCHANGED <<input, framing, framing_known>>
          /\ (out' = out \/ \E record \in Seq(Byte) : \E left : Emit(record, left))
      BY <2>2 DEF Return, Emit
    <3> QED
      BY <1>0, <2>3, <3>1, SalvageElse
  <2>4. CASE input.lenient
    <3>1. Emit(line, <<>>)
      BY <2>1, <2>4 DEF EmitLine
    <3>2. PICK n \in Nat : n = Len(buf)
      BY <1>0
    <3>3. Consumed' = Consumed + n
      <4>1. buf' = <<>> /\ src_pos' = src_pos
        BY <3>1 DEF Emit
      <4>2. Len(buf') = 0
        BY <1>0, <4>1
      <4> QED
        BY <1>0, <3>2, <4>1, <4>2 DEF Consumed
    <3>4. \A c \in Nat : c = Consumed /\ c <= Len(BodyOf(input.image)) =>
            Salvaged(input.image, framing, c + 1) = <<>>
      BY <1>2, <1>4
    <3> HIDE DEF line
    <3> QED
      BY <1>0, <2>2, <2>4, <3>1, <3>3, <3>4, SalvageEmit
  <2> QED
    BY <1>0, <2>3, <2>4
<1> QED
  BY <1>1, <1>3, <1>4

\* Before anything is consumed all of the body is ahead.
LEMMA SalvagedStart ==
  ASSUME NEW image \in Seq(Byte), NEW fr, NEW c, c = 0
  PROVE  /\ c <= Len(BodyOf(image))
         /\ Salvaged(image, fr, 1) = <<>> \o Salvaged(image, fr, c + 1)
<1>1. Len(BodyOf(image)) \in Nat /\ c + 1 = 1 /\ 1 \in 1..(Len(BodyOf(image)) + 1)
  BY BodyFacts
<1>2. Salvaged(image, fr, 1) \in Seq(Seq(Byte))
  BY <1>1, SalvagedFacts
<1> QED
  BY <1>1, <1>2, ConcatEmptySeq

\* Detection consumes nothing.
LEMMA SalvageDetect ==
  ASSUME TypeOK, Places, Counters, Window, SalvageInv, Detect
  PROVE  SalvageInv'
<1>0. pc = "detect" /\ pc \notin Stopped /\ ~framing_known /\ out = <<>> /\ Consumed = 0
      /\ input.image \in Seq(Byte)
  BY DEF Detect, Places, SalvageInv, Stopped, TypeOK
<1>1. CASE pc' \in Stopped /\ UNCHANGED <<input, framing, framing_known, out>>
  BY <1>0, <1>1, SalvageReturn
<1>2. CASE /\ pc' \notin Stopped /\ framing_known'
           /\ UNCHANGED <<input, src_pos, buf, out>>
  <2>1. Bytes(out') = <<>> /\ Consumed' = 0 /\ input' = input
    <3>1. Bytes(out) = <<>>
      BY <1>0, BytesType DEF TypeOK
    <3> QED
      BY <1>0, <1>2, <3>1 DEF Consumed
  <2>2. /\ Consumed' <= Len(BodyOf(input.image))
        /\ Salvaged(input.image, framing', 1)
             = <<>> \o Salvaged(input.image, framing', Consumed' + 1)
    BY <1>0, <2>1, SalvagedStart
  <2>3. Salvage'
    BY <1>2, <2>1, <2>2 DEF Salvage
  <2>4. (out = Numbered(Bytes(out)))'
    BY <1>2 DEF SalvageInv
  <2> QED
    BY <1>2, <2>3, <2>4 DEF SalvageInv
<1> QED
  BY <1>1, <1>2 DEF Detect, Return, EnterFraming, Stopped

\* FIXED framing: a record, the end of the file, or the length of the next record.
LEMMA SalvageBlock ==
  ASSUME TypeOK, Places, Counters, SalvageInv, FixedMagic \/ FixedBlock
  PROVE  SalvageInv'
<1>1. framing_known /\ framing = FIXED
  BY DEF Places, FixedMagic, FixedBlock
<1>2. UNCHANGED <<input, framing, framing_known>>
  BY DEF FixedMagic, FixedBlock, Malformed, Return, Emit
<1>3. out' = out \/ \E record \in Seq(Byte) : \E rest : Emit(record, rest)
  <2>1. CASE Emits
    BY <2>1, EmitsOne
  <2>2. CASE Read \/ Decides \/ Returns
    BY <2>2 DEF Read, Decides, Returns, Return
  <2> QED
    BY <2>1, <2>2, StepKinds DEF Next, Step
<1> QED
  BY <1>1, <1>2, <1>3, SalvageElse

\* Every step keeps the invariant.
LEMMA SalvageStep ==
  ASSUME TypeOK, Places, Counters, Window, Ends, SalvageInv, [Next]_vars
  PROVE  SalvageInv'
<1>1. CASE Call
  <2>1. /\ pc \notin Stopped /\ pc' \notin Stopped
        /\ UNCHANGED <<input, framing, framing_known, out, src_pos, buf>>
    BY <1>1 DEF Call, EnterFraming, Stopped
  <2>2. Consumed' = Consumed
    BY <2>1 DEF Consumed
  <2> QED
    BY <2>1, <2>2, SalvageStutter
<1>2. CASE Read
  <2>1. /\ pc \notin Stopped /\ pc' = pc /\ UNCHANGED <<input, framing, framing_known, out>>
    BY <1>2 DEF Read, Filling, Stopped
  <2>2. Len(buf) \in Nat /\ src_pos \in Nat
    BY LenProperties DEF TypeOK
  <2>3. Consumed' = Consumed
    <3>1. CASE UNCHANGED <<src_pos, buf>>
      BY <3>1 DEF Consumed
    <3>2. CASE \E n \in 1..ReadSize : src_pos' = src_pos + n /\ Len(buf') = Len(buf) + n
      <4>1. PICK n \in 1..ReadSize : src_pos' = src_pos + n /\ Len(buf') = Len(buf) + n
        BY <3>2
      <4>2. n \in Nat
        BY LengthFacts
      <4> QED
        BY <2>2, <4>1, <4>2 DEF Consumed
    <3> QED
      BY <1>2, <3>1, <3>2, ReadCases
  <2> QED
    BY <2>1, <2>3, SalvageStutter
<1>3. CASE UNCHANGED vars
  <2>1. UNCHANGED <<input, framing, framing_known, out, src_pos, buf, pc>>
    BY <1>3 DEF vars
  <2>2. Consumed' = Consumed
    BY <2>1 DEF Consumed
  <2> QED
    BY <2>1, <2>2 DEF SalvageInv, Salvage, HandedOut
<1> QED
  BY <1>1, <1>2, <1>3, SalvageDetect, SalvageBlock, SalvageSearch, SalvageMore DEF Next, Step

\* Initially nothing is handed out, and all of the body is ahead.
LEMMA SalvageInit == Init => SalvageInv
<1> SUFFICES ASSUME Init
             PROVE  SalvageInv
  OBVIOUS
<1>0. TypeOK
  BY InitType DEF IndInv
<1>1. Bytes(out) = <<>> /\ out = Numbered(Bytes(out)) /\ out = <<>>
  <2>1. out = <<>>
    BY DEF Init
  <2>2. Bytes(out) = <<>>
    BY <1>0, <2>1, BytesType DEF TypeOK
  <2> QED
    BY <2>1, <2>2, NumberedNone
<1>2. Consumed = 0 /\ pc \notin Stopped
  <2>1. src_pos = 0 /\ buf = <<>> /\ pc = "idle" /\ Len(<<>>) = 0
    BY EmptySeq DEF Init
  <2>2. Len(buf) = 0
    BY <2>1, Zenon
  <2>3. 0 - 0 = 0 /\ "idle" \notin Stopped
    BY DEF Stopped
  <2> QED
    BY <2>1, <2>2, <2>3, Zenon DEF Consumed
<1>3. Salvage
  <2>1. input.image \in Seq(Byte)
    BY <1>0 DEF TypeOK
  <2>2. /\ Consumed <= Len(BodyOf(input.image))
        /\ Salvaged(input.image, framing, 1) = <<>> \o Salvaged(input.image, framing, Consumed + 1)
    BY <1>2, <2>1, SalvagedStart
  <2> QED
    BY <1>1, <1>2, <2>2 DEF Salvage
<1> QED
  BY <1>1, <1>2, <1>3 DEF SalvageInv

\* The records of the complete lines are those of the strict read of the body.
LEMMA CompleteLinesFacts ==
  ASSUME TypeOK, framing # FIXED
  PROVE  /\ Salvaged(input.image, framing, 1) \in Seq(Seq(Byte))
         /\ CompleteLines = Numbered(Salvaged(input.image, framing, 1))
<1> DEFINE body == BodyOf(input.image)
<1>1. input.image \in Seq(Byte)
  BY DEF TypeOK
<1>2. body \in Seq(Byte) /\ Len(body) \in Nat
  BY <1>1, BodyFacts
<1>3. 1 \in 1..(Len(body) + 1)
  BY <1>2
<1>4. Salvaged(input.image, framing, 1) \in Seq(Seq(Byte))
  BY <1>1, <1>3, SalvagedFacts
<1>5. SplitRecords(body, framing) = TerminatedWalk(body, framing)[1]
  BY <1>2, TerminatedWalkFacts DEF SplitRecords
<1>6. CompleteLines = ParseImage(body, framing).records
  BY DEF CompleteLines, BodyOf
<1> HIDE DEF body
<1>7. ParseImage(body, framing).records = Numbered(SplitRecords(body, framing).records)
  BY DEF ParseImage
<1>8. Salvaged(input.image, framing, 1) = TerminatedWalk(body, framing)[1].records
  BY DEF Salvaged, body
<1> QED
  BY <1>4, <1>5, <1>6, <1>7, <1>8

\* The invariant says what is salvaged.
LEMMA SalvageSays ==
  ASSUME TypeOK, Window, SalvageInv
  PROVE  SalvagesComplete
<1> SUFFICES ASSUME input.lenient, framing_known, framing # FIXED
             PROVE  /\ pc = "end" => Len(out) >= Len(CompleteLines)
                    /\ \A i \in DOMAIN out : i <= Len(CompleteLines) => out[i] = CompleteLines[i]
  BY DEF SalvagesComplete
<1> DEFINE complete == Salvaged(input.image, framing, 1)
           rs == Bytes(out)
<1>0. /\ complete \in Seq(Seq(Byte)) /\ CompleteLines = Numbered(complete)
      /\ rs \in Seq(Seq(Byte)) /\ Len(rs) = Len(out) /\ out = Numbered(rs)
      /\ DOMAIN out = 1..Len(out) /\ Len(out) \in Nat /\ Len(complete) \in Nat
      /\ \A i \in 1..Len(out) : rs[i] = out[i].bytes
  BY CompleteLinesFacts, BytesType, LenProperties DEF TypeOK, SalvageInv
<1>1. Salvage
  BY DEF SalvageInv
<1>2. /\ pc = "end" => Len(complete) <= Len(rs)
      /\ \A i \in 1..Len(rs) : i <= Len(complete) => rs[i] = complete[i]
  <2>1. CASE HandedOut(complete)
    <3> HIDE DEF complete, rs
    <3> QED
      BY <1>0, <2>1 DEF HandedOut
  <2>2. CASE /\ pc \notin Stopped
             /\ Consumed <= Len(BodyOf(input.image))
             /\ complete = rs \o Salvaged(input.image, framing, Consumed + 1)
    <3>1. PICK p \in Nat : p = Consumed + 1
      BY ConsumedFacts
    <3>2. p \in 1..(Len(BodyOf(input.image)) + 1) /\ input.image \in Seq(Byte)
      BY <2>2, <3>1, ConsumedFacts, BodyFacts
    <3>3. PICK left \in Seq(Seq(Byte)) : left = Salvaged(input.image, framing, p)
      BY <3>2, SalvagedFacts
    <3>4. complete = rs \o left
      BY <2>2, <3>1, <3>3
    <3> HIDE DEF complete, rs
    <3>5. \A i \in 1..Len(rs) : complete[i] = rs[i]
      BY <1>0, <3>4, ConcatProperties
    <3> QED
      BY <2>2, <3>5 DEF Stopped
  <2> QED
    BY <1>1, <2>1, <2>2 DEF Salvage
<1> HIDE DEF complete, rs
<1>3. /\ Len(Numbered(rs)) = Len(rs)
      /\ \A i \in 1..Len(rs) : Numbered(rs)[i] = NumberedAt(rs, i)
  BY <1>0, NumberedFacts
<1>4. /\ Len(Numbered(complete)) = Len(complete)
      /\ \A i \in 1..Len(complete) : Numbered(complete)[i] = NumberedAt(complete, i)
  BY <1>0, NumberedFacts
<1>5. ASSUME NEW i \in DOMAIN out, i <= Len(CompleteLines)
      PROVE  out[i] = CompleteLines[i]
  <2>1. i \in Nat \ {0} /\ i \in 1..Len(rs) /\ i \in 1..Len(complete)
    BY <1>0, <1>4, <1>5
  <2>2. \A j \in 1..i : rs[j] = complete[j]
    <3> TAKE j \in 1..i
    <3>1. j \in 1..Len(rs) /\ j <= Len(complete)
      BY <1>0, <2>1
    <3> QED
      BY <1>2, <3>1
  <2>3. NumberedAt(rs, i) = NumberedAt(complete, i)
    BY <2>1, <2>2, NumberedPrefix
  <2> QED
    BY <1>0, <1>3, <1>4, <2>1, <2>3
<1> QED
  BY <1>0, <1>2, <1>4, <1>5

\* A lenient read of a cut-off terminated file hands out every record that is complete,
\* in order, before anything else (Next with lenient, against ParseImage of the whole
\* lines), for every file and any sizes of the reads.
THEOREM StreamerSalvagesComplete == Spec => []SalvagesComplete
<1> DEFINE Inv == IndInv /\ RawInv /\ SalvageInv
<1>1. Init => Inv
  BY InitType, RawInit, SalvageInit
<1>2. Inv /\ [Next]_vars => Inv'
  <2> SUFFICES ASSUME Inv, [Next]_vars
               PROVE  Inv'
    OBVIOUS
  <2>1. IndInv'
    BY TypeStep, PlacesStep, MemoryStep, KeysStep DEF IndInv
  <2>2. RawInv'
    BY WindowStep, EndsStep, JoinedStep DEF IndInv, RawInv
  <2>3. SalvageInv'
    BY SalvageStep DEF IndInv, RawInv
  <2> QED
    BY <2>1, <2>2, <2>3
<1>3. Inv => SalvagesComplete
  BY SalvageSays DEF IndInv, RawInv
<1> QED
  BY <1>1, <1>2, <1>3, PTL DEF Spec
=============================================================================
