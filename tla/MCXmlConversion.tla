-------------------------- MODULE MCXmlConversion --------------------------
(***************************************************************************)
(* Small instances of XmlConversion: one IDoc with up to five segments of  *)
(* any levels up to three, and two or three documents of few segments with *)
(* known and unknown segments and basic types.                             *)
(***************************************************************************)
EXTENDS XmlConversion

C(idoctyp) == [idoctyp |-> idoctyp]
D(segnam, level, payload) == [segnam |-> segnam, level |-> level, payload |-> payload, psgnum |-> 0]

\* A file with its PSGNUM filled in.
Numbered(file) ==
  [i \in DOMAIN file |->
     IF IsControl(file[i]) THEN file[i] ELSE [file[i] EXCEPT !.psgnum = ParentNumber(file, i)]]

SequencesUpTo(n, set) == UNION {[1..k -> set] : k \in 0..n}

Names == {"T", "S", "A", "B", "U", "IDOC"}

\* Every hierarchy of up to five segments.
Hierarchies ==
  {Numbered(<<C("T")>> \o data) :
     data \in SequencesUpTo(5, {D("A", l, "a") : l \in 1..3})}

\* Documents in a row, data before the first of them, unknown segments, mixed
\* types, a blank type, a level of 00, and names that are no element names.
Documents ==
  {Numbered(data) :
     data \in SequencesUpTo(4, {C("T"), C("S"), C(""), D("A", 1, "a"), D("A", 0, "b"), D("B", 2, ""),
                                D("U", 1, ""), D("U", 2, "u"), D("9", 1, "")})}

\* The third level under a first one, when the second is closed already.
GappedLevels == {Numbered(<<C("T"), D("A", 1, "a"), D("A", 2, "a"), D("A", 1, "a"), D("A", 3, "a")>>)}

\* Every file of the run that converts to XML and back.
Files == Hierarchies \cup Documents

=============================================================================
