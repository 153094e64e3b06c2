-------------------------- MODULE MCRecordStreamer --------------------------
(***************************************************************************)
(* Small instances of RecordStreamer: a magic of 2 bytes, control records  *)
(* of 3 and data records of 5.  The images are whole files of up to four   *)
(* records in every framing and every truncation of them, and files with a *)
(* line too short, too long, or without any terminator.                    *)
(***************************************************************************)
EXTENDS RecordStreamer

MCMagic == <<"E", "D">>

\* Records: control, data, and data whose third byte is a line feed.
C == <<"E", "D", "x">>
D == <<"x", "x", "x", "x", "x">>
N == <<"x", "x", LF, "x", "x">>

Short == <<"x", "x">>
Long == [i \in 1..9 |-> "x"]
Endless == [i \in 1..24 |-> "x"]

Documents == {<<C>>, <<C, D, D>>, <<C, D, C>>, <<C, D, C, D>>}

Cuts(image) == {SubSeq(image, 1, k) : k \in 0..Len(image)}

Images(fr, documents) == {JoinRecords(d, fr) : d \in documents}
AllCuts(fr) == UNION {Cuts(i) : i \in Images(fr, Documents)}

\* Lines of the wrong length, and a last line that is only a carriage return
\* longer than a record.
BadLines(fr) ==
  Images(fr, {<<C, Short>>, <<C, Short, D>>, <<C, Long>>, <<C, Long, D>>, <<C, D, Long>>})
    \cup {JoinRecords(<<C>>, fr) \o D \o <<CR>>, C \o Long, Long, Endless}

\* A line feed or a stray carriage return inside SDATA.
FixedImages == AllCuts(FIXED) \cup Images(FIXED, {<<C, N>>, <<C, N, D>>, <<D, C, D>>})
                              \cup {C \o Short, Short \o C, Long}

Request(images, framings, lenient) ==
  [image : images, framing : framings, lenient : lenient]

\* Strict reading: every framing, right or wrong for the file.
StrictInputs ==
  Request(FixedImages, {FIXED, "auto", TERMINATED_LF}, {FALSE})
    \cup Request(AllCuts(TERMINATED_LF) \cup BadLines(TERMINATED_LF),
                 {TERMINATED_LF, "auto", FIXED, TERMINATED_CRLF}, {FALSE})
    \cup Request(AllCuts(TERMINATED_CRLF) \cup BadLines(TERMINATED_CRLF),
                 {TERMINATED_CRLF, "auto", TERMINATED_LF}, {FALSE})

\* Lenient reading: whole files, cut-off files, and files with bad lines.
LenientInputs ==
  Request(FixedImages, {FIXED, "auto", TERMINATED_LF}, {TRUE})
    \cup Request(AllCuts(TERMINATED_LF) \cup BadLines(TERMINATED_LF),
                 {TERMINATED_LF, "auto"}, {TRUE})
    \cup Request(AllCuts(TERMINATED_CRLF) \cup BadLines(TERMINATED_CRLF),
                 {TERMINATED_CRLF, "auto"}, {TRUE})

AllInputs == StrictInputs \cup LenientInputs

\* Whole terminated files, one of them with as many data records as a data
\* record has bytes, less one: every terminator moves the fixed-width walk by
\* one byte, and the last record ends where the file does.
WholeTerminated ==
  Request(Images(TERMINATED_LF, {<<C, D, D>>, <<C, D, C>>, <<C, D, D, D, D>>}), {"auto"}, {FALSE})

=============================================================================
