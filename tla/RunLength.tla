---------------------------- MODULE RunLength ----------------------------
(***************************************************************************)
(* Run-length compression as the zip programs of the repository do it.     *)
(*                                                                         *)
(* A run is the (int, char) pair of the .z format.  The operators of this  *)
(* module are the pure parts shared by the sequential and the parallel     *)
(* compressors: compressing one stretch of bytes, and joining stretches    *)
(* that were compressed apart.  The reference definition says what         *)
(* compressed data has to be, without saying how it is computed.           *)
(***************************************************************************)
EXTENDS Integers, Sequences, SequencesExt

Run(n, c) == [count |-> n, char |-> c]

-----------------------------------------------------------------------------
(* The algorithms.                                                         *)

(* A definition whose name ends in _Something is a variant with a seeded   *)
(* fault; nothing uses it.  It shows that a property would notice.         *)

\* One step of the inner loop of RLECompress: lengthen the run that is open,
\* or open a run of one byte.
AddByte(runs, c) ==
    IF runs # <<>> /\ Last(runs).char = c
    THEN Front(runs) \o <<Run(Last(runs).count + 1, c)>>
    ELSE Append(runs, Run(1, c))

\* RLECompress: the runs of the bytes of one page.
RLECompress(bytes) ==
    LET runs[n \in 0 .. Len(bytes)] ==
            IF n = 0 THEN <<>> ELSE AddByte(runs[n - 1], bytes[n])
    IN  runs[Len(bytes)]

JoinRuns_Apart(runs, page) == runs \o page

\* One step of printOutput: when the last run written so far and the first
\* run of the next page have the same character, the two become one run.
JoinRuns(runs, page) ==
    IF runs # <<>> /\ page # <<>> /\ Last(runs).char = Head(page).char
    THEN Front(runs)
           \o <<Run(Last(runs).count + Head(page).count, Head(page).char)>>
           \o Tail(page)
    ELSE runs \o page

\* printOutput: the pages in order, joined at their boundaries.
JoinPages(pages) ==
    LET runs[n \in 0 .. Len(pages)] ==
            IF n = 0 THEN <<>> ELSE JoinRuns(runs[n - 1], pages[n])
    IN  runs[Len(pages)]

-----------------------------------------------------------------------------
(* The reference.                                                          *)

\* What wunzip makes of a run, and of all of them: each character, count
\* times.
Stretch(r) == [i \in 1..r.count |-> r.char]

Expand(runs) == FlattenSeq([k \in 1..Len(runs) |-> Stretch(runs[k])])

\* The runs are the run-length compression of the bytes: they expand to them
\* and no two neighbours could have been one run.
IsRunLengthOf(runs, bytes) ==
    /\ Expand(runs) = bytes
    /\ \A k \in 1..Len(runs) : runs[k].count > 0
    /\ \A k \in 1..Len(runs) - 1 : runs[k].char # runs[k + 1].char

==========================================================================
