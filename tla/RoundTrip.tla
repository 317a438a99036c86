----------------------------- MODULE RoundTrip -----------------------------
(***************************************************************************)
(* One of the zips of concurrency-pzip/wzip compresses some files, and     *)
(* wunzip is called with what it has written: the pipe that the test       *)
(* scripts of the repository have in mind, with a zip of one thread (Wzip) *)
(* and two that cut the files into pieces (Pzip and Pzip2).  Or reverse    *)
(* reverses a file, and is called again with what it has written.          *)
(***************************************************************************)
EXTENDS Pzip2

CONSTANTS WzipCommands,  \* command lines of wzip
          PzipCommands,  \* command lines of pzip
          CannotOpen,    \* in place of a file that cannot be opened
          ReverseCommands, \* the names reverse may be called with
          LinkOf, InputName, BackName, StdIn, StdOut,  \* see Reverse
          Contents

\* Called without files, the zips print how to call them and return.  None of
\* what they read or write can be taken for a file that cannot be opened.
ASSUME CommandsAssumption ==
    /\ WzipCommands \cup PzipCommands \subseteq Seq(Seq(Nat) \cup {CannotOpen})
    /\ <<>> \notin WzipCommands \cup PzipCommands
    /\ CannotOpen \notin Seq(Nat) \cup Seq([count : Nat, char : Nat])
    /\ <<>> \in Commands

VARIABLES
    program,                                     \* the zip that is called
    w_files, w_file, w_pos, last_read, w_count,  \* variables of Wzip
    written, w_status,
    mmapped, buffer, total_len, data, zipped,    \* variables of Pzip
    stream, step,
    archives, archive, record, text, unzipping,  \* variables of Wunzip
    original, content, argv, streams,            \* variables of Reverse
    r_count, j, reversing, after

NoFiles == <<>>

Sequential == INSTANCE Wzip WITH
    Inputs <- WzipCommands \cup {NoFiles}, files <- w_files, file <- w_file,
    pos <- w_pos, count <- w_count, status <- w_status

FourChunks == INSTANCE Pzip WITH
    PzipInputs <- PzipCommands \cup {NoFiles}, Unreadable <- CannotOpen

Unzip == INSTANCE Wunzip WITH NoArchive <- CannotOpen

Lines == INSTANCE Reverse WITH Absent <- CannotOpen, count <- r_count

wvars == <<w_files, w_file, w_pos, last_read, w_count, written, w_status>>
pvars == <<mmapped, buffer, total_len, data, zipped, stream, step>>
uvars == <<archives, archive, record, text, unzipping>>
rvars == <<original, content, argv, streams, r_count, j, reversing, after>>
allvars == <<program, wvars, pvars, vars, uvars, rvars>>

\* A zip that is not called has no files.
RoundTripInit ==
    /\ program \in {"wzip", "pzip", "pzip2", "reverse"}
    /\ w_files \in IF program = "wzip" THEN WzipCommands ELSE {NoFiles}
    /\ Sequential!Init
    /\ mmapped \in IF program = "pzip" THEN PzipCommands ELSE {NoFiles}
    /\ FourChunks!PzipInit
    /\ args \in IF program = "pzip2" THEN Commands \ {NoFiles} ELSE {NoFiles}
    /\ memory \in IF program = "pzip2" THEN Memories
                  ELSE {CHOOSE m \in Memories : TRUE}
    /\ Init
    /\ Unzip!UnzipInit
    /\ original \in IF program = "reverse" THEN Contents ELSE {<<>>}
    /\ Lines!ReverseInit

\* What the zip has written, when it has ended well.
ZipEndedWell ==
    CASE program = "wzip"  -> w_status = "done"
      [] program = "pzip"  -> step = "written"
      [] program = "pzip2" -> status = "printed"
      [] OTHER             -> FALSE

Zipped ==
    CASE program = "wzip"  -> written
      [] program = "pzip"  -> stream
      [] program = "pzip2" -> printed

\* wunzip is called with what the zip has written, or with it twice, or with
\* it and a file that is not there.
CallWunzip ==
    /\ ZipEndedWell
    /\ \E files \in { <<Zipped>>, <<Zipped, Zipped>>, <<Zipped, CannotOpen>> } :
          Unzip!Call(files)

\* reverse is called, and again with what it has written to a file.
CallReverse ==
    \/ /\ reversing = "waiting"
       /\ \E names \in ReverseCommands : Lines!CallReverse(names)
    \/ /\ reversing = "done" /\ Len(argv) = 2 /\ argv[2] # BackName
       /\ Lines!InputFile # Lines!OutputFile
       /\ Lines!CallReverse(<<argv[2], BackName>>)

RoundTripNext ==
    \/ /\ program = "wzip" /\ Sequential!Next
       /\ UNCHANGED <<program, pvars, vars, uvars, rvars>>
    \/ /\ program = "pzip" /\ FourChunks!PzipNext
       /\ UNCHANGED <<program, wvars, vars, uvars, rvars>>
    \/ /\ program = "pzip2" /\ Next
       /\ UNCHANGED <<program, wvars, pvars, uvars, rvars>>
    \/ /\ CallWunzip \/ Unzip!UnzipNext
       /\ UNCHANGED <<program, wvars, pvars, vars, rvars>>
    \/ /\ program = "reverse"
       /\ CallReverse \/ Lines!ReverseNext
       /\ UNCHANGED <<program, wvars, pvars, vars, uvars>>

RoundTripSpec == RoundTripInit /\ [][RoundTripNext]_allvars /\ Fairness

-----------------------------------------------------------------------------
(* Properties.                                                             *)

\* Each of the zips writes the compression of its files, with no run split or
\* joined where files and chunks meet.  At every moment wzip has written that
\* of what it has read, but for the run that is open; pzip does so if there is
\* no byte 0 and there are bytes for all four chunks; pzip2, if it has all the
\* chunks when it comes to write them.
ZipsCompress ==
    /\ Sequential!WrittenAndOpenRun
    /\ FourChunks!PzipWritesWhatItRead
    /\ PrintedIsCompressed

\* The bytes the zip was given, if it can be expected to give them back: pzip
\* loses what comes after a 0 and invents a run for an empty chunk.
Original ==
    CASE program = "wzip"  -> FlattenSeq(w_files)
      [] program = "pzip"  -> FlattenSeq(mmapped)
      [] program = "pzip2" -> Everything

Reliable ==
    program = "pzip" =>
        /\ FourChunks!AllOpened /\ FourChunks!final_len > 0
        /\ \A n \in 1 .. Len(Original) : Original[n] # 0

\* Whatever zip has written a file, wunzip prints the bytes that were zipped,
\* once for each time it is given the file: no run is lost, split or repeated
\* where chunks and files meet.  A file that cannot be opened ends it after
\* what came before.
UnzippedIsOriginal ==
    /\ unzipping = "done" /\ Reliable =>
           text = IF Len(archives) = 1 THEN Original ELSE Original \o Original
    /\ unzipping = "return1" /\ Reliable => text = Original

\* reverse puts the lines of its input into reverse order, and what it has
\* reversed twice is the original again, unless that begins with an empty line
\* and does not end with a newline: then the empty line comes to be the end.
ReversedTwiceIsOriginal ==
    /\ Lines!LinesAreReversed
    /\ reversing = "done" /\ Len(argv) = 2 /\ argv[2] = BackName
       /\ argv[1] # InputName
       /\ ~Lines!HasNul(original)
       /\ (original # <<>> /\ Head(original) = "nl" => Last(original) = "nl")
       => content[LinkOf[BackName]] = original
=============================================================================
