-------------------------------- MODULE Pzip --------------------------------
(***************************************************************************)
(* concurrency-pzip/wzip/pzip.c: the first parallel zip.  main appends     *)
(* all files to one buffer as strings, cuts it into four chunks of equal   *)
(* size, the last one taking what is left, and has a thread compress each; *)
(* then it joins the runs of neighbouring chunks.                          *)
(*                                                                         *)
(* A byte 0 ends a string, so what follows it in a file, or in a chunk, is *)
(* lost.  Blocks from malloc are taken to be filled with zeros and to have *)
(* room for the zero byte that ends a string, which the code never counts, *)
(* and files not to fill their last page.                                  *)
(***************************************************************************)
EXTENDS RunLength

CONSTANTS PzipInputs,    \* command lines: each a sequence of files
          Unreadable     \* in place of a file that open refuses

VARIABLES mmapped,       \* the files of the command line
          buffer,        \* all of them, as one string
          total_len,     \* the sum of their sizes
          data,          \* the chunks
          zipped,        \* their runs, once their threads have returned
          stream,        \* what has been written to a.z
          step           \* where main is, or how it ended

pvars == <<mmapped, buffer, total_len, data, zipped, stream, step>>

core_number == 4
Threads == 1 .. core_number

-----------------------------------------------------------------------------
(* Definitions whose name ends in _Something are variants with a seeded    *)
(* fault that the specification does not use.                              *)

\* The string that a stretch of bytes is: it ends before the first 0.
StringOf(bytes) ==
    IF \E n \in 1 .. Len(bytes) : bytes[n] = 0
    THEN SubSeq(bytes, 1, SelectInSeq(bytes, LAMBDA c : c = 0) - 1)
    ELSE bytes

\* What a NULL pointer is printed as.
NullText == <<40, 110, 117, 108, 108, 41>>

\* One turn of the two loops that map the files and append them.  A file that
\* open refuses leaves file_len as it was, and a NULL pointer.
AppendFile(s, f) ==
    LET len == IF f = Unreadable THEN s.file_len ELSE Len(f)
    IN  [file_len |-> len, total_len |-> s.total_len + len,
         buffer |-> s.buffer \o IF f = Unreadable THEN NullText
                                                  ELSE StringOf(f)]

\* Both loops, over all the files.
AllAppended ==
    LET s[n \in 0 .. Len(mmapped)] ==
            IF n = 0 THEN [file_len |-> 0, total_len |-> 0, buffer |-> <<>>]
            ELSE AppendFile(s[n - 1], mmapped[n])
    IN  s[Len(mmapped)]

\* seperate_len rounds up, so there may be nothing, or less, left for the last.
seperate_len == (total_len + core_number - 1) \div core_number
final_len == total_len - (core_number - 1) * seperate_len

\* strncpy of a chunk: at most so many bytes, and none after the end of the
\* string.
ChunkOf(t) ==
    LET from == (t - 1) * seperate_len
        len  == IF t < core_number THEN seperate_len ELSE final_len
    IN  SubSeq(buffer, from + 1,
               IF from + len < Len(buffer) THEN from + len ELSE Len(buffer))

\* datazip: a run is written when the next byte is another one, and after the
\* last byte.  If there is none, the byte before the chunk is taken for it,
\* which in front of a block from malloc is 0.
CompareBytes(s, c, next) ==
    IF c = next THEN [s EXCEPT !.count = @ + 1]
    ELSE [runs |-> Append(s.runs, Run(s.count, c)), count |-> 1]

datazip(bytes) ==
    IF bytes = <<>> THEN <<Run(1, 0)>>
    ELSE LET s[i \in 0 .. Len(bytes) - 1] ==
                 IF i = 0 THEN [runs |-> <<>>, count |-> 1]
                 ELSE CompareBytes(s[i - 1], bytes[i], bytes[i + 1])
             last == s[Len(bytes) - 1]
         IN  Append(last.runs, Run(last.count, bytes[Len(bytes)]))

JoinNext_KeepsRun(z, t) ==              \* fault: the run is written twice
    IF Last(z[t]).char = z[t + 1][1].char
    THEN [z EXCEPT ![t + 1][1].count = @ + Last(z[t]).count]
    ELSE z

\* A run that goes on in the next chunk is added to the first one there, and
\* no longer written with its own.
JoinNext(z, t) ==
    IF Last(z[t]).char = z[t + 1][1].char
    THEN [z EXCEPT ![t + 1][1].count = @ + Last(z[t]).count,
                   ![t] = Front(@)]
    ELSE z

\* At each of the core_number - 1 places where two chunks meet.
AllJoined == JoinNext(JoinNext(JoinNext(zipped, 1), 2), 3)

-----------------------------------------------------------------------------
PzipInit ==
    /\ mmapped \in PzipInputs
    /\ buffer = <<>> /\ total_len = 0
    /\ data = <<>>
    /\ zipped = [t \in Threads |-> <<>>]
    /\ stream = <<>>
    /\ step = "read"

\* main maps the files and appends them to the buffer.  An empty file cannot
\* be mapped, and reading it ends the process.  What is known of the sum and
\* the buffer ends if the first file cannot be opened, so that nothing has set
\* file_len, or if the strings do not fit.
ReadFiles ==
    /\ step = "read"
    /\ LET s == AllAppended
       IN  IF mmapped[1] = Unreadable \/ Len(s.buffer) > s.total_len
           THEN step' = "undefined" /\ UNCHANGED <<buffer, total_len>>
           ELSE IF \E n \in 1 .. Len(mmapped) : mmapped[n] = <<>>
           THEN step' = "crashed" /\ UNCHANGED <<buffer, total_len>>
           ELSE /\ buffer' = s.buffer
                /\ total_len' = s.total_len
                /\ step' = "cut"
    /\ UNCHANGED <<mmapped, data, zipped, stream>>

\* main cuts the buffer.  A negative size is one no malloc can satisfy, and
\* strncpy writes to the NULL it returns.
Cut ==
    /\ step = "cut"
    /\ IF final_len < 0
       THEN step' = "crashed" /\ UNCHANGED data
       ELSE data' = [t \in Threads |-> ChunkOf(t)] /\ step' = "zip"
    /\ UNCHANGED <<mmapped, buffer, total_len, zipped, stream>>

\* A thread compresses its chunk.
CompressChunk(t) ==
    /\ step = "zip" /\ zipped[t] = <<>>
    /\ zipped' = [zipped EXCEPT ![t] = datazip(data[t])]
    /\ UNCHANGED <<mmapped, buffer, total_len, data, stream, step>>

\* main joins the threads, then the runs, and writes them.
Write ==
    /\ step = "zip" /\ \A t \in Threads : zipped[t] # <<>>
    /\ stream' = FlattenSeq(AllJoined)
    /\ step' = "written"
    /\ UNCHANGED <<mmapped, buffer, total_len, data, zipped>>

PzipNext == ReadFiles \/ Cut \/ (\E t \in Threads : CompressChunk(t)) \/ Write

-----------------------------------------------------------------------------
(* Properties.                                                             *)

AllOpened == \A n \in 1 .. Len(mmapped) : mmapped[n] # Unreadable

\* What is written is the compression of the files, if all could be opened,
\* there are no bytes 0 in them and their bytes leave something for the last
\* chunk.  If they could, the program ends without writing anything only for
\* an empty file, or for so few bytes that the first three chunks take more
\* than there are.
PzipWritesWhatItRead ==
    AllOpened =>
        LET bytes == FlattenSeq(mmapped) IN
        /\ step = "written" /\ final_len > 0 /\ StringOf(bytes) = bytes
               => IsRunLengthOf(stream, bytes)
        /\ step \in {"crashed", "undefined"} =>
               \/ \E n \in 1 .. Len(mmapped) : mmapped[n] = <<>>
               \/ Len(bytes) \in {1, 2, 5}
=============================================================================
