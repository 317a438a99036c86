------------------------------- MODULE Pzip2 -------------------------------
(***************************************************************************)
(* concurrency-pzip/wzip/pzip2.c: a parallel zip.  One thread maps the     *)
(* files and appends their chunks to a list, others take chunks off the    *)
(* list with a mutex held and compress them, and main joins the runs of    *)
(* neighbouring chunks when all threads have returned.                     *)
(*                                                                         *)
(* The thread that builds the list never takes the mutex: the list, its    *)
(* length and the flag that says it is complete are written while the      *)
(* others read them.  So each of its stores is a step, and a worker's test *)
(* of whether to return is two, one on each side of the "&&".  On a weakly *)
(* ordered machine (the executable beside the source is for arm64) a chunk *)
(* may reach the other threads after the count that includes it, though    *)
(* not after the system call that follows.  Workers do not wait, they      *)
(* spin.                                                                   *)
(***************************************************************************)
EXTENDS RunLength, FiniteSets

CONSTANTS Workers,       \* the NUM_THREADS threads that run compressText
          Commands,      \* command lines, see ArgType
          Memories,      \* what memory nobody has written may hold
          BUFFER_SIZE,   \* bytes of a chunk
          MaxPaths,      \* slots of Allpaths
          NoChunk        \* a slot of the list that has not been filled

\* A file can be mapped, or it cannot be opened for writing, or stat fails.
FileType == [content : Seq(Nat), access : {"ok", "locked", "missing"}]

\* An argument: a file, or a directory as readdir lists it.
ArgType == [dir : BOOLEAN, entries : Seq([regular : BOOLEAN, file : FileType])]

\* clean: a fresh block from malloc starts with a zero byte.
\* size:  st_size of the struct stat on the stack of handleFile.
\* in_order: other threads see stores in the order they are made.
MemoryType == [clean : BOOLEAN, size : Nat, in_order : BOOLEAN]

ASSUME WorkersAssumption == IsFiniteSet(Workers) /\ Workers # {}
ASSUME SizesAssumption == BUFFER_SIZE \in Nat \ {0} /\ MaxPaths \in Nat

ASSUME ArgsAssumption ==
    /\ Commands \subseteq Seq({a \in ArgType : ~a.dir => Len(a.entries) = 1})
    /\ Memories \subseteq MemoryType

VARIABLES
    args, memory,
    Allpaths,                \* the files main has found, in order
    hpc, file, chunk, size,  \* handleFile: where it is, the file and the
                             \* chunk it is at, and st.st_size
    listsize,                \* chunks there will be
    bufferlist, count,       \* the list, and how many chunks are on it
    arriving,                \* chunks on it that others do not see yet
    handleFile_finish,
    index_cthread,           \* the next chunk to take
    wpc, do_index,           \* workers: where each is, the chunk it has
    result,                  \* the runs of each chunk
    printed,                 \* what output has written
    status

hvars == <<hpc, file, chunk, size>>
list == <<listsize, bufferlist, count, arriving, handleFile_finish>>
work == <<index_cthread, wpc, do_index, result>>
vars == <<args, memory, Allpaths, hvars, list, work, printed, status>>

-----------------------------------------------------------------------------
(* Files and chunks.  Definitions whose name ends in _Something are        *)
(* variants with a seeded fault that the specification does not use.       *)

\* The name of a file in a directory is appended to whatever malloc's block
\* holds; if that is not an empty string, the name is of no file.
Found(f) == IF memory.clean THEN f ELSE [f EXCEPT !.access = "missing"]

FoundIn(a) ==
    IF ~a.dir THEN <<a.entries[1].file>>
    ELSE FlattenSeq([n \in 1 .. Len(a.entries) |->
                        IF a.entries[n].regular
                        THEN <<Found(a.entries[n].file)>> ELSE <<>>])

PathsOf(as) == FlattenSeq([n \in 1 .. Len(as) |-> FoundIn(as[n])])

\* st_size after stat of a file: it keeps its value if stat fails.
Stat(f) == IF f.access = "missing" THEN size ELSE Len(f.content)

NumOfBuffer(bytes) ==
    bytes \div BUFFER_SIZE + IF bytes % BUFFER_SIZE > 0 THEN 1 ELSE 0

\* The bytes of a chunk, the last one of a file being shorter.
Bytes(c) ==
    SubSeq(Allpaths[c.file].content, c.chunk * BUFFER_SIZE + 1,
           IF (c.chunk + 1) * BUFFER_SIZE < Len(Allpaths[c.file].content)
           THEN (c.chunk + 1) * BUFFER_SIZE
           ELSE Len(Allpaths[c.file].content))

\* compress: the run that is open is written when another byte comes, and
\* after the last byte.
CompressByte(s, c) ==
    IF c = s.current_char THEN [s EXCEPT !.char_count = @ + 1]
    ELSE [result |-> IF s.char_count > 0
                     THEN Append(s.result, Run(s.char_count, s.current_char))
                     ELSE s.result,
          char_count |-> 1, current_char |-> c]

compress(bytes) ==
    LET s[n \in 0 .. Len(bytes)] ==
            IF n = 0
            THEN [result |-> <<>>, char_count |-> 0, current_char |-> 0]
            ELSE CompressByte(s[n - 1], bytes[n])
        last == s[Len(bytes)]
    IN  Append(last.result, Run(last.char_count, last.current_char))

-----------------------------------------------------------------------------
(* output: the last run of every chunk but the last is held back, in       *)
(* num_temp and char_temp, until the next chunk shows whether it goes on.  *)

Emit(s, n, c) == [s EXCEPT !.out = Append(@, Run(n, c))]

OutputRun_Apart(s, i, j) ==             \* fault: runs are not joined
    Emit(s, result[i][j].count, result[i][j].char)

\* Run j of chunk i.
OutputRun(s, i, j) ==
    LET r == result[i][j]
        t == IF i > 0 /\ j = 1 /\ s.char_temp # r.char
             THEN [Emit(s, s.num_temp, s.char_temp) EXCEPT !.num_temp = 0]
             ELSE s
    IN  IF j = Len(result[i]) /\ i # listsize - 1
        THEN [t EXCEPT !.num_temp = @ + r.count, !.char_temp = r.char]
        ELSE IF t.char_temp = r.char
        THEN [Emit(t, r.count + t.num_temp, t.char_temp) EXCEPT !.num_temp = 0]
        ELSE Emit(t, r.count, r.char)

\* The runs of one chunk.
OutputChunk(s, i) ==
    LET runs[j \in 0 .. Len(result[i])] ==
            IF j = 0 THEN s ELSE OutputRun(runs[j - 1], i, j)
    IN  runs[Len(result[i])]

OutputOf ==
    LET chunks[i \in 0 .. listsize] ==
            IF i = 0 THEN [out |-> <<>>, num_temp |-> 0, char_temp |-> 0]
            ELSE OutputChunk(chunks[i - 1], i - 1)
    IN  chunks[listsize].out

-----------------------------------------------------------------------------
Init ==
    /\ args \in Commands /\ memory \in Memories
    /\ Allpaths = <<>>
    /\ hpc = "none" /\ file = 1 /\ chunk = 0 /\ size = memory.size
    /\ listsize = 0 /\ bufferlist = <<>> /\ count = 0
    /\ arriving = {}
    /\ handleFile_finish = FALSE
    /\ index_cthread = 0
    /\ wpc = [w \in Workers |-> "none"]
    /\ do_index = [w \in Workers |-> 0]
    /\ result = <<>>
    /\ printed = <<>>
    /\ status = "running"

\* main finds the files and starts the threads.  Allpaths is not grown.
Start ==
    /\ hpc = "none"
    /\ IF Len(PathsOf(args)) > MaxPaths
       THEN status' = "undefined" /\ UNCHANGED <<Allpaths, hpc, wpc>>
       ELSE /\ Allpaths' = PathsOf(args)
            /\ hpc' = "sizes"
            /\ wpc' = [w \in Workers |-> "claim"]
            /\ UNCHANGED status
    /\ UNCHANGED <<args, memory, file, chunk, size, list, index_cthread,
                   do_index, result, printed>>

(* The thread that runs handleFile.                                        *)

\* First it adds up how many chunks there will be, file after file.
SizeFile ==
    /\ hpc = "sizes" /\ file <= Len(Allpaths)
    /\ size' = Stat(Allpaths[file])
    /\ listsize' = listsize + NumOfBuffer(size')
    /\ file' = file + 1
    /\ UNCHANGED <<hpc, chunk, bufferlist, count, arriving, handleFile_finish,
                   result, status>>

bufferlist_init ==
    /\ hpc = "sizes" /\ file > Len(Allpaths)
    /\ bufferlist' = [n \in 0 .. listsize - 1 |-> NoChunk]
    /\ result' = [n \in 0 .. listsize - 1 |-> <<>>]
    /\ hpc' = "map" /\ file' = 1
    /\ UNCHANGED <<chunk, size, listsize, count, arriving, handleFile_finish,
                   status>>

\* Then it maps them, and makes their chunks.
MapFile ==
    /\ hpc = "map" /\ file <= Len(Allpaths)
    /\ size' = Stat(Allpaths[file])
    /\ chunk' = 0
    /\ hpc' = "store"
    /\ UNCHANGED <<file, list, result, status>>

\* The list is as long as the first pass has found: a chunk more is stored
\* beyond its end.
StoreChunk ==
    /\ hpc = "store" /\ chunk < NumOfBuffer(size)
    /\ IF count < listsize
       THEN /\ bufferlist' = [bufferlist EXCEPT ![count] =
                                 [file |-> file, chunk |-> chunk]]
            /\ arriving' = IF memory.in_order THEN {}
                                              ELSE arriving \cup {count}
            /\ hpc' = "count"
            /\ UNCHANGED status
       ELSE status' = "undefined" /\ UNCHANGED <<bufferlist, arriving, hpc>>
    /\ UNCHANGED <<file, chunk, size, listsize, count, handleFile_finish,
                   result>>

CountChunk ==
    /\ hpc = "count"
    /\ count' = count + 1
    /\ chunk' = chunk + 1
    /\ hpc' = "store"
    /\ UNCHANGED <<file, size, listsize, bufferlist, arriving,
                   handleFile_finish, result, status>>

\* The other threads get to see a chunk.
Arrive ==
    /\ \E n \in arriving : arriving' = arriving \ {n}
    /\ UNCHANGED <<hvars, listsize, bufferlist, count, handleFile_finish,
                   result, status>>

\* close of the file.
NextFile ==
    /\ hpc = "store" /\ chunk = NumOfBuffer(size)
    /\ arriving = {}
    /\ file' = file + 1
    /\ hpc' = "map"
    /\ UNCHANGED <<chunk, size, list, result, status>>

Finish ==
    /\ hpc = "map" /\ file > Len(Allpaths)
    /\ handleFile_finish' = TRUE
    /\ hpc' = "done"
    /\ UNCHANGED <<file, chunk, size, listsize, bufferlist, count, arriving,
                   result, status>>

handleFile ==
    /\ \/ SizeFile \/ bufferlist_init \/ MapFile \/ StoreChunk
       \/ CountChunk \/ Arrive \/ NextFile \/ Finish
    /\ UNCHANGED <<args, memory, Allpaths, index_cthread, wpc, do_index,
                   printed>>

(* A thread that runs compressText.                                        *)

Claim_Unlocked(w) ==                    \* fault: no mutex, a claim is lost
    /\ wpc[w] = "claim" /\ index_cthread < count
    /\ do_index' = [do_index EXCEPT ![w] = index_cthread]
    /\ index_cthread' \in {index_cthread + 1, index_cthread + 2}
    /\ wpc' = [wpc EXCEPT ![w] = "compress"]
    /\ UNCHANGED <<result, status>>

\* With the mutex held: take the next chunk, if there is one on the list.
Claim(w) ==
    /\ wpc[w] = "claim"
    /\ IF index_cthread < count
       THEN /\ do_index' = [do_index EXCEPT ![w] = index_cthread]
            /\ index_cthread' = index_cthread + 1
            /\ wpc' = [wpc EXCEPT ![w] = "compress"]
       ELSE /\ wpc' = [wpc EXCEPT ![w] = "test"]
            /\ UNCHANGED <<do_index, index_cthread>>
    /\ UNCHANGED <<result, status>>

\* Nothing has been mapped for a file that could not be opened: reading its
\* chunk ends the process.
Compress(w) ==
    /\ wpc[w] = "compress"
    /\ LET n == do_index[w]
           c == bufferlist[n]
       IN  IF n \notin arriving /\ Allpaths[c.file].access = "ok"
           THEN /\ result' = [result EXCEPT ![n] = compress(Bytes(c))]
                /\ wpc' = [wpc EXCEPT ![w] = "test"]
                /\ UNCHANGED status
           ELSE /\ status' = IF n \in arriving THEN "undefined" ELSE "crashed"
                /\ UNCHANGED <<result, wpc>>
    /\ UNCHANGED <<index_cthread, do_index>>

TestIndex_Count(w) ==                   \* fault: all counted, not all taken
    /\ wpc[w] = "test"
    /\ wpc' = [wpc EXCEPT ![w] = IF count = listsize THEN "finish"
                                                    ELSE "claim"]
    /\ UNCHANGED <<index_cthread, do_index, result, status>>

\* The first half of the test of whether to return.
TestIndex(w) ==
    /\ wpc[w] = "test"
    /\ wpc' = [wpc EXCEPT ![w] = IF index_cthread = listsize THEN "finish"
                                                            ELSE "claim"]
    /\ UNCHANGED <<index_cthread, do_index, result, status>>

\* The second half.
TestFinish(w) ==
    /\ wpc[w] = "finish"
    /\ wpc' = [wpc EXCEPT ![w] = IF handleFile_finish THEN "returned"
                                                     ELSE "claim"]
    /\ UNCHANGED <<index_cthread, do_index, result, status>>

compressText(w) ==
    /\ Claim(w) \/ Compress(w) \/ TestIndex(w) \/ TestFinish(w)
    /\ UNCHANGED <<args, memory, Allpaths, hvars, list, printed>>

\* main, when it has joined them all.  The runs of a chunk nobody has
\* compressed are what malloc left there.
output ==
    /\ hpc = "done" /\ \A w \in Workers : wpc[w] = "returned"
    /\ IF \E n \in 0 .. listsize - 1 : result[n] = <<>>
       THEN status' = "undefined" /\ UNCHANGED printed
       ELSE status' = "printed" /\ printed' = OutputOf
    /\ UNCHANGED <<args, memory, Allpaths, hvars, list, work>>

Next ==
    /\ status = "running"
    /\ \/ Start
       \/ handleFile
       \/ \E w \in Workers : compressText(w)
       \/ output

Spec == Init /\ [][Next]_vars

\* Every thread runs; the mutex is free between any two steps.
Fairness ==
    /\ WF_vars(status = "running" /\ output)
    /\ WF_vars(status = "running" /\ handleFile)
    /\ \A w \in Workers : WF_vars(status = "running" /\ compressText(w))

FairSpec == Spec /\ Fairness

-----------------------------------------------------------------------------
(* Properties.                                                             *)

Files == PathsOf(args)

AllReadable == \A n \in 1 .. Len(Files) : Files[n].access = "ok"

\* The bytes of the files that can be read.
Text(f) == IF f.access = "ok" THEN f.content ELSE <<>>

Everything == FlattenSeq([n \in 1 .. Len(Files) |-> Text(Files[n])])

Chunks == [file : 1 .. Len(Allpaths), chunk : Nat] \cup {NoChunk}

\* Every variable has its type; no more chunks are counted than the list has
\* room for, and none is taken that has not been counted.
TypeOK ==
    /\ args \in Commands /\ memory \in Memories
    /\ Allpaths \in {<<>>, Files}
    /\ hpc \in {"none", "sizes", "map", "store", "count", "done"}
    /\ file \in 1 .. Len(Allpaths) + 1 /\ chunk \in Nat /\ size \in Nat
    /\ listsize \in Nat
    /\ DOMAIN bufferlist \in {{}, 0 .. listsize - 1}
    /\ \A n \in DOMAIN bufferlist : bufferlist[n] \in Chunks
    /\ count \in 0 .. listsize
    /\ arriving \subseteq 0 .. count
    /\ handleFile_finish \in BOOLEAN
    /\ index_cthread \in 0 .. count
    /\ wpc \in [Workers -> {"none", "claim", "compress", "test", "finish",
                            "returned"}]
    /\ do_index \in [Workers -> 0 .. listsize]
    /\ DOMAIN result = DOMAIN bufferlist
    /\ status \in {"running", "printed", "undefined", "crashed"}

\* What is printed is the run-length compression of all the files that can be
\* read, whatever chunks their bytes were cut into and in which order these
\* were finished.
PrintedIsCompressed ==
    status = "printed" => IsRunLengthOf(printed, Everything)

\* All or nothing: when all workers have returned, every chunk has been
\* compressed, or no worker has taken any.  That is because a worker that has
\* had a chunk returns only when all are taken, and the others could only
\* return early before the first pass over the files.
\* Nothing but that, a file that cannot be read, a command line with more
\* files than Allpaths has slots, and a chunk that is taken before it arrives
\* makes the program fail.
AllOrNothing ==
    /\ (\A w \in Workers : wpc[w] = "returned") =>
           \/ \A n \in 0 .. listsize - 1 : result[n] # <<>>
           \/ index_cthread = 0
    /\ status = "crashed" => ~AllReadable
    /\ status = "undefined" => \/ Len(Files) > MaxPaths
                               \/ Files[1].access = "missing"
                               \/ index_cthread = 0
                               \/ \E w \in Workers :
                                      /\ wpc[w] = "compress"
                                      /\ do_index[w] \in arriving

\* If all files can be read, and all threads run, the program ends once it has
\* started them: no worker goes on looking for chunks when there are no more.
Terminates == (hpc # "none" /\ AllReadable) ~> (status # "running")

\* What the program is for: files that can be read are compressed.  A worker
\* that has compared index_cthread and listsize when both were 0, and is
\* delayed until the list is complete, returns at once; if all of them do,
\* main writes what nobody has compressed.
ReadableIsCompressed ==
    AllReadable /\ Len(Files) <= MaxPaths => status # "undefined"
=============================================================================
