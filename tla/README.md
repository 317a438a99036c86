# A verification project for ostep-projects-finish

TLA+ models of the programs of this repository, the checks TLC makes of them on
small instances, and theorems about them that TLAPS proves for every instance.
The repository is a set of solutions to the projects of an operating-systems
course. Each is a small C program of its own; four of them are concurrent, and
these are where most of the work here goes.

Run `tlc -config X.cfg M` for the runs of the table below, and `tlapm M.tla`
for the modules with proofs: `SequenceLemmas`, `Pzip3Proofs`, `RoundTripProofs`,
`WServerProofs`, `RequestProofs`, `MapReduceProofs`, `WishProofs`, `XcheckerProofs`.

## The system: components, state, interactions, what is hard

| Component (under `src/`) | State | Operations | What is hard about it |
|---|---|---|---|
| parallel zip, `concurrency-pzip/wzip/pzip3.c` | circular queue of pages with head, tail and size; `isComplete`; pages per file; output array | producer: map a file, wait for room, put a page, signal; consumers: wait, take, compress, store; main: join, print | one mutex and two condition variables; flags written without the mutex; pages finish in any order |
| parallel zip with a list of chunks, `concurrency-pzip/wzip/pzip2.c` | list of chunks, its length and count, index of the next one, a finished flag | one thread builds the list; workers: claim, compress, test whether to return; main: join, print | the list is written without the mutex while the workers read it; the test of whether to return is two reads; calls whose results nobody looks at |
| parallel zip with four chunks, `concurrency-pzip/wzip/pzip.c` | one buffer of all bytes | append the files, cut in four, compress, join runs | strings that end at a byte 0; the size of the last chunk can be 0 or negative |
| sequential zip, `concurrency-pzip/wzip/wzip.c`, `initial-utilities/wzip/wzip.c` | the open run (byte, count) | read a byte, next file, write a run | runs over the ends of files; a file that cannot be opened after some were read |
| unzip, `initial-utilities/wunzip/wunzip.c` | none | read a record, print its byte so many times, next file | little by itself; it has to get back what each zip was given |
| web server pool, `concurrency-webserver/src_multi/wserver.c` | ring of descriptors (FIFO) or sorted array of requests (SFF), count | master: accept, wait for room, put, signal; workers: wait, take, serve, close | lost wakeups, a mutex held over a network read, order and stability of the sorted array |
| request handling, `src_multi/request.c`, `io_helper.c`, `io_helper.h` | the descriptors of the process, its children, a mapped file | parse, read headers, stat; static: open, map, write; dynamic: fork, exec, wait | clients that close early or send nothing; files that change between stat and the last write; wait returns any child; children inherit descriptors; NULL for a refused request; assertions that end the server |
| basic web server, `concurrency-webserver/src/wserver.c`, `request.c` | none of its own | accept, handle, close | the same with one thread |
| client and CGI program, `src_multi/wclient.c`, `spin.c` | the line being read | send, read and print header and body; write an answer | what counts as the end of an answer |
| MapReduce, `concurrency-mapreduce/mapreduce.c` | shared array of pairs and its count, partitions and their cursors | `MR_Emit` by mappers, sort into partitions, `get_next` by reducers | mappers share the array; order of phases; user code decides when Reduce returns |
| shell, `processes-shell/wish3.c` | search path, parsed parallel commands, redirections | parse, built-ins, fork, redirect, wait | state of one command leaking into the next; built-ins that run while the line is parsed |
| file system checker, `filesystems-checker/xchecker.c` | an image, a bitmap | nine checks | loops over blocks and directories at their bounds |
| reverse, `initial-reverse/reverse.c` | the bytes of the file, output streams | decide whether the names are of one file, reverse | the decision and the work are mixed in one loop; lines at both ends of a file |
| wcat, wgrep, `initial-utilities/` | - | plain sequential I/O | little |

The programs do not call each other, but for a client and the server, and for
wunzip, which reads what the zips write. Inside a program the components are
threads that share the state named above, under a mutex and two condition
variables (`pzip3`, `wserver`) or a mutex and joins (`mapreduce`). The web
server's pool calls the request handling: the FIFO worker reads the request
itself, with SFF the master does. The server forks CGI programs, which write to the
client themselves.

What makes each component correct:

* **zips**: what is printed expands to the input and no two neighbouring runs
  have the same byte; every page is compressed once, at its place; threads
  never all wait for each other; the process ends.
* **reverse**: the output has the lines in reverse order; the input is never lost.
* **unzip**: whatever zip has written a file, it prints the bytes that were zipped.
* **request handling**: a client gets the whole of what its request calls for,
  sees the end of it, and nothing of another connection's; wait finds a child;
  the server goes on whatever is asked for.
* **server pool**: an accepted connection is in one place at any time, gets the
  answer to its own request, and is closed after it; no wakeup is lost;
  connections leave the buffer in the order of the policy; each client that
  sends a request is answered.
* **MapReduce**: nothing emitted is lost; the phases do not overlap; each key
  is reduced in its own partition, with all its values in the order of emission.
* **shell**: each command runs with its own arguments and its own redirection;
  the shell waits for all it started.
* **file system checker**: an image passes if and only if it is consistent; every
  check ends, and reads nothing outside the image.

The full list of hazards, with the line at which each bites and the properties
that watch it, is `hazards` in `PROJECT.json`.

## Modules

| Module | Models | Notes |
|---|---|---|
| `RunLength` | `RLECompress` and the joining in `printOutput` of pzip3, a record of `wunzip` | pure operators and the reference `IsRunLengthOf` |
| `Compressor` | what a parallel compressor promises | abstract: take a piece, store it, print when all are stored, or fail |
| `Pzip3`, `MCPzip3` | `pzip3.c` | the core; implements `Compressor` |
| `Pzip3Proofs` | - | theorems about `Pzip3` |
| `Pzip2`, `MCPzip2` | `pzip2.c` | every store of the thread that builds the list is a step |
| `Pzip` | `pzip.c` | four threads that share nothing |
| `Wzip` | both versions of `wzip.c` | byte by byte |
| `Wunzip` | `wunzip.c` | record by record |
| `Reverse` | `reverse.c` | names are sequences of characters, several may link to one file |
| `RoundTrip`, `MCRoundTrip` | one of `Wzip`, `Pzip`, `Pzip2`, and then `Wunzip` with what it has written; `Reverse` twice | composition |
| `RoundTripProofs` | - | theorems about `Wzip`, `Pzip`, `Pzip2` and `Wunzip` |
| `RequestPool` | what the pool and its policy promise | abstract: bounded buffer, oldest first or smallest file first |
| `WServer`, `MCWServer` | `wserver.c` (multi-threaded) and what it needs of `request.c` | implements `RequestPool` |
| `WServerProofs` | - | theorems about `WServer` |
| `Request`, `MCRequest` | `request.c` and the workers' loop of `src_multi`, the server of `src/`, `wclient.c`, `readline`, `spin.c` | how an answer is produced and read |
| `RequestProofs` | - | theorems about `Request` |
| `MapReduce`, `MCMapReduce` | `mapreduce.c` | `Map` and `Reduce` are parameters |
| `MapReduceProofs` | - | theorems about `MapReduce` |
| `Wish`, `MCWish` | `wish3.c` | one action per kind of command, then forks, execs and waits |
| `WishProofs` | - | theorems about `Wish` |
| `FileSystem` | `fs.h`: an image, and the rules of the checker's README that make it consistent | pure operators |
| `Xchecker`, `MCXchecker` | `xchecker.c` | each check on its own, one inode or directory entry per step |
| `XcheckerProofs` | - | theorems about `Xchecker` |
| `SequenceLemmas` | - | lemmas about sequences that several proofs need: appending, the number of places, flattening; runs and their stretches; what compressing a page and joining pages computes |

Variables and actions have the names of the source where TLA+ allows. Each
definition's lines are in `map` in `PROJECT.json`.

**Steps.** A stretch of code that runs from lock to unlock is one action,
guarded by the mutex being free, because no other thread can see or change what
it touches in between. It is split where that argument fails:

* `Pzip3`: the producer's test for room and its put are two critical sections;
  the signal after the put, the write of `isComplete` and the last broadcast
  happen without the mutex; a consumer between its test of `isComplete` and its
  `pthread_cond_wait` holds the mutex, but `isComplete` can change under it.
  The only step boundary inside a critical section is therefore the consumer's
  `wait`, and `LockFree` says that no consumer is there. The consumer's outer
  loop test reads two variables without the mutex in one step; since `q_size`
  never grows after `isComplete` is set, reading them one after the other gives
  no outcome that a single read at the later moment does not give. A write of
  `isComplete` is taken to reach the consumers before the broadcast after it does.
* `Pzip2`: the thread that builds the list never takes the mutex, so each of its
  stores is a step of its own, and a worker's test of whether to return is two, one
  for each side of the `&&`. On a weakly ordered machine (the executables in the
  repository are for arm64) a chunk may reach the others later than the count that
  includes it, but not later than the `close` of the file: `arriving` holds the
  chunks that are under way. Claiming is one step, as it is all done with the mutex
  held, and so is compressing a chunk, which no one else touches.
* `Wzip`, `Pzip`, `Wunzip`, `Reverse` have one thread that matters: a byte, a chunk,
  a record, a turn of main's loop or a call of `reverse` is a step. What a stream
  that is never closed holds is written by the step that exits (`ExitReverse`).
* `WServer`: with SFF the master's blocking read of the request is inside the
  critical section, so the master has a state of its own (`reading`) in which
  it keeps the mutex. `put_sff` appends the request, and each turn of its loop,
  which swaps two neighbours, is then a step (`MasterSort`) with the mutex held.
* `Request`: each call that another process or client can see, or that looks at a
  file, is a step: stat; open, mmap and the header; each page of the mapping; fork;
  exec; wait; close. How connections are queued is `WServer`'s subject: here a
  worker takes any one that waits. A file is a sequence of lines, each of them a
  page, so that it can change between two of them. The client reads line by line.
* `MapReduce`: `MR_Emit` is three steps (lock, store, count and unlock), with
  the mutex as a variable, because the property in question is that the mutex
  is what keeps two mappers apart.
* `Wish`: no child is alive while a line is parsed, so the handling of one
  command is one action. Once children are forked, each opens its target and
  becomes its program in one step, and writes and ends in another; the shell's
  forks and waits interleave with them. A child has a copy of the shell's
  memory, so it keeps what it needs of the lists in a record of its own. A
  file's content is the output that was last written to it.

**Condition variables.** A waiting thread is `asleep`; a signal moves one
sleeping thread (any one) to its test, a broadcast moves all; POSIX's spurious
wakeups are an action. A woken thread tests its condition again.

**Undefined behaviour.** The value malloc leaves in `pages_per_file` is a
choice from the constant `Garbage`. An access beyond an array or through a slot
nobody wrote ends the model in the status `undefined`, and what the properties say of
that differs:

* `Pzip3`: `ImplementsCompressor` forbids it, in the run and, if there is a slot of the
  output for every page (`PagesFit`) and malloc's memory is zero, for every instance.
* `Pzip2`: `AllOrNothing` lists what may bring it about: more files than `Allpaths` has
  slots, a first file that is missing, workers that all returned early, a chunk taken
  before it arrives.
* `Pzip`: `ZipsCompress` allows it only for an empty file, 1, 2 or 5 bytes in all, or a
  file that cannot be opened.
* `MapReduce`: `AllReduced` allows it only if there are more pairs than slots.
* `Wish`: an overflow of its lists (`Overflows`) ends the model; no property forbids
  it, as a line that is long enough brings it about.
* `Xchecker`: each check runs by itself, on images that the check before it may not have
  passed. `StaysInside` forbids it for standard images that obey what the check relies
  on; for other images the checks do read outside, and the model ends.

**Seeded faults.** A definition named `X_Something` just before `X` is a
variant of `X` with a plausible bug. No specification uses it; it is there to
show that a property does notice such a bug (`mutants` in `PROJECT.json`).

## Runs

| Run | What it shows | Instance |
|---|---|---|
| `roundtrip` | `Wzip`, `Pzip` and `Pzip2` write the compression of their files, at every moment for `Wzip`; `Wunzip` gives back what they were given; all chunks of `Pzip2` are compressed or none; `Pzip2` ends; `Reverse` reverses the lines, twice gives the original, and never empties an input that it is given as the output by the same name | `Wzip`: all files of up to 3 bytes over 2 values, up to two of these or unreadable ones; `Pzip`: the same and lengths up to 14; `Pzip2`: 3 workers, chunks of 2 bytes, 11 command lines, 3 kinds of memory; `Reverse`: all files of up to 3 bytes (4 without zeros) over 4 values, 14 command lines |
| `pzip2_early` (finding) | the workers of pzip2 may return before there is anything to do, and main prints what nobody has written | 2 workers, 1 file |
| `pzip3` | each page in one place, stored where it belongs, no slot written twice; the output is the compression of the input; no stall; implements `Compressor`, of which nothing undefined is a part; under fair scheduling every page gets stored | 3 consumers, queue of 2, pages of 2 bytes, six command lines, an output of 4 slots, as many as the longest has pages |
| `pzip3_hang` (finding) | the program may not end: a consumer misses the last broadcast | 2 consumers |
| `wserver` | one place per connection, right answers, no lost wakeup, crashes only for the causes listed (a client that has left, a request that SFF refuses, a file or program that cannot be served), implements `RequestPool`; every client that sends its request is answered if the others leave a thread to read it | 2 workers, 3 connections; FIFO with 1 and 2 slots, SFF with 2 and 3; 20 setups of requests |
| `request` | a client that closes has printed all it asked for up to an empty line; wait finds a child; every client gets to the end; the server ends only for the causes listed | 2 workers, 2 or 3 connections, 27 setups of schedule, files and requests; one change of a file |
| `request_wait` (finding) | a worker goes on because another connection's program has ended | 2 workers, 3 connections |
| `mapreduce` | nothing emitted is lost, each key reduced in its partition with all its values in order, MR_Run returns; arrays overflow only if there are more pairs than slots | up to 3 mappers, 2 reducers, 3 keys, 6 slots for pairs and 4 in a partition; 8 sets of files |
| `wish` | standard output arrives where its command says, standard error on the terminal; no file but a target of the line is touched, every line ends | sequences of up to 3 of 24 lines, 2 slots, 4 free descriptors |
| `wish_redirect` (finding) | a command gets the redirection of the command before it | the line `nosuch > f & ls` |
| `xchecker` | a check that returns was given an image that obeys its rule, one that exits was given one that breaks it; the walk over directories reports if and only if it can reach a reference to a free inode, and ends if and only if no directory leads to itself; nothing outside the image and its tables is touched if the rules a check relies on hold | 3 images of 18 blocks and 4 inodes, and all that differ from one of them in one field: 1026 images; bytes of the bitmap numbered up to 7 (`USHRT_MAX`) |
| `xchecker_subdirectory` (finding) | a consistent image with a subdirectory makes the walk overflow the stack | 2 consistent images |

**Why the bounds are enough.** `pzip3`: three consumers are enough for one to wait, one
to work and one to be woken; a file of four pages goes through the two-slot ring twice,
so that it is full, wraps, and empties, and fills the output to its last slot; the
inputs have runs over page and file ends, short last pages, and empty files at every
position. `roundtrip`: three workers let one return early, one compress and one look for
more; files of no, one, two and more chunks; runs that go on over chunks and files;
`Pzip`'s lengths leave from two bytes less than nothing to a whole chunk for the last
thread; the zero byte, which is also `Wzip`'s initial `last_read`, is among the bytes;
`Reverse` gets names that are equal, end alike, have one another's characters in
between, are too short, and name one file, and files with empty lines at either end and
zero bytes. `wserver`: with three connections the rings of one and two slots fill and
wrap and the master sleeps; SFF gets files of equal and of different sizes in every
order; which connection makes which request is fixed, as the connections come in any
order. `request`: two programs and two waits are enough for a worker to reap the other's
child, and a third connection is there to have inherited a descriptor of; a file has up
to three lines, so that it can be cut before the first, between, and after what was
sent. `mapreduce`: two mappers in `MR_Emit` at once, keys in and out of order, a key
that two files share, a partition with two keys and one with one, no file, an empty
file, arrays that are just filled and a pair too many. `wish`: each line is there for
one thing the shell can meet; three in a row let a mark, a changed directory or path, a
lost output or leaked descriptors of one line act on the next two; two slots are
exceeded by three commands. `xchecker`: one image has a file with an indirect block, one
a directory with an indirect block and a subdirectory, and one the same without the
subdirectory's entry for itself, so that the walk ends; the changes set types, sizes,
addresses, pointers, bits and entries to valid, boundary and invalid values, of the
addresses one that has no byte in the bitmap's block and one that is taken for a smaller
one there; no address is near `MaxAddress`. Six calls of the walk are more than there
are inodes, so that it meets the bound `MaxDepth` exactly if it goes in a circle.

**`Garbage`.** The runs of `Pzip3` take `Garbage = {0}`, as on a fresh heap, and the
theorems about pages have it as a hypothesis (`NoGarbage`), so the bad case of an empty
file's unset entry is not part of them. With `{0, 1}` in `MCPzip3.cfg` TLC finds
`StoredInPlace` violated within seven states (see below). Inputs without an empty file
do not need it.

**Fairness.** Every thread that can go on does (weak fairness); a thread that waits for
a mutex gets it if it is free again and again (strong fairness), because spurious
wakeups of other threads may take it in between for a while but not for ever. A client
that is going to send something does. Nothing makes a client connect, a file unreadable,
a thread wake up by itself, or a user's Reduce return early. `pzip2`'s threads never
wait for each other but for the mutex, which is free between any two steps, so weak
fairness is enough. The clients of `Request` read on, and its CGI programs end; nobody
has to change a file. CHECK_DEADLOCK is off everywhere because all the programs really
stop: the zips and MR_Run return, and the server waits for connections when no client is
left; the shell exits. In `wish` every program a child becomes ends by itself, and
nobody has to type a line.

## Findings

1. `pzip3.c:193`: `isComplete` is set and broadcast without the mutex. Both can
   fall between a consumer's test and its wait, and then that consumer, and the
   main thread that joins it, wait for ever. All pages are stored by then
   (`EveryPageGetsStored` holds), but nothing is printed.
2. `pzip2.c:172`: a worker returns if `index_cthread == listsize` and
   `handleFile_finish == 1`. Both sides of the first are 0 until the sizes of the
   files are known; a worker that has found them equal then, and reads the flag when
   the list is complete, returns at once. If all workers do, nothing is compressed
   and main prints results nobody has written.
3. `request.c:111`: `wait(NULL)` returns for any child. Of two workers with a program
   each, one may reap the other's, and close its own connection while its program
   still runs; the other has to wait for a program that is not its own.
4. `wish3.c:186`: the mark of a `>` goes into the slot of the next program that
   is found. If the command with the `>` is not run, the next command of the
   line writes into its target.
5. `xchecker.c:487`: `inode_check_9` follows the entry `.` of a subdirectory and
   calls itself for the same directory until the stack overflows. The image that
   comes with the program has no subdirectory.

Met on the way, and modelled as the code has it, but not runs of their own:

* **pzip3**: the `pages_per_file` entry of an empty file is never written
  (`pzip3.c:123`), and the positions of later files' pages are sums over it, so that
  with another value than 0 in it pages are stored at wrong places. A heap no one has
  used yet may well be zero.
* **pzip2**: nobody looks at what stat, open and mmap return. A first file that is not
  there has whatever size was on the stack, a later one the size of the file before
  it; `Allpaths` has 20 slots; the name of a file in a directory is appended to a
  block fresh from malloc, whatever that holds.
* **pzip**: what follows a byte 0 is lost; a file that cannot be opened adds the text
  `(null)`; with 1, 2 or 5 bytes in all the last chunk has a negative size and the
  program crashes, with 3, 6 or 9 it has none and a run of a zero byte is made up.
* **wzip**: one record of count 0 when there is no byte at all (`WriteLast`).
* **web server pool**: the SFF master reads from the network with the mutex held
  (`wserver.c:164`), so that one silent client stops the whole server
  (`EveryRequestIsServed` is about SFF only if every client sends, see
  `ThreadsToSpare`); `file_size` returns NULL for a request it refuses, and its
  callers dereference it (`CrashHasCause` of both modules); with SFF and one slot the
  master waits for `count == 0` to end, which nothing but itself could bring about; a
  client that closes after its request line makes `request_read_headers` read on for
  ever; a refused connection is never closed (`Refused`).
* **request handling**: a static file that is empty, or that only others than the
  server may read, ends the server, because an assertion follows open and mmap; so
  does one that becomes shorter before its first page is sent, while one that becomes
  shorter later gives a short answer without a word. A client of a static file may
  have to wait for other connections' programs, which hold copies of its descriptor.
* **client**: `readline` returns 0 for an empty line as for the end, so the client
  stops there and closes its connection, and the server, if it still writes, may die
  of SIGPIPE; a last line of one byte is lost, because the test for the end is
  `n == 1` (`io_helper.c:14`), where the comment says "EOF, no data read".
* **reverse**: the loop that compares names accepts any name that has the characters
  of the input's in that order (`a.txt` and `data.txt`), and refuses it, possibly
  after the work is done; the same file under two names is emptied. The test
  `tests/5.run`, a hard link, passes because `tests-out/5.in` happens to have the
  characters of `tests/5.in`, and empties that. An input that begins with an empty line and
  does not end with a newline loses a line if it is reversed twice.
* **MapReduce**: a Reduce that returns early is called again for its key
  (`AllReduced`); MR_Run ends the process if there are more files than mappers.
* **shell**: a child redirects its standard output only (`wish3.c:319-323`). The shell's
  README (`processes-shell/README.md:169-172`) wants standard error in the same file and
  nothing printed on the screen; in the code, and in `ProgramEnds` and `OutputArrives`,
  it is printed there. `cd` with two arguments and a lone `>` get no error message
  (`ChangeDirectory`, `Silent`); a blank before a `>` gives the program an additional
  empty parameter (`Words`); `exit 1 > f` leaves the shell's own output in `f` for
  good (`ExitWithArgument`); each redirected command costs the shell a descriptor
  (`leaked`), and when none are left redirections are ignored without a message;
  built-ins act while the line is parsed, so `ls & exit` never starts `ls`.
* **file system checker**: the checks of the bitmap, on an image whose addresses no one
  has checked, read and write past the bitmap's block, and take an address of 2^19 or
  more for a smaller one (`char_index` is a ushort, `xchecker.c:230` and `:314`), so
  that an image with a wrong address may pass (`NoneWraps`); checks 5 and 9 report and
  go on where the README wants an exit; check 3 looks neither at the type of inode 1 nor
  at the name of the entry (`Rule` leaves that to the other checks); check 2 also looks
  at inodes that are free; for a repeated address in an indirect block the message is
  chosen by the count of another one (line 446); `main` calls one check, and passes
  `my_mmap_read` a pointer it never sets.

## Proofs

The theorems hold for every value of the constants that the named assumptions
allow: any number of threads, capacity, page or array size, and any set of
inputs, files, requests or lines of the right shape. Each module's invariants
were first checked by TLC on a small instance. The theorems have the form
`Spec => []P`; an inductive invariant is shown to hold initially and to be kept
by each action in a lemma of its own.

**Parallel zip** (`Pzip3Proofs`). Assumptions: some consumers, a queue and pages of at
least one, `InputsAssumption`, `MemoryAssumption`.

* `TypeCorrect`: `Spec => []TypeOK`. TypeOK is not inductive. The
  producer puts its page in a critical section after the one that found room,
  so the invariant adds that there is room whenever it is at `put` (between the
  two only consumers touch the size, and they lower it); that the file and page
  it is at exist; and that buffer objects name files of the command line, so
  that the sums of `calculateOutputPosition` are over entries that exist.
* `NeverStalls`: `Spec => []NoStall`. The inductive invariant
  `StallInv` has three parts: while the producer sleeps some consumer is neither
  asleep nor about to be; while a consumer is about to sleep the queue is empty;
  and if all are one or the other, the queue is empty or holds the one page
  whose signal is still to be sent.
* `StoredWhereItBelongs`, `EveryPageInOnePlace`, `NoSlotIsWrittenTwice`:
  `StoredInPlace`, `EachPageOnce` and `SlotWrittenOnce`, if
  malloc's memory is zero. The invariant `PageInv` says that the queue, the
  consumers at work and the stored pages partition the pages put so far, that
  no slot of the ring and no two consumers hold the same page, that the head of
  the ring is `q_size` slots from its tail, and that the page counts of the
  files opened so far are right. Underneath are lemmas about the ring
  (`PutLemma`, `GetLemma`), about places (`PlaceIsUnique`: two pages never have
  the same one; `PositionIsPlace`: the code's sum finds it), the latter two by
  counting the pages of the files before.
* `ImplementsTheCompressor`: `ImplementsCompressor`, with the same
  condition and that the output array has a slot for every page (`PagesFit`; a
  store beyond it is undefined in the code and ends the model). Each action maps to
  a `Take`, a `Store` or a stutter of `Compressor`. Two things are needed beyond
  `PageInv`. `OutputInv`: `total_pages` counts the pages of the files opened so far,
  and a consumer leaves only when `isComplete` is set and the queue is empty, so that
  all is stored when all have left. And `EverySlotHasAPage`: the places of all pages are
  exactly the first `total_pages` slots, as an injection between two finite sets of
  the same size is onto.
* `PrintsTheCompressedInput`: `PrintedIsCompressed`, if malloc's memory is zero; the size
  of the output array does not matter here, as nothing is printed after a store beyond
  it. What is printed is `JoinPages` of the slots. A slot holds `RLECompress` of the page
  that has its place (`StoredInPlace`), which is the run-length compression of that
  page's bytes (`CompressIsRight` of `SequenceLemmas`). Joining such slots gives the
  compression of their bytes one after the other (`JoinPagesIsRight`): each join keeps
  that neighbouring runs have different characters and that the runs expand to the
  bytes (`JoinRunsLemma`, of which adding a byte to a page is a case). And the bytes of
  the pages by their places are the input: within a file a page begins where the one
  before it ends (`PageStartLemma`, `PagesSpellFile`), and the pages of a file follow
  those of the files before it (`PagesSpellFiles`).

**The other zips and wunzip** (`RoundTripProofs`). Assumptions: some workers, chunks of
at least one byte; a name that is no directory is one file; no zip is called without
files (`CommandsAssumption`), and what stands for a file that cannot be opened is neither
a sequence of bytes nor one of runs. Nothing is assumed of malloc's memory, of the sizes
stat leaves, or of which files can be read.

* `TypeCorrect`: the count never exceeds the room in the list, and no worker takes
  what has not been counted. For this the invariant (`Counted`) relates `listsize`
  and `count` to the sums of the chunks of the files before: both passes over the
  files must see the same sizes, also those that a failed stat leaves behind
  (`LastSize`), or the second would count further than the list reaches.
* `AllOrNothingIsTaken`: the argument is in `Taken`. A chunk below `index_cthread` has
  its result or is with a worker; and once one was taken, either all are, or some
  worker is still at claiming, compressing or the first half of its test, which it
  will find false. The property had the condition that all files can be read; the
  proof did not need it, so it is gone.
* `TheZipsCompress`: `ZipsCompress`, with one invariant for each zip.
  * pzip2 (`OutInv`): the chunks counted, in the order of the list, spell the files
    before the current one and the current one up to the current chunk (`Covered`); the
    result of each chunk is the compression of what the chunk holds (`ResultsRight`),
    although workers may finish in any order and see a chunk only some time after it is
    counted. What `output` makes of such results is `OutputOfIs`: after each
    run, what is written and the run held back are the compression of all so far,
    and a run is held back just between two chunks (`Before`, `After`).
  * pzip (`PzipInv`): the string that `main` builds has no more bytes than the files,
    and is their bytes if none is 0 (`AppendedIs`); if anything is left for the last
    chunk, the four chunks are not empty and together are the string (`ChunksAre`), and
    the first three can take more than there is only of 1, 2 or 5 bytes (`SeparateIs`);
    `datazip` compresses a chunk (`DatazipIs`); and joining neighbours at the three
    places where they meet gives what `JoinRuns` would (`AllJoinedIs`), of which
    that it does not matter where one begins (`JoinTail`) is a part.
  * wzip (`WzipInv`): what is written and the open run are the compression of what
    has been read, also when a byte is the first of a new file.
* `WhatIsUnzippedIsOriginal`: `UnzippedIsOriginal`. The text printed is what the
  earlier archives and the first records of this one hold (`UnzipPlace`); and what a zip
  has written does not change while wunzip reads it, because a zip that has
  ended takes no further step (`ZipsEnd`).
* `Pzip2IsRight`: the same for pzip2 run by itself, under its own `Spec`.

**Server pool** (`WServerProofs`). Assumptions: some workers; buffers of at least
one slot and requests as in `SetupType`; `None` is no connection.

* `TypeCorrect`: besides `TypeOK`, with SFF one slot always stays free, and the room
  the master found is still there when it puts (`RoomToPut`).
* `NoWakeupIsLost`: `WorkersAreWoken` says that if any worker sleeps, the workers on
  their way to the test, and the signal the master has still to send, are at least as
  many as the connections that wait; `MasterIsWoken` that the master sleeps only while
  there is no room. A signal wakes one, and this count is why one is enough.
* `EachConnectionInOnePlace`, `AnswersAreRight`, `CrashesHaveCauses`: `PlaceInv` says
  for each place who can be there, in what the connections that wait form one
  sequence whichever array they are in (the ring or the sorted array). Putting,
  swapping, taking and shifting are lemmas about this sequence. A worker that ends the
  process, because it opens, maps or forks in vain (`CannotServe`) or writes to a client
  that has left, leaves its connection where it was.
* `ImplementsThePool`: `ImplementsRequestPool`. The invariant `InOrder` says that of any
  two connections in the buffer the policy takes the first before the second; while
  `put_sff` still moves the one it has put, this one may have others before it that are
  only older than it. That one pass of swaps is enough follows: each iteration makes one
  more pair right, and a swap keeps right all pairs that were. `HoldsLast` says that the
  master has the connection it accepted last, so that what it puts is the newest. Each
  action maps to an `Arrive`, `Dispatch`, `Finish` or `Connect` of `RequestPool`, or to a
  stutter; the NULL of a refused request is nothing that waits there.

**Request handling** (`RequestProofs`). Assumptions: finitely many connections,
some workers, setups of the right shape, `None` no connection and no file.

* `TypeCorrect`, `AnswersAreWhole`, `CrashesHaveCauses`: the
  invariant `Inv` says what is known of each connection (`Known`) at each stage of
  its handling: what stat found is what the file was unless it has changed since,
  what is sent is a prefix of the answer, who has a descriptor, what its child has
  done, what its client has read. Files change under it; what depends on a file's
  content has the condition that this one did not.
* `WaitIsNeverVain`: there are as many children that nobody has waited for as workers
  at their `wait` (`ChildrenAreWaitedFor`). Since `wait` returns any child, it is not
  each worker's own; the proof counts both sets.

**MapReduce** (`MapReduceProofs`). Assumptions: keys are numbers, at least one
reducer, `partition` maps keys to partitions, any `Map` output, any array sizes.

* `EmittedPairsAreKept`: one mapper at most is inside (`OneHolder`); `Counted` and
  `Kept` say that what is in the array is what the mappers have emitted, less the
  one that is stored and not yet counted. The number of places with a value is
  the one lemmas of `SequenceLemmas` are about.
* `ValuesAreGivenOnce`, `EverythingIsReduced`: for each partition, `Partitioned` says
  that it holds the pairs of its keys, sorted by key and in the order of `all_data`
  within one; `Reduced` that the calls of Reduce have got what `get_next` has moved
  past; `Ahead` that the keys that are left are greater than the last call's.
* `TypeCorrect`: counters and cursors stay inside their arrays.

**Shell** (`WishProofs`). Assumptions: limits of at least one; `Lines` are sequences
of commands; the terminal is no file that a line can name.

* `OutputsArrive`: `Recorded` says that, while every command of the line so far has got
  a slot, the slots with a mark are those of the commands with a `>`, with their
  targets; `Children` that the output of a child that has run is where its slot says, or
  that of another child with the same target. Lines with a command that has got no slot
  are finding 4. Standard error comes to the terminal whatever the command says.
* `OthersAreLeftAlone`: an action property; each step that writes does so to a target
  of the line or to the shell's own output. `TypeCorrect`: no slot beyond the lists.

**File system checker** (`XcheckerProofs`). Assumptions: a layout as `LayoutAssumption`
has it, with the data blocks behind the bitmap, which is one block; images of the shape
of the structs of `fs.h` (`ImagesAssumption`), with any numbers in them, block numbers
up to some bound (`MaxAddress`); a stack for at least one call; a ushort that can number
the bytes of a block (`UshortAssumption`).

* `WhatIsAcceptedIsGood`, `WhatIsRejectedIsBad`: `AcceptsOnlyGood` and `RejectsOnlyBad`.
  `LoopInv` says for each loop what it has found of the inodes it has been over: that
  they obey the rule, and that messages, the copy of the bitmap and the counts are what
  these inodes have left in them. The bit that `bitmap_exist` looks at, and
  `bitmap_delete` clears, is that of the address only if the number of its byte fits
  a ushort (`OwnBit`), so what is said of these two checks has the condition that this is
  so for all addresses in use (`NoneWraps`); nothing of the kind is needed for rejecting,
  which supposes valid addresses. An inode is rejected for one of its addresses or for
  two that are the same, and two inodes for one that both have.
* `CountsStaySmall`: `TypeOK`. A count stays at 2 or less because an address that has
  been counted stops the loop before it is counted again.
* `NothingOutsideIsTouched`: `StaysInside`. If the image obeys the rules that the check
  relies on (`Supposed`), the blocks an inode in use names are data blocks
  (`UsedIsInside`), data blocks are in the image and have a bit in the bitmap's block
  (`DataIsSmall`), and each call of the walk is for a directory (`TopIsDirectory`), whose
  entries name inodes (`WalkInside`).
* `WalkReachesEverything`: `WalkIsComplete`, if the stack has room for as many calls as
  there are inodes; with less room, directories nested as deep as that would exhaust it
  without leading back. `WalkInv` says that each call on the stack was made for the
  entry before the one where its caller goes on (`Called`), and that all entries before
  are `Handled`: what they refer to is free and has been reported, or is a directory
  and the walk has been over all that can be reached from it (`WalkedFrom`). When the
  last entry is done the directory itself is `WalkedFrom`: that needs that it does not
  lead to itself, and if it did, so would one of its subdirectories (`ReachBack`), which
  are handled. If the stack is full, one inode is on it twice, by the pigeon-hole
  principle, and what is higher can be reached from what is below (`HigherIsReached`).
  Underneath are lemmas about `ReachedFrom`: that `ninodes` rounds reach all there is
  (`ReachClosed`), and nothing else (`ReachLeast`).

**Lemmas** (`SequenceLemmas`). Values of a key, files in directories
and joined outputs are built by flattening sequences. What flattening does to an appended
element, to a prefix and to the length is proved by induction, in the form that a
non-empty set of numbers has a least element (the library's induction theorems take
an operator as a parameter, which the provers cannot instantiate). The loops of
`RLECompress` and `printOutput` are recursive functions, and what they compute is
proved in the same form.

**What proving changed.** Two `CASE` expressions (`Status` of `WServer`, the answer in
`AnswerIsWhole` of `Request`) had arms that overlap; TLC takes the first, a proof may
not, and they are disjoint now. `WServer` sorted in one step; it now swaps as
`put_sff` does. Where `SelectSeq` and folds were, of which the provers know nothing,
sequences are built with functions and `FlattenSeq`, and `RLECompress` and `JoinPages`
are recursive functions, and so are the loops of `Pzip` and `Pzip2`. For the same reason
`RequestPool` has a set of connections that wait and the order in which they were made,
where it had a sequence. Assumptions that were tacit are stated (`ArgsAssumption`,
`LinesAssumption`, `TerminalAssumption`, `NoneAssumption`, `ImagesAssumption`,
`UshortAssumption`). So is, in `Standard` of `Xchecker`, that the
bitmap of an image the operating system leaves marks nothing beyond the last block;
check 6 rejects images that obey its rule but have such marks.

**Only model-checked.** Liveness (`EveryPageGetsStored`, `EveryRequestIsServed`,
`EveryClientSeesTheEnd`, `EveryLineEnds` and `Terminates` under fairness): the provers
know nothing of `ENABLED`, so weak and strong fairness cannot be used. What `RoundTrip`
says of `reverse` (`ReversedTwiceIsOriginal`): its lists of lines are computed by folds,
which the provers cannot unfold.

## Not modelled

* In modelled components: reported write errors; sizes of command lines, request
  lines and names; the `int` sizes of pzip3's output for inputs of 2 GB and more;
  what a write beyond a block from malloc does to others in pzip (its model ends
  there); the order of bytes that a program and the server write to one connection;
  methods of HTTP other than GET in `Request` (they are in `WServer`); what the file
  system checker reads outside the image, the inode table or the bitmap's block (its
  model ends there), and block numbers of 2^23 and more, whose offset in bytes wraps in
  `rsect`; what programs under the shell write to standard error beyond that they may.
* `wish.c` and `wish2.c` are earlier versions of `wish3.c`, superseded by it, whose
  command loop they share.
* `wcat.c` and `wgrep.c` read lines and write them, with no state but the line
  read; there is little in them that a test would hardly reach.
* Texts of assignments and test scripts contain nothing to model.

## Plan

In this order, the most important first:

1. done: `RunLength`, `Wzip`, `Compressor`, `Pzip3` and its theorems,
   `RequestPool`, `WServer`, `MapReduce`, `Wish`, `FileSystem`, `Xchecker`.
2. done: `Pzip2`, `Pzip`, `Wunzip`, `Reverse`, `RoundTrip`; `Request` with the client,
   the CGI program and the basic server; the limits of `MapReduce`'s arrays.
3. done: proofs of the safety invariants of `Pzip3`, `Pzip2`, `WServer`, `Request`,
   `MapReduce`, `Wish` and `Xchecker`.
4. done: the proofs that `Pzip3` implements `Compressor` and `WServer` implements
   `RequestPool`.
5. done: what compressing a page and joining pages computes, for all bytes, and with it
   `PrintedIsCompressed` of `Pzip3`.
6. done: the same for `Pzip2`, `Pzip` and `Wzip`, and that `Wunzip` inverts them.
7. left: what `Reverse` computes, whose loops would have to be recursive functions, too.
