------------------------------- MODULE Pzip3 -------------------------------
(***************************************************************************)
(* concurrency-pzip/wzip/pzip3.c: the parallel zip with one producer       *)
(* thread, which maps the files and queues their pages, and consumer       *)
(* threads, which compress a page each and store the result at the page's  *)
(* position in the output array.  The main thread joins all of them and    *)
(* prints the array.                                                       *)
(*                                                                         *)
(* A stretch of code that runs with the mutex held from end to end is one  *)
(* action, whose guard is that nobody holds the mutex.  The producer       *)
(* writes isComplete and signals without the mutex, so those are steps of  *)
(* their own, and so is a consumer's pthread_cond_wait: between its test   *)
(* of isComplete and its going to sleep it holds the mutex, which does not *)
(* keep the producer from writing isComplete.                              *)
(***************************************************************************)
EXTENDS RunLength, FiniteSets

CONSTANTS Consumers,     \* the consumer threads (total_threads of them)
          q_capacity,    \* slots of the circular queue
          page_size,     \* bytes of a page
          OutSlots,      \* slots of the output array (main, 512000*2)
          Bytes,         \* the characters of the inputs
          Inputs,        \* command lines: each a sequence of files
          Garbage        \* what malloc may leave in a pages_per_file entry

ASSUME ConsumersAssumption == IsFiniteSet(Consumers) /\ Consumers # {}
ASSUME QueueAssumption == q_capacity \in Nat \ {0}
ASSUME PageAssumption == page_size \in Nat \ {0}
ASSUME InputsAssumption == Inputs \subseteq Seq(Seq(Bytes))
ASSUME MemoryAssumption == OutSlots \in Nat /\ Garbage \subseteq Nat

VARIABLES
    files,               \* the files named on the command line
    pages_per_file,      \* pages of each file, written by the producer
    total_pages,
    buf, q_head, q_tail, q_size,   \* the circular queue
    isComplete,          \* the producer has queued everything
    out,                 \* output array: the slots that have been written
    ppc, i, j,           \* the producer: where it is, file and page index
    cpc, temp,           \* each consumer: where it is, the page it holds
    status,              \* of the process: "running", "printed", "exit1",
                         \* or "undefined" after an access out of bounds
    printed              \* what printOutput wrote to the result

queue == <<buf, q_head, q_tail, q_size>>
producer == <<ppc, i, j>>
vars == <<files, pages_per_file, total_pages, queue, isComplete, out,
          producer, cpc, temp, status, printed>>

-----------------------------------------------------------------------------
(* Files and pages.  Files and pages are numbered from 0, as in the code.  *)

num_files == Len(files)
FileNumbers == 0 .. num_files - 1
FileSize(f) == Len(files[f + 1])

\* Pages of a file: its size over the page size, rounded up.
PagesIn(size) == (size \div page_size)
                     + (IF size % page_size # 0 THEN 1 ELSE 0)

\* Size of the last page of a file that is not empty.
LastPageSize(size) == IF size % page_size # 0 THEN size % page_size
                                              ELSE page_size

\* The buffer object the producer makes for page p of file f.
Buffer(f, p) ==
    [address          |-> p * page_size,
     file_number      |-> f,
     page_number      |-> p,
     last_page_size   |-> IF p = PagesIn(FileSize(f)) - 1
                          THEN LastPageSize(FileSize(f)) ELSE page_size]

\* The bytes of the mapping a buffer object stands for.
Contents(b) == SubSeq(files[b.file_number + 1],
                      b.address + 1, b.address + b.last_page_size)

OutputPosition_OfPage(b) == b.page_number   \* fault: forgets the files before

OutputPosition_FromOne(b) ==                \* fault: off by one
    1 + Cardinality(UNION {{f} \X (0 .. pages_per_file[f] - 1) :
                               f \in 0 .. b.file_number - 1}) + b.page_number

\* calculateOutputPosition: the pages of the files before the page's file,
\* as pages_per_file has them, and the pages before it in its own file.
\* (The sum of the entries is counted as the pairs of a file and one of its
\* pages.)
OutputPosition(b) ==
    Cardinality(UNION {{f} \X (0 .. pages_per_file[f] - 1) :
                           f \in 0 .. b.file_number - 1}) + b.page_number

NoPage == [address |-> 0, file_number |-> 0,
           page_number |-> 0, last_page_size |-> 0]

-----------------------------------------------------------------------------
(* The queue, the mutex and the condition variables.                       *)
(* A definition whose name ends in _Something is a variant with a seeded   *)
(* fault; the specification does not use it.  It shows that a property     *)
(* would notice such a fault.                                              *)

QueueFull_Never == FALSE                \* fault: put does not wait for room

QueueFull == q_size = q_capacity

put(b) ==
    /\ buf' = [buf EXCEPT ![q_head] = b]
    /\ q_head' = (q_head + 1) % q_capacity
    /\ q_size' = q_size + 1
    /\ UNCHANGED q_tail

get_SameSlot(c) ==                      \* fault: q_tail does not advance
    /\ temp' = [temp EXCEPT ![c] = buf[q_tail]]
    /\ q_size' = q_size - 1
    /\ UNCHANGED <<buf, q_head, q_tail>>

get(c) ==
    /\ temp' = [temp EXCEPT ![c] = buf[q_tail]]
    /\ q_tail' = (q_tail + 1) % q_capacity
    /\ q_size' = q_size - 1
    /\ UNCHANGED <<buf, q_head>>

LockFree_Always == TRUE                 \* fault: the mutex is not taken

\* Nobody holds the mutex.  The only step boundary inside a critical section
\* is the one of a consumer about to wait.
LockFree == \A c \in Consumers : cpc[c] # "wait"

SleepingOnFill == {c \in Consumers : cpc[c] = "asleep"}

\* pthread_cond_signal(&empty): only the producer ever waits there.  A woken
\* thread tests its condition again with the mutex.
SignalEmpty == ppc' = IF ppc = "asleep" THEN "check" ELSE ppc

\* pthread_cond_signal(&fill): one sleeping consumer, if there is one.
SignalFill ==
    IF SleepingOnFill = {} THEN UNCHANGED cpc
    ELSE \E c \in SleepingOnFill : cpc' = [cpc EXCEPT ![c] = "test"]

\* pthread_cond_broadcast(&fill)
BroadcastFill ==
    cpc' = [c \in Consumers |-> IF cpc[c] = "asleep" THEN "test" ELSE cpc[c]]

-----------------------------------------------------------------------------
Init ==
    /\ files \in Inputs
    /\ pages_per_file \in [FileNumbers -> Garbage]
    /\ total_pages = 0
    /\ buf = [s \in 0 .. q_capacity - 1 |-> NoPage]
    /\ q_head = 0 /\ q_tail = 0 /\ q_size = 0
    /\ isComplete = FALSE
    /\ out = <<>>
    /\ ppc = "open" /\ i = 0 /\ j = 0
    /\ cpc = [c \in Consumers |-> "test"]
    /\ temp = [c \in Consumers |-> NoPage]
    /\ status = "running"
    /\ printed = <<>>

(* The producer thread.                                                    *)

\* The next file is mapped and its pages counted; an empty one is skipped,
\* and its pages_per_file entry stays as it is.
OpenFile ==
    /\ ppc = "open" /\ i < num_files
    /\ LET pages == PagesIn(FileSize(i)) IN
       \/ /\ FileSize(i) = 0
          /\ i' = i + 1
          /\ UNCHANGED <<total_pages, pages_per_file, ppc, j>>
       \/ /\ FileSize(i) > 0
          /\ total_pages' = total_pages + pages
          /\ pages_per_file' = [pages_per_file EXCEPT ![i] = pages]
          /\ ppc' = "check" /\ j' = 0
          /\ UNCHANGED i
    /\ UNCHANGED <<files, queue, isComplete, out, cpc, temp, status, printed>>

\* open, fstat or mmap fails: exit(1) ends every thread of the process.
OpenFails ==
    /\ ppc = "open" /\ i < num_files
    /\ status' = "exit1"
    /\ UNCHANGED <<files, pages_per_file, total_pages, queue, isComplete,
                   out, producer, cpc, temp, printed>>

\* Wait until the queue has room: if it is full, wake every consumer and
\* sleep on empty.
CheckRoom ==
    /\ ppc = "check" /\ LockFree
    /\ \/ /\ QueueFull
          /\ BroadcastFill
          /\ ppc' = "asleep"
       \/ /\ ~QueueFull
          /\ ppc' = "put"
          /\ UNCHANGED cpc
    /\ UNCHANGED <<files, pages_per_file, total_pages, queue, isComplete,
                   out, i, j, temp, status, printed>>

PutPage ==
    /\ ppc = "put" /\ LockFree
    /\ put(Buffer(i, j))
    /\ ppc' = "signal"
    /\ UNCHANGED <<files, pages_per_file, total_pages, isComplete, out,
                   i, j, cpc, temp, status, printed>>

\* The signal for the page that was put, and on to the next page or file.
SignalPut ==
    /\ ppc = "signal"
    /\ SignalFill
    /\ IF j + 1 < PagesIn(FileSize(i))
       THEN ppc' = "check" /\ j' = j + 1 /\ UNCHANGED i
       ELSE ppc' = "open" /\ i' = i + 1 /\ j' = 0
    /\ UNCHANGED <<files, pages_per_file, total_pages, queue, isComplete,
                   out, temp, status, printed>>

\* isComplete = 1, without the mutex.
SetComplete ==
    /\ ppc = "open" /\ i = num_files
    /\ isComplete' = TRUE
    /\ ppc' = "broadcast"
    /\ UNCHANGED <<files, pages_per_file, total_pages, queue, out, i, j,
                   cpc, temp, status, printed>>

LastBroadcast ==
    /\ ppc = "broadcast"
    /\ BroadcastFill
    /\ ppc' = "done"
    /\ UNCHANGED <<files, pages_per_file, total_pages, queue, isComplete,
                   out, i, j, temp, status, printed>>

ProducerStep == OpenFile \/ CheckRoom \/ PutPage \/ SignalPut
                  \/ SetComplete \/ LastBroadcast

(* The consumer threads.                                                   *)

\* The test of the inner while, with the mutex held.  To wait (the mutex is
\* still held after this step), to return, or to take a page.
TestQueue(c) ==
    /\ cpc[c] = "test" /\ LockFree
    /\ \/ /\ q_size = 0 /\ ~isComplete
          /\ SignalEmpty
          /\ cpc' = [cpc EXCEPT ![c] = "wait"]
          /\ UNCHANGED <<queue, temp>>
       \/ /\ q_size = 0 /\ isComplete
          /\ cpc' = [cpc EXCEPT ![c] = "done"]
          /\ UNCHANGED <<queue, temp, ppc>>
       \/ /\ q_size # 0
          /\ get(c)
          /\ IF isComplete THEN UNCHANGED ppc ELSE SignalEmpty
          /\ cpc' = [cpc EXCEPT ![c] = "store"]
    /\ UNCHANGED <<files, pages_per_file, total_pages, isComplete, out,
                   i, j, status, printed>>

\* pthread_cond_wait(&fill, &lock): to sleep, and the mutex is released.
Wait(c) ==
    /\ cpc[c] = "wait"
    /\ cpc' = [cpc EXCEPT ![c] = "asleep"]
    /\ UNCHANGED <<files, pages_per_file, total_pages, queue, isComplete,
                   out, producer, temp, status, printed>>

\* out[position] = RLECompress(temp), without the mutex.  An index beyond the
\* array has no defined outcome.
StorePage(c) ==
    /\ cpc[c] = "store"
    /\ LET position == OutputPosition(temp[c]) IN
       \/ /\ position < OutSlots
          /\ out' = [s \in DOMAIN out \cup {position} |->
                        IF s = position THEN RLECompress(Contents(temp[c]))
                                        ELSE out[s]]
          /\ cpc' = [cpc EXCEPT ![c] = "loop"]
          /\ UNCHANGED status
       \/ /\ position >= OutSlots
          /\ status' = "undefined"
          /\ UNCHANGED <<out, cpc>>
    /\ UNCHANGED <<files, pages_per_file, total_pages, queue, isComplete,
                   producer, temp, printed>>

\* The test of the outer loop, without the mutex.
LoopTest(c) ==
    /\ cpc[c] = "loop"
    /\ cpc' = [cpc EXCEPT ![c] = IF isComplete /\ q_size = 0
                                 THEN "done" ELSE "test"]
    /\ UNCHANGED <<files, pages_per_file, total_pages, queue, isComplete,
                   out, producer, temp, status, printed>>

ConsumerStep(c) == TestQueue(c) \/ Wait(c) \/ StorePage(c) \/ LoopTest(c)

\* POSIX lets a thread return from pthread_cond_wait without a signal.
SpuriousWakeup ==
    /\ \/ \E c \in SleepingOnFill :
             cpc' = [cpc EXCEPT ![c] = "test"] /\ UNCHANGED ppc
       \/ ppc = "asleep" /\ ppc' = "check" /\ UNCHANGED cpc
    /\ UNCHANGED <<files, pages_per_file, total_pages, queue, isComplete,
                   out, i, j, temp, status, printed>>

(* The main thread: join all the threads, then printOutput.  A slot nobody *)
(* has written holds what malloc left there, and reading through its       *)
(* pointers has no defined outcome.                                        *)
PrintOutput ==
    /\ ppc = "done"
    /\ \A c \in Consumers : cpc[c] = "done"
    /\ \/ /\ 0 .. total_pages - 1 \subseteq DOMAIN out
          /\ printed' = JoinPages([n \in 1 .. total_pages |-> out[n - 1]])
          /\ status' = "printed"
       \/ /\ ~(0 .. total_pages - 1 \subseteq DOMAIN out)
          /\ status' = "undefined"
          /\ UNCHANGED printed
    /\ UNCHANGED <<files, pages_per_file, total_pages, queue, isComplete,
                   out, producer, cpc, temp>>

Next ==
    /\ status = "running"
    /\ \/ OpenFile
       \/ OpenFails
       \/ CheckRoom
       \/ PutPage
       \/ SignalPut
       \/ SetComplete
       \/ LastBroadcast
       \/ \E c \in Consumers : \/ TestQueue(c)
                               \/ Wait(c)
                               \/ StorePage(c)
                               \/ LoopTest(c)
       \/ SpuriousWakeup
       \/ PrintOutput

Spec == Init /\ [][Next]_vars

\* Every thread that can run does.  A thread that needs the mutex gets it if
\* the mutex is free again and again (strong fairness): spurious wakeups of
\* other threads must not keep it away for ever.  Nothing makes a file
\* unreadable or wakes a thread spuriously.
Fairness ==
    /\ SF_vars(status = "running" /\ ProducerStep)
    /\ \A c \in Consumers : SF_vars(status = "running" /\ ConsumerStep(c))
    /\ WF_vars(status = "running" /\ PrintOutput)

FairSpec == Spec /\ Fairness

-----------------------------------------------------------------------------
(* What the properties speak of: the pages of the input, numbered from 0   *)
(* in the order of the files on the command line.                          *)

PagesOf(f) == {Buffer(f, p) : p \in 0 .. PagesIn(FileSize(f)) - 1}

AllPages == UNION {PagesOf(f) : f \in FileNumbers}

\* The place of a page in the whole input.
PlaceOf(b) ==
    Cardinality(UNION {PagesOf(f) : f \in 0 .. b.file_number - 1})
        + b.page_number

\* The pages the producer has put on the queue so far: a file before the
\* current one, or a page before the current one, or the page whose signal
\* is still to be sent.
PutPages ==
    {b \in AllPages :
        \/ b.file_number < i
        \/ b.file_number = i /\ b.page_number < j
        \/ b.file_number = i /\ b.page_number = j /\ ppc = "signal"}

Queued == {buf[(q_tail + k) % q_capacity] : k \in 0 .. q_size - 1}

Working == {c \in Consumers : cpc[c] = "store"}

Held == {temp[c] : c \in Working}

StoredPages == {b \in AllPages : PlaceOf(b) \in DOMAIN out}

WholeInput == FlattenSeq(files)

-----------------------------------------------------------------------------
(* Properties.                                                             *)

ProducerPCs == {"open", "check", "asleep", "put", "signal", "broadcast",
                "done"}
ConsumerPCs == {"test", "wait", "asleep", "store", "loop", "done"}

PageRecord == [address : Nat, file_number : Nat,
               page_number : Nat, last_page_size : Nat]

\* Every variable has its type; in particular the indices of the circular
\* queue stay inside it and it never holds more than q_capacity pages.
TypeOK ==
    /\ files \in Inputs
    /\ pages_per_file \in [FileNumbers -> Nat]
    /\ total_pages \in Nat
    /\ buf \in [0 .. q_capacity - 1 -> PageRecord]
    /\ q_head \in 0 .. q_capacity - 1
    /\ q_tail \in 0 .. q_capacity - 1
    /\ q_size \in 0 .. q_capacity
    /\ isComplete \in BOOLEAN
    /\ DOMAIN out \subseteq 0 .. OutSlots - 1
    /\ ppc \in ProducerPCs
    /\ i \in 0 .. num_files
    /\ j \in Nat
    /\ cpc \in [Consumers -> ConsumerPCs]
    /\ temp \in [Consumers -> PageRecord]
    /\ status \in {"running", "printed", "exit1", "undefined"}

\* A page that was put is in exactly one place: on the queue, with one
\* consumer, or compressed in the output array.  Nothing else is anywhere.
EachPageOnce ==
    /\ Queued \cup Held \cup StoredPages = PutPages
    /\ Queued \cap Held = {}
    /\ (Queued \cup Held) \cap StoredPages = {}
    /\ Cardinality(Queued) = q_size
    /\ Cardinality(Held) = Cardinality(Working)

\* A slot of the output array that has been written holds the compressed
\* form of the page whose place in the input it is (calculateOutputPosition
\* finds that place whatever the order in which the consumers finish).
StoredInPlace ==
    \A position \in DOMAIN out :
        \E b \in AllPages :
            /\ PlaceOf(b) = position
            /\ out[position] = RLECompress(Contents(b))

\* What is printed is the run-length compression of the whole input: no run
\* is split where a page or a file ends, and nothing is lost or doubled.
PrintedIsCompressed ==
    status = "printed" => IsRunLengthOf(printed, WholeInput)

\* The threads do not all wait for each other while there is work: if every
\* consumer sleeps on fill then the producer does not sleep on empty, and the
\* queue is empty or the signal for its only page is still to come.
NoStall ==
    (\A c \in Consumers : cpc[c] = "asleep") =>
        /\ ppc # "asleep"
        /\ q_size = 0 \/ (q_size = 1 /\ ppc = "signal")

\* Slots that have been written keep what they hold.
KeepsWrittenSlots ==
    \A position \in DOMAIN out :
        position \in DOMAIN out' /\ out'[position] = out[position]

\* A slot of the output array is written at most once, so the threads never
\* race for one.
SlotWrittenOnce == [][KeepsWrittenSlots]_vars

\* The program implements the compressor: a page is taken by one consumer
\* and stored once, and printOutput runs only when every page is stored; it
\* never gets to an access out of bounds, or to a slot nobody has written.
Abstract == INSTANCE Compressor WITH
    Pieces <- [address : Nat, file_number : Nat,
               page_number : Nat, last_page_size : Nat],
    work   <- AllPages,
    taken  <- Held \cup StoredPages,
    stored <- StoredPages,
    phase  <- IF status = "exit1" THEN "failed" ELSE status

ImplementsCompressor == Abstract!Spec

\* Unless a file cannot be read, the producer gets all its pages queued and
\* all of them are compressed, however the threads are scheduled.
EveryPageGetsStored ==
    <>(status = "exit1" \/ (ppc = "done" /\ StoredPages = AllPages))

\* The program ends: "Wake-up all the sleeping consumer threads" after
\* isComplete is set is there so that no consumer waits for ever.
Terminates == <>(status # "running")
=============================================================================
