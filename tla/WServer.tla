------------------------------ MODULE WServer ------------------------------
(***************************************************************************)
(* concurrency-webserver/src_multi/wserver.c: a master thread accepts      *)
(* connections and puts them into a buffer, a pool of worker threads takes *)
(* them out and serves them.  With schedule "FIFO" the buffer is a ring of *)
(* descriptors and the worker reads the request; with "SFF" the master     *)
(* reads the request (file_size in request.c), with the mutex held, and    *)
(* keeps the buffer sorted by file size.                                   *)
(*                                                                         *)
(* A critical section is one action, except for the SFF master's, which    *)
(* has the blocking read of the request inside and then sorts: the read    *)
(* and each iteration of the sort are steps of their own, during which     *)
(* the master holds the mutex.  What a request asks for is reduced to what *)
(* request_handle decides by; how the answer is produced is the subject of *)
(* another module.                                                         *)
(***************************************************************************)
EXTENDS Integers, Sequences, SequencesExt, FiniteSets

CONSTANTS Conns,         \* connections clients make, one request each
          Workers,       \* thread_num worker threads
          Setups,        \* command lines of the server and what its clients
                         \* ask for, see SetupType
          None           \* no connection

RequestType == [method : {"GET", "POST"},
                target : {"file", "program", "missing", "forbidden"},
                size   : Nat,
                works  : BOOLEAN,      \* the file can be opened, or the
                                       \* program be given a process
                client : {"sends",     \* sends it all and waits for the answer
                          "silent",    \* never sends anything
                          "closes",    \* closes after the request line
                          "leaves"}]   \* sends it all, then closes

SetupType == [schedule   : {"FIFO", "SFF"},
              buffer_num : Nat \ {0},            \* slots of the buffer
              request    : [Conns -> RequestType]]

ASSUME ThreadsAssumption == IsFiniteSet(Workers) /\ Workers # {}
ASSUME SetupsAssumption == Setups \subseteq SetupType
ASSUME NoneAssumption == None \notin Conns

VARIABLES
    setup,               \* the server's options and the clients' requests
    connected,           \* connections made, in the order they were made
    sent,                \* connections whose client has sent its request,
                         \* or what it sends of it before it closes
    accepted,            \* how many of connected the master has accepted
    mpc, conn_fd,        \* the master: where it is, the connection it holds
    buffer, fill, use,   \* the ring of the FIFO schedule
    infor_buf,           \* the sorted array of the SFF schedule
    place,               \* the loop variable of put_sff
    count,               \* how many connections wait in either
    wpc, tmp,            \* each worker: where it is, the one it serves
    answer,              \* the status line sent on each connection
    closed,              \* connections the server has closed
    crashed              \* the process has ended

clients == <<setup, connected, sent>>
ring == <<buffer, fill, use>>
sorted == <<infor_buf, place>>
vars == <<clients, accepted, mpc, conn_fd, ring, sorted, count, wpc, tmp,
          answer, closed, crashed>>

schedule == setup.schedule
buffer_num == setup.buffer_num
request == setup.request

Slots == 0 .. buffer_num - 1

-----------------------------------------------------------------------------
(* request.c: what the answer to a request is, in the order the code       *)
(* decides it: the method first, then whether the file is there, then      *)
(* whether it may be read or run.                                          *)

Status(r) ==
    IF r.method # "GET" THEN "501"
    ELSE IF r.target = "missing" THEN "404"
    ELSE IF r.target = "forbidden" THEN "403"
    ELSE "200"

\* request_read_headers reads lines until an empty one.  A client that
\* closes before it sent one makes readline return "" again and again.
ReadsForEver(r) == r.method = "GET" /\ r.client = "closes"

\* file_size returns NULL after it has answered an error itself.
file_size_fails(r) == Status(r) \in {"501", "404"}

\* What ends the process in the middle of a good answer: open_or_die of a file
\* that is there but not for the server to read, mmap_or_die of one with nothing
\* in it, or fork_or_die.
CannotServe(r) ==
    /\ Status(r) = "200"
    /\ \/ ~r.works
       \/ r.target = "file" /\ r.size = 0

\* Writing to a connection that its client has closed may raise SIGPIPE,
\* which ends the process.
MayDie(r) == r.client \in {"closes", "leaves"}

-----------------------------------------------------------------------------
(* The buffer.  A definition whose name ends in _Something is a variant    *)
(* with a seeded fault; the specification does not use it.  It shows that  *)
(* a property would notice such a fault.                                   *)

BufferFull_Never == FALSE               \* fault: put does not wait for room

\* The condition on which the master waits; SFF leaves one slot free.
BufferFull == IF schedule = "FIFO" THEN count = buffer_num
                                   ELSE count = buffer_num - 1

put(c) ==
    /\ buffer' = [buffer EXCEPT ![fill] = c]
    /\ fill' = (fill + 1) % buffer_num
    /\ count' = count + 1
    /\ UNCHANGED <<use, sorted>>

get_SameSlot(w) ==                      \* fault: use does not advance
    /\ tmp' = [tmp EXCEPT ![w] = buffer[use]]
    /\ count' = count - 1
    /\ UNCHANGED <<buffer, fill, use, sorted>>

get(w) ==
    /\ tmp' = [tmp EXCEPT ![w] = buffer[use]]
    /\ use' = (use + 1) % buffer_num
    /\ count' = count - 1
    /\ UNCHANGED <<buffer, fill, sorted>>

SizeOf(c) == request[c].size

SwapAt_NotStable(a, k) ==               \* fault: <= for <
    IF SizeOf(a[k]) <= SizeOf(a[k - 1])
    THEN [a EXCEPT ![k] = a[k - 1], ![k - 1] = a[k]]
    ELSE a

\* The body of the loop of put_sff.
SwapAt(a, k) ==
    IF SizeOf(a[k]) < SizeOf(a[k - 1])
    THEN [a EXCEPT ![k] = a[k - 1], ![k - 1] = a[k]]
    ELSE a

put_sff_FromEnd(c) ==                   \* fault: the loop starts too far
    /\ infor_buf' = [infor_buf EXCEPT ![count] = c]
    /\ count' = count + 1
    /\ place' = count + 1

\* put_sff up to its loop: append.  None stands for the NULL of a request that
\* file_size has refused.
put_sff(c) ==
    /\ infor_buf' = [infor_buf EXCEPT ![count] = c]
    /\ count' = count + 1
    /\ place' = count

get_sff_NoShift(w) ==                   \* fault: leaves the first one there
    /\ tmp' = [tmp EXCEPT ![w] = infor_buf[0]]
    /\ count' = count - 1
    /\ UNCHANGED <<ring, sorted>>

get_sff(w) ==
    /\ tmp' = [tmp EXCEPT ![w] = infor_buf[0]]
    /\ infor_buf' = [s \in Slots |-> IF s + 1 < count THEN infor_buf[s + 1]
                                                      ELSE infor_buf[s]]
    /\ count' = count - 1
    /\ UNCHANGED <<ring, place>>

\* The connections in the buffer, in the order they will be taken out.
Buffered ==
    IF schedule = "FIFO"
    THEN [n \in 1 .. count |-> buffer[(use + n - 1) % buffer_num]]
    ELSE [n \in 1 .. count |-> infor_buf[n - 1]]

(* The mutex and the condition variables.                                  *)

MutexFree == mpc \notin {"reading", "spinning", "sorting"}

Idle == {w \in Workers : wpc[w] = "asleep"}

SignalFull_Never == UNCHANGED wpc       \* fault: no signal

\* pthread_cond_signal(&full): one sleeping worker, if there is one.
SignalFull ==
    IF Idle = {} THEN UNCHANGED wpc
    ELSE \E w \in Idle : wpc' = [wpc EXCEPT ![w] = "test"]

SignalEmpty_Never == UNCHANGED mpc      \* fault: no signal

\* pthread_cond_signal(&empty): only the master ever waits there.
SignalEmpty == mpc' = IF mpc = "asleep" THEN "room" ELSE mpc

-----------------------------------------------------------------------------
Init ==
    /\ setup \in Setups
    /\ connected = <<>>
    /\ sent = {}
    /\ accepted = 0
    /\ mpc = "accept" /\ conn_fd = None
    /\ buffer = [s \in Slots |-> None] /\ fill = 0 /\ use = 0
    /\ infor_buf = [s \in Slots |-> None] /\ place = 0
    /\ count = 0
    /\ wpc = [w \in Workers |-> "test"]
    /\ tmp = [w \in Workers |-> None]
    /\ answer = [c \in Conns |-> "none"]
    /\ closed = {}
    /\ crashed = FALSE

(* The clients.                                                            *)

Connect(c) ==
    /\ c \notin ToSet(connected)
    /\ connected' = Append(connected, c)
    /\ UNCHANGED <<setup, sent, accepted, mpc, conn_fd, ring, sorted,
                   count, wpc, tmp, answer, closed, crashed>>

Send(c) ==
    /\ c \in ToSet(connected) \ sent
    /\ request[c].client # "silent"
    /\ sent' = sent \cup {c}
    /\ UNCHANGED <<setup, connected, accepted, mpc, conn_fd, ring,
                   sorted, count, wpc, tmp, answer, closed, crashed>>

(* The master thread.                                                      *)

Accept ==
    /\ mpc = "accept" /\ accepted < Len(connected)
    /\ accepted' = accepted + 1
    /\ conn_fd' = connected[accepted + 1]
    /\ mpc' = "room"
    /\ UNCHANGED <<clients, ring, sorted, count, wpc, tmp, answer, closed,
                   crashed>>

\* FIFO: wait for room, put the descriptor, signal.
MasterPut ==
    /\ schedule = "FIFO" /\ mpc = "room"
    /\ \/ /\ BufferFull
          /\ mpc' = "asleep"
          /\ UNCHANGED <<conn_fd, ring, sorted, count, wpc>>
       \/ /\ ~BufferFull
          /\ put(conn_fd)
          /\ SignalFull
          /\ mpc' = "accept" /\ conn_fd' = None
    /\ UNCHANGED <<clients, accepted, tmp, answer, closed, crashed>>

\* SFF: wait for room.
MasterRoom ==
    /\ schedule = "SFF" /\ mpc = "room"
    /\ mpc' = IF BufferFull THEN "asleep" ELSE "reading"
    /\ UNCHANGED <<clients, accepted, conn_fd, ring, sorted, count, wpc,
                   tmp, answer, closed, crashed>>

\* SFF: file_size reads the request and finds the size, or answers an error
\* and returns NULL; put_sff appends what it returns.
MasterRead ==
    /\ mpc = "reading" /\ conn_fd \in sent
    /\ LET r == request[conn_fd] IN
       \/ /\ ReadsForEver(r)
          /\ mpc' = "spinning"
          /\ UNCHANGED <<conn_fd, sorted, count, answer, crashed>>
       \/ /\ MayDie(r) /\ ~ReadsForEver(r) /\ file_size_fails(r)
          /\ crashed' = TRUE
          /\ UNCHANGED <<mpc, conn_fd, sorted, count, answer>>
       \/ /\ ~ReadsForEver(r)
          /\ IF file_size_fails(r)
             THEN /\ answer' = [answer EXCEPT ![conn_fd] = Status(r)]
                  /\ put_sff(None)
             ELSE /\ put_sff(conn_fd)
                  /\ UNCHANGED answer
          /\ mpc' = "sorting" /\ conn_fd' = None
          /\ UNCHANGED crashed
    /\ UNCHANGED <<clients, accepted, ring, wpc, tmp, closed>>

\* SFF: the loop of put_sff, which reads the sizes of two neighbours, one of
\* which may be NULL; then the signal, and the mutex is released.
MasterSort ==
    /\ mpc = "sorting"
    /\ \/ /\ place > 0
          /\ IF None \in {infor_buf[place], infor_buf[place - 1]}
             THEN crashed' = TRUE /\ UNCHANGED sorted
             ELSE /\ infor_buf' = SwapAt(infor_buf, place)
                  /\ place' = place - 1
                  /\ UNCHANGED crashed
          /\ UNCHANGED <<mpc, wpc>>
       \/ /\ place = 0
          /\ SignalFull
          /\ mpc' = "accept"
          /\ UNCHANGED <<sorted, crashed>>
    /\ UNCHANGED <<clients, accepted, conn_fd, ring, count, tmp, answer,
                   closed>>

(* The worker threads.                                                     *)

\* Wait until a connection is there, take it out, signal.
Take(w) ==
    /\ wpc[w] = "test" /\ MutexFree
    /\ \/ /\ count = 0
          /\ wpc' = [wpc EXCEPT ![w] = "asleep"]
          /\ UNCHANGED <<mpc, ring, sorted, count, tmp>>
       \/ /\ count # 0
          /\ IF schedule = "FIFO" THEN get(w) ELSE get_sff(w)
          /\ SignalEmpty
          /\ wpc' = [wpc EXCEPT ![w] = "serve"]
    /\ UNCHANGED <<clients, accepted, conn_fd, answer, closed, crashed>>

\* request_handle (which first reads the request) or request_handle_infor
\* (which has it, and dereferences what file_size returned).  The status of a
\* program's answer is written before the fork, that of a file after the file
\* has been mapped.
Serve(w) ==
    /\ wpc[w] = "serve"
    /\ \/ /\ tmp[w] = None
          /\ crashed' = TRUE
          /\ UNCHANGED <<wpc, answer>>
       \/ /\ tmp[w] \in sent
          /\ LET r == request[tmp[w]] IN
             \/ /\ schedule = "FIFO" /\ ReadsForEver(r)
                /\ wpc' = [wpc EXCEPT ![w] = "spinning"]
                /\ UNCHANGED <<answer, crashed>>
             \/ /\ MayDie(r) /\ ~ReadsForEver(r)
                /\ crashed' = TRUE
                /\ UNCHANGED <<wpc, answer>>
             \/ /\ CannotServe(r) /\ ~ReadsForEver(r)
                /\ crashed' = TRUE
                /\ IF r.target = "program"
                   THEN answer' = [answer EXCEPT ![tmp[w]] = Status(r)]
                   ELSE UNCHANGED answer
                /\ UNCHANGED wpc
             \/ /\ ~CannotServe(r) /\ ~ReadsForEver(r)
                /\ answer' = [answer EXCEPT ![tmp[w]] = Status(r)]
                /\ wpc' = [wpc EXCEPT ![w] = "close"]
                /\ UNCHANGED crashed
    /\ UNCHANGED <<clients, accepted, mpc, conn_fd, ring, sorted, count,
                   tmp, closed>>

Close(w) ==
    /\ wpc[w] = "close"
    /\ closed' = closed \cup {tmp[w]}
    /\ wpc' = [wpc EXCEPT ![w] = "test"]
    /\ tmp' = [tmp EXCEPT ![w] = None]
    /\ UNCHANGED <<clients, accepted, mpc, conn_fd, ring, sorted, count,
                   answer, crashed>>

\* POSIX lets a thread return from pthread_cond_wait without a signal.
SpuriousWakeup ==
    /\ \/ \E w \in Idle : wpc' = [wpc EXCEPT ![w] = "test"] /\ UNCHANGED mpc
       \/ mpc = "asleep" /\ mpc' = "room" /\ UNCHANGED wpc
    /\ UNCHANGED <<clients, accepted, conn_fd, ring, sorted, count, tmp,
                   answer, closed, crashed>>

Next ==
    /\ ~crashed
    /\ \/ \E c \in Conns : Connect(c) \/ Send(c)
       \/ Accept
       \/ MasterPut
       \/ MasterRoom
       \/ MasterRead
       \/ MasterSort
       \/ \E w \in Workers : Take(w) \/ Serve(w) \/ Close(w)
       \/ SpuriousWakeup

Spec == Init /\ [][Next]_vars

\* Threads that can run do; a thread that waits for the mutex gets it when it
\* is free again and again; a client that is going to send something does.
\* No client has to connect, and no thread has to wake up by itself.
Fairness ==
    /\ \A c \in Conns : WF_vars(~crashed /\ Send(c))
    /\ WF_vars(~crashed /\ (Accept \/ MasterRead \/ MasterSort))
    /\ SF_vars(~crashed /\ (MasterPut \/ MasterRoom))
    /\ \A w \in Workers : /\ SF_vars(~crashed /\ Take(w))
                          /\ WF_vars(~crashed /\ (Serve(w) \/ Close(w)))

FairSpec == Spec /\ Fairness

-----------------------------------------------------------------------------
(* Properties.                                                             *)

\* The connections the master has accepted.
Accepted == {connected[n] : n \in 1 .. accepted}

InBuffer == ToSet(Buffered) \ {None}

BeingServed == {tmp[w] : w \in Workers} \ {None}

Statuses == {"none", "200", "403", "404", "501"}

\* Every variable has its type; the indices of the ring stay inside it.
TypeOK ==
    /\ setup \in Setups
    /\ connected \in Seq(Conns)
    /\ sent \subseteq Conns
    /\ accepted \in 0 .. Len(connected)
    /\ mpc \in {"accept", "room", "asleep", "reading", "sorting", "spinning"}
    /\ conn_fd \in Conns \cup {None}
    /\ buffer \in [Slots -> Conns \cup {None}]
    /\ fill \in Slots /\ use \in Slots
    /\ infor_buf \in [Slots -> Conns \cup {None}] /\ place \in Slots
    /\ count \in 0 .. buffer_num
    /\ wpc \in [Workers -> {"test", "asleep", "serve", "close", "spinning"}]
    /\ tmp \in [Workers -> Conns \cup {None}]
    /\ answer \in [Conns -> Statuses]
    /\ closed \subseteq Conns
    /\ crashed \in BOOLEAN

\* With SFF: connections that file_size has answered with an error.  main goes
\* on without their descriptor, so nobody closes them.
Refused ==
    {c \in Conns : schedule = "SFF" /\ answer[c] # "none"
                      /\ file_size_fails(request[c])}

\* An accepted connection is in exactly one place: with the master, once in
\* the buffer, with one worker, closed, or refused by file_size.  None is
\* lost, overwritten in the buffer, served twice, or closed while it waits.
OnePlace ==
    \A c \in Conns :
        LET places == (IF conn_fd = c THEN 1 ELSE 0)
                      + Cardinality({n \in 1 .. count : Buffered[n] = c})
                      + Cardinality({w \in Workers : tmp[w] = c})
                      + (IF c \in closed THEN 1 ELSE 0)
                      + (IF c \in Refused THEN 1 ELSE 0)
        IN  places = IF c \in Accepted THEN 1 ELSE 0

\* A connection is answered only by the thread that has it, with the status
\* its own request calls for, and it is answered before it is closed.
AnswerIsRight ==
    \A c \in Conns :
        /\ answer[c] # "none" =>
               /\ answer[c] = Status(request[c])
               /\ c \notin InBuffer
        /\ c \in closed => answer[c] # "none"

\* No wakeup is lost: while a worker sleeps, at most as many connections wait
\* as there are workers on their way to the buffer, but for the one the master
\* will signal; and the master sleeps only while the buffer has no room.
NoLostWakeup ==
    /\ Idle # {} => count <= Cardinality({w \in Workers : wpc[w] = "test"})
                               + IF mpc = "sorting" THEN 1 ELSE 0
    /\ mpc = "asleep" =>
           count = IF schedule = "FIFO" THEN buffer_num ELSE buffer_num - 1

\* The server ends only for one of these: a client closed its connection before
\* the answer was written; with SFF, one asked for something file_size refuses,
\* and the NULL was used; or what one asked for is empty, or cannot be opened
\* or given a process.  Nothing threads do to each other's connections ends it.
CrashHasCause ==
    crashed =>
        \E c \in sent : \/ MayDie(request[c])
                        \/ schedule = "SFF" /\ file_size_fails(request[c])
                        \/ CannotServe(request[c])

\* The buffer and the schedule do what the README asks of them: a bounded
\* buffer from which a worker takes the oldest connection or the one for the
\* smallest file, and each connection is served by one worker and closed.
Pool == INSTANCE RequestPool WITH
    policy   <- schedule,
    capacity <- buffer_num,
    size     <- [c \in Conns |-> SizeOf(c)],
    waiting  <- InBuffer,
    serving  <- BeingServed,
    finished <- closed

ImplementsRequestPool == Pool!Spec

\* Fewer clients keep the server waiting than there are threads that may read
\* their requests to spare: with SFF it is the master who reads them.
ThreadsToSpare ==
    Cardinality({c \in Conns : request[c].client # "sends"})
        < IF schedule = "FIFO" THEN Cardinality(Workers) ELSE 1

\* A client that sends its request is answered and its connection closed,
\* whatever the other clients do, as long as they cannot occupy every thread
\* that serves requests, or the server ends (CrashHasCause says when): "when
\* one thread is blocked the other threads can continue to handle other
\* requests" (README, Part 1).
EveryRequestIsServed ==
    \A c \in Conns :
        (c \in ToSet(connected) /\ request[c].client = "sends"
            /\ ThreadsToSpare) ~> (c \in closed \/ crashed)
=============================================================================
