------------------------------ MODULE Request ------------------------------
(***************************************************************************)
(* concurrency-webserver: how the answer to a request is produced          *)
(* (src_multi/request.c), as the threads of the server run it, and read    *)
(* (src_multi/wclient.c).  A worker sends a file from the memory it has    *)
(* mapped it to, with the size that stat found; or it forks a process that *)
(* becomes a CGI program and writes to the client, and waits for a child.  *)
(* The server of src/ does the same with one thread.                       *)
(*                                                                         *)
(* Files change while the server runs.  A forked process has a copy of     *)
(* every descriptor the server has at that moment, and a client that reads *)
(* to the end of its connection waits until the last copy is closed.  The  *)
(* server waits for any child, not for its own.  The client takes an empty *)
(* line for the end, and then closes the connection.                       *)
(*                                                                         *)
(* How connections are queued is the subject of WServer: here a connection *)
(* waits in a set, and a worker takes any one.  Methods other than GET and *)
(* other clients are there, too.                                           *)
(***************************************************************************)
EXTENDS Integers, Sequences, FiniteSets

CONSTANTS Conns,         \* connections clients may make, one request each
          Workers,
          Files,
          Setups,        \* see SetupType
          MaxChanges,    \* how often a file may change
          None           \* no connection, no result of stat

\* A line is empty; or it is a single byte that nothing ends, which only the
\* last one may be; or neither.
LineType == {"text", "empty", "stub"}

\* A file has so many lines, each a page of memory.  The server may read and
\* run it; or its owner, who is somebody else, may; or not even the owner.  Run
\* as a program, it writes an answer and ends, or it is no program.
FileType == [there   : BOOLEAN,
             lines   : Seq(LineType),
             mode    : {"ok", "others", "forbidden"},
             program : BOOLEAN]

\* "one" is the server of src/, which has one thread.
SetupType == [schedule : {"FIFO", "SFF", "one"},
              made     : SUBSET Conns,        \* those that are ever made
              request  : [Conns -> [file : Files, is_static : BOOLEAN]],
              disk     : [Files -> FileType],
              volatile : SUBSET Files,        \* those that may change
              forks    : BOOLEAN]             \* fork never fails

ASSUME ThreadsAssumption ==
    IsFiniteSet(Conns) /\ IsFiniteSet(Workers) /\ Workers # {}
ASSUME SetupsAssumption == Setups \subseteq SetupType
ASSUME NoneAssumption ==
    None \notin Conns \cup FileType /\ MaxChanges \in Nat

VARIABLES
    setup,
    disk, changed,       \* the files, and how often they have changed
    accepted, queue,     \* connections accepted, and those that wait; None
                         \* in the queue is a NULL of file_size
    open,                \* connections the server has a descriptor of
    wpc, tmp,            \* each worker: where it is, the one it serves
    sbuf,                \* what stat has found for each connection
    answer,              \* what has been written to each connection
    client, shown,       \* each client: where it is, and how many lines of
                         \* the answer's body it has printed
    child, holds,        \* the process forked for each connection, and the
                         \* connections it has a descriptor of
    crashed

fs == <<disk, changed>>
conns == <<accepted, queue, open>>
threads == <<wpc, tmp>>
procs == <<child, holds>>
clients == <<client, shown>>
vars == <<setup, fs, conns, threads, sbuf, answer, clients, procs, crashed>>

\* The thread that there is, if there is one.
Main == CHOOSE w \in Workers : TRUE

FileOf(c) == setup.request[c].file
IsStatic(c) == setup.request[c].is_static

Empty == [status |-> "none", length |-> 0, body |-> <<>>, output |-> FALSE]

\* What request_error, or the first lines of a good answer, write.
Status(s, c) == [answer EXCEPT ![c].status = s]

Goto(w, pc) == wpc' = [wpc EXCEPT ![w] = pc]

-----------------------------------------------------------------------------
Init ==
    /\ setup \in Setups
    /\ disk = setup.disk /\ changed = [f \in Files |-> 0]
    /\ accepted = {} /\ queue = {} /\ open = {}
    /\ wpc = [w \in Workers |-> "idle"]
    /\ tmp = [w \in Workers |-> None]
    /\ sbuf = [c \in Conns |-> None]
    /\ answer = [c \in Conns |-> Empty]
    /\ client = [c \in Conns |-> "header"]
    /\ shown = [c \in Conns |-> 0]
    /\ child = [c \in Conns |-> "none"]
    /\ holds = [c \in Conns |-> {}]
    /\ crashed = FALSE

(* Definitions whose name ends in _Something are variants with a seeded    *)
(* fault that the specification does not use.                              *)

\* Somebody removes a file, or makes it longer or shorter in place.  Whoever
\* has mapped a file that is removed keeps its pages.
Change(f) ==
    /\ f \in setup.volatile /\ changed[f] < MaxChanges /\ disk[f].there
    /\ \/ disk' = [disk EXCEPT ![f].there = FALSE]
       \/ \E n \in 0 .. 2 :
             /\ n # Len(disk[f].lines)
             /\ disk' = [disk EXCEPT ![f].lines = [k \in 1 .. n |-> "text"]]
    /\ changed' = [changed EXCEPT ![f] = @ + 1]
    /\ UNCHANGED <<setup, conns, threads, sbuf, answer, clients, procs,
                   crashed>>

\* FIFO: the master queues the connection.
Accept(c) ==
    /\ setup.schedule = "FIFO" /\ c \in setup.made \ accepted
    /\ accepted' = accepted \cup {c}
    /\ queue' = queue \cup {c}
    /\ open' = open \cup {c}
    /\ UNCHANGED <<setup, fs, threads, sbuf, answer, clients, procs, crashed>>

\* The server of src/ handles a connection before it accepts the next.
AcceptAndHandle ==
    /\ setup.schedule = "one" /\ wpc[Main] = "idle"
    /\ \E c \in setup.made \ accepted :
          /\ accepted' = accepted \cup {c}
          /\ open' = open \cup {c}
          /\ tmp' = [tmp EXCEPT ![Main] = c]
    /\ Goto(Main, "stat")
    /\ UNCHANGED <<setup, fs, queue, sbuf, answer, clients, procs, crashed>>

\* SFF: the master reads the request and calls stat (file_size), and queues
\* what it returns; put_sff uses that if there is anything else in the queue.
AcceptSFF(c) ==
    /\ setup.schedule = "SFF" /\ c \in setup.made \ accepted
    /\ accepted' = accepted \cup {c}
    /\ open' = open \cup {c}
    /\ LET found == disk[FileOf(c)].there
           infor == IF found THEN c ELSE None
       IN  /\ IF found
              THEN /\ sbuf' = [sbuf EXCEPT ![c] = disk[FileOf(c)]]
                   /\ UNCHANGED answer
              ELSE /\ answer' = Status("404", c)
                   /\ UNCHANGED sbuf
           /\ queue' = queue \cup {infor}
           /\ crashed' = (queue # {} /\ None \in queue')
    /\ UNCHANGED <<setup, fs, threads, clients, procs>>

Decide_Unchecked(w, c, s) ==            \* fault: does not look at the mode
    Goto(w, IF IsStatic(c) THEN "open" ELSE "fork") /\ UNCHANGED answer

\* request_handle and request_handle_infor go on from what stat has found.
Decide(w, c, s) ==
    IF s.mode = "forbidden"
    THEN answer' = Status("403", c) /\ Goto(w, "close")
    ELSE Goto(w, IF IsStatic(c) THEN "open" ELSE "fork") /\ UNCHANGED answer

\* A worker takes a connection, or, with SFF, a request, and uses it.
Take(w) ==
    /\ wpc[w] = "idle"
    /\ \E c \in queue :
          /\ queue' = queue \ {c}
          /\ tmp' = [tmp EXCEPT ![w] = c]
          /\ IF c = None
             THEN crashed' = TRUE /\ UNCHANGED <<wpc, answer>>
             ELSE /\ IF setup.schedule = "SFF" THEN Decide(w, c, sbuf[c])
                     ELSE Goto(w, "stat") /\ UNCHANGED answer
                  /\ UNCHANGED crashed
    /\ UNCHANGED <<setup, fs, accepted, open, sbuf, clients, procs>>

\* FIFO: request_handle reads the request and calls stat.
Stat(w) ==
    /\ wpc[w] = "stat"
    /\ LET c == tmp[w]
           s == disk[FileOf(c)]
       IN  IF s.there
           THEN sbuf' = [sbuf EXCEPT ![c] = s] /\ Decide(w, c, s)
           ELSE /\ answer' = Status("404", c) /\ Goto(w, "close")
                /\ UNCHANGED sbuf
    /\ UNCHANGED <<setup, fs, conns, tmp, clients, procs, crashed>>

(* request_serve_static.                                                   *)

\* open_or_die, mmap_or_die, which refuses a length of 0, and the header.
OpenFile(w) ==
    /\ wpc[w] = "open"
    /\ LET c == tmp[w]
           f == disk[FileOf(c)]
           filesize == Len(sbuf[c].lines)
       IN  IF f.there /\ f.mode = "ok" /\ filesize > 0
           THEN /\ answer' = [answer EXCEPT ![c].status = "200",
                                            ![c].length = filesize]
                /\ Goto(w, "body")
                /\ UNCHANGED crashed
           ELSE crashed' = TRUE /\ UNCHANGED <<answer, wpc>>
    /\ UNCHANGED <<setup, fs, conns, tmp, sbuf, clients, procs>>

SendPage_First(w) ==                    \* fault: leaves after the first page
    /\ wpc[w] = "body"
    /\ LET c == tmp[w] IN
       answer' = [answer EXCEPT ![c].body = SubSeq(sbuf[c].lines, 1, 1)]
    /\ Goto(w, "close")
    /\ UNCHANGED <<setup, fs, conns, tmp, sbuf, clients, procs, crashed>>

\* write_or_die of the mapped pages, one after the other as the client makes
\* room for them.  If the file has become shorter than the mapping, write stops
\* at the first page that is not there: it fails if that is the first of all,
\* or else returns how much it has written, which nobody looks at.  A write to
\* a connection that the client has closed may end the process.
SendPage(w) ==
    /\ wpc[w] = "body"
    /\ LET c     == tmp[w]
           n     == Len(answer[c].body) + 1
           lines == disk[FileOf(c)].lines
       IN  \/ /\ n <= Len(lines)
              /\ answer' = [answer EXCEPT ![c].body = Append(@, lines[n])]
              /\ IF n = Len(sbuf[c].lines) THEN Goto(w, "close")
                                           ELSE UNCHANGED wpc
              /\ UNCHANGED crashed
           \/ /\ n > Len(lines) /\ n > 1
              /\ Goto(w, "close")
              /\ UNCHANGED <<answer, crashed>>
           \/ /\ n > Len(lines) /\ n = 1
              /\ crashed' = TRUE
              /\ UNCHANGED <<answer, wpc>>
           \/ /\ client[c] = "closed"
              /\ crashed' = TRUE
              /\ UNCHANGED <<answer, wpc>>
    /\ UNCHANGED <<setup, fs, conns, tmp, sbuf, clients, procs>>

(* request_serve_dynamic.                                                  *)

\* The header, and fork_or_die.
Fork(w) ==
    /\ wpc[w] = "fork"
    /\ answer' = Status("200", tmp[w])
    /\ \/ /\ child' = [child EXCEPT ![tmp[w]] = "forked"]
          /\ holds' = [holds EXCEPT ![tmp[w]] = open]
          /\ Goto(w, "wait")
          /\ UNCHANGED crashed
       \/ /\ ~setup.forks
          /\ crashed' = TRUE
          /\ UNCHANGED <<child, holds, wpc>>
    /\ UNCHANGED <<setup, fs, conns, tmp, sbuf, clients>>

\* The child becomes the program, or ends with a failed assertion.
Exec(c) ==
    /\ child[c] = "forked"
    /\ LET f == disk[FileOf(c)] IN
       IF f.there /\ f.mode = "ok" /\ f.program
       THEN child' = [child EXCEPT ![c] = "runs"] /\ UNCHANGED holds
       ELSE /\ child' = [child EXCEPT ![c] = "ended"]
            /\ holds' = [holds EXCEPT ![c] = {}]
    /\ UNCHANGED <<setup, fs, conns, threads, sbuf, answer, clients, crashed>>

\* The program writes its answer and exits.
ProgramEnds(c) ==
    /\ child[c] = "runs"
    /\ answer' = [answer EXCEPT ![c].output = TRUE]
    /\ child' = [child EXCEPT ![c] = "ended"]
    /\ holds' = [holds EXCEPT ![c] = {}]
    /\ UNCHANGED <<setup, fs, conns, threads, sbuf, clients, crashed>>

Wait_ReapsAll(w) ==                     \* fault: takes all that have ended
    /\ wpc[w] = "wait"
    /\ \E c \in Conns : child[c] = "ended"
    /\ child' = [c \in Conns |->
                    IF child[c] = "ended" THEN "reaped" ELSE child[c]]
    /\ Goto(w, "close")
    /\ UNCHANGED <<setup, fs, conns, tmp, sbuf, answer, clients, holds,
                   crashed>>

Wait_AndClose(w) ==                     \* fault: the worker closes it again
    /\ wpc[w] = "wait"
    /\ \E c \in Conns : /\ child[c] = "ended"
                        /\ child' = [child EXCEPT ![c] = "reaped"]
    /\ Goto(w, "close")
    /\ open' = open \ {tmp[w]}
    /\ UNCHANGED <<setup, fs, accepted, queue, tmp, sbuf, answer, clients,
                   holds, crashed>>

\* wait_or_die(NULL): any child that has ended.  It would fail if there were
\* no child (WaitFindsAChild).
Wait(w) ==
    /\ wpc[w] = "wait"
    /\ \E c \in Conns : /\ child[c] = "ended"
                        /\ child' = [child EXCEPT ![c] = "reaped"]
    /\ Goto(w, "close")
    /\ UNCHANGED <<setup, fs, conns, tmp, sbuf, answer, clients, holds,
                   crashed>>

\* close_or_die, in the worker's loop.
Close(w) ==
    /\ wpc[w] = "close"
    /\ open' = open \ {tmp[w]}
    /\ Goto(w, "idle")
    /\ tmp' = [tmp EXCEPT ![w] = None]
    /\ UNCHANGED <<setup, fs, accepted, queue, sbuf, answer, clients, procs,
                   crashed>>

(* wclient.c, and readline in io_helper.c.                                 *)

\* The client has read to the end: the server has closed the connection, and
\* no process has a copy of its descriptor.
SeesEnd(c) ==
    /\ c \in accepted \ open
    /\ \A d \in Conns : c \notin holds[d]

\* The server writes the header of a static answer or of an error; of a
\* program's output it writes the beginning, and the program the rest.
HasHeader(c) ==
    \/ answer[c].status \in {"403", "404"}
    \/ answer[c].status = "200" /\ (IsStatic(c) \/ answer[c].output)

\* What follows the header.
BodyOf(c) ==
    IF answer[c].status = "200" /\ IsStatic(c) THEN answer[c].body
    ELSE IF HasHeader(c) THEN <<"text">> ELSE <<>>

\* client_print reads the header, up to a line that is empty but for its "\r".
ReadHeader(c) ==
    /\ client[c] = "header" /\ HasHeader(c)
    /\ client' = [client EXCEPT ![c] = "body"]
    /\ UNCHANGED <<setup, fs, conns, threads, sbuf, answer, shown, procs,
                   crashed>>

\* readline returns how many bytes come before the end of the line, which is
\* none for an empty one: client_print takes that for the end, and main closes
\* the connection.
ReadLine(c) ==
    /\ client[c] = "body" /\ shown[c] < Len(BodyOf(c))
    /\ BodyOf(c)[shown[c] + 1] # "stub"
    /\ IF BodyOf(c)[shown[c] + 1] = "empty"
       THEN client' = [client EXCEPT ![c] = "closed"] /\ UNCHANGED shown
       ELSE shown' = [shown EXCEPT ![c] = @ + 1] /\ UNCHANGED client
    /\ UNCHANGED <<setup, fs, conns, threads, sbuf, answer, procs, crashed>>

\* At the end readline returns 0: also if it has read a single byte before.
ReadEnd(c) ==
    /\ client[c] # "closed" /\ SeesEnd(c)
    /\ client[c] = "header" => ~HasHeader(c)
    /\ shown[c] < Len(BodyOf(c)) => BodyOf(c)[shown[c] + 1] = "stub"
    /\ client' = [client EXCEPT ![c] = "closed"]
    /\ UNCHANGED <<setup, fs, conns, threads, sbuf, answer, shown, procs,
                   crashed>>

ClientStep(c) == ReadHeader(c) \/ ReadLine(c) \/ ReadEnd(c)

Handle(w) ==
    \/ Take(w) \/ Stat(w) \/ OpenFile(w) \/ SendPage(w) \/ Fork(w) \/ Wait(w)
    \/ Close(w)

Next ==
    /\ ~crashed
    /\ \/ \E f \in Files : Change(f)
       \/ \E c \in Conns :
             Accept(c) \/ AcceptSFF(c) \/ Exec(c) \/ ProgramEnds(c)
                \/ ClientStep(c)
       \/ AcceptAndHandle
       \/ \E w \in Workers : Handle(w)

Spec == Init /\ [][Next]_vars

\* Threads, processes and clients run, and CGI programs end.  Nobody has to
\* connect or to change a file.
Fairness ==
    /\ \A w \in Workers : WF_vars(~crashed /\ Handle(w))
    /\ \A c \in Conns : /\ WF_vars(~crashed /\ (Exec(c) \/ ProgramEnds(c)))
                        /\ WF_vars(~crashed /\ ClientStep(c))

FairSpec == Spec /\ Fairness

-----------------------------------------------------------------------------
(* Properties.                                                             *)

Unreaped == {c \in Conns : child[c] \in {"forked", "runs", "ended"}}

\* Every variable has its type, and a worker serves a connection it has open.
TypeOK ==
    /\ setup \in Setups
    /\ disk \in [Files -> FileType]
    /\ changed \in [Files -> 0 .. MaxChanges]
    /\ accepted \subseteq Conns /\ open \subseteq accepted
    /\ queue \subseteq open \cup {None}
    /\ \A w \in Workers :
          /\ wpc[w] \in {"idle", "stat", "open", "body", "fork", "wait",
                         "close"}
          /\ tmp[w] \in open \cup {None}
          /\ wpc[w] # "idle" => tmp[w] # None
    /\ \A c \in Conns :
          /\ sbuf[c] \in FileType \cup {None}
          /\ answer[c] \in [status : {"none", "200", "403", "404"},
                            length : Nat, body : Seq(LineType),
                            output : BOOLEAN]
          /\ client[c] \in {"header", "body", "closed"}
          /\ shown[c] \in 0 .. Len(BodyOf(c))
          /\ child[c] \in {"none", "forked", "runs", "ended", "reaped"}
          /\ holds[c] \subseteq accepted
    /\ crashed \in BOOLEAN

\* wait never fails: although a worker may reap a child that another one has
\* forked, there are as many children nobody has reaped as workers that wait.
\* With one thread it is the only child, and has no descriptor of a connection
\* that anybody else has.
WaitFindsAChild ==
    /\ Cardinality(Unreaped) = Cardinality({w \in Workers : wpc[w] = "wait"})
    /\ setup.schedule = "one" =>
           /\ Unreaped \subseteq {tmp[Main]}
           /\ \A c \in Conns : holds[c] \subseteq {c}

\* What client_print prints of a body.
Printable(lines) ==
    LET stops == {n \in 1 .. Len(lines) : lines[n] # "text"}
    IN  IF stops = {} THEN Len(lines)
        ELSE (CHOOSE n \in stops : \A k \in stops : n <= k) - 1

\* A client that has closed its connection has got what its request calls for:
\* the whole file or the whole output of its own program, although the server
\* may have closed because another program ended, or the client has seen the
\* end late.  It may be less only if the file is no program the server may run,
\* has an empty line, or has changed in the meantime.
AnswerIsWhole ==
    \A c \in Conns :
        LET a == answer[c]  f == setup.disk[FileOf(c)] IN
        client[c] = "closed" /\ changed[FileOf(c)] = 0 =>
            CASE ~f.there -> a.status = "404" /\ shown[c] = 1
              [] f.there /\ f.mode = "forbidden" ->
                     a.status = "403" /\ shown[c] = 1
              [] OTHER ->
                     /\ a.status = "200"
                     /\ IF IsStatic(c)
                        THEN /\ a.length = Len(f.lines)
                             /\ shown[c] = Printable(f.lines)
                        ELSE shown[c] = IF f.program /\ f.mode = "ok" THEN 1
                                                                      ELSE 0

\* The server ends only if a file was asked for that has nothing in it, or an
\* empty line before its last one, or that only its owner may read, or, with
\* SFF, one that is not there; if a file changed while it was being sent; or if
\* there was no process to be had.
CrashHasCause ==
    crashed =>
        \/ \E c \in accepted :
               LET f == setup.disk[FileOf(c)] IN
               \/ changed[FileOf(c)] > 0
               \/ /\ IsStatic(c) /\ f.mode # "forbidden"
                  /\ \/ f.lines = <<>> \/ f.mode = "others"
                     \/ \E n \in 1 .. Len(f.lines) - 1 : f.lines[n] = "empty"
               \/ setup.schedule = "SFF" /\ ~f.there
        \/ ~setup.forks

\* Each client gets to the end of its connection, if CGI programs end and the
\* server does not, whoever has reaped whose child.
EveryClientSeesTheEnd ==
    \A c \in Conns : (c \in accepted) ~> (client[c] = "closed" \/ crashed)

\* A worker waits for the program it has started itself.
WaitsForItsOwn ==
    \A w \in Workers : wpc[w] = "wait" => child[tmp[w]] # "reaped"
=============================================================================
