----------------------------- MODULE MCWServer -----------------------------
(* Small instances of WServer.                                             *)
EXTENDS WServer

CONSTANTS conn1, conn2, conn3, w1, w2

Get(target, size, client) ==
    [method |-> "GET", target |-> target, size |-> size, works |-> TRUE,
     client |-> client]

Plain == Get("file", 1, "sends")
Program == Get("program", 1, "sends")
Post == [Plain EXCEPT !.method = "POST"]

Big == Get("file", 2, "sends")
Forbidden == Get("forbidden", 3, "sends")
Silent == Get("file", 1, "silent")
Closes == Get("file", 1, "closes")
Leaves == Get("file", 1, "leaves")
MissingLeaves == Get("missing", 0, "leaves")
Empty == Get("file", 0, "sends")
NotOurs == [Plain EXCEPT !.works = FALSE]
NoProcess == [Program EXCEPT !.works = FALSE]

\* Who makes which request is of no account, as clients connect in any order:
\* the first of the connections is the one for the first request.
Setup(policy, slots, requests) ==
    [schedule |-> policy, buffer_num |-> slots,
     request |-> [c \in Conns |-> CASE c = conn1 -> requests[1]
                                    [] c = conn2 -> requests[2]
                                    [] c = conn3 -> requests[3]]]

\* FIFO: every answer there is, what ends the server instead of one, and clients
\* that close too early, do not wait for the answer or send nothing; and as many
\* of those as there are workers.  SFF: files of different and of equal sizes,
\* what gives file_size a reason to refuse, and what ends the server.
MCSetups ==
    { Setup("FIFO", 2, <<r, Plain, Plain>>) :
        r \in {Plain, Post, MissingLeaves, Closes, Silent, NotOurs,
               NoProcess} }
      \cup
    { Setup("FIFO", 1, <<r, r, Program>>) : r \in {Plain, Silent, Closes} }
      \cup
    { Setup("SFF", 3, <<r, s, Big>>) :
        r \in {Plain, Forbidden}, s \in {Plain, Big} }
      \cup
    { Setup("SFF", 2, <<r, Plain, Plain>>) :
        r \in {Big, Post, MissingLeaves, Closes, Leaves, Empty} }
=============================================================================
