---------------------------- MODULE RequestPool ----------------------------
(***************************************************************************)
(* What the web server's buffer and its scheduling policy promise          *)
(* (concurrency-webserver/README.md, Parts 1 and 2): connections wait in a *)
(* buffer of fixed size; a worker takes the oldest one (FIFO), or the one  *)
(* for the smallest file (SFF), of equal ones the oldest; every connection *)
(* is answered by one worker, which then closes it.                        *)
(***************************************************************************)
EXTENDS Naturals, Sequences, SequencesExt, FiniteSets

CONSTANT Conns           \* the connections there could be

VARIABLES policy,        \* "FIFO" or "SFF"
          capacity,      \* how many connections may wait
          size,          \* the file size that each connection asks for
          connected,     \* the connections made, oldest first
          waiting,       \* those in the buffer
          serving,       \* those a worker has taken
          finished       \* those answered and closed

options == <<policy, capacity, size>>
vars == <<options, connected, waiting, serving, finished>>

Init ==
    /\ policy \in {"FIFO", "SFF"}
    /\ capacity \in Nat
    /\ size \in [Conns -> Nat]
    /\ connected = <<>>
    /\ waiting = {}
    /\ serving = {}
    /\ finished = {}

Connect(c) ==
    /\ c \notin ToSet(connected)
    /\ connected' = Append(connected, c)
    /\ UNCHANGED <<options, waiting, serving, finished>>

Arrive(c) ==
    /\ Cardinality(waiting) < capacity
    /\ c \in ToSet(connected) \ (waiting \cup serving \cup finished)
    /\ waiting' = waiting \cup {c}
    /\ UNCHANGED <<options, connected, serving, finished>>

Older(c, d) ==
    \E m, n \in 1 .. Len(connected) :
        m < n /\ connected[m] = c /\ connected[n] = d

\* The policy lets a worker take c before d.
Before(c, d) ==
    IF policy = "FIFO" THEN Older(c, d)
    ELSE \/ size[c] < size[d]
         \/ size[c] = size[d] /\ Older(c, d)

Dispatch(c) ==
    /\ c \in waiting
    /\ \A d \in waiting \ {c} : Before(c, d)
    /\ waiting' = waiting \ {c}
    /\ serving' = serving \cup {c}
    /\ UNCHANGED <<options, connected, finished>>

Finish(c) ==
    /\ c \in serving
    /\ serving' = serving \ {c}
    /\ finished' = finished \cup {c}
    /\ UNCHANGED <<options, connected, waiting>>

Next == \E c \in Conns : Connect(c) \/ Arrive(c) \/ Dispatch(c) \/ Finish(c)

Spec == Init /\ [][Next]_vars
==========================================================================
