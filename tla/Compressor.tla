---------------------------- MODULE Compressor ----------------------------
(***************************************************************************)
(* What a parallel compressor promises: every piece of the input is taken  *)
(* by exactly one worker and stored exactly once, and a result is printed  *)
(* only when every piece has been stored.  The program may give up (an     *)
(* unreadable file ends the process), and then it prints nothing.          *)
(***************************************************************************)
CONSTANT Pieces          \* every piece of input there could be

VARIABLES work,          \* the pieces of this run of the program
          taken,         \* pieces a worker has taken off the queue
          stored,        \* pieces whose compressed form has been stored
          phase          \* "running", "printed" or "failed"

vars == <<work, taken, stored, phase>>

Init ==
    /\ work \subseteq Pieces
    /\ taken = {}
    /\ stored = {}
    /\ phase = "running"

Take(w) ==
    /\ phase = "running"
    /\ w \in work \ taken
    /\ taken' = taken \cup {w}
    /\ UNCHANGED <<work, stored, phase>>

Store(w) ==
    /\ phase = "running"
    /\ w \in taken \ stored
    /\ stored' = stored \cup {w}
    /\ UNCHANGED <<work, taken, phase>>

Output ==
    /\ phase = "running"
    /\ stored = work
    /\ phase' = "printed"
    /\ UNCHANGED <<work, taken, stored>>

Fail ==
    /\ phase = "running"
    /\ phase' = "failed"
    /\ UNCHANGED <<work, taken, stored>>

Next ==
    \/ \E w \in work : Take(w) \/ Store(w)
    \/ Output
    \/ Fail

Spec == Init /\ [][Next]_vars
==========================================================================
