----------------------------- MODULE MCRequest -----------------------------
(* Small instances of Request.                                             *)
EXTENDS Request

CONSTANTS conn1, conn2, conn3, w1, w2, file1, file2

File(lines, mode) ==
    [there |-> TRUE, lines |-> lines, mode |-> mode, program |-> FALSE]

Page == File(<<"text", "text">>, "ok")
Cgi == [File(<<"text">>, "ok") EXCEPT !.program = TRUE]
Missing == [Page EXCEPT !.there = FALSE]

Ask(f, static) == [file |-> f, is_static |-> static]

\* What the first connection asks for, what the others do.
Requests(first, others) ==
    [c \in Conns |-> IF c = conn1 THEN first ELSE others]

Setup(policy, static, f, made) ==
    [schedule |-> policy, forks |-> TRUE, volatile |-> {}, made |-> made,
     request |-> Requests(Ask(file1, static), Ask(file2, FALSE)),
     disk |-> [x \in Files |-> IF x = file1 THEN f ELSE Cgi]]

Volatile(s) == [s EXCEPT !.volatile = {file1}]

Two == {conn1, conn2}

\* One client asks for a file, the others for a program; what the first file
\* is, and whether it is run or sent, is up to the setup.
MCSetups ==
    { Setup("FIFO", static, f, Conns) : static \in BOOLEAN, f \in {Page, Cgi} }
      \cup
    { Setup("one", static, Page, Conns) : static \in BOOLEAN }
      \cup
    { Setup("SFF", TRUE, f, Conns) :
        f \in { Page, Missing, File(<<"text">>, "forbidden") } }
      \cup
    { Volatile(Setup(policy, static, Page, Two)) :
        policy \in {"FIFO", "SFF", "one"}, static \in BOOLEAN }
      \cup
    { Volatile(Setup("FIFO", FALSE, Cgi, Two)),
      [Setup("FIFO", TRUE, Page, Two) EXCEPT !.forks = FALSE] }
      \cup
    { Setup("FIFO", static, f, Two) :
        static \in BOOLEAN,
        f \in { Missing, File(<<>>, "ok"), File(<<"text">>, "others"),
                File(<<"text">>, "forbidden") } }
      \cup
    { Setup("FIFO", TRUE, File(lines, "ok"), Two) :
        lines \in { <<"text", "empty", "text">>, <<"text", "stub">> } }

\* Three clients that ask for a program.
MCPrograms == { Setup("FIFO", FALSE, Cgi, Conns) }
=============================================================================
