------------------------------ MODULE Reverse ------------------------------
(***************************************************************************)
(* initial-reverse/reverse.c: writes the lines of a file in reverse order. *)
(*                                                                         *)
(* Whether the input and the output are the same file is decided by a loop *)
(* over the characters of their names, from the last to the first, which   *)
(* reverses the file each time it finds a difference, and goes on.  The    *)
(* output is opened, and with that emptied, each time; what is written to  *)
(* it stays in memory until the program exits, as the code never closes    *)
(* it (the files are taken to be shorter than the buffer).                 *)
(***************************************************************************)
EXTENDS SequencesExt, Integers

CONSTANTS LinkOf,        \* name -> the file of that name, for every name that
                         \* open finds or can create
          InputName,     \* the name of a file that is there
          Absent,        \* in place of the content of a file that is not there
          Contents,      \* what an input may be
          StdIn, StdOut  \* the files the program is started with

NL == "nl"
NUL == "nul"

\* A name is a sequence of characters.
LinkedFiles == {LinkOf[name] : name \in DOMAIN LinkOf} \cup {StdIn, StdOut}

VARIABLES original,      \* the bytes of the input at first
          content,       \* file -> its bytes, or Absent
          argv,          \* the names on the command line
          streams,       \* output streams not closed: the file of each, and
                         \* what has been written to it
          count, j,      \* of main's loop
          reversing,     \* "waiting" to be started, where main is, or how it
                         \* has ended
          after          \* where main goes on after a call of reverse

rvars == <<original, content, argv, streams, count, j, reversing, after>>

-----------------------------------------------------------------------------
(* The two loops of reverse.  Definitions whose name ends in _Something    *)
(* are variants with a seeded fault that the specification does not use.   *)

\* getline and strcat: what follows a 0 in a line is lost, and the block keeps
\* the zeros it was filled with at its end.
CutAtNul(line) ==
    IF \E n \in 1 .. Len(line) : line[n] = NUL
    THEN SubSeq(line, 1, SelectInSeq(line, LAMBDA c : c = NUL) - 1)
    ELSE line

LinesOf(bytes) ==
    FoldLeft(LAMBDA lines, c :
                 IF c = NL THEN Append(lines, <<>>)
                 ELSE [lines EXCEPT ![Len(lines)] = Append(@, c)],
             <<<<>>>>, bytes)

ReadBack(bytes) ==
    LET lines == LinesOf(bytes)
        Got(n) == IF n = Len(lines) THEN CutAtNul(lines[n])
                  ELSE CutAtNul(Append(lines[n], NL))
        str == FlattenSeq([n \in 1 .. Len(lines) |-> Got(n)])
    IN  str \o [n \in 1 .. Len(bytes) - Len(str) |-> NUL]

\* One turn of the loop that looks for the beginning of a line, at byte i.
Turn(str, s, i) ==
    LET n == s.line_count + 1
        found == str[i] = NL
        out == IF found THEN Append(s.out \o SubSeq(str, i + 1, i + n - 1), NL)
                        ELSE s.out
        rest == IF found THEN 0 ELSE n
    IN  [line_count |-> rest,
         out |-> IF i = 1 THEN out \o SubSeq(str, 1, rest) ELSE out]

\* The loops print line after line, from the last, the final newline apart.
\* The byte before an empty block is taken not to be a newline.
Printed(bytes) ==
    LET str == ReadBack(bytes)
        ends == str # <<>> /\ Last(str) = NL
        top == IF ends THEN Len(str) - 1 ELSE Len(str)
        s == FoldLeft(LAMBDA t, k : Turn(str, t, top + 1 - k),
                      [line_count |-> 0, out |-> <<>>], [k \in 1 .. top |-> k])
    IN  IF ends THEN Append(s.out, NL) ELSE s.out

-----------------------------------------------------------------------------
FileOfName(name) == IF name \in DOMAIN LinkOf THEN LinkOf[name] ELSE Absent

InputFile == IF argv = <<>> THEN StdIn ELSE FileOfName(argv[1])
OutputFile == IF Len(argv) = 2 THEN FileOfName(argv[2]) ELSE StdOut

\* Characters after the last '/'.
BaseLength(name) ==
    Len(name) - SelectLastInSeq(name, LAMBDA c : c = "/")

ReverseInit ==
    /\ original \in Contents
    /\ content = [f \in LinkedFiles |->
                     IF f \in {LinkOf[InputName], StdIn} THEN original
                     ELSE IF f = StdOut THEN <<>> ELSE Absent]
    /\ argv = <<>>
    /\ streams = <<>>
    /\ count = 0 /\ j = 0
    /\ reversing = "waiting" /\ after = "return0"

\* The program is called with these names, once or again.
CallReverse(names) ==
    /\ reversing \in {"waiting", "done"}
    /\ argv' = names
    /\ count' = 0 /\ j' = IF Len(names) = 2 THEN Len(names[2]) ELSE 0
    /\ reversing' = "main"
    /\ UNCHANGED <<original, content, streams, after>>

ReverseThen(next) == reversing' = "reverse" /\ after' = next

\* main with less than two names, or more; or with an output whose name is so
\* short that it cannot be the input's.
Main ==
    /\ reversing = "main"
    /\ IF Len(argv) < 2 THEN ReverseThen("return0")
       ELSE IF Len(argv) > 2 THEN reversing' = "exit1" /\ UNCHANGED after
       ELSE IF Len(argv[2]) < BaseLength(argv[1]) THEN ReverseThen("compare")
       ELSE reversing' = "compare" /\ UNCHANGED after
    /\ UNCHANGED <<original, content, argv, streams, count, j>>

\* One call of reverse.  An output that could not be opened is used all the
\* same, if there is anything to print.
reverse ==
    /\ reversing = "reverse"
    /\ IF InputFile = Absent \/ content[InputFile] = Absent
       THEN reversing' = "exit1" /\ UNCHANGED <<content, streams>>
       ELSE /\ content' = IF OutputFile \in {Absent, StdOut} THEN content
                          ELSE [content EXCEPT ![OutputFile] = <<>>]
            /\ LET text == Printed(content'[InputFile]) IN
               IF OutputFile # Absent
               THEN /\ streams' = Append(streams, [file |-> OutputFile,
                                                   text |-> text])
                    /\ reversing' = after
               ELSE /\ reversing' = IF text = <<>> THEN after ELSE "crashed"
                    /\ UNCHANGED streams
    /\ UNCHANGED <<original, argv, count, j, after>>

Compare_OneMore ==                      \* fault: equal names go on
    /\ reversing = "compare" /\ j > 0
    /\ IF count < Len(argv[1]) /\ argv[1][Len(argv[1]) - count] = argv[2][j]
       THEN count' = count + 1 /\ UNCHANGED <<reversing, after>>
       ELSE ReverseThen("compare") /\ UNCHANGED count
    /\ j' = j - 1
    /\ UNCHANGED <<original, content, argv, streams>>

\* One turn of main's loop: a character that fits the last one of the input's
\* name that none has fitted yet, or a difference.
Compare ==
    /\ reversing = "compare" /\ j > 0
    /\ IF argv[1][Len(argv[1]) - count] = argv[2][j]
       THEN /\ count' = count + 1
            /\ reversing' = IF count' = Len(argv[1]) THEN "exit1" ELSE "compare"
            /\ UNCHANGED after
       ELSE ReverseThen("compare") /\ UNCHANGED count
    /\ j' = j - 1
    /\ UNCHANGED <<original, content, argv, streams>>

\* After the loop.
ReverseLast ==
    /\ reversing = "compare" /\ j = 0
    /\ ReverseThen("return0")
    /\ UNCHANGED <<original, content, argv, streams, count, j>>

\* What a stream writes from the beginning of its file on, at the end.
Flushed(file) ==
    FoldLeft(LAMBDA bytes, s :
                 IF s.file # file THEN bytes
                 ELSE s.text \o SubSeq(bytes, Len(s.text) + 1, Len(bytes)),
             content[file], streams)

\* exit writes what the streams still hold.
ExitReverse ==
    /\ reversing \in {"return0", "exit1"}
    /\ content' = [f \in DOMAIN content |->
                      IF content[f] = Absent THEN Absent ELSE Flushed(f)]
    /\ streams' = <<>>
    /\ reversing' = IF reversing = "return0" THEN "done" ELSE "failed"
    /\ UNCHANGED <<original, argv, count, j, after>>

ReverseNext ==
    Main \/ reverse \/ Compare \/ ReverseLast \/ ExitReverse

-----------------------------------------------------------------------------
(* Properties.                                                             *)

HasNul(bytes) == \E n \in 1 .. Len(bytes) : bytes[n] = NUL

\* b has the lines of a in reverse order; a newline at the end stays there.
IsReversed(a, b) ==
    IF a # <<>> /\ Last(a) = NL
    THEN /\ b # <<>> /\ Last(b) = NL
         /\ LinesOf(Front(b)) = Reverse(LinesOf(Front(a)))
    ELSE LinesOf(b) = Reverse(LinesOf(a))

\* When the program is done, the output has the lines of the input in reverse
\* order, however often main has reversed it, unless the two are the same file
\* under different names; and if it has given up after that, or before, the
\* output is complete, or nothing.  The input is as it was, also if it has been
\* named as the output, too.
LinesAreReversed ==
    /\ reversing \in {"done", "failed"} /\ Len(argv) <= 2
       /\ InputFile # Absent /\ InputFile # OutputFile =>
           LET a == content[InputFile] IN
           IF a = Absent THEN reversing = "failed"
           ELSE /\ reversing = "failed" => Len(argv) = 2
                /\ OutputFile # Absent /\ content[OutputFile] # Absent
                   /\ ~HasNul(a) => IsReversed(a, content[OutputFile])
                /\ reversing = "done" /\ OutputFile # Absent =>
                       content[OutputFile] # Absent
    /\ content[LinkOf[InputName]] # original => InputFile = OutputFile
    /\ Len(argv) = 2 /\ argv[1] = argv[2] =>
           /\ reversing \notin {"done", "crashed"}
           /\ content[LinkOf[InputName]] = original
    /\ reversing = "crashed" => OutputFile = Absent
=============================================================================
