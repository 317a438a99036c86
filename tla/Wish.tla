-------------------------------- MODULE Wish --------------------------------
(***************************************************************************)
(* processes-shell/wish3.c: the shell.  main reads a line, cuts it at the  *)
(* '&'s and goes over the commands from left to right: a built-in is run   *)
(* at once, a program that is found is recorded in a slot of the command   *)
(* lists, and so is what '>' says.  Then one child is forked per slot,     *)
(* and the shell waits until it has no child left.                         *)
(*                                                                         *)
(* A line is a sequence of commands, its blank ones left out (they are     *)
(* skipped), and a command the record its text stands for:                 *)
(*   name       first word before the '>', or NoCommand                    *)
(*   args       the other words before the '>'                             *)
(*   redirects  number of '>'s                                             *)
(*   spaced     there is a blank before the '>'                            *)
(*   targets    the words after the '>'                                    *)
(* input_fix copies the line without its superfluous blanks and does not   *)
(* terminate the copy; the byte after it is taken to be 0.                 *)
(***************************************************************************)
EXTENDS SequencesExt, FiniteSets

CONSTANTS Lines,           \* the lines that may be typed
          Programs,        \* <<directory, name>> of each file that exists
          Folders,         \* the directories chdir can enter
          Unwritable,      \* targets that open cannot create
          Home,            \* the directory the shell starts in
          Bin,             \* the directory first on the path
          NoCommand,
          Terminal,        \* where the shell's output goes at first
          Empty,           \* content of a file that has been truncated
          MAX_PARAMETER,   \* entries of a parameter array
          MAX_COMMAND,     \* entries of command_path
          ListSize,        \* entries of the command lists (100)
          MaxFds,          \* descriptors left for a process to open
          MaxLines         \* bound: lines read

ASSUME SizeAssumption ==
    {MAX_PARAMETER, MAX_COMMAND, ListSize, MaxFds, MaxLines} \subseteq Nat \ {0}

IsSequence(s) == s \in Seq(Range(s))

\* A line is a sequence of commands.
IsLine(l) ==
    /\ IsSequence(l)
    /\ \A k \in DOMAIN l : /\ l[k].redirects \in Nat
                           /\ IsSequence(l[k].args)
                           /\ IsSequence(l[k].targets)

ASSUME LinesAssumption == \A l \in Lines : IsLine(l)

\* The terminal is not a file that a target can name.
ASSUME TerminalAssumption ==
    \A l \in Lines : \A k \in DOMAIN l, folder \in Folders \cup {Home} :
        Terminal # <<folder, l[k].targets>>

VARIABLES
    phase,           \* where main is, or how the shell ended
    typed,           \* number of lines read
    line, pos,       \* the line, and the command of it that is next
    command_path,    \* the directories of the path
    cwd,
    command_list,    \* the programs recorded in the slots 1, 2, ...: command,
                     \* final_command_list and parameter_list
    label_list,      \* slots with a '>'
    file_list,       \* slot -> target (the slots that have one)
    next,            \* the slot whose child is forked next
    child,           \* process -> its state, where it writes, whether it ran
    disk,            \* file -> the standard output last written to it
    screen,          \* what came to the terminal: <<process, stream>>
    stdout,          \* the shell's standard output: Terminal or a file
    leaked,          \* descriptors the shell has opened and never closes
    messages         \* error messages written

settings == <<command_path, cwd>>
input == <<typed, line, pos>>
lists == <<command_list, label_list, file_list>>
children == <<next, child>>
outputs == <<disk, screen>>
process == <<stdout, leaked, messages>>
vars == <<phase, input, settings, lists, children, outputs, process>>

Ended == {"exit0", "exit1", "undefined"}

-----------------------------------------------------------------------------
(* A definition whose name ends in _Something is a variant with a seeded   *)
(* fault; the specification does not use it.                               *)

command_count == Len(command_list)

slot == command_count + 1    \* the slot the next program gets

\* The words strsep makes of the text after the name: a blank before the '>'
\* stays at the end of the text and yields an empty word.
Words(c) == IF c.spaced /\ c.args # <<>> THEN Append(c.args, "") ELSE c.args

\* The '>' has a command before it and one word after it.
WellRedirected(c) == c.name # NoCommand /\ Len(c.targets) = 1

\* The command is gone about, not refused for its '>'s.
Runs(c) == c.redirects = 0 \/ (c.redirects = 1 /\ WellRedirected(c))

\* Places of the directories of the path that have a file of that name.
Finds(name) ==
    {n \in DOMAIN command_path : <<command_path[n], name>> \in Programs}

\* exec_zx takes the first.
FinalCommand(name) == <<command_path[Min(Finds(name))], name>>

\* The file a target names in the current directory.
File(target) == <<cwd, target>>

\* open(file, O_CREAT | O_WRONLY | O_TRUNC) after sfd = dup(STDOUT_FILENO):
\* it needs a second free descriptor.
CanOpen(target) ==
    target # <<>> /\ target[1] \notin Unwritable /\ leaked + 2 <= MaxFds

\* A function with a new or another value at x.
With(f, x, value) ==
    [y \in DOMAIN f \cup {x} |-> IF y = x THEN value ELSE f[y]]

\* disk with new content of a file, which may be new itself.
Store(file, content) == With(disk, file, content)

-----------------------------------------------------------------------------
Init ==
    /\ phase = "start"
    /\ typed = 0 /\ line = <<>> /\ pos = 1
    /\ command_path = <<Bin>> /\ cwd = Home
    /\ command_list = <<>> /\ label_list = {} /\ file_list = <<>>
    /\ next = 1 /\ child = <<>>
    /\ disk = <<>> /\ screen = {}
    /\ stdout = Terminal /\ leaked = 0
    /\ messages = 0

\* No argument, or one that names a file that opens.
Start ==
    /\ phase = "start"
    /\ phase' = "read"
    /\ UNCHANGED <<input, settings, lists, children, outputs, process>>

\* More arguments, or a batch file that does not open.
BadInvocation ==
    /\ phase = "start"
    /\ phase' = "exit1" /\ messages' = messages + 1
    /\ UNCHANGED <<input, settings, lists, children, outputs, stdout, leaked>>

ReadLine ==
    /\ phase = "read" /\ typed < MaxLines
    /\ line' \in Lines
    /\ phase' = "parse" /\ pos' = 1 /\ typed' = typed + 1
    /\ UNCHANGED <<settings, lists, children, outputs, process>>

EndOfInput ==
    /\ phase = "read"
    /\ phase' = "exit0"
    /\ UNCHANGED <<input, settings, lists, children, outputs, process>>

(* One command of the line.                                                *)

Command == line[pos]

Parsing == phase = "parse" /\ pos <= Len(line)

Builtins == {"exit", "cd", "path"}

NoSlotLeft_Unchecked(c) == FALSE   \* fault: what if nothing noticed

\* A mark or a program for a slot that the lists do not have.
NoSlotLeft(c) ==
    /\ command_count = ListSize
    /\ c.redirects > 0 \/ (c.name \notin Builtins /\ Finds(c.name) # {})

\* An array is written beyond its end; or the parameters of a program fill
\* theirs, so that execv finds no NULL in it and reads on.
Overflows(c) ==
    \/ NoSlotLeft(c)
    \/ /\ Runs(c)
       /\ \/ c.name = "path" /\ Len(Words(c)) > MAX_COMMAND
          \/ /\ c.name \notin Builtins
             /\ Len(Words(c)) + 1 > MAX_PARAMETER
          \/ /\ c.name \notin Builtins /\ Finds(c.name) # {}
             /\ Len(Words(c)) + 1 = MAX_PARAMETER

Overflow ==
    /\ Parsing /\ Overflows(Command)
    /\ phase' = "undefined"
    /\ UNCHANGED <<input, settings, lists, children, outputs, process>>

Mark_NextSlot(c) ==                     \* fault: after command_count++
    /\ label_list' = IF c.redirects > 0 THEN label_list \cup {slot + 1}
                                        ELSE label_list
    /\ file_list' = IF c.redirects = 1 /\ c.name # NoCommand /\ c.targets # <<>>
                    THEN With(file_list, slot + 1, c.targets) ELSE file_list

\* The marks of a '>' go into the slot of the program that comes next,
\* whether or not this command becomes that program.
Mark(c) ==
    /\ label_list' = IF c.redirects > 0 THEN label_list \cup {slot}
                                        ELSE label_list
    /\ file_list' = IF c.redirects = 1 /\ c.name # NoCommand /\ c.targets # <<>>
                    THEN With(file_list, slot, c.targets) ELSE file_list

\* A '>' with nothing on either side passes without a message.
Silent(c) == c.redirects = 1 /\ c.name = NoCommand /\ c.targets = <<>>

\* Several '>'s, or one without a command or without one target: not run.
BadRedirection ==
    /\ Parsing /\ ~Overflows(Command)
    /\ \/ Command.redirects > 1
       \/ Command.redirects = 1 /\ ~WellRedirected(Command)
    /\ Mark(Command)
    /\ messages' = IF Silent(Command) THEN messages ELSE messages + 1
    /\ pos' = pos + 1
    /\ UNCHANGED <<phase, typed, line, settings, command_list, children,
                   outputs, stdout, leaked>>

\* With a '>', the shell first opens the target itself, with its output
\* there until the command is done.  sfd is never closed.
OpenTarget(c) ==
    IF c.redirects = 0 THEN UNCHANGED <<disk, leaked>>
    ELSE /\ disk' = IF CanOpen(c.targets) THEN Store(File(c.targets), Empty)
                                          ELSE disk
         /\ leaked' = IF leaked < MaxFds THEN leaked + 1 ELSE leaked

Exit ==
    /\ Parsing /\ Command.name = "exit" /\ Runs(Command)
    /\ Command.args = <<>> /\ ~Command.spaced
    /\ ~Overflows(Command)
    /\ Mark(Command) /\ OpenTarget(Command)
    /\ phase' = "exit0"
    /\ UNCHANGED <<input, settings, command_list, children, screen, stdout,
                   messages>>

\* exit with an argument.  Its break skips the end of the loop: after a '>'
\* the shell's output stays where it is and a second message follows.
ExitWithArgument ==
    /\ Parsing /\ Command.name = "exit" /\ Runs(Command)
    /\ Command.args # <<>> \/ Command.spaced
    /\ ~Overflows(Command)
    /\ Mark(Command)
    /\ IF Command.redirects = 0
       THEN UNCHANGED <<disk, leaked, stdout>> /\ messages' = messages + 1
       ELSE /\ messages' = messages + 2
            /\ IF CanOpen(Command.targets)
               THEN /\ disk' = Store(File(Command.targets), Empty)
                    /\ stdout' = File(Command.targets)
                    /\ leaked' = leaked + 2
               ELSE /\ leaked' = IF leaked < MaxFds THEN leaked + 1 ELSE leaked
                    /\ UNCHANGED <<disk, stdout>>
    /\ pos' = pos + 1
    /\ UNCHANGED <<phase, typed, line, settings, command_list, children,
                   screen>>

Enters(c) == c.args # <<>> /\ c.args[1] \in Folders

\* chdir with the first argument; the others are not looked at.
ChangeDirectory ==
    /\ Parsing /\ Command.name = "cd" /\ Runs(Command)
    /\ ~Overflows(Command)
    /\ Mark(Command) /\ OpenTarget(Command)
    /\ \/ /\ Enters(Command)
          /\ cwd' = Command.args[1]
          /\ UNCHANGED messages
       \/ /\ ~Enters(Command)
          /\ messages' = messages + 1
          /\ UNCHANGED cwd
    /\ pos' = pos + 1
    /\ UNCHANGED <<phase, typed, line, command_path, command_list, children,
                   screen, stdout>>

SetPath ==
    /\ Parsing /\ Command.name = "path" /\ Runs(Command)
    /\ ~Overflows(Command)
    /\ Mark(Command) /\ OpenTarget(Command)
    /\ command_path' = Words(Command)
    /\ pos' = pos + 1
    /\ UNCHANGED <<phase, typed, line, cwd, command_list, children, screen,
                   stdout, messages>>

\* A program: recorded in the next slot if a directory of the path has it.
Record ==
    /\ Parsing /\ Command.name \notin Builtins \cup {NoCommand}
    /\ Runs(Command) /\ ~Overflows(Command)
    /\ Mark(Command) /\ OpenTarget(Command)
    /\ \/ /\ Finds(Command.name) # {}
          /\ command_list' =
             Append(command_list, [command    |-> Command,
                                   program    |-> FinalCommand(Command.name),
                                   parameters |-> Words(Command)])
          /\ UNCHANGED messages
       \/ /\ Finds(Command.name) = {}
          /\ messages' = messages + 1
          /\ UNCHANGED command_list
    /\ pos' = pos + 1
    /\ UNCHANGED <<phase, typed, line, settings, children, screen, stdout>>

\* The line is parsed; no child is forked yet.
EndOfLine ==
    /\ phase = "parse" /\ pos > Len(line)
    /\ phase' = "fork"
    /\ UNCHANGED <<input, settings, lists, children, outputs, process>>

(* The child processes.  A process is named by the number of its line and  *)
(* its slot.  It has a copy of the shell's memory, of which it uses its    *)
(* slot of the lists, and its own current directory and descriptors.       *)

Process(k) == <<typed, k>>

\* The target of a slot; NULL if the slot has none.
Target(k) == IF k \in DOMAIN file_list THEN file_list[k] ELSE <<>>

\* fork for the next slot.  If it fails, pid[i] is -1 and nobody looks.
Fork ==
    /\ phase = "fork" /\ next <= command_count
    /\ \/ child' = With(child, Process(next),
                       [state    |-> "forked",
                        to       |-> stdout,
                        redirect |-> IF /\ next \in label_list
                                        /\ CanOpen(Target(next))
                                     THEN {File(Target(next))} ELSE {},
                        ran      |-> FALSE])
       \/ UNCHANGED child
    /\ next' = next + 1
    /\ UNCHANGED <<phase, input, settings, lists, outputs, process>>

AllForked ==
    /\ phase = "fork" /\ next > command_count
    /\ phase' = "wait"
    /\ UNCHANGED <<input, settings, lists, children, outputs, process>>

\* The child opens the target, if its slot is marked and the target can be
\* opened, as its output and becomes the program; if execv fails it exits.
Exec(p) ==
    /\ child[p].state = "forked"
    /\ \E file \in IF child[p].redirect = {} THEN {child[p].to}
                                              ELSE child[p].redirect,
         runs \in BOOLEAN :
           /\ disk' = IF child[p].redirect = {} THEN disk
                                              ELSE Store(file, Empty)
           /\ child' = [child EXCEPT ![p] =
                  [state    |-> IF runs THEN "running" ELSE "exited",
                   to       |-> file,
                   redirect |-> @.redirect,
                   ran      |-> runs]]
    /\ UNCHANGED <<phase, input, settings, lists, next, screen, process>>

\* The program writes its output and its errors and ends.  dup2 was for the
\* standard output only: standard error is the terminal, as it always was.
ProgramEnds(p) ==
    /\ child[p].state = "running"
    /\ IF child[p].to = Terminal
       THEN /\ screen' = screen \cup {<<p, "stdout">>, <<p, "stderr">>}
            /\ UNCHANGED disk
       ELSE /\ screen' = screen \cup {<<p, "stderr">>}
            /\ disk' = Store(child[p].to, p)
    /\ child' = [child EXCEPT ![p].state = "exited"]
    /\ UNCHANGED <<phase, input, settings, lists, next, process>>

\* wait(NULL) returns an ended child.
Reap(p) ==
    /\ phase = "wait" /\ child[p].state = "exited"
    /\ child' = [child EXCEPT ![p].state = "reaped"]
    /\ UNCHANGED <<phase, input, settings, lists, next, outputs, process>>

NoChildLeft_Counted ==         \* fault: waits once for every slot
    /\ Cardinality(DOMAIN child) = command_count
    /\ \A p \in DOMAIN child : child[p].state = "reaped"

\* wait(NULL) returns -1.
NoChildLeft == \A p \in DOMAIN child : child[p].state = "reaped"

ClearLists_KeepMarks ==        \* fault: label_list and file_list stay
    command_list' = <<>> /\ UNCHANGED <<label_list, file_list>>

ClearLists ==
    command_list' = <<>> /\ label_list' = {} /\ file_list' = <<>>

NextLine ==
    /\ phase = "wait" /\ NoChildLeft
    /\ ClearLists
    /\ next' = 1
    /\ child' = Restrict(child,
                         {p \in DOMAIN child : child[p].state # "reaped"})
    /\ phase' = "read"
    /\ UNCHANGED <<input, settings, outputs, process>>

ChildStep(p) == Exec(p) \/ ProgramEnds(p)

ShellStep ==
    \/ BadRedirection \/ Exit \/ ExitWithArgument \/ ChangeDirectory \/ SetPath
    \/ Record \/ Overflow \/ EndOfLine \/ Fork \/ AllForked \/ NextLine
    \/ \E p \in DOMAIN child : Reap(p)

Next ==
    \/ Start \/ BadInvocation
    \/ ReadLine \/ EndOfInput
    \/ ShellStep
    \/ \E p \in DOMAIN child : ChildStep(p)

Spec == Init /\ [][Next]_vars

\* The shell runs, and so do its children: every program ends by itself.
\* Nobody has to type a line.
FairSpec ==
    /\ Spec
    /\ WF_vars(ShellStep)
    /\ \A p \in (1 .. MaxLines) \X (1 .. ListSize) :
           WF_vars(p \in DOMAIN child /\ ChildStep(p))

-----------------------------------------------------------------------------
(* Properties.                                                             *)

\* The types.  In particular no slot beyond the lists is ever in use, and at
\* most MaxFds descriptors are lost.
TypeOK ==
    /\ phase \in Ended \cup {"start", "read", "parse", "fork", "wait"}
    /\ typed \in 0 .. MaxLines
    /\ pos \in 1 .. Len(line) + 1
    /\ Len(command_path) <= MAX_COMMAND
    /\ cwd \in Folders \cup {Home}
    /\ command_count <= ListSize
    /\ label_list \subseteq 1 .. ListSize
    /\ DOMAIN file_list \subseteq label_list
    /\ next \in 1 .. command_count + 1
    /\ DOMAIN child \subseteq (1 .. typed) \X (1 .. ListSize)
    /\ leaked \in 0 .. MaxFds
    /\ messages \in Nat

\* A line whose commands are all recorded, with targets that can be opened,
\* when the shell's own output is the terminal.
CleanLine ==
    /\ stdout = Terminal
    /\ command_count = Len(line)
    /\ \A k \in 1 .. command_count :
           line[k].redirects = 1 => CanOpen(line[k].targets)

\* When all children of such a line have ended, the standard output of each
\* program that ran is where its command says: on the terminal, or in its
\* target if no other command of the line has the same one.  Its standard error
\* is on the terminal, also if there is a target (README.md:171-172 wants that
\* rerouted, too: "In addition, the standard error output of the program should
\* be rerouted to the file").
OutputArrives ==
    phase = "wait" /\ NoChildLeft /\ CleanLine =>
        \A p \in DOMAIN child :
            LET k == p[2] IN
            child[p].ran =>
                /\ <<p, "stderr">> \in screen
                /\ IF line[k].redirects = 0 THEN <<p, "stdout">> \in screen
                   ELSE \/ disk[File(line[k].targets)] = p
                        \/ \E m \in 1 .. command_count \ {k} :
                               line[m].targets = line[k].targets

\* A step of the shell or of a program creates, truncates or writes no file
\* but a target of the line that was typed last, or the shell's own output.
TouchesOnlyTargets ==
    \A file \in DOMAIN disk' :
        file \notin DOMAIN disk \/ disk'[file] # disk[file] =>
            \/ file = stdout'
            \/ \E k \in DOMAIN line : /\ line[k].redirects = 1
                                      /\ line[k].targets = file[2]

OtherFilesAreLeftAlone == [][TouchesOnlyTargets]_vars

\* The shell gets through every line, whatever of it fails.
EveryLineEnds == phase = "parse" ~> phase \in {"read"} \cup Ended

\* The standard output of a program goes to its command's target if it has a '>', and
\* to the terminal otherwise.
OwnRedirection ==
    \A p \in DOMAIN child :
        child[p].state = "running" =>
            LET command == command_list[p[2]].command IN
            child[p].to = IF command.redirects = 1 THEN File(command.targets)
                                                   ELSE Terminal
=============================================================================
