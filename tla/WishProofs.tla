----------------------------- MODULE WishProofs -----------------------------
(***************************************************************************)
(* Proofs about the shell, for any lines that may be typed, any number of  *)
(* them, and any sizes of the shell's lists and arrays.                    *)
(***************************************************************************)
EXTENDS Wish, TLAPS

-----------------------------------------------------------------------------
(* The inductive invariant.                                                *)

\* The types, the line, and that the lists are sequences.
Types ==
    /\ TypeOK
    /\ line \in Lines \cup {<<>>} /\ IsLine(line)
    /\ IsSequence(command_list)

\* What the phases of a line are for.
Phases ==
    /\ phase \in {"parse", "fork", "wait"} => typed >= 1
    /\ phase \in {"fork", "wait"} => pos = Len(line) + 1
    /\ phase \notin {"fork", "wait"} => DOMAIN child = {}
    /\ phase \in {"start", "read"} =>
           command_list = <<>> /\ label_list = {} /\ file_list = <<>>
    /\ phase \in {"start", "read", "parse"} => next = 1

\* What is redirected to is the target of some command of the line.
IsTarget(target) ==
    \E k \in DOMAIN line : line[k].redirects = 1 /\ line[k].targets = target

Targets == \A k \in DOMAIN file_list : IsTarget(file_list[k])

\* While every command has been recorded, the marks are those of the commands.
SlotIsRight(k) ==
    /\ line[k].redirects \in {0, 1}
    /\ k \in label_list <=> line[k].redirects = 1
    /\ line[k].redirects = 1 => /\ k \in DOMAIN file_list
                                /\ file_list[k] = line[k].targets

Recorded ==
    phase \in {"parse", "fork", "wait"} =>
        /\ command_count <= pos - 1
        /\ command_count = pos - 1 =>
               /\ label_list \subseteq 1 .. command_count
               /\ \A k \in 1 .. command_count : SlotIsRight(k)

\* Where the child of a slot writes.
Redirected(k) == k \in label_list /\ CanOpen(Target(k))

Goal(k) == IF Redirected(k) THEN File(Target(k)) ELSE stdout

\* The output of a child is where it goes, or another child's; its errors are on
\* the terminal.
Arrived(p) ==
    /\ <<p, "stderr">> \in screen
    /\ IF Goal(p[2]) = Terminal THEN <<p, "stdout">> \in screen
       ELSE \/ Goal(p[2]) \in DOMAIN disk /\ disk[Goal(p[2])] = p
            \/ \E q \in DOMAIN child \ {p} : Goal(q[2]) = Goal(p[2])

IsChild(p) ==
    /\ p = <<typed, p[2]>> /\ p[2] \in 1 .. next - 1
    /\ child[p] = [state |-> child[p].state, to |-> child[p].to,
                   redirect |-> child[p].redirect, ran |-> child[p].ran]
    /\ child[p].redirect = IF Redirected(p[2]) THEN {File(Target(p[2]))} ELSE {}
    /\ child[p].ran \in BOOLEAN
    /\ \/ child[p].state = "forked" /\ child[p].to = stdout /\ ~child[p].ran
       \/ child[p].state = "running" /\ child[p].to = Goal(p[2])
       \/ /\ child[p].state \in {"exited", "reaped"}
          /\ child[p].ran => Arrived(p)

Children ==
    /\ child = [p \in DOMAIN child |-> child[p]]
    /\ \A p \in DOMAIN child : IsChild(p)

Inv == Types /\ Phases /\ Targets /\ Recorded /\ Children

-----------------------------------------------------------------------------
(* Sequences, functions and sizes.                                         *)

LEMMA SequenceOf == ASSUME NEW S, NEW s \in Seq(S) PROVE IsSequence(s)
  <1>1. Len(s) \in Nat /\ DOMAIN s = 1 .. Len(s)
    OBVIOUS
  <1>2. s = [k \in 1 .. Len(s) |-> s[k]]
    OBVIOUS
  <1>3. \A k \in 1 .. Len(s) : s[k] \in Range(s)
    BY <1>1 DEF Range
  <1>4. s \in [1 .. Len(s) -> Range(s)]
    BY <1>2, <1>3
  <1> QED BY <1>1, <1>4 DEF IsSequence

LEMMA SequenceLength ==
    ASSUME NEW s, IsSequence(s)
    PROVE  Len(s) \in Nat /\ DOMAIN s = 1 .. Len(s)
  BY DEF IsSequence

LEMMA SequenceAppend ==
    ASSUME NEW s, IsSequence(s), NEW x
    PROVE  IsSequence(Append(s, x)) /\ Len(Append(s, x)) = Len(s) + 1
  <1>1. PICK S : S = Range(s) \cup {x}
    OBVIOUS
  <1>2. s \in Seq(S)
    BY <1>1 DEF IsSequence
  <1>3. Append(s, x) \in Seq(S) /\ Len(Append(s, x)) = Len(s) + 1
    BY <1>1, <1>2
  <1> QED BY <1>3, SequenceOf

LEMMA EmptySequence ==
    IsSequence(<<>>) /\ Len(<<>>) = 0 /\ DOMAIN <<>> = {}
  <1>1. <<>> \in Seq({})
    OBVIOUS
  <1>2. Len(<<>>) = 0 /\ DOMAIN <<>> = {}
    OBVIOUS
  <1> QED BY <1>1, <1>2, SequenceOf

LEMMA Sizes ==
    /\ MAX_PARAMETER \in Nat \ {0} /\ MAX_COMMAND \in Nat \ {0}
    /\ ListSize \in Nat \ {0} /\ MaxFds \in Nat \ {0} /\ MaxLines \in Nat \ {0}
  BY SizeAssumption

\* A function with a new entry.
LEMMA Added ==
    ASSUME NEW f, NEW x, NEW v
    PROVE  /\ DOMAIN With(f, x, v) = DOMAIN f \cup {x}
           /\ With(f, x, v)[x] = v
           /\ \A y \in DOMAIN f : y # x => With(f, x, v)[y] = f[y]
           /\ With(f, x, v) =
                  [y \in DOMAIN With(f, x, v) |-> With(f, x, v)[y]]
  BY DEF With

\* What Store does to the disk.
LEMMA Stored ==
    ASSUME NEW file, NEW content, disk' = Store(file, content)
    PROVE  /\ DOMAIN disk' = DOMAIN disk \cup {file}
           /\ disk'[file] = content
           /\ \A f \in DOMAIN disk : f # file => disk'[f] = disk[f]
  BY DEF Store, With

-----------------------------------------------------------------------------
(* The commands of a line: what they have in common.                       *)

ACommand ==
    \/ BadRedirection \/ Exit \/ ExitWithArgument \/ ChangeDirectory \/ SetPath
    \/ Record

\* A command gets a slot only if it is run and is a program.
Keeps == command_list' = command_list

Records ==
    /\ Runs(Command) /\ Command.name # NoCommand
    /\ IsSequence(command_list') /\ Len(command_list') = command_count + 1
    /\ command_count < ListSize

LEMMA CommandType ==
    ASSUME Types, Parsing
    PROVE  /\ pos \in 1 .. Len(line) /\ pos \in DOMAIN line
           /\ Command.redirects \in Nat
           /\ IsSequence(Command.args) /\ IsSequence(Command.targets)
           /\ Len(line) \in Nat /\ DOMAIN line = 1 .. Len(line)
           /\ command_count \in 0 .. ListSize
  <1>1. Len(line) \in Nat /\ DOMAIN line = 1 .. Len(line)
    BY SequenceLength DEF Types, IsLine
  <1>2. command_count \in Nat
    BY SequenceLength DEF Types, command_count
  <1>3. pos \in 1 .. Len(line) + 1 /\ pos <= Len(line)
    BY DEF Types, TypeOK, Parsing
  <1>4. pos \in DOMAIN line
    BY <1>1, <1>3
  <1>5. command_count <= ListSize
    BY DEF Types, TypeOK
  <1> QED BY <1>1, <1>2, <1>3, <1>4, <1>5, Sizes DEF Types, IsLine, Command

LEMMA WordsLemma ==
    ASSUME NEW c, IsSequence(c.args)
    PROVE  Len(Words(c)) \in Nat
  BY SequenceAppend, SequenceLength DEF Words

\* What the shell's opening of the target does.
LEMMA OpenLemma ==
    ASSUME Types, NEW c, OpenTarget(c)
    PROVE  /\ leaked' \in 0 .. MaxFds
           /\ \A f \in DOMAIN disk' :
                  f \notin DOMAIN disk \/ disk'[f] # disk[f] =>
                      c.redirects # 0 /\ f = File(c.targets)
  <1>1. leaked \in 0 .. MaxFds
    BY DEF Types, TypeOK
  <1>2. leaked' \in 0 .. MaxFds
    BY <1>1, Sizes DEF OpenTarget
  <1>3. CASE disk' = disk
    BY <1>2, <1>3
  <1>4. CASE c.redirects # 0 /\ disk' = Store(File(c.targets), Empty)
    <2>1. PICK file : file = File(c.targets)
      OBVIOUS
    <2>2. disk' = Store(file, Empty)
      BY <1>4, <2>1
    <2>3. \A f \in DOMAIN disk' :
              f \notin DOMAIN disk \/ disk'[f] # disk[f] => f = file
      BY <2>2, Stored
    <2> QED BY <1>2, <1>4, <2>1, <2>3
  <1> QED BY <1>3, <1>4 DEF OpenTarget

LEMMA CommandStep ==
    ASSUME Types, ACommand
    PROVE  /\ Parsing /\ ~Overflows(Command) /\ Mark(Command)
           /\ UNCHANGED <<typed, line, next, child, screen>>
           /\ \/ phase' = "exit0" /\ pos' = pos /\ Keeps
              \/ phase' = phase /\ pos' = pos + 1 /\ (Keeps \/ Records)
           /\ leaked' \in 0 .. MaxFds
           /\ messages' \in Nat
           /\ cwd' \in Folders \cup {Home}
           /\ Len(command_path') <= MAX_COMMAND
           /\ \A f \in DOMAIN disk' :
                  f \notin DOMAIN disk \/ disk'[f] # disk[f] =>
                      Command.redirects = 1 /\ f = File(Command.targets)
  <1>1. /\ messages \in Nat /\ leaked \in 0 .. MaxFds
        /\ cwd \in Folders \cup {Home} /\ Len(command_path) <= MAX_COMMAND
    BY DEF Types, TypeOK
  <1>2. Runs(Command) => Command.redirects \in {0, 1}
    BY DEF Runs
  <1>3. CASE BadRedirection
    BY <1>1, <1>3 DEF BadRedirection, Keeps, settings, children, outputs
  <1>4. CASE Exit
    <2>1. Parsing /\ Runs(Command) /\ OpenTarget(Command)
      BY <1>4 DEF Exit
    <2> QED BY <1>1, <1>2, <1>4, <2>1, OpenLemma
            DEF Exit, Keeps, input, settings, children
  <1>5. CASE ExitWithArgument
    <2>1. Parsing /\ Runs(Command)
      BY <1>5 DEF ExitWithArgument
    <2>2. leaked' \in 0 .. MaxFds
      BY <1>1, <1>5, Sizes DEF ExitWithArgument, CanOpen
    <2>3. messages' \in Nat
      BY <1>1, <1>5 DEF ExitWithArgument
    <2>4. \/ disk' = disk
          \/ /\ Command.redirects # 0
             /\ disk' = Store(File(Command.targets), Empty)
      BY <1>5 DEF ExitWithArgument
    <2>5. \A f \in DOMAIN disk' :
              f \notin DOMAIN disk \/ disk'[f] # disk[f] =>
                  Command.redirects = 1 /\ f = File(Command.targets)
      <3>1. PICK file : file = File(Command.targets)
        OBVIOUS
      <3>2. CASE disk' = Store(file, Empty) /\ Command.redirects # 0
        <4>1. \A f \in DOMAIN disk' :
                  f \notin DOMAIN disk \/ disk'[f] # disk[f] => f = file
          BY <3>2, Stored
        <4> QED BY <1>2, <2>1, <3>1, <3>2, <4>1
      <3> QED BY <2>4, <3>1, <3>2
    <2> QED BY <1>1, <1>5, <2>1, <2>2, <2>3, <2>5
            DEF ExitWithArgument, Keeps, settings, children
  <1>6. CASE ChangeDirectory
    <2>1. Parsing /\ Runs(Command) /\ OpenTarget(Command)
      BY <1>6 DEF ChangeDirectory
    <2>2. cwd' \in Folders \cup {Home} /\ messages' \in Nat
      BY <1>1, <1>6 DEF ChangeDirectory, Enters
    <2> QED BY <1>1, <1>2, <1>6, <2>1, <2>2, OpenLemma
            DEF ChangeDirectory, Keeps, children
  <1>7. CASE SetPath
    <2>1. /\ Parsing /\ Runs(Command) /\ OpenTarget(Command)
          /\ ~Overflows(Command) /\ Command.name = "path"
          /\ command_path' = Words(Command)
      BY <1>7 DEF SetPath
    <2>2. Len(Words(Command)) \in Nat
      BY <2>1, CommandType, WordsLemma
    <2>3. Len(Words(Command)) <= MAX_COMMAND
      BY <2>1, <2>2, Sizes DEF Overflows
    <2> QED BY <1>1, <1>2, <1>7, <2>1, <2>3, OpenLemma
            DEF SetPath, Keeps, children
  <1>8. CASE Record
    <2>1. /\ Parsing /\ Runs(Command) /\ OpenTarget(Command)
          /\ ~Overflows(Command) /\ Command.name \notin Builtins
          /\ Command.name # NoCommand
      BY <1>8 DEF Record
    <2>2. messages' \in Nat
      BY <1>1, <1>8 DEF Record
    <2>3. Keeps \/ Records
      <3>1. CASE Finds(Command.name) = {}
        BY <1>8, <3>1 DEF Record, Keeps
      <3>2. CASE Finds(Command.name) # {}
        <4>1. PICK x : command_list' = Append(command_list, x)
          BY <1>8, <3>2 DEF Record
        <4>2. IsSequence(command_list') /\ Len(command_list') = slot
          BY <4>1, SequenceAppend DEF Types, slot, command_count
        <4>3. command_count # ListSize
          BY <2>1, <3>2 DEF Overflows, NoSlotLeft
        <4>4. command_count \in 0 .. ListSize
          BY <2>1, CommandType
        <4> QED BY <2>1, <4>2, <4>3, <4>4, Sizes DEF Records, slot
      <3> QED BY <3>1, <3>2
    <2> QED BY <1>1, <1>2, <1>8, <2>1, <2>2, <2>3, OpenLemma
            DEF Record, settings, children
  <1> QED BY <1>3, <1>4, <1>5, <1>6, <1>7, <1>8 DEF ACommand

\* The marks of a '>'.
LEMMA MarkLemma ==
    ASSUME Types, Targets, Parsing, ~Overflows(Command), Mark(Command),
           line' = line
    PROVE  /\ label_list' = IF Command.redirects > 0 THEN label_list \cup {slot}
                                                     ELSE label_list
           /\ label_list' \subseteq 1 .. ListSize
           /\ DOMAIN file_list' \subseteq label_list'
           /\ Targets'
           /\ \A k \in DOMAIN file_list :
                  k # slot => /\ k \in DOMAIN file_list'
                              /\ file_list'[k] = file_list[k]
           /\ Command.redirects = 1 /\ Command.name # NoCommand
                  /\ Command.targets # <<>> =>
                  /\ slot \in DOMAIN file_list'
                  /\ file_list'[slot] = Command.targets
  <1>1. /\ pos \in DOMAIN line /\ Command.redirects \in Nat
        /\ command_count \in 0 .. ListSize
    BY CommandType
  <1>2. Command.redirects > 0 => slot \in 1 .. ListSize
    BY <1>1, Sizes DEF Overflows, NoSlotLeft, slot
  <1>3. /\ label_list \subseteq 1 .. ListSize
        /\ DOMAIN file_list \subseteq label_list
    BY DEF Types, TypeOK
  <1>4. label_list' = IF Command.redirects > 0 THEN label_list \cup {slot}
                                               ELSE label_list
    BY DEF Mark
  <1>5. PICK k, t : k = slot /\ t = Command.targets
    OBVIOUS
  <1>6. CASE Command.redirects = 1 /\ Command.name # NoCommand /\ t # <<>>
    <2>1. file_list' = With(file_list, k, t)
      BY <1>5, <1>6 DEF Mark
    <2>2. /\ DOMAIN file_list' = DOMAIN file_list \cup {k}
          /\ file_list'[k] = t
          /\ \A n \in DOMAIN file_list :
                 n # k => file_list'[n] = file_list[n]
      BY <2>1 DEF With
    <2>3. IsTarget(t)
      BY <1>1, <1>5, <1>6 DEF IsTarget, Command
    <2>4. ASSUME NEW n \in DOMAIN file_list' PROVE IsTarget(file_list'[n])
      BY <2>2, <2>3, <2>4 DEF Targets
    <2>5. Targets'
      BY <2>4 DEF Targets, IsTarget
    <2>6. DOMAIN file_list' \subseteq label_list'
      BY <1>3, <1>4, <1>5, <1>6, <2>2
    <2> QED BY <1>2, <1>3, <1>4, <1>5, <2>2, <2>5, <2>6
  <1>7. CASE ~(Command.redirects = 1 /\ Command.name # NoCommand /\ t # <<>>)
    <2>1. file_list' = file_list
      BY <1>5, <1>7 DEF Mark
    <2>2. Targets'
      BY <2>1 DEF Targets, IsTarget
    <2> QED BY <1>2, <1>3, <1>4, <1>5, <1>7, <2>1, <2>2
  <1> QED BY <1>6, <1>7

LEMMA CommandInv == ASSUME Inv, ACommand PROVE Inv'
  <1>1. Types /\ Phases /\ Targets /\ Recorded /\ Children
    BY DEF Inv
  <1>2. /\ Parsing /\ ~Overflows(Command) /\ Mark(Command)
        /\ UNCHANGED <<typed, line, next, child, screen>>
        /\ \/ phase' = "exit0" /\ pos' = pos /\ Keeps
           \/ phase' = phase /\ pos' = pos + 1 /\ (Keeps \/ Records)
        /\ leaked' \in 0 .. MaxFds
        /\ messages' \in Nat
        /\ cwd' \in Folders \cup {Home}
        /\ Len(command_path') <= MAX_COMMAND
    BY <1>1, CommandStep
  <1>3. /\ label_list' = IF Command.redirects > 0 THEN label_list \cup {slot}
                                                  ELSE label_list
        /\ label_list' \subseteq 1 .. ListSize
        /\ DOMAIN file_list' \subseteq label_list'
        /\ Targets'
        /\ \A k \in DOMAIN file_list :
               k # slot => /\ k \in DOMAIN file_list'
                           /\ file_list'[k] = file_list[k]
        /\ Command.redirects = 1 /\ Command.name # NoCommand
               /\ Command.targets # <<>> =>
               /\ slot \in DOMAIN file_list'
               /\ file_list'[slot] = Command.targets
    BY <1>1, <1>2, MarkLemma
  <1>4. /\ pos \in 1 .. Len(line) /\ Command.redirects \in Nat
        /\ IsSequence(Command.targets) /\ Len(line) \in Nat
        /\ command_count \in 0 .. ListSize
    BY <1>1, <1>2, CommandType
  <1>5. phase = "parse" /\ DOMAIN child = {} /\ next = 1 /\ typed >= 1
    BY <1>1, <1>2 DEF Parsing, Phases
  <1>6. /\ IsSequence(command_list')
        /\ \/ Keeps /\ command_count' = command_count
           \/ Records /\ command_count' = command_count + 1
        /\ command_count' \in 0 .. ListSize
    <2>1. CASE Keeps
      BY <1>1, <1>4, <2>1 DEF Keeps, command_count, Types
    <2>2. CASE Records
      BY <1>4, <2>2, Sizes DEF Records, command_count
    <2> QED BY <1>2, <2>1, <2>2
  <1>7. Types'
    <2>1. pos' \in 1 .. Len(line') + 1
      BY <1>2, <1>4
    <2>2. next' \in 1 .. command_count' + 1 /\ command_count' <= ListSize
      <3>1. PICK n \in 0 .. ListSize : n = command_count'
        BY <1>6
      <3>2. 1 \in 1 .. n + 1 /\ n <= ListSize
        BY Sizes
      <3> QED BY <1>2, <1>5, <3>1, <3>2
    <2>3. /\ phase' \in Ended \cup {"start", "read", "parse", "fork", "wait"}
          /\ typed' \in 0 .. MaxLines
          /\ DOMAIN child' \subseteq (1 .. typed') \X (1 .. ListSize)
      BY <1>1, <1>2 DEF Types, TypeOK, Ended
    <2>4. TypeOK'
      BY <1>2, <1>3, <1>6, <2>1, <2>2, <2>3 DEF TypeOK
    <2>5. IsLine(line')
      BY <1>1, <1>2 DEF Types
    <2>6. line' \in Lines \cup {<<>>}
      BY <1>1, <1>2 DEF Types
    <2> QED BY <1>6, <2>4, <2>5, <2>6 DEF Types
  <1>8. Phases'
    BY <1>2, <1>5 DEF Phases
  <1>9. Recorded'
    <2>1. CASE phase' = "exit0"
      BY <2>1 DEF Recorded
    <2>2. CASE phase' = phase /\ pos' = pos + 1
      <3>1. command_count <= pos - 1
        BY <1>1, <1>5 DEF Recorded
      <3>2. CASE Keeps /\ command_count' = command_count
        BY <1>4, <2>2, <3>1, <3>2, Sizes DEF Recorded
      <3>3. CASE Records /\ command_count' = command_count + 1
        <4> SUFFICES ASSUME command_count = pos - 1
                     PROVE  /\ label_list' \subseteq 1 .. command_count'
                            /\ \A k \in 1 .. command_count' : SlotIsRight(k)'
          BY <1>4, <2>2, <3>1, <3>3, Sizes DEF Recorded
        <4>1. /\ label_list \subseteq 1 .. command_count
              /\ \A k \in 1 .. command_count : SlotIsRight(k)
          BY <1>1, <1>5 DEF Recorded
        <4>2. slot = command_count' /\ slot = pos
          BY <1>4, <3>3, Sizes DEF slot
        <4>3. slot \notin label_list
          BY <1>4, <4>1, Sizes DEF slot
        <4>4. label_list' \subseteq 1 .. command_count'
          BY <1>3, <1>4, <3>3, <4>1, <4>2, Sizes
        <4>5. ASSUME NEW k \in 1 .. command_count PROVE SlotIsRight(k)'
          <5>1. k # slot
            BY <1>4, Sizes DEF slot
          <5>2. k \in label_list' <=> k \in label_list
            BY <1>3, <5>1
          <5> QED BY <1>2, <1>3, <4>1, <5>1, <5>2 DEF SlotIsRight
        <4>6. PICK s : s = slot
          OBVIOUS
        <4>7. SlotIsRight(s)'
          <5>1. line'[slot] = Command
            BY <1>2, <4>2 DEF Command
          <5>2. Command.redirects \in {0, 1}
            BY <3>3 DEF Records, Runs
          <5>3. slot \in label_list' <=> Command.redirects = 1
            BY <1>3, <1>4, <4>3, <5>2
          <5>4. Command.redirects = 1 => Command.targets # <<>>
            <6>1. Command.redirects = 1 => Len(Command.targets) = 1
              BY <3>3 DEF Records, Runs, WellRedirected
            <6> QED BY <6>1, EmptySequence
          <5>5. Command.name # NoCommand
            BY <3>3 DEF Records
          <5> QED BY <1>3, <4>6, <5>1, <5>2, <5>3, <5>4, <5>5 DEF SlotIsRight
        <4>8. ASSUME NEW k \in 1 .. command_count' PROVE SlotIsRight(k)'
          <5>1. k \in 1 .. command_count \/ k = s
            BY <1>4, <3>3, <4>2, <4>6, Sizes
          <5> QED BY <4>5, <4>7, <5>1
        <4> QED BY <4>4, <4>8
      <3> QED BY <1>6, <3>2, <3>3
    <2> QED BY <1>2, <2>1, <2>2
  <1>10. Children'
    BY <1>1, <1>2, <1>5 DEF Children
  <1> QED BY <1>3, <1>7, <1>8, <1>9, <1>10 DEF Inv

-----------------------------------------------------------------------------
(* The other steps of the shell, and those of its children.                *)

LEMMA EmptyChildren ==
    ASSUME Children, child' = child, DOMAIN child = {}
    PROVE  Children'
  BY DEF Children

LEMMA GoalsStay ==
    ASSUME UNCHANGED <<settings, lists, process>>
    PROVE  \A k : /\ Goal(k)' = Goal(k)
                  /\ Redirected(k)' <=> Redirected(k)
                  /\ File(Target(k))' = File(Target(k))
  BY DEF settings, lists, process, Goal, Redirected, Target, File, CanOpen

\* Start, BadInvocation, EndOfInput, Overflow.
LEMMA QuietInv ==
    ASSUME Inv, Start \/ BadInvocation \/ EndOfInput \/ Overflow
    PROVE  Inv'
  <1>1. Types /\ Phases /\ Targets /\ Recorded /\ Children
    BY DEF Inv
  <1>2. /\ UNCHANGED <<input, settings, lists, children, outputs, stdout,
                       leaked>>
        /\ phase' \in Ended \/ (phase = "start" /\ phase' = "read")
        /\ phase \notin {"fork", "wait"}
        /\ messages' = messages \/ messages' = messages + 1
    BY DEF Start, BadInvocation, EndOfInput, Overflow, Parsing, Ended, process
  <1>3. UNCHANGED <<typed, line, pos, command_path, cwd, command_list,
                    label_list, file_list, next, child, disk, screen, stdout,
                    leaked>>
    BY <1>2 DEF input, settings, lists, children, outputs
  <1>4. command_count' = command_count
    BY <1>3 DEF command_count
  <1>5. Types'
    <2>1. TypeOK'
      BY <1>1, <1>2, <1>3, <1>4 DEF Types, TypeOK, Ended
    <2> QED BY <1>1, <1>3, <2>1 DEF Types
  <1>6. Phases'
    BY <1>1, <1>2, <1>3 DEF Phases, Ended
  <1>7. Targets'
    BY <1>1, <1>3 DEF Targets, IsTarget
  <1>8. Recorded'
    BY <1>2 DEF Recorded, Ended
  <1>9. Children'
    BY <1>1, <1>2, <1>3, EmptyChildren DEF Phases
  <1> QED BY <1>5, <1>6, <1>7, <1>8, <1>9 DEF Inv

LEMMA ReadLineInv == ASSUME Inv, ReadLine PROVE Inv'
  <1>1. Types /\ Phases /\ Targets /\ Recorded /\ Children
    BY DEF Inv
  <1>2. /\ phase = "read" /\ phase' = "parse" /\ typed < MaxLines
        /\ line' \in Lines /\ pos' = 1 /\ typed' = typed + 1
        /\ UNCHANGED <<command_path, cwd, command_list, label_list, file_list,
                       next, child, disk, screen, stdout, leaked, messages>>
    BY DEF ReadLine, settings, lists, children, outputs, process
  <1>3. /\ command_list = <<>> /\ label_list = {} /\ file_list = <<>>
        /\ DOMAIN child = {} /\ next = 1
    BY <1>1, <1>2 DEF Phases
  <1>4. IsLine(line') /\ Len(line') \in Nat
    BY <1>2, LinesAssumption, SequenceLength DEF IsLine
  <1>5. command_count' = 0 /\ command_count = 0
    BY <1>2, <1>3, EmptySequence DEF command_count
  <1>6. typed' \in 1 .. MaxLines
    BY <1>1, <1>2, Sizes DEF Types, TypeOK
  <1>7. Types'
    <2>1. pos' \in 1 .. Len(line') + 1
      BY <1>2, <1>4
    <2>2. DOMAIN child' \subseteq (1 .. typed') \X (1 .. ListSize)
      BY <1>2, <1>3
    <2>3. next' \in 1 .. command_count' + 1 /\ command_count' <= ListSize
      BY <1>2, <1>3, <1>5, Sizes
    <2>4. typed' \in 0 .. MaxLines
      BY <1>6
    <2>5. TypeOK'
      BY <1>1, <1>2, <2>1, <2>2, <2>3, <2>4 DEF Types, TypeOK
    <2> QED BY <1>1, <1>2, <1>4, <2>5 DEF Types
  <1>8. Phases'
    BY <1>2, <1>3, <1>6 DEF Phases
  <1>9. Targets'
    BY <1>2, <1>3, EmptySequence DEF Targets
  <1>10. Recorded'
    <2>1. command_count' <= pos' - 1 /\ label_list' = {}
      BY <1>2, <1>3, <1>5
    <2>2. 1 .. command_count' = {}
      BY <1>5
    <2> QED BY <2>1, <2>2 DEF Recorded
  <1>11. Children'
    BY <1>1, <1>2, <1>3, EmptyChildren
  <1> QED BY <1>7, <1>8, <1>9, <1>10, <1>11 DEF Inv

\* EndOfLine, AllForked: only the phase changes.
LEMMA PhaseInv == ASSUME Inv, EndOfLine \/ AllForked PROVE Inv'
  <1>1. Types /\ Phases /\ Targets /\ Recorded /\ Children
    BY DEF Inv
  <1>2. /\ \/ phase = "parse" /\ phase' = "fork" /\ pos > Len(line)
           \/ phase = "fork" /\ phase' = "wait"
        /\ UNCHANGED <<input, settings, lists, children, outputs, process>>
    BY DEF EndOfLine, AllForked
  <1>3. UNCHANGED <<typed, line, pos, command_path, cwd, command_list,
                    label_list, file_list, next, child, disk, screen, stdout,
                    leaked, messages>>
    BY <1>2 DEF input, settings, lists, children, outputs, process
  <1>4. command_count' = command_count
    BY <1>3 DEF command_count
  <1>5. Types'
    <2>1. TypeOK'
      BY <1>1, <1>2, <1>3, <1>4 DEF Types, TypeOK, Ended
    <2> QED BY <1>1, <1>3, <2>1 DEF Types
  <1>6. Phases'
    <2>1. Len(line) \in Nat /\ pos \in 1 .. Len(line) + 1
      BY <1>1, SequenceLength DEF Types, TypeOK, IsLine
    <2>2. pos > Len(line) => pos = Len(line) + 1
      BY <2>1
    <2> QED BY <1>1, <1>2, <1>3, <2>2 DEF Phases
  <1>7. Targets'
    BY <1>1, <1>3 DEF Targets, IsTarget
  <1>8. Recorded'
    <2>1. \A k : SlotIsRight(k)' <=> SlotIsRight(k)
      BY <1>3 DEF SlotIsRight
    <2> QED BY <1>1, <1>2, <1>3, <1>4, <2>1 DEF Recorded
  <1>9. Children'
    <2>1. ASSUME NEW p \in DOMAIN child, IsChild(p) PROVE IsChild(p)'
      <3>1. \A k : /\ Goal(k)' = Goal(k) /\ (Redirected(k)' <=> Redirected(k))
                   /\ File(Target(k))' = File(Target(k))
        BY <1>2, GoalsStay
      <3>2. Arrived(p)' <=> Arrived(p)
        BY <1>3, <3>1 DEF Arrived
      <3> QED BY <1>3, <2>1, <3>1, <3>2 DEF IsChild
    <2> QED BY <1>1, <1>3, <2>1 DEF Children
  <1> QED BY <1>5, <1>6, <1>7, <1>8, <1>9 DEF Inv

\* Another child stays as it is.
LEMMA KeepsChild ==
    ASSUME NEW p \in DOMAIN child, IsChild(p), child'[p] = child[p],
           typed' = typed, p[2] \in 1 .. next' - 1,
           UNCHANGED <<settings, lists, process>>,
           Arrived(p) /\ child[p].state \in {"exited", "reaped"} => Arrived(p)'
    PROVE  IsChild(p)'
  <1>1. \A k : /\ Goal(k)' = Goal(k) /\ (Redirected(k)' <=> Redirected(k))
               /\ File(Target(k))' = File(Target(k))
    BY GoalsStay
  <1>2. UNCHANGED stdout
    BY DEF process
  <1>3. PICK record : record = child[p]
    OBVIOUS
  <1> QED BY <1>1, <1>2, <1>3 DEF IsChild

\* The other outputs, when a child has written to where it writes.
LEMMA KeepsOutput ==
    ASSUME NEW p \in DOMAIN child, NEW q \in DOMAIN child, p # q, Arrived(q),
           DOMAIN child' = DOMAIN child,
           UNCHANGED <<settings, lists, process>>,
           screen \subseteq screen',
           \/ disk' = disk
           \/ \E content : disk' = Store(Goal(p[2]), content)
    PROVE  Arrived(q)'
  <1>1. \A k : Goal(k)' = Goal(k)
    BY GoalsStay
  <1>2. CASE disk' = disk
    BY <1>1, <1>2 DEF Arrived
  <1>3. ASSUME NEW content, disk' = Store(Goal(p[2]), content)
        PROVE  Arrived(q)'
    <2>1. CASE Goal(q[2]) = Goal(p[2])
      BY <1>1, <2>1 DEF Arrived
    <2>2. CASE Goal(q[2]) # Goal(p[2])
      <3>1. PICK file : file = Goal(p[2])
        OBVIOUS
      <3>2. disk' = Store(file, content)
        BY <1>3, <3>1
      <3>3. /\ DOMAIN disk' = DOMAIN disk \cup {file}
            /\ \A f \in DOMAIN disk : f # file => disk'[f] = disk[f]
        BY <3>2, Stored
      <3> QED BY <1>1, <2>2, <3>1, <3>3 DEF Arrived
    <2> QED BY <2>1, <2>2
  <1> QED BY <1>2, <1>3

\* A step of one child: the others and their outputs stay, if it writes only to
\* its own place.
LEMMA OneChildInv ==
    ASSUME Inv, NEW p \in DOMAIN child, NEW record,
           child' = [child EXCEPT ![p] = record],
           UNCHANGED <<phase, input, settings, lists, next, process>>,
           screen \subseteq screen',
           \/ disk' = disk
           \/ \E content : disk' = Store(Goal(p[2]), content),
           IsChild(p)'
    PROVE  Inv'
  <1>1. Types /\ Phases /\ Targets /\ Recorded /\ Children
    BY DEF Inv
  <1>2. UNCHANGED <<phase, typed, line, pos, command_path, cwd, command_list,
                    label_list, file_list, next, stdout, leaked, messages>>
    BY DEF input, settings, lists, process
  <1>3. command_count' = command_count
    BY <1>2 DEF command_count
  <1>4. /\ DOMAIN child' = DOMAIN child
        /\ \A q \in DOMAIN child : q # p => child'[q] = child[q]
        /\ child' = [q \in DOMAIN child' |-> child'[q]]
    BY <1>1 DEF Children
  <1>5. Types'
    <2>1. TypeOK'
      BY <1>1, <1>2, <1>3, <1>4 DEF Types, TypeOK
    <2> QED BY <1>1, <1>2, <2>1 DEF Types
  <1>6. Phases'
    BY <1>1, <1>2, <1>4 DEF Phases
  <1>7. Targets'
    BY <1>1, <1>2 DEF Targets, IsTarget
  <1>8. Recorded'
    <2>1. \A k : SlotIsRight(k)' <=> SlotIsRight(k)
      BY <1>2 DEF SlotIsRight
    <2> QED BY <1>1, <1>2, <1>3, <2>1 DEF Recorded
  <1>9. Children'
    <2>1. ASSUME NEW q \in DOMAIN child, q # p PROVE IsChild(q)'
      <3>1. IsChild(q) /\ child'[q] = child[q]
        BY <1>1, <1>4, <2>1 DEF Children
      <3>2. q[2] \in 1 .. next' - 1
        BY <1>2, <3>1 DEF IsChild
      <3>3. Arrived(q) => Arrived(q)'
        BY <1>4, <2>1, KeepsOutput
      <3> QED BY <1>2, <3>1, <3>2, <3>3, KeepsChild
    <2>2. \A q \in DOMAIN child' : IsChild(q)'
      BY <1>4, <2>1
    <2> QED BY <1>4, <2>2 DEF Children
  <1> QED BY <1>5, <1>6, <1>7, <1>8, <1>9 DEF Inv

LEMMA ReapInv ==
    ASSUME Inv, NEW p \in DOMAIN child, Reap(p) PROVE Inv'
  <1>1. /\ child[p].state = "exited"
        /\ child' = [child EXCEPT ![p].state = "reaped"]
        /\ UNCHANGED <<phase, input, settings, lists, next, disk, screen,
                       process>>
    BY DEF Reap, outputs
  <1>2. PICK record : record = [child[p] EXCEPT !.state = "reaped"]
    OBVIOUS
  <1>3. child' = [child EXCEPT ![p] = record]
    BY <1>1, <1>2
  <1>4. IsChild(p)
    BY DEF Inv, Children
  <1>5. IsChild(p)'
    <2>1. child'[p] = record /\ DOMAIN child' = DOMAIN child
      BY <1>3
    <2>2. /\ record.state = "reaped" /\ record.to = child[p].to
          /\ record.redirect = child[p].redirect /\ record.ran = child[p].ran
          /\ record = [state |-> record.state, to |-> record.to,
                       redirect |-> record.redirect, ran |-> record.ran]
      BY <1>2, <1>4 DEF IsChild
    <2>3. \A k : /\ Goal(k)' = Goal(k) /\ (Redirected(k)' <=> Redirected(k))
                 /\ File(Target(k))' = File(Target(k))
      BY <1>1, GoalsStay
    <2>4. Arrived(p) => Arrived(p)'
      BY <1>1, <2>1, <2>3 DEF Arrived
    <2>5. typed' = typed /\ next' = next
      BY <1>1 DEF input
    <2> QED BY <1>1, <1>4, <2>1, <2>2, <2>3, <2>4, <2>5 DEF IsChild
  <1> QED BY <1>1, <1>3, <1>5, OneChildInv

LEMMA ExecInv ==
    ASSUME Inv, NEW p \in DOMAIN child, Exec(p) PROVE Inv'
  <1>1. IsChild(p) /\ child[p].state = "forked"
    BY DEF Inv, Children, Exec
  <1>2. /\ child[p].to = stdout
        /\ child[p].redirect = IF Redirected(p[2]) THEN {File(Target(p[2]))}
                                                   ELSE {}
    BY <1>1 DEF IsChild
  <1>3. PICK runs \in BOOLEAN, file \in {Goal(p[2])} :
            /\ disk' = IF child[p].redirect = {} THEN disk
                                                 ELSE Store(file, Empty)
            /\ child' = [child EXCEPT ![p] =
                   [state |-> IF runs THEN "running" ELSE "exited",
                    to |-> file, redirect |-> @.redirect, ran |-> runs]]
    <2>1. (IF child[p].redirect = {} THEN {child[p].to}
                                     ELSE child[p].redirect) = {Goal(p[2])}
      BY <1>2 DEF Goal
    <2> QED BY <2>1 DEF Exec
  <1>4. UNCHANGED <<phase, input, settings, lists, next, screen, process>>
    BY DEF Exec
  <1>5. PICK record :
            record = [state |-> IF runs THEN "running" ELSE "exited",
                      to |-> file, redirect |-> child[p].redirect,
                      ran |-> runs]
    OBVIOUS
  <1>6. child' = [child EXCEPT ![p] = record]
    BY <1>3, <1>5
  <1>7. disk' = disk \/ \E content : disk' = Store(Goal(p[2]), content)
    BY <1>3
  <1>8. IsChild(p)'
    <2>1. child'[p] = record /\ DOMAIN child' = DOMAIN child
      BY <1>6
    <2>2. \A k : /\ Goal(k)' = Goal(k) /\ (Redirected(k)' <=> Redirected(k))
                 /\ File(Target(k))' = File(Target(k))
      BY <1>4, GoalsStay
    <2>3. typed' = typed /\ next' = next
      BY <1>4 DEF input
    <2>4. record.to = Goal(p[2])
      BY <1>5
    <2>5. /\ record.redirect = child[p].redirect /\ record.ran = runs
          /\ record = [state |-> record.state, to |-> record.to,
                       redirect |-> record.redirect, ran |-> record.ran]
          /\ \/ record.state = "running"
             \/ record.state = "exited" /\ ~record.ran
      BY <1>5
    <2> QED BY <1>1, <2>1, <2>2, <2>3, <2>4, <2>5 DEF IsChild
  <1> QED BY <1>4, <1>6, <1>7, <1>8, OneChildInv

LEMMA ProgramEndsInv ==
    ASSUME Inv, NEW p \in DOMAIN child, ProgramEnds(p) PROVE Inv'
  <1>1. IsChild(p) /\ child[p].state = "running"
    BY DEF Inv, Children, ProgramEnds
  <1>2. child[p].to = Goal(p[2])
    BY <1>1 DEF IsChild
  <1>3. /\ \/ /\ Goal(p[2]) = Terminal
              /\ <<p, "stdout">> \in screen' /\ disk' = disk
           \/ /\ Goal(p[2]) # Terminal
              /\ disk' = Store(Goal(p[2]), p)
        /\ <<p, "stderr">> \in screen' /\ screen \subseteq screen'
        /\ child' = [child EXCEPT ![p].state = "exited"]
        /\ UNCHANGED <<phase, input, settings, lists, next, process>>
    BY <1>2 DEF ProgramEnds
  <1>4. PICK record : record = [child[p] EXCEPT !.state = "exited"]
    OBVIOUS
  <1>5. child' = [child EXCEPT ![p] = record]
    BY <1>3, <1>4
  <1>6. disk' = disk \/ \E content : disk' = Store(Goal(p[2]), content)
    BY <1>3
  <1>7. IsChild(p)'
    <2>1. child'[p] = record /\ DOMAIN child' = DOMAIN child
      BY <1>5
    <2>2. /\ record.state = "exited" /\ record.to = child[p].to
          /\ record.redirect = child[p].redirect /\ record.ran = child[p].ran
          /\ record = [state |-> record.state, to |-> record.to,
                       redirect |-> record.redirect, ran |-> record.ran]
      BY <1>1, <1>4 DEF IsChild
    <2>3. \A k : /\ Goal(k)' = Goal(k) /\ (Redirected(k)' <=> Redirected(k))
                 /\ File(Target(k))' = File(Target(k))
      BY <1>3, GoalsStay
    <2>4. Arrived(p)'
      <3>1. CASE Goal(p[2]) = Terminal
        BY <1>3, <2>3, <3>1 DEF Arrived
      <3>2. CASE Goal(p[2]) # Terminal
        <4>1. PICK file : file = Goal(p[2])
          OBVIOUS
        <4>2. disk' = Store(file, p)
          BY <1>3, <3>2, <4>1
        <4>3. file \in DOMAIN disk' /\ disk'[file] = p
          BY <4>2, Stored
        <4> QED BY <1>3, <2>3, <3>2, <4>1, <4>3 DEF Arrived
      <3> QED BY <3>1, <3>2
    <2>5. typed' = typed /\ next' = next
      BY <1>3 DEF input
    <2> QED BY <1>1, <2>1, <2>2, <2>3, <2>4, <2>5 DEF IsChild
  <1> QED BY <1>3, <1>5, <1>6, <1>7, OneChildInv

LEMMA ForkInv == ASSUME Inv, Fork PROVE Inv'
  <1>1. Types /\ Phases /\ Targets /\ Recorded /\ Children
    BY DEF Inv
  <1>2. /\ phase = "fork" /\ next <= command_count /\ next' = next + 1
        /\ UNCHANGED <<phase, input, settings, lists, outputs, process>>
    BY DEF Fork
  <1>3. UNCHANGED <<phase, typed, line, pos, command_path, cwd, command_list,
                    label_list, file_list, disk, screen, stdout, leaked,
                    messages>>
    BY <1>2 DEF input, settings, lists, outputs, process
  <1>4. command_count' = command_count
    BY <1>3 DEF command_count
  <1>5. /\ next \in 1 .. ListSize /\ next' \in 1 .. command_count + 1
        /\ command_count \in 0 .. ListSize /\ next' \in Nat
    <2>1. command_count \in Nat
      BY <1>1, SequenceLength DEF Types, command_count
    <2>2. command_count <= ListSize /\ next \in 1 .. command_count + 1
      BY <1>1 DEF Types, TypeOK
    <2> QED BY <1>2, <2>1, <2>2, Sizes
  <1>6. typed \in Nat /\ typed >= 1
    BY <1>1, <1>2 DEF Phases, Types, TypeOK
  <1>7. PICK p : p = <<typed, next>>
    OBVIOUS
  <1>8. /\ p[2] = next /\ p = <<typed, p[2]>>
        /\ p \in (1 .. typed) \X (1 .. ListSize)
    BY <1>5, <1>6, <1>7
  <1>9. PICK record :
            record = [state    |-> "forked",
                      to       |-> stdout,
                      redirect |-> IF Redirected(next)
                                   THEN {File(Target(next))} ELSE {},
                      ran      |-> FALSE]
    OBVIOUS
  <1>10. child' = With(child, p, record) \/ child' = child
    BY <1>7, <1>9 DEF Fork, Process, Redirected
  <1>11. /\ DOMAIN child \subseteq DOMAIN child'
         /\ DOMAIN child' \subseteq DOMAIN child \cup {p}
         /\ \A q \in DOMAIN child : q # p => child'[q] = child[q]
         /\ child' = [q \in DOMAIN child' |-> child'[q]]
    <2>1. CASE child' = child
      BY <1>1, <2>1 DEF Children
    <2>2. CASE child' = With(child, p, record)
      <3>1. PICK new : new = With(child, p, record)
        OBVIOUS
      <3>2. /\ DOMAIN new = DOMAIN child \cup {p}
            /\ \A q \in DOMAIN child : q # p => new[q] = child[q]
            /\ new = [q \in DOMAIN new |-> new[q]]
        BY <3>1 DEF With
      <3> QED BY <2>2, <3>1, <3>2
    <2> QED BY <1>10, <2>1, <2>2
  <1>12. Types'
    <2>1. DOMAIN child' \subseteq (1 .. typed') \X (1 .. ListSize)
      BY <1>1, <1>3, <1>8, <1>11 DEF Types, TypeOK
    <2>2. next' \in 1 .. command_count' + 1
      BY <1>4, <1>5
    <2>3. TypeOK'
      BY <1>1, <1>3, <1>4, <2>1, <2>2 DEF Types, TypeOK
    <2> QED BY <1>1, <1>3, <2>3 DEF Types
  <1>13. Phases'
    BY <1>1, <1>2, <1>3 DEF Phases
  <1>14. Targets'
    BY <1>1, <1>3 DEF Targets, IsTarget
  <1>15. Recorded'
    <2>1. \A k : SlotIsRight(k)' <=> SlotIsRight(k)
      BY <1>3 DEF SlotIsRight
    <2> QED BY <1>1, <1>3, <1>4, <2>1 DEF Recorded
  <1>16. \A k : /\ Goal(k)' = Goal(k) /\ (Redirected(k)' <=> Redirected(k))
                /\ File(Target(k))' = File(Target(k))
    BY <1>2, GoalsStay
  <1>17. ASSUME NEW q \in DOMAIN child PROVE q # p /\ IsChild(q)'
    <2>1. IsChild(q)
      BY <1>1 DEF Children
    <2>2. q[2] \in 1 .. next - 1
      BY <2>1 DEF IsChild
    <2>3. q # p
      BY <1>5, <1>8, <2>2
    <2>4. q[2] \in 1 .. next' - 1
      BY <1>2, <1>5, <2>2
    <2>5. Arrived(q) => Arrived(q)'
      BY <1>3, <1>11, <1>16 DEF Arrived
    <2>6. child'[q] = child[q] /\ typed' = typed
      BY <1>3, <1>11, <2>3
    <2> QED BY <1>2, <2>1, <2>3, <2>4, <2>5, <2>6, KeepsChild
  <1>18. ASSUME p \in DOMAIN child', child' = With(child, p, record)
         PROVE  IsChild(p)'
    <2>1. child'[p] = record
      <3>1. PICK new : new = With(child, p, record)
        OBVIOUS
      <3>2. new[p] = record
        BY <3>1 DEF With
      <3> QED BY <1>18, <3>1, <3>2
    <2>2. p[2] \in 1 .. next' - 1
      BY <1>2, <1>5, <1>8
    <2>3. /\ record.state = "forked" /\ record.to = stdout /\ record.ran = FALSE
          /\ record.redirect = IF Redirected(next)
                               THEN {File(Target(next))} ELSE {}
          /\ record = [state |-> record.state, to |-> record.to,
                       redirect |-> record.redirect, ran |-> record.ran]
      BY <1>9
    <2> QED BY <1>3, <1>8, <1>16, <2>1, <2>2, <2>3 DEF IsChild
  <1>19. Children'
    <2>1. \A q \in DOMAIN child' : IsChild(q)'
      BY <1>10, <1>11, <1>17, <1>18
    <2> QED BY <1>11, <2>1 DEF Children
  <1> QED BY <1>12, <1>13, <1>14, <1>15, <1>19 DEF Inv

LEMMA NextLineInv == ASSUME Inv, NextLine PROVE Inv'
  <1>1. Types /\ Phases /\ Targets /\ Recorded /\ Children
    BY DEF Inv
  <1>2. /\ phase = "wait" /\ phase' = "read" /\ next' = 1
        /\ command_list' = <<>> /\ label_list' = {} /\ file_list' = <<>>
        /\ UNCHANGED <<typed, line, pos, command_path, cwd, disk, screen,
                       stdout, leaked, messages>>
    BY DEF NextLine, ClearLists, input, settings, outputs, process
  <1>3. /\ DOMAIN child' = {}
        /\ child' = [p \in DOMAIN child' |-> child'[p]]
    <2>1. {p \in DOMAIN child : child[p].state # "reaped"} = {}
      BY DEF NextLine, NoChildLeft
    <2>2. child' = Restrict(child, {})
      BY <2>1 DEF NextLine
    <2> QED BY <2>2 DEF Restrict
  <1>4. command_count' = 0
    BY <1>2, EmptySequence DEF command_count
  <1>5. Types'
    <2>1. next' \in 1 .. command_count' + 1 /\ command_count' <= ListSize
      BY <1>2, <1>4, Sizes
    <2>2. DOMAIN child' \subseteq (1 .. typed') \X (1 .. ListSize)
      BY <1>3
    <2>3. label_list' \subseteq 1 .. ListSize /\ DOMAIN file_list' \subseteq {}
      BY <1>2, EmptySequence
    <2>4. TypeOK'
      BY <1>1, <1>2, <2>1, <2>2, <2>3 DEF Types, TypeOK
    <2>5. IsSequence(command_list')
      BY <1>2, EmptySequence
    <2> QED BY <1>1, <1>2, <2>4, <2>5 DEF Types
  <1>6. Phases'
    BY <1>2, <1>3 DEF Phases
  <1>7. Targets'
    BY <1>2, EmptySequence DEF Targets
  <1>8. Recorded'
    BY <1>2 DEF Recorded
  <1>9. Children'
    BY <1>3 DEF Children
  <1> QED BY <1>5, <1>6, <1>7, <1>8, <1>9 DEF Inv

-----------------------------------------------------------------------------
(* The theorems.                                                           *)

LEMMA InitInv == Init => Inv
  <1> SUFFICES ASSUME Init PROVE Inv
    OBVIOUS
  <1>1. Len(<<Bin>>) = 1
    OBVIOUS
  <1>2. command_count = 0
    BY EmptySequence DEF Init, command_count
  <1>3. Types
    <2>1. TypeOK
      BY <1>1, <1>2, EmptySequence, Sizes DEF Init, TypeOK
    <2>2. IsLine(line)
      BY EmptySequence DEF Init, IsLine
    <2> QED BY <2>1, <2>2, EmptySequence DEF Init, Types
  <1>4. Phases /\ Targets /\ Recorded
    BY EmptySequence DEF Init, Phases, Targets, Recorded
  <1>5. Children
    <2>1. <<>> = [p \in {} |-> <<>>[p]]
      OBVIOUS
    <2> QED BY <2>1, EmptySequence DEF Init, Children
  <1> QED BY <1>3, <1>4, <1>5 DEF Inv

LEMMA SameChildren ==
    ASSUME Children, UNCHANGED <<settings, lists, process>>,
           UNCHANGED <<typed, next, child, disk, screen, stdout>>
    PROVE  Children'
  <1>1. \A k : /\ Goal(k)' = Goal(k) /\ (Redirected(k)' <=> Redirected(k))
               /\ File(Target(k))' = File(Target(k))
    BY GoalsStay
  <1>2. ASSUME NEW p \in DOMAIN child, IsChild(p) PROVE IsChild(p)'
    <2>1. Arrived(p)' <=> Arrived(p)
      BY <1>1 DEF Arrived
    <2> QED BY <1>1, <1>2, <2>1 DEF IsChild
  <1> QED BY <1>2 DEF Children

LEMMA StutterInv == ASSUME Inv, UNCHANGED vars PROVE Inv'
  <1>1. Types /\ Phases /\ Targets /\ Recorded /\ Children
    BY DEF Inv
  <1>2. UNCHANGED <<settings, lists, process>>
    BY DEF vars
  <1>3. UNCHANGED <<phase, typed, line, pos, command_path, cwd, command_list,
                    label_list, file_list, next, child, disk, screen, stdout,
                    leaked, messages>>
    BY DEF vars, input, settings, lists, children, outputs, process
  <1>4. command_count' = command_count
    BY <1>3 DEF command_count
  <1>5. Types'
    <2>1. TypeOK'
      BY <1>1, <1>3, <1>4 DEF Types, TypeOK, Ended
    <2> QED BY <1>1, <1>3, <2>1 DEF Types
  <1>6. Phases'
    BY <1>1, <1>3 DEF Phases
  <1>7. Targets'
    BY <1>1, <1>3 DEF Targets, IsTarget
  <1>8. Recorded'
    <2>1. \A k : SlotIsRight(k)' <=> SlotIsRight(k)
      BY <1>3 DEF SlotIsRight
    <2> QED BY <1>1, <1>3, <1>4, <2>1 DEF Recorded
  <1>9. Children'
    BY <1>1, <1>2, <1>3, SameChildren
  <1> QED BY <1>5, <1>6, <1>7, <1>8, <1>9 DEF Inv

LEMMA NextInv == Inv /\ [Next]_vars => Inv'
  <1> SUFFICES ASSUME Inv, [Next]_vars PROVE Inv'
    OBVIOUS
  <1>1. CASE Start \/ BadInvocation \/ EndOfInput \/ Overflow
    BY <1>1, QuietInv
  <1>2. CASE ReadLine
    BY <1>2, ReadLineInv
  <1>3. CASE ACommand
    BY <1>3, CommandInv
  <1>4. CASE EndOfLine \/ AllForked
    BY <1>4, PhaseInv
  <1>5. CASE Fork
    BY <1>5, ForkInv
  <1>6. CASE NextLine
    BY <1>6, NextLineInv
  <1>7. ASSUME NEW p \in DOMAIN child, Reap(p) \/ ChildStep(p) PROVE Inv'
    BY <1>7, ReapInv, ExecInv, ProgramEndsInv DEF ChildStep
  <1>8. CASE UNCHANGED vars
    BY <1>8, StutterInv
  <1> QED BY <1>1, <1>2, <1>3, <1>4, <1>5, <1>6, <1>7, <1>8
          DEF Next, ShellStep, ACommand

\* A child writes to the shell's output or to a target of the line.
LEMMA GoalIsTarget ==
    ASSUME Targets, NEW k
    PROVE  Goal(k) = stdout \/ IsTarget(Goal(k)[2])
  <1>1. CASE Redirected(k)
    <2>1. Target(k) # <<>> /\ Goal(k) = <<cwd, Target(k)>>
      BY <1>1 DEF Redirected, CanOpen, Goal, File
    <2>2. k \in DOMAIN file_list /\ Target(k) = file_list[k]
      BY <2>1 DEF Target
    <2> QED BY <2>1, <2>2 DEF Targets
  <1> QED BY <1>1 DEF Goal

LEMMA Invariance == Spec => []Inv
  BY InitInv, NextInv, PTL DEF Spec

\* Every variable of the shell keeps its type: no slot beyond the lists is in
\* use, and at most MaxFds descriptors are lost.
THEOREM TypeCorrect == Spec => []TypeOK
  <1>1. Inv => TypeOK
    BY DEF Inv, Types
  <1> QED BY <1>1, Invariance, PTL

\* When all children of a line whose commands are all recorded have ended, the
\* standard output of each program is where its command says: on the terminal,
\* or in its target if no other command of the line has the same one; and its
\* standard error is on the terminal, whatever the command says.
THEOREM OutputsArrive == Spec => []OutputArrives
  <1>1. ASSUME Inv PROVE OutputArrives
    <2> SUFFICES ASSUME phase = "wait", NoChildLeft, CleanLine,
                        NEW p \in DOMAIN child, NEW k, k = p[2], child[p].ran
                 PROVE  /\ <<p, "stderr">> \in screen
                        /\ IF line[k].redirects = 0
                           THEN <<p, "stdout">> \in screen
                           ELSE \/ disk[File(line[k].targets)] = p
                                \/ \E m \in 1 .. command_count \ {k} :
                                       line[m].targets = line[k].targets
      BY <1>1 DEF OutputArrives
    <2>1. Types /\ Phases /\ Recorded /\ Children
      BY <1>1 DEF Inv
    <2>2. /\ Len(line) \in Nat /\ DOMAIN line = 1 .. Len(line)
          /\ command_count = Len(line) /\ stdout = Terminal
          /\ next \in 1 .. command_count + 1
      BY <2>1, SequenceLength DEF Types, TypeOK, IsLine, CleanLine
    <2>3. \A m \in 1 .. command_count : SlotIsRight(m)
      BY <2>1, <2>2 DEF Phases, Recorded
    <2>4. \A m \in 1 .. command_count :
              line[m].redirects = 1 => CanOpen(line[m].targets)
      BY DEF CleanLine
    <2>5. ASSUME NEW q \in DOMAIN child
          PROVE  /\ q = <<typed, q[2]>> /\ q[2] \in 1 .. command_count
                 /\ child[q].ran => Arrived(q)
      <3>1. IsChild(q) /\ child[q].state = "reaped"
        BY <2>1 DEF Children, NoChildLeft
      <3>2. q[2] \in 1 .. next - 1
        BY <3>1 DEF IsChild
      <3>3. q[2] \in 1 .. command_count
        BY <2>2, <3>2
      <3> QED BY <3>1, <3>3 DEF IsChild
    <2>6. ASSUME NEW m \in 1 .. command_count
          PROVE  \/ line[m].redirects = 0 /\ Goal(m) = Terminal
                 \/ /\ line[m].redirects = 1
                    /\ Goal(m) = <<cwd, line[m].targets>>
                    /\ Goal(m) # Terminal
      <3>1. CASE line[m].redirects = 0
        BY <2>2, <2>3, <3>1 DEF SlotIsRight, Redirected, Goal
      <3>2. CASE line[m].redirects = 1
        <4>1. Target(m) = line[m].targets /\ Redirected(m)
          BY <2>3, <2>4, <3>2 DEF SlotIsRight, Redirected, Target
        <4>2. Goal(m) = <<cwd, line[m].targets>>
          BY <4>1 DEF Goal, File
        <4>3. line \in Lines /\ m \in DOMAIN line
          BY <2>1, <2>2, EmptySequence DEF Types
        <4>4. cwd \in Folders \cup {Home}
          BY <2>1 DEF Types, TypeOK
        <4>5. Terminal # <<cwd, line[m].targets>>
          BY <4>3, <4>4, TerminalAssumption
        <4> QED BY <3>2, <4>2, <4>5
      <3> QED BY <2>3, <3>1, <3>2 DEF SlotIsRight
    <2>7. /\ k \in 1 .. command_count /\ Arrived(p) /\ p = <<typed, k>>
          /\ <<p, "stderr">> \in screen
      BY <2>5 DEF Arrived
    <2>8. CASE Goal(k) = Terminal
      BY <2>6, <2>7, <2>8 DEF Arrived
    <2>9. CASE Goal(k) # Terminal
      <3>1. line[k].redirects = 1 /\ Goal(k) = File(line[k].targets)
        BY <2>6, <2>7, <2>9 DEF File
      <3>2. CASE disk[Goal(k)] = p
        BY <2>7, <3>1, <3>2
      <3>3. CASE \E q \in DOMAIN child \ {p} : Goal(q[2]) = Goal(k)
        <4>1. PICK q \in DOMAIN child \ {p} : Goal(q[2]) = Goal(k)
          BY <3>3
        <4>2. PICK m : m = q[2]
          OBVIOUS
        <4>3. m \in 1 .. command_count /\ q = <<typed, m>> /\ Goal(m) = Goal(k)
          BY <2>5, <4>1, <4>2
        <4>4. m # k
          BY <2>7, <4>1, <4>3
        <4>5. Goal(m) = <<cwd, line[m].targets>>
          BY <2>6, <2>9, <4>3
        <4>6. line[m].targets = line[k].targets
          BY <3>1, <4>3, <4>5 DEF File
        <4> QED BY <2>7, <3>1, <4>3, <4>4, <4>6
      <3> QED BY <2>7, <2>9, <3>2, <3>3 DEF Arrived
    <2> QED BY <2>8, <2>9
  <1> QED BY <1>1, Invariance, PTL

\* A step of the shell or of a program creates, truncates or writes no file but
\* a target of the line that was typed last, or the shell's own output.
THEOREM OthersAreLeftAlone == Spec => OtherFilesAreLeftAlone
  <1>1. ASSUME Inv, [Next]_vars PROVE TouchesOnlyTargets
    <2>1. Types /\ Targets /\ Children
      BY <1>1 DEF Inv
    <2>2. CASE disk' = disk
      BY <2>2 DEF TouchesOnlyTargets
    <2>3. CASE ACommand
      <3>1. /\ \A f \in DOMAIN disk' :
                  f \notin DOMAIN disk \/ disk'[f] # disk[f] =>
                      Command.redirects = 1 /\ f = File(Command.targets)
            /\ Parsing
        BY <2>1, <2>3, CommandStep
      <3>2. pos \in DOMAIN line
        BY <2>1, <3>1, CommandType
      <3> QED BY <3>1, <3>2 DEF TouchesOnlyTargets, Command, File
    <2>4. ASSUME NEW p \in DOMAIN child, NEW content,
                 disk' = Store(Goal(p[2]), content), stdout' = stdout
          PROVE  TouchesOnlyTargets
      <3>1. PICK file : file = Goal(p[2])
        OBVIOUS
      <3>2. disk' = Store(file, content)
        BY <2>4, <3>1
      <3>3. \A f \in DOMAIN disk' :
                f \notin DOMAIN disk \/ disk'[f] # disk[f] => f = file
        BY <3>2 DEF Store, With
      <3>4. file = stdout' \/ IsTarget(file[2])
        BY <2>1, <2>4, <3>1, GoalIsTarget
      <3> QED BY <3>3, <3>4 DEF TouchesOnlyTargets, IsTarget
    <2>5. ASSUME NEW p \in DOMAIN child, Exec(p) PROVE TouchesOnlyTargets
      <3>1. IsChild(p) /\ child[p].state = "forked" /\ stdout' = stdout
        BY <2>1, <2>5 DEF Children, Exec, process
      <3>2. child[p].redirect = IF Redirected(p[2]) THEN {File(Target(p[2]))}
                                                    ELSE {}
        BY <3>1 DEF IsChild
      <3>3. disk' = disk \/ disk' = Store(Goal(p[2]), Empty)
        BY <2>5, <3>2 DEF Exec, Goal
      <3> QED BY <2>2, <2>4, <3>1, <3>3
    <2>6. ASSUME NEW p \in DOMAIN child, ProgramEnds(p)
          PROVE  TouchesOnlyTargets
      <3>1. IsChild(p) /\ child[p].state = "running" /\ stdout' = stdout
        BY <2>1, <2>6 DEF Children, ProgramEnds, process
      <3>2. child[p].to = Goal(p[2])
        BY <3>1 DEF IsChild
      <3>3. disk' = disk \/ disk' = Store(Goal(p[2]), p)
        BY <2>6, <3>2 DEF ProgramEnds
      <3> QED BY <2>2, <2>4, <3>1, <3>3
    <2>7. CASE Start \/ BadInvocation \/ ReadLine \/ EndOfInput \/ Overflow
      BY <2>2, <2>7
         DEF Start, BadInvocation, ReadLine, EndOfInput, Overflow, outputs
    <2>8. CASE EndOfLine \/ Fork \/ AllForked \/ NextLine
      BY <2>2, <2>8 DEF EndOfLine, Fork, AllForked, NextLine, outputs
    <2>9. ASSUME NEW p \in DOMAIN child, Reap(p) PROVE TouchesOnlyTargets
      BY <2>2, <2>9 DEF Reap, outputs
    <2>10. CASE UNCHANGED vars
      BY <2>2, <2>10 DEF vars, outputs
    <2> QED BY <1>1, <2>3, <2>5, <2>6, <2>7, <2>8, <2>9, <2>10
            DEF Next, ShellStep, ChildStep, ACommand
  <1> QED BY <1>1, Invariance, PTL DEF Spec, OtherFilesAreLeftAlone
=============================================================================
