------------------------------- MODULE MCWish -------------------------------
(* Instances of the shell: small limits and a choice of lines.             *)
EXTENDS Wish

CONSTANTS bin, usr, home, tmp, f, g, a

Text(name, args) == [name |-> name, args |-> args, redirects |-> 0,
                     spaced |-> FALSE, targets |-> <<>>]

To(command, targets) == [command EXCEPT !.redirects = 1, !.targets = targets]

Spaced(command) == [command EXCEPT !.spaced = TRUE]

ls == Text("ls", <<>>)
prog == Text("prog", <<>>)      \* only in usr
nosuch == Text("nosuch", <<>>)

MCPrograms == {<<bin, "ls">>, <<usr, "ls">>, <<usr, "prog">>}

\* One line for each thing the shell can meet, alone or with a program after
\* it or before it.
MCLines == {
    <<>>,                                                \* blank, or only &
    <<ls, Spaced(To(Text("ls", <<a>>), <<f>>))>>,        \* ls & ls a > f
    <<To(ls, <<f>>), To(ls, <<g>>)>>,
    <<To(ls, <<f>>), To(ls, <<f>>)>>,
    <<To(nosuch, <<f>>), ls>>,
    <<[To(ls, <<f>>) EXCEPT !.redirects = 2], ls>>,      \* ls > f > f & ls
    <<To(ls, <<f, g>>), ls>>,
    <<To(ls, <<>>), prog>>,                              \* ls > & prog
    <<To(Text(NoCommand, <<>>), <<f>>)>>,                \* > f
    <<To(Text(NoCommand, <<>>), <<>>), ls>>,             \* > & ls
    <<Text("path", <<usr>>), prog>>,
    <<prog, Text("path", <<>>), ls>>,
    <<To(ls, <<f>>), Text("cd", <<tmp>>)>>,
    <<Text("cd", <<a>>), To(Text("cd", <<tmp, a>>), <<f>>)>>,
    <<Text("cd", <<>>)>>,
    <<Text("exit", <<a>>)>>,
    <<Spaced(To(Text("exit", <<>>), <<f>>)), ls>>,       \* exit > f & ls
    <<ls, Text("exit", <<>>)>>,
    <<To(Text("exit", <<>>), <<f>>)>>,
    <<ls, ls, ls>>,                                      \* more than ListSize
    <<ls, ls, To(nosuch, <<f>>)>>,
    <<Text("nosuch", <<a, a, a>>),
      Text("ls", <<a, a, a>>)>>,                         \* no room for NULL
    <<Text("nosuch", <<a, a, a, a>>)>>,                  \* over MAX_PARAMETER
    <<Text("path", <<bin, usr, tmp>>)>> }                \* over MAX_COMMAND

\* The line of the finding: nosuch > f & ls
RedirectLines == {<<To(nosuch, <<f>>), ls>>}
=============================================================================
