------------------------------ MODULE MCPzip2 ------------------------------
(* Small instances of Pzip2: command lines for chunks of two bytes.        *)
EXTENDS Pzip2

Plain(bytes) == [content |-> bytes, access |-> "ok"]
Locked(bytes) == [content |-> bytes, access |-> "locked"]
Missing == [content |-> <<>>, access |-> "missing"]

Arg(f) == [dir |-> FALSE, entries |-> <<[regular |-> TRUE, file |-> f]>>]

Dir(fs) == [dir |-> TRUE, entries |-> fs]
Regular(f) == [regular |-> TRUE, file |-> f]
Other == [regular |-> FALSE, file |-> Plain(<<1>>)]

MCCommands == {
    \* a short last chunk, runs over the ends of chunks and files, a byte 0
    <<Arg(Plain(<<0, 1, 1>>)), Arg(Plain(<<1, 2>>))>>,
    \* one run through all of it, an empty file in between
    <<Arg(Plain(<<1, 1>>)), Arg(Plain(<<>>)), Arg(Plain(<<1>>))>>,
    \* a chunk of several runs whose last one goes on
    <<Arg(Plain(<<1, 2, 2, 2>>)), Arg(Plain(<<2, 0>>))>>,
    \* no byte at all
    <<Arg(Plain(<<>>))>>,
    \* a directory
    <<Dir(<<Regular(Plain(<<1>>)), Other, Regular(Plain(<<1, 2>>))>>)>>,
    <<Dir(<<>>), Arg(Plain(<<1>>))>>,
    \* files that cannot be read
    <<Arg(Plain(<<1>>)), Arg(Missing)>>,
    <<Arg(Missing), Arg(Plain(<<1>>))>>,
    <<Arg(Missing), Arg(Plain(<<>>))>>,
    <<Arg(Locked(<<1, 2>>)), Arg(Plain(<<1>>))>>,
    \* more files than Allpaths has room for
    <<Arg(Plain(<<1>>)), Arg(Plain(<<1>>)), Arg(Plain(<<1>>)),
      Arg(Plain(<<1>>))>> }

Memory(clean, bytes, in_order) ==
    [clean |-> clean, size |-> bytes, in_order |-> in_order]

MCMemories == { Memory(TRUE, 0, TRUE), Memory(TRUE, 0, FALSE),
                Memory(FALSE, 1, TRUE) }

MCOneFile == { <<Arg(Plain(<<1, 1, 1>>))>> }

MCInOrder == { Memory(TRUE, 0, TRUE) }
=============================================================================
