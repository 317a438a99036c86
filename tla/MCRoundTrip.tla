---------------------------- MODULE MCRoundTrip ----------------------------
(* Small instances of RoundTrip: the command lines of MCPzip2 for pzip2;   *)
(* for wzip all files of up to three bytes, a zero byte among them, and    *)
(* all command lines of up to two of these and of files that cannot be     *)
(* opened; for pzip all files of up to three bytes, two at most, and files *)
(* of every length up to 14, which leave from two bytes less than nothing  *)
(* to a whole chunk for the last thread; for reverse all files of up to    *)
(* four bytes, and names that are equal, differ, end with one another,     *)
(* name the same file, or cannot be opened.                                *)
EXTENDS RoundTrip, MCPzip2, TLC

MCPzip2Commands == MCCommands \cup {NoFiles}

FilesOver(bytes) == UNION {[1 .. n -> bytes] : n \in 0 .. 3}

UpToTwo(files) == UNION {[1 .. n -> files] : n \in 1 .. 2}

MCInputs == UpToTwo(FilesOver({0, 1}) \cup {CannotOpen})

MCPzipInputs ==
    UpToTwo(FilesOver({1, 2}))
      \cup {<<[i \in 1 .. n |-> IF i < 4 THEN 1 ELSE 2]>> : n \in 4 .. 14}
      \cup {<<CannotOpen>>,
            <<<<1>>, CannotOpen>>,
            <<<<1, 1, 2, 2, 1, 1, 1>>, CannotOpen>>,
            <<<<1, 0, 1, 2>>, <<2, 2, 0, 1>>>>}

MCContents == UNION {[1 .. n -> {"x", "y", "nl", "nul"}] : n \in 0 .. 3}
                \cup [1 .. 4 -> {"x", "nl"}]

MCInputName == <<"d", "/", "a", "b">>
MCBackName == <<"c">>
OtherName == <<"b">>                         \* shorter than a base name
LongName == <<"a", "d", "/", "b", "b">>      \* the first one fits it in part
EndsAlike == <<"e", "d", "/", "a", "b">>     \* ends with the first one
Spread == <<"d", "x", "/", "a", "x", "b">>   \* has it spread over it
SecondName == <<"d", "/", "b", "a">>         \* a link to the first file
NoDirectory == <<"f", "/", "a", "b">>

MCLinkOf ==
    (MCInputName :> "file") @@ (SecondName :> "file")
      @@ (MCBackName :> "back") @@ (OtherName :> "other")
      @@ (LongName :> "long") @@ (EndsAlike :> "alike") @@ (Spread :> "spread")

MCReverseCommands ==
    { <<>>, <<MCInputName>>, <<MCBackName>>, <<NoDirectory>>,
      <<NoDirectory, OtherName>>, <<MCInputName, OtherName, LongName>> }
      \cup
    { <<MCInputName, name>> : name \in DOMAIN MCLinkOf \cup {NoDirectory} }
=============================================================================
