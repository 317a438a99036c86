CONSTANTS
    Workers = {w1, w2, w3}
    Commands <- MCPzip2Commands
    Memories <- MCMemories
    BUFFER_SIZE = 2
    MaxPaths = 3
    NoChunk = NoChunk
    WzipCommands <- MCInputs
    PzipCommands <- MCPzipInputs
    CannotOpen = CannotOpen
    ReverseCommands <- MCReverseCommands
    LinkOf <- MCLinkOf
    InputName <- MCInputName
    BackName <- MCBackName
    StdIn = "stdin"
    StdOut = "stdout"
    Contents <- MCContents
SPECIFICATION RoundTripSpec
INVARIANTS
    TypeOK
    AllOrNothing
    ZipsCompress
    UnzippedIsOriginal
    ReversedTwiceIsOriginal
PROPERTY Terminates
\* The programs end.
CHECK_DEADLOCK FALSE
