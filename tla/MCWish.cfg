SPECIFICATION FairSpec
CONSTANTS
    Lines <- MCLines
    Programs <- MCPrograms
    Folders = {home, tmp}
    Unwritable = {g}
    Home = home
    Bin = bin
    NoCommand = NoCommand
    Terminal = Terminal
    Empty = Empty
    MAX_PARAMETER = 4
    MAX_COMMAND = 2
    ListSize = 2
    MaxFds = 4
    MaxLines = 3
    bin = bin
    usr = usr
    home = home
    tmp = tmp
    f = f
    g = g
    a = a
INVARIANTS
    TypeOK
    OutputArrives
PROPERTIES
    OtherFilesAreLeftAlone
    EveryLineEnds
CHECK_DEADLOCK FALSE
