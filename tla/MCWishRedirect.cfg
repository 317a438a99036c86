SPECIFICATION Spec
CONSTANTS
    Lines <- RedirectLines
    Programs <- MCPrograms
    Folders = {home, tmp}
    Unwritable = {}
    Home = home
    Bin = bin
    NoCommand = NoCommand
    Terminal = Terminal
    Empty = Empty
    MAX_PARAMETER = 4
    MAX_COMMAND = 2
    ListSize = 2
    MaxFds = 4
    MaxLines = 2
    bin = bin
    usr = usr
    home = home
    tmp = tmp
    f = f
    g = g
    a = a
INVARIANTS
    OwnRedirection
CHECK_DEADLOCK FALSE
