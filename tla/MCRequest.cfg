CONSTANTS
    conn1 = conn1
    conn2 = conn2
    conn3 = conn3
    w1 = w1
    w2 = w2
    file1 = file1
    file2 = file2
    None = None
    Conns = {conn1, conn2, conn3}
    Workers = {w1, w2}
    Files = {file1, file2}
    MaxChanges = 1
    Setups <- MCSetups
SPECIFICATION FairSpec
INVARIANTS
    TypeOK
    WaitFindsAChild
    AnswerIsWhole
    CrashHasCause
PROPERTIES
    EveryClientSeesTheEnd
\* The server stops when every client has been served.
CHECK_DEADLOCK FALSE
