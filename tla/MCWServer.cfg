CONSTANTS
    conn1 = conn1
    conn2 = conn2
    conn3 = conn3
    w1 = w1
    w2 = w2
    None = None
    Workers = {w1, w2}
    Conns = {conn1, conn2, conn3}
    Setups <- MCSetups
SPECIFICATION FairSpec
INVARIANTS
    TypeOK
    OnePlace
    AnswerIsRight
    NoLostWakeup
    CrashHasCause
PROPERTIES
    ImplementsRequestPool
    EveryRequestIsServed
\* The server stops when every client has been served.
CHECK_DEADLOCK FALSE
