CONSTANTS
    c1 = c1
    c2 = c2
    c3 = c3
    Consumers = {c1, c2}
    q_capacity = 2
    page_size = 2
    OutSlots = 6
    Bytes <- MCBytes
    Inputs <- MCAllInputs
    Garbage = {0}
SPECIFICATION FairSpec
PROPERTY Terminates
\* The process ends.
CHECK_DEADLOCK FALSE
