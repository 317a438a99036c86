CONSTANTS
    Workers = {w1, w2}
    Commands <- MCOneFile
    Memories <- MCInOrder
    BUFFER_SIZE = 2
    MaxPaths = 3
    NoChunk = NoChunk
SPECIFICATION Spec
INVARIANT ReadableIsCompressed
\* The program ends.
CHECK_DEADLOCK FALSE
