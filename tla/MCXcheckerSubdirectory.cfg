SPECIFICATION Spec
CONSTANTS
    ninodes = 4
    nblocks = 9
    bmapstart = 8
    FSSIZE = 18
    BSIZE = 4
    NDIRECT = 2
    NINDIRECT = 2
    DIRENTS = 3
    Images <- MCGoodImages
    MaxDepth = 6
    USHRT_MAX = 7
    MaxAddress = 127
INVARIANT ConsistentImageIsAccepted
\* The checker ends.
CHECK_DEADLOCK FALSE
