CONSTANTS
    Keys <- MCKeys
    Values <- MCValues
    Inputs <- MCAllInputs
    num_mappers = 3
    num_reducers = 2
    MaxPairs = 6
    MaxInPartition = 4
    partition <- MCPartition
    NoMapper = NoMapper
SPECIFICATION FairSpec
INVARIANTS
    TypeOK
    EmitsAreKept
    ValuesGoToTheirKey
    AllReduced
PROPERTIES
    Terminates
\* MR_Run returns.
CHECK_DEADLOCK FALSE
