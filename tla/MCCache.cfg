CONSTANTS
    NumSets = 4
    NumWays = 3
    MaxStamp = 7
    Addrs <- FewAddrs
SPECIFICATION Spec
INVARIANTS
    TypeOK
    StampsOrderTheSet
    UsedBlockStays
PROPERTY ImplementsLru
CHECK_DEADLOCK FALSE
