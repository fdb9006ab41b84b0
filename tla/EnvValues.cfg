SPECIFICATION Spec
SYMMETRY SymmetricKeys
CONSTANTS
    k        = k
    l        = l
    First    = "g"
    Threads <- MCThreads
    Rangers <- MCRangers
    Keys    <- MCKeys
    GoInts  <- MCGoInts
    MaxInt32 = 1
    MaxCalls = 4
INVARIANT TypeOK
 
INVARIANT RacesAreShared
INVARIANT RangeFindsValues
PROPERTY ImplementsStores
