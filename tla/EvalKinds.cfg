SPECIFICATION FairSpec
CONSTANTS
    ZeroArg    = ZeroArg
    MaxInt32   = 3
    MaxUint32  = 15
    EvalMax    = 14
    Root      <- TheRoot
    Child     <- TheChild
    ValueAt   <- TheValueAt
    DefaultAt <- TheDefaultAt
    Data      <- TheData
    FieldType <- TheFieldType
    Oneof     <- TheOneof
    Programs  <- MCPrograms
    ArgVals   <- MCArgVals
INVARIANT TypeOK
INVARIANT DepthWithinCycles
INVARIANT ArgsInOrder
INVARIANT RangeKeepsItsArgs
INVARIANT RangeRemovesItsArgs
INVARIANT BreakCounts
INVARIANT AgreesWithMeaning
PROPERTY ErrorsAreFatal
PROPERTY SubscopeKeepsArgs
PROPERTY ContinueReachesItsWhile
PROPERTY ImplementsScopeArgs
PROPERTY EveryEvalEnds
