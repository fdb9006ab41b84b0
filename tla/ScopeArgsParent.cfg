SPECIFICATION Spec
CONSTANTS
    ZeroArg   = ZeroArg
    Root      = "msg"
    Args     <- MCArgs
    Locs     <- MCLocs
    MaxInt32  = 3
    MaxSteps  = 2
    MaxScopes = 4
    MaxArrays = 2
    MaxOwn    = 2
    MaxFrames = 3
INVARIANT TypeOK
INVARIANT ArgIsIndexOfVisible
INVARIANT IterationIsList
INVARIANT EqualIsSameList
PROPERTY DropIsExact
