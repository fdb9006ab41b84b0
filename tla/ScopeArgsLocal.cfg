SPECIFICATION SpecLocal
CONSTANTS
    ZeroArg   = ZeroArg
    Root      = "msg"
    Args     <- MCArgs
    Locs     <- MCLocs
    MaxInt32  = 3
    MaxSteps  = 2
    MaxScopes = 3
    MaxArrays = 3
    MaxOwn    = 2
    MaxFrames = 3
INVARIANT Unshared
PROPERTY ImplementsArgStacks
PROPERTY PushIsLocal
