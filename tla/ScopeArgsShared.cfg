SPECIFICATION Spec
CONSTANTS
    ZeroArg   = ZeroArg
    Root      = "msg"
    Args     <- MCArgs
    Locs     <- MCLocs
    MaxInt32  = 3
    MaxSteps  = 2
    MaxScopes = 4
    MaxArrays = 3
    MaxOwn    = 3
    MaxFrames = 3
PROPERTY PushIsLocal
