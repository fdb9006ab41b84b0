SPECIFICATION Spec
CONSTANTS
    W8         = 1
    W32        = 4
    W64        = 7
    P32        = 3
    P64        = 5
    MaxRune    = 5
    MaxDepth   = 4
    MsgTypes  <- TheMsgTypes
    EnumTypes <- TheEnumTypes
    Utf8      <- TheUtf8
    Roots     <- TheRoots
    Lists     <- TheLists
    Maps      <- TheMaps
    Simple    <- TheSimple
    Steps     <- TheSteps
INVARIANT TypeOK
INVARIANT CelKeyLeadsBack
INVARIANT DefaultFits
INVARIANT SameKindFits
INVARIANT StepSelects
