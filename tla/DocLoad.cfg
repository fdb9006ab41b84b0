SPECIFICATION Spec
CONSTANTS
    ZeroArg    = ZeroArg
    MaxInt32   = 3
    MaxUint32  = 7
    EvalMax    = 12
    Root      <- TheRoot
    Child     <- TheChild
    ValueAt   <- TheValueAt
    DefaultAt <- TheDefaultAt
    Data      <- TheData
    FieldType <- TheFieldType
    Oneof     <- TheOneof
    Programs  <- Procs
    ArgVals   <- MCArgVals
INVARIANT LoadYieldsNoProc
