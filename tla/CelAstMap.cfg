SPECIFICATION FairSpec
CONSTANTS
    Callers  = {c1, c2, c3}
    Codes    = {k1, k2}
    Faulty   = {k2}
    NoAst    = NoAst
    NoCaller = NoCaller
INVARIANT TypeOK
INVARIANT NoRace
INVARIANT OneAstPerCode
INVARIANT AnswersMatch
INVARIANT InitBeforeUse
PROPERTY EveryCallReturns
PROPERTY ImplementsCache
