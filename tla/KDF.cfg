SPECIFICATION Spec
CONSTANTS
    Word = 32
    HashLen = 2
    Agreed <- MCAgreed
    AlgID <- MCAlgID
    Info <- MCInfo
    Password <- MCPassword
    Alg <- MCAlg
    SaltInput <- MCSaltInput
    Iterations <- MCIterations
    KeyLens <- MCKeyLens
    MaxDerived = 2
CHECK_DEADLOCK FALSE
INVARIANTS
    ContextsSeparated
    VariantsSeparated
    WholeKeys
    MatchesRFC8018
PROPERTIES
    DerivationReturns
