SPECIFICATION Spec
CONSTANTS
    Text <- MCText
    Dotted <- MCDotted
    NotUTF8 <- MCNotUTF8
    Name <- MCName
    Symbol <- MCSymbol
    Pair <- MCPair
    Payloads <- MultiPayloads
    Signers <- MultiSigners
    Verifiers <- MultiVerifiers
    HeaderEdits <- MultiHeaderEdits
    ProtectedEdits <- MultiProtectedEdits
    PayloadEdits = {}
    MaxSigners = 2
    MaxEntries = 3
    MaxIssued = 2
    MaxEdits = 1
INVARIANTS
    EmittedIsReadable
    OneGoodEntrySuffices
PROPERTIES
    GoodEntryIsFound
    CallsReturn
