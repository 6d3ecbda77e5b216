SPECIFICATION Spec
CONSTANTS
    Text <- MCText
    Dotted <- MCDotted
    NotUTF8 <- MCNotUTF8
    Name <- MCName
    Symbol <- MCSymbol
    Pair <- MCPair
    Payloads <- MCPayloads
    Signers <- ProducerSigners
    Verifiers <- ProducerVerifiers
    HeaderEdits = {}
    ProtectedEdits = {}
    PayloadEdits = {}
    MaxSigners = 1
    MaxEntries = 0
    MaxIssued = 1
    MaxEdits = 0
INVARIANTS
    EmittedIsReadable
    KeyRestrictionsHonoured
