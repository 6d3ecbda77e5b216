SPECIFICATION Spec
CONSTANTS
    Text <- MCText
    Dotted <- MCDotted
    NotUTF8 <- MCNotUTF8
    Name <- MCName
    Symbol <- MCSymbol
    Pair <- MCPair
    Payloads <- EmptyPayload
    Signers <- PlainSigner
    Verifiers <- ProducerVerifiers
    HeaderEdits = {}
    ProtectedEdits = {}
    PayloadEdits = {}
    MaxSigners = 1
    MaxEntries = 0
    MaxIssued = 2
    MaxEdits = 0
INVARIANT
    EveryDocumentIsReadable
