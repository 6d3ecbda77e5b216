SPECIFICATION Spec
CONSTANTS
    Text <- MCText
    Dotted <- MCDotted
    NotUTF8 <- MCNotUTF8
    Name <- MCName
    Symbol <- MCSymbol
    Pair <- MCPair
    Payloads <- RelayPayloads
    Signers <- RelaySigners
    Verifiers <- RelayVerifiers
    HeaderEdits <- RelayHeaderEdits
    ProtectedEdits <- RelayProtectedEdits
    PayloadEdits <- RelayPayloadEdits
    MaxSigners = 1
    MaxEntries = 2
    MaxIssued = 2
    MaxEdits = 2
INVARIANTS
    TypeOK
    IInv
    Authentic
    CriticalHonoured
PROPERTY
    ImplementsSignedDelivery
