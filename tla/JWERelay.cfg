SPECIFICATION Spec
CONSTANTS
    Text <- MCText
    Dotted = {}
    NotUTF8 = {}
    Name <- MCName
    Symbol <- MCSymbol
    Pair <- MCPair
    TextSize <- MCTextSize
    Inflated <- MCInflated
    KeyLen <- MCKeyLen
    Number <- MCNumber
    MaxInt32 = 2000000
    SegLen <- MCSegLen
    Random <- Drawn
    Calls <- RelayCalls
    Readers <- RelayReaders
    HeaderEdits <- RelayHeaderEdits
    ProtectedEdits <- RelayProtectedEdits
    AADEdits <- RelayAADEdits
    MaxEntries = 2
    MaxSealed = 2
    MaxEdits = 2
INVARIANTS
    IInv
    Authentic
    OnlyAddressees
    CriticalHonoured
    ConsumersAgree
    UniformFailure
PROPERTY
    ImplementsSealedDelivery
