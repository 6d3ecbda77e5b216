SPECIFICATION Spec
CONSTANTS
    Text <- MCText
    Dotted = {}
    NotUTF8 = {}
    Name <- MCName
    Symbol <- MCSymbol
    Pair <- MCPair
    TextSize <- MCTextSize
    Inflated <- MCInflated
    KeyLen <- MCKeyLen
    Number <- MCNumber
    MaxInt32 = 2000000
    SegLen <- MCSegLen
    Random <- Drawn
    Calls <- ProduceCalls
    Readers <- ProduceReaders
    HeaderEdits = {}
    ProtectedEdits = {}
    AADEdits = {}
    MaxEntries = 0
    MaxSealed = 1
    MaxEdits = 0
INVARIANTS
    EmittedIsReadable
    KeyRestrictionsHonoured
    ProducersAgree
