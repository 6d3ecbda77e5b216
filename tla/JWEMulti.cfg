SPECIFICATION Spec
CONSTANTS
    Text <- MCText
    Dotted = {}
    NotUTF8 = {}
    Name <- MCName
    Symbol <- MCSymbol
    Pair <- MCPair
    TextSize <- MCTextSize
    Inflated <- MCInflated
    KeyLen <- MCKeyLen
    Number <- MCNumber
    MaxInt32 = 2000000
    SegLen <- MCSegLen
    Random <- Drawn
    Calls <- MultiCalls
    Readers <- MultiReaders
    HeaderEdits <- MultiHeaderEdits
    ProtectedEdits = {}
    AADEdits = {}
    MaxEntries = 2
    MaxSealed = 1
    MaxEdits = 2
INVARIANTS
    EmittedIsReadable
    OneGoodRecipientSuffices
    MatchingRecipientFirst
PROPERTIES
    GoodRecipientIsFound
    CallsReturn
