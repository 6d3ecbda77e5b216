SPECIFICATION Spec
CONSTANTS
    Base = 16
    MaxExponent = 20
    Curves <- MCCurves
    CoordSize <- MCCoordSize
    Order <- MCOrder
    ScalarBaseMult <- MCPoint
    OctetKeySize = 2
    Ed25519Public <- MCEd25519Public
    X25519Public <- MCX25519Public
    GoKeys <- MCGoKeys
    Texts <- MCTexts
    Pasted <- MCPasted
    MaxEdits = 2
INVARIANTS
    FromKeyInvertsKey
    ThumbprintIdentifiesKey
    PublicIsPublic
