SPECIFICATION Spec
CONSTANTS
    Word <- MCWord
    IV = 1
    Xor <- MCXor
    Kek <- MCKek
    ValidKek <- MCValidKek
    Enc <- MCEnc
    Dec <- MCDec
    Inputs <- MCInputs
    MaxWords = 3
INVARIANTS
    UnwrapInvertsWrap
    OnlyWrappingsUnwrap
    IInv
