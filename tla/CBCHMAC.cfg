SPECIFICATION Spec
CONSTANTS
    Octet <- MCOctet
    BlockSize = 2
    CBCEncrypt <- MCEncrypt
    CBCDecrypt <- MCDecrypt
    PutUint64 <- MCUint64
    Cek <- MCCek
    Plaintext <- MCPlaintext
    AAD <- MCAAD
    Random <- MCRandom
    MaxLen = 12
    MaxSealed = 2
    MaxEdits = 2
INVARIANTS
    RoundTrip
    Bound
    IInv
