\* Strings of up to five bytes; the header changes its type three times on the way.
SPECIFICATION Spec
CONSTANTS
    Bits <- FieldBits
    Prealloc = 4
    Bytes = {0, 32, 97}
    MaxLen = 5
    Texts <- Strings
    Numbers <- Signed
    LLBits = 8
    Disguises <- Awkward
INVARIANTS
    BlockSafe
    HoldsTheString
    TextRoundTrips
