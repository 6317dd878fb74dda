CONSTANTS
    ByteBits = 2
    WordBits = 4
    LongBits = 4
    ShortOffset = 1
    File <- MCFile
SPECIFICATION Spec
INVARIANTS
    TypeOK
    CompressedFilesLoad
    OutputFits
PROPERTY
    DecodingEnds
CHECK_DEADLOCK FALSE
