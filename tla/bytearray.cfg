\* Blocks of two bytes, up to four bytes; varint bytes of two bits and numbers of
\* three, so that the last group does not fit.
SPECIFICATION Spec
CONSTANTS
    m_baseSize = 2
    GroupBits = 2
    Width = 3
    Uints = {7}
    Ints <- BoundaryInts
    Fixeds = {10}
    Texts <- ShortTexts
    Garbage = {5}
    MaxSize = 4
INVARIANTS
    TypeOK
    CursorRight
    ReadsBack
    FileWhole
PROPERTIES
    FlatSpec
CHECK_DEADLOCK FALSE
