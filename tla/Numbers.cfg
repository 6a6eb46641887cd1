CONSTANTS
    Texts <- MCTexts
    MaxLength = 5
    IntValues = 256
    LongValues = 4096
    DecLimit = 3
    HexLimit = 2
    OctLimit = 4
SPECIFICATION Spec
INVARIANTS
    TypeOK
    AcceptedIsExact
    SuffixesExact
    FloatShape
CHECK_DEADLOCK FALSE
