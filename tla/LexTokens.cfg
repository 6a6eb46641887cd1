CONSTANTS
    NL = NL
    NUL = NUL
    Byte255 = Byte255
    Chunk = 2
    WholeChunk = 100
    StringMax = 3
    MaxPieces = 3
    Char <- MCChar
    Letter <- MCLetter
    Digit <- MCDigit
    Keywords <- MCKeywords
    Inputs <- Texts
SPECIFICATION Spec
INVARIANTS
    TypeOK
    WordsExact
    OperatorsLongest
    SpelledOut
    StringsExact
    PlaceExact
PROPERTIES
    TokensInOrder
    ChunksAreInvisible
    EndIsReached
CHECK_DEADLOCK FALSE
