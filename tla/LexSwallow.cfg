CONSTANTS
    NL = NL
    NUL = NUL
    Byte255 = Byte255
    Chunk = 2
    WholeChunk = 100
    StringMax = 3
    MaxPieces = 1
    Char <- MCChar
    Letter <- MCLetter
    Digit <- MCDigit
    Keywords <- MCKeywords
    Inputs <- SwallowTexts
SPECIFICATION Spec
INVARIANTS
    NoCharacterSwallowed
CHECK_DEADLOCK FALSE
