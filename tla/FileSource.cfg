CONSTANTS
    a = a
    b = b
    NL = NL
    NUL = NUL
    MaxLen = 5
    Chunk = 2
    Char <- MCChar
    Inputs <- MCInputs
SPECIFICATION Spec
INVARIANTS
    TypeOK
    BufferMirrorsFile
    EofMeansAllRead
    LineExact
PROPERTIES
    UndoRestores
    StreamSpec
