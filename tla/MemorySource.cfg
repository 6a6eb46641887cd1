CONSTANTS
    a = a
    b = b
    NL = NL
    NUL = NUL
    Chunk = 1
    MaxTotal = 5
    Char <- MCChar
    Pieces <- MCPieces
SPECIFICATION Spec
INVARIANTS
    TypeOK
    UnreadIsKept
PROPERTIES
    StreamSpec
