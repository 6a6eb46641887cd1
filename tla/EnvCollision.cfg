CONSTANTS
    a = a
    b = b
    c = c
    d = d
    Null = Null
    TableSize = 5
    Name <- Pair
    Home <- Together
    MaxDepth = 1
    MaxDeclared = 3
    MaxStray = 0
SPECIFICATION Spec
PROPERTIES
    RedeclarationReported
CHECK_DEADLOCK FALSE
