CONSTANTS
    a = a
    b = b
    c = c
    d = d
    Null = Null
    TableSize = 5
    Name <- Names
    Home <- Shared
    MaxDepth = 3
    MaxDeclared = 4
    MaxStray = 1
SPECIFICATION Spec
INVARIANTS
    TypeOK
    TablesWellFormed
    OnlyCollisionsHide
    GlobalStaysGlobal
PROPERTIES
    NoFalseRedeclaration
    UsesAreInScope
    ScopeStackSpec
CHECK_DEADLOCK FALSE
