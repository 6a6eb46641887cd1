SPECIFICATION Spec
CONSTANTS
    MaxInstructions = 60
    MaxTurns = 12
    Programs <- MCDocumented
    Bodies <- MCBodies
    Meanings <- MCMeanings
    Types <- MCTypes
INVARIANT
    WhileAsDocumented
CHECK_DEADLOCK FALSE
