SPECIFICATION Spec
CONSTANTS
    MaxInstructions = 60
    MaxTurns = 12
    Programs <- MCVariable
    Bodies <- MCBodies
    Meanings <- MCMeanings
    Types <- MCTypes
INVARIANT
    TurnsEnd
CHECK_DEADLOCK FALSE
