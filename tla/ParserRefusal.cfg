SPECIFICATION Spec
CONSTANTS
    MaxInstructions = 60
    MaxTurns = 12
    Programs <- MCRefused
    Bodies <- MCBodies
    Meanings <- MCMeanings
    Types <- MCTypes
INVARIANT
    RefusedForItself
CHECK_DEADLOCK FALSE
