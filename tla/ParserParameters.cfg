SPECIFICATION Spec
CONSTANTS
    MaxInstructions = 60
    MaxTurns = 12
    Programs <- MCThree
    Bodies <- MCBodies
    Meanings <- MCMeanings
    Types <- MCTypes
INVARIANT
    ParametersKept
CHECK_DEADLOCK FALSE
