SPECIFICATION Spec
CONSTANTS
    MaxInstructions = 60
    MaxTurns = 12
    Programs <- MCPrograms
    Bodies <- MCBodies
    Meanings <- MCMeanings
    Types <- MCTypes
INVARIANTS
    TypeOK
    Accepted
    OneTokenBack
    FlowCorrect
    NoJumpLost
    ChainLinked
    
    CodeBounded
    GroupsAsGrammar
    TypeAsDeclared
PROPERTY
    EndsAreFinal
CHECK_DEADLOCK FALSE
