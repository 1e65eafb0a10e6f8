CONSTANTS
    Outputs <- MCOutputs
    LevelSets <- MCLevelSets
    MinSize = 2
    MostGenerated = 1
    CheckFails = FALSE
    KeepsChanges = FALSE
    MaxChanges = 2
    MaxEvents = 1
    MaxRemovals = 1
SPECIFICATION DisplaySpec
INVARIANTS
    ChainFitsDisplay
    ReleasedWindowed

    
CHECK_DEADLOCK FALSE
