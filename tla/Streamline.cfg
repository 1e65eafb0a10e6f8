CONSTANTS
    Failing = {"token", "constants", "tags", "loaded", "status", "upscale"}
    Sizes = {"small", "large"}
SPECIFICATION Spec
INVARIANTS
    ChainChangesWithoutGeneration
    GeneratesOnlyFromThisFrame
    PluginIsSetAsNeeded
CHECK_DEADLOCK FALSE
