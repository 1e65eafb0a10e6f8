CONSTANTS
    MaxRetries = 1
    MaxLosses = 2
    MaxCloses = 2
    HasSound = TRUE
    MaxFatals = 2
SPECIFICATION Spec
INVARIANTS
    DevicesAreLive
PROPERTIES
    ModuleIsCalledAsPromised
    CloseCompletes
    RemovedDeviceIsReplaced
CHECK_DEADLOCK FALSE
