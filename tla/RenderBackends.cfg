SPECIFICATION BackendsSpec
CONSTANTS
    FramesInFlight = 2
    MaxPairs = 2
    Scopes = {s1}
    MaxFrames = 3
    MaxDevices = 2
    MaxRecordings = 2
    MaxChanges = 1
    Counters = {c1, c2}
    BufferSize = 2
    Late = FALSE
    MaxQueryPairs = 2
    MaxScopes = 3
    MaxLag = 4
    MaxResets = 1
INVARIANTS
    ReusedMemoryIsIdle
    SamplesAreWhole
PROPERTY WaitsEnd
