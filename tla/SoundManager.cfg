CONSTANTS
    s1 = s1
    s2 = s2
    Sounds = {s1, s2}
    Priority <- MCPriority
    Loops = {s2}
    FileOf <- MCFileOf
    Voices = {m1}
    Volumes = {1}
    NumSources = 2
    SizeT = 16
    AttachFails = TRUE
    BufferCount = 2
    Chunks = 3
    OpenFails = FALSE
    MaxLibrary = 2
SPECIFICATION SoundsSpec
INVARIANTS
    SourceHasOneHolder
    LoopingSoundsSurviveCulling
PROPERTIES
    CreationSparesHigherPriority
    StreamsPlayToTheEnd
