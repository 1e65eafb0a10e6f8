CONSTANTS
    Keys = {1}
    ListSize = 4
    Pads = {p1, p2}
    NoPad = NoPad
    Files = {f1, f2}
    Streams = {s1, s2}
    Paths = {a, b}
    MaxRefs = 2
    MaxEntries = 4
    BufferSize = 2
    MaxStats = 4
    Threshold = 2
SPECIFICATION Spec
INVARIANTS
    ReleasedReadsUp
    FilesOutliveStreams
PROPERTIES
    EntriesAreWrittenOnce
    StatisticsArePosted
    PadsAreNoticed
CHECK_DEADLOCK FALSE
