SPECIFICATION FairSpec
CONSTANTS
    m1 = m1
    m2 = m2
    Modes = {m1}
    NoMode = NoMode
    JunkMode = JunkMode
    FifoRecords = 1
    RefreshAge = 1
    MaxSema = 2
    MaxAttach = 1
    MaxFaults = 1
CONSTRAINT OneMishap
INVARIANTS
    VideoSinceFirstFrame
PROPERTIES
    FirstFrameShown
    
    DisconnectEnds
CHECK_DEADLOCK FALSE
