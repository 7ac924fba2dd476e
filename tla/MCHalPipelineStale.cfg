SPECIFICATION Spec
CONSTANTS
    m1 = m1
    m2 = m2
    Modes = {m1, m2}
    NoMode = NoMode
    JunkMode = JunkMode
    FifoRecords = 2
    RefreshAge = 1
    MaxSema = 2
    MaxAttach = 2
    MaxFaults = 0
INVARIANTS
    ResumesStoredModeAfterReplug
CHECK_DEADLOCK FALSE
