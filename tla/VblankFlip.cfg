SPECIFICATION FairSpec
CONSTANTS
    MaxCommits = 4
INVARIANTS
    FrameBeforeEvent
PROPERTIES
    FlipSpec
    FlipsComplete
CHECK_DEADLOCK FALSE
