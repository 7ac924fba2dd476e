SPECIFICATION FairSpec
CONSTANTS
    Devices = {hud1, hud2}
    None = None
    MaxBlocks = 2
    MaxFaults = 2
    FlashTimings <- MCFlashTimings
    BlocksRead <- MCBlocks
    ParamLists <- MCParamLists
INVARIANTS
    EdidIsAttached
    UserKnows
    FlashTimingsFound
    AcceptedCanBeEnabled
    DeviceHasModes
PROPERTIES
    UserCatchesUp
