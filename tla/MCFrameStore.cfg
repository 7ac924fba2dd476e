SPECIFICATION FairSpec
CONSTANTS
    black = black
    white = white
    Pixels = {black, white}
    Black = black
    PowerUp <- MCPowerUp
    NoPicture = NoPicture
    Drawings <- MCDrawings
    Height = 3
    MaxFaults = 1
    Screen <- MCScreen
    Modes <- MCModes
INVARIANTS
    BlocksRight
    Owed
    UpToDate
PROPERTIES
    MirrorSpec
    PanelCatchesUp
CHECK_DEADLOCK FALSE
