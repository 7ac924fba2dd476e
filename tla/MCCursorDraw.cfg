SPECIFICATION FairSpec
CONSTANTS
    Cells <- MCCells
    Looks = {black, white}
    Pointer = Pointer
    Positions <- MCPositions
    Cover <- MCCover
    Side = 3
    Displays <- MCDisplays
    Places <- MCPlaces
INVARIANTS
    CleanDesktop
    PointerUpToDate
    CursorDrawn
PROPERTIES
    SendsWholeFrames
    PointerCatchesUp
