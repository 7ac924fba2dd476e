SPECIFICATION SleepSpec
CONSTANTS
    Devices = {hud1, hud2, hud3}
    None = None
    NumDrms = 1
    NumPipes = 2
    NoState = NoState
    MaxEvents = 1
SYMMETRY Interchangeable
CONSTRAINT PromisedSleeps
INVARIANTS
    NothingLeft
    OneSender
    LitAfterSleep
PROPERTIES
    NeverBusy
    Restored
