SPECIFICATION HidSpec
CONSTANTS
  Displays = {d1, d2}
  NoDisplay = NoDisplay
  Chunks = 2
  IsClear = TRUE
  Details = TRUE
  MaxSender = 1
  MaxDetect = 1
  MaxOutside = 1
  MaxFail = 1
INVARIANTS TrueAnswer ScreenSwitched BlockOfOne
CHECK_DEADLOCK FALSE
