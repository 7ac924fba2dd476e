SPECIFICATION Spec
CONSTANTS
  Planes = {p1, p2}
  MaxOffsets = 2
  MaxMaps = 1
  MaxImporters = 2
  MaxFail = 2
INVARIANTS UsersServed FreedReturnsAll
CHECK_DEADLOCK FALSE
