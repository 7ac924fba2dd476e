SPECIFICATION Spec
CONSTANTS
  SleepTicks = 3
INVARIANTS TouchesLive CallersLive AllReturned TransferAnswered
CHECK_DEADLOCK FALSE
