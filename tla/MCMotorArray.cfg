SPECIFICATION FairSpec
CONSTANTS
  MotorCount = 2
  Speeds = {0, 1, 2}
  Wrap = 10
  WatchdogTimeout = 3
  FaultClear = 3
  FaultAssert = 2
  Period = 2
  MaxCycle = 1
  MaxHold = 1
  MaxAge = 9
INVARIANTS TypeOK OneCommandAtATime NoStaleMotion
PROPERTIES MovesOnlyOnFreshSetpoint FaultHeldUntilQuiet
