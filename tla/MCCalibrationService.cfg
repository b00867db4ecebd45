SPECIFICATION FairSpec
CONSTANTS
  AckTimeout = 6
  Attempts = 3
  DoneTimeout = 7
  SeqRange = 8
  StatusPeriod = 2
  SaveTime = 1
  MaxDelay = 1
  Watchdog = 6
  MaxCalls = 2
  MaxInFlight = 3
INVARIANTS TypeOK SavedIsStored HoldBounded CleanCallIsShort
