SPECIFICATION FairSpec
CONSTANTS
  Wrap = 9
  SessionTimeout = 4
  LedPeriod = 2
  MaxLed = 1
  MaxSaves = 2
  MaxAge = 8
INVARIANTS TypeOK StatusTellsOutcome SessionBounded
PROPERTIES EveryRequestServed
