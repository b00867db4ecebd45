SPECIFICATION FairSpec
CONSTANTS
  Period = 2
  FastSamples = 1
  FastRequests = 2
  StepSamples = 2
  MinRtts = 1
  PeerTimeout = 3
  BeatPeriod = 1
  MaxDelay = 1
  Step = 1
INVARIANT ReseededInTime
PROPERTIES PeerTracked OffsetFollowsClocks
