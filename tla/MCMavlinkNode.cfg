SPECIFICATION FairSpec
CONSTANTS
  Wrap = 17
  Period = 2
  MaxLoop = 1
  HeartbeatPeriod = 3
  TimesyncPeriod = 4
  PeerTimeout = 5
  MaxInbox = 2
  MaxAge = 12
INVARIANTS TypeOK HeartbeatOnTime
PROPERTIES PublishesToLivePeer TimesyncBeforeTelemetry LivePeerConnected
