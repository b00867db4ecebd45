SPECIFICATION FairSpec
CONSTANTS
  Writers = {w1, w2}
  NoOne = NoOne
  StreamSize = 4
  DmaBufSize = 2
  FrameLens = {1, 3}
  MaxFrames = 4
INVARIANTS TypeOK NeverStranded
PROPERTIES ImplementsFrameLink AcceptedIsSent
CHECK_DEADLOCK FALSE
