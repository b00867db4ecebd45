SPECIFICATION RxSpec
CONSTANTS
  StreamSize = 8
  ChunkSize = 3
  Payloads <- MCPayloads
  MaxLen = 2
  SigLen = 1
  MaxFrames = 6
INVARIANTS RxTypeOK
PROPERTIES ImplementsLossyLink Resyncs
CHECK_DEADLOCK FALSE
