\* A headset that sends whole frames, a frame damaged in one of ten ways or an endless one
\* between two whole ones, or takes two writes; two connections.
CONSTANTS
  Transmissions <- MCTransmissions
  Chunks = {1, 6}
  ReadSize = 8
  MaxReceived = 14
  MaxFrameSize = 14
  MaxAttempts = 2
SPECIFICATION FairSpec
INVARIANTS
  TypeOK
  FramesSurvive
  SendIsWritten
PROPERTIES
  OneChannel
  NothingLingers
\* Nobody has to connect again.
CHECK_DEADLOCK FALSE
