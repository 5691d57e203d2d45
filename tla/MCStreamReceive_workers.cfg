SPECIFICATION FairSpec
CONSTANTS
  Transcripts <- All
  ChannelCapacity = 1
  MaxPendingFrames = 2
  Parallel = TRUE
  OtherStreams = TRUE
  EarlyHalfClose = FALSE
  MayAbandon = TRUE
INVARIANTS Lossless EofComplete
PROPERTIES FinReachesReader PayloadsArrive
CHECK_DEADLOCK FALSE
