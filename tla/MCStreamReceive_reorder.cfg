SPECIFICATION Spec
CONSTANTS
  Transcripts <- AnsweredOrOpen
  ChannelCapacity = 1
  MaxPendingFrames = 4
  Parallel = TRUE
  OtherStreams = FALSE
  EarlyHalfClose = FALSE
  MayAbandon = FALSE
INVARIANTS InOrder
CHECK_DEADLOCK FALSE
