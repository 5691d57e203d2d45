SPECIFICATION FairSpec
CONSTANTS
  Transcripts <- Mixed
  Sids = {1, 2, 3}
  MaxStreams = 2
  QueueCapacity = 1
  ChannelCapacity = 1
  MaxPendingFrames = 1
  WriterMayBeFull = TRUE
  MayEnd = TRUE
  MayIdle = TRUE
INVARIANTS ReservationsBalanced Lossless FinAfterData
PROPERTIES Served
CHECK_DEADLOCK FALSE
