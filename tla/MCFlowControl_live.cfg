CONSTANTS
  s1 = s1
  s2 = s2
  Streams <- OneStream
  ConnWindow = 3
  ConnThreshold = 2
  StreamWindow = 2
  StreamThreshold = 1
  WriteSizes = {1, 2}
  MaxBytes = 4
  MaxQueueFull = 0
  MayClose = FALSE
SPECIFICATION FairSpec
PROPERTY WriteCompletes
CHECK_DEADLOCK FALSE
