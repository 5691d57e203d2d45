CONSTANTS
  s1 = s1
  s2 = s2
  Streams <- TwoStreams
  ConnWindow = 2
  ConnThreshold = 2
  StreamWindow = 1
  StreamThreshold = 1
  WriteSizes = {1}
  MaxBytes = 2
  MaxQueueFull = 1
  MayClose = TRUE
SPECIFICATION Spec
SYMMETRY Symmetry
INVARIANTS ConnCreditConserved StreamCreditConserved BufferBounded
PROPERTY ImplementsGate
CHECK_DEADLOCK FALSE
