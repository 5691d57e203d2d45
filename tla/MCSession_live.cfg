SPECIFICATION Spec
CONSTANTS
  Streams <- MCStreams
  Callers <- MCCallers
  Scenes <- MCOne
  NoCaller = NoCaller
  QueueCap = 2
  BatchMax = 2
PROPERTIES CallsReturn PeerTold
