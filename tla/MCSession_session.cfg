SPECIFICATION Spec
CONSTANTS
  Streams <- MCStreams
  Callers <- MCCallers
  Scenes <- MCScenes
  NoCaller = NoCaller
  QueueCap = 2
  BatchMax = 2
INVARIANTS WireFramed StreamOrder AnswerHonest CountExact
