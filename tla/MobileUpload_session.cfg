SPECIFICATION Spec
CONSTANTS
  u1 = u1
  u2 = u2
  d1 = d1
  d2 = d2
  n1 = n1
  n2 = n2
  Streams <- MCStreams
  SensorTypes <- MCSensorTypes
  Epochs <- MCEpochs
  Position <- MCPosition
  Seed <- MCSeed
  Uploads = {u1, u2}
  Deletions = {d1}
  Finishes = {n1, n2}
  Wall <- SteadyWall
  Payloads <- ChunkPayloads
  MaxSends = 2
SYMMETRY UploadSymmetry
INVARIANTS
  AckedFramesAreStored
PROPERTIES
  FinishIsFinal
  ImplementsStoredSession
CHECK_DEADLOCK FALSE
