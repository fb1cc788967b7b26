SPECIFICATION Spec
CONSTANTS
  u1 = u1
  u2 = u2
  d1 = d1
  d2 = d2
  n1 = n1
  n2 = n2
  Streams <- MCStreams
  SensorTypes <- MCSensorTypes
  Epochs <- MCEpochs
  Position <- MCPosition
  Seed <- MCSeed
  Uploads = {u1}
  Deletions = {}
  Finishes = {n1}
  Wall <- SteadyWall
  Payloads <- ChunkPayloads
  MaxSends = 1
PROPERTIES
  NothingAfterFinishIsStored
CHECK_DEADLOCK FALSE
