SPECIFICATION FairSpec
CONSTANTS
  u1 = u1
  u2 = u2
  d1 = d1
  d2 = d2
  n1 = n1
  n2 = n2
  Streams <- MCStreams
  SensorTypes <- MCSensorTypes
  Epochs <- MCEpochs
  Position <- MCPosition
  Seed <- MCSeed
  Uploads = {u1, u2}
  Deletions = {d1, d2}
  Finishes = {}
  Wall <- SteadyWall
  Payloads <- CrossPayloads
  MaxSends = 1
INVARIANTS
  NoDuplicateRows
  NoOrphanRows
  SummariesMatchRows
  UploadsNeverDeadlock
PROPERTIES
  EveryRequestAnswered
CHECK_DEADLOCK FALSE
