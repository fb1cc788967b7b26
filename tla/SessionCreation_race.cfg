SPECIFICATION FairSpec
CONSTANTS
  r1 = r1
  r2 = r2
  r3 = r3
  Requests = {r1, r2, r3}
  Users = {"owner", "stranger"}
  UuidNames = {"wanted", "other"}
  Macs = {"A", "B"}
  LabelNames = {"AirBeam", "renamed"}
  Recordings = {"walk", "ride"}
  None = "none"
  Mixes <- AnyThree
  Registered <- NoneOrAll
  MaxDeletes = 1
  MaxCrashes = 1
INVARIANTS
  GivenWasCommitted
  NoMixing
  MeasurementsQueuedOnce

  
CHECK_DEADLOCK FALSE
