SPECIFICATION Spec
CONSTANTS
  r1 = r1
  r2 = r2
  r3 = r3
  Requests = {r1, r2}
  Users = {"owner", "stranger"}
  UuidNames = {"wanted", "other"}
  Macs = {"A", "B"}
  LabelNames = {"AirBeam", "renamed"}
  Recordings = {"walk", "ride"}
  None = "none"
  Mixes <- TheSameTwice
  Registered <- NoneOrAll
  MaxDeletes = 0
  MaxCrashes = 0
INVARIANTS
  ConcurrentCreatesAreAnswered
CHECK_DEADLOCK FALSE
