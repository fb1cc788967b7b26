SPECIFICATION GovernmentSpec
CONSTANTS
  Nothing = Nothing
  AveragesParts = {"averages", "failures"}
  EeaParts = {"eea", "overlap"}
  Bounds <- PartBounds
  MaxVersion = 2
  MaxFaults = 1
  Streams = {1}
  Points = {"p", "q"}
  Nowhere = "nowhere"
  ZoneAt <- PointZones
  Offset <- ZoneOffsets
  DayLength = 2
  Lookback = 1
  Imports = {1, 2, 3}
  Calculators = {1}
  Rebuilds = {1, 2}
  Start = 2
  End = 3
  Batches = {1, 2}
  Times = {1, 2}
  MaxCopies = 2
INVARIANTS
  AveragesAreTrue
  StreamsSitAtTheirStation
  BatchesSettle
  NewestCopyIsStored
CHECK_DEADLOCK FALSE
