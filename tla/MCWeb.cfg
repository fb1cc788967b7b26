SPECIFICATION WebSpec
CONSTANTS
  Nothing = Nothing
  Closed = Closed
  t1 = t1
  t2 = t2
  analytics = analytics
  marketing = marketing
  MovesOn <- MovesOfScreens
  Opened = {"a", "b"}
  Last = 8
  Day = 2
  Week = 4
  Month = 6
  GraphPoints <- PointsOfStreams
  RecentOf <- RecentOfStreams
  GraphZooms <- OneZoom
  MaxInFlight = 3
  Streams = {"a", "b", "c"}
  Position <- Positions
  CellAt <- CellsOfZooms
  Stretches <- ThreeStretches
  SpanOf <- Spans
  AveragesOf <- DaysWithAverages
  MonthLength = 2
  WeekLength = 3
  MaxVisits = 2
  Kinds = {"mobile", "active", "dormant", "indoor"}
  Queries = {"here", "there"}
  TotalOf <- Totals
  Limit = 2
  Centres = {1, 2, 3}
  SensorsOf <- SensorsOfTypes
  Measures <- SensorMeasures
  PathOf <- Paths
  NotesOf <- Notes
  Near <- NearAtZooms
  Cells = {1, 2}
  Cities = {"a", "b"}
  Fixed = {"a"}
  Capacity = 1
  Answers <- AnswersOfServer
  Colors = {1, 2}
  Spots = {1, 2}
  Tabs = {t1, t2}
  Tracking = {analytics, marketing}
  MaxChoices = 4
  \* One more sensor would be treated as AirBeam is in mobile sessions.
  PopupSensors = {"Government", "AirBeam"}
  Most = 3
  MaxChanges = 2
  One = 2
  Scale = {0, 4, 5}
  Sensors = {"p", "q"}
  DefaultsOf <- SensorDefaults
  FromUrl <- LinkThresholds
  Absent = Absent
  Zeros <- NoThresholds
  MaxMoves = 3
SYMMETRY ConsentSymmetry
INVARIANTS
  EachSessionShownOnce
  
  SliderAndMapAgree
  FetcherWaitsForACall
  RecordedRangesAreLoaded
  CalendarIsOfItsStream
  ListIsWhatWasAskedFor
  MapGoesBack
  
  PathIsOfTheSession
  CrowdMapIsOfTheFilters
  
  TimelapseShowsItsStep
  DrawnAsAsked
  RefusalIsObeyed
  PopupsSendWhatTheyShow
CHECK_DEADLOCK FALSE
