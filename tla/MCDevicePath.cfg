SPECIFICATION Spec
CONSTANTS
  Null = Null
  RateLimitMax = 2
  MaxTracked = 2
  Neighbours = {n1}
  Device = Device
  Address = Address
  MaxIncidents = 2
  Capacity = 2
  MaxRetries = 1
  AttemptValues = 3
  MaxReadings = 3
  Count = 2
  None = None
  MaxCommands = 4
  MaxAccidents = 2
CHECK_DEADLOCK FALSE
INVARIANTS
  QueueOK
  OnlyOverlappedAreLost
  WithinLimit
  SimulatorStopsForACause
  FilesTellTheTruth
  OneOfEach
PROPERTIES
  ReadingsSettle
