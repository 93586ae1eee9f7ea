SPECIFICATION Spec
CONSTANTS
  d1 = d1
  d2 = d2
  p1 = p1
  p2 = p2
  s1 = s1
  Devices = {d1}
  Points = {p1, p2}
  Sites = {s1}
  SiteOf <- MCSiteOf
  Messages <- MCMessagesOne
  Requests = {r1, r2}
  Evaluators = {}
  Profiles <- MCProfiles
  HistoryDays = {0, 2}
  Limits <- MCLimits
  MaxFutureSkew = 1
  LockTtl = 9
  Missing = Missing
  NoDevice = NoDevice
  NoPoint = NoPoint
  NoMessage = NoMessage
  NoEvaluator = NoEvaluator
  MaxTime = 2
  MaxVersion = 2
  MaxCredential = 2
  MaxFaults = 0
INVARIANTS
  LevelMatchesAssessment
  StoredOnce
  DeviceTimesAreMaxima
  CountsFollowLevel
PROPERTIES
  ProjectionNeverGoesBack
  OnlyCurrentPrincipalStores
  ProfileVersionNeverGoesBack
SYMMETRY MCSymmetry
CHECK_DEADLOCK FALSE
