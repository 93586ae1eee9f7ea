SPECIFICATION Spec
CONSTANTS
  d1 = d1
  d2 = d2
  p1 = p1
  p2 = p2
  s1 = s1
  Devices = {d1}
  Points = {p1}
  Sites = {s1}
  SiteOf <- MCSiteOf1
  Messages <- MCMessagesEval
  Requests = {r1}
  Evaluators = {e1, e2}
  Profiles <- MCProfiles
  HistoryDays = {0}
  Limits <- MCLimits
  MaxFutureSkew = 1
  LockTtl = 1
  Missing = Missing
  NoDevice = NoDevice
  NoPoint = NoPoint
  NoMessage = NoMessage
  NoEvaluator = NoEvaluator
  MaxTime = 4
  MaxVersion = 1
  MaxCredential = 1
  MaxFaults = 0
INVARIANTS
  OneEvaluator
CHECK_DEADLOCK FALSE
