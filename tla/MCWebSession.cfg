SPECIFICATION Spec
CONSTANTS
  Null = Null
  Unopened = Unopened
  Ended = Ended

  Sessions = {1, 2, 3}
  Users = {u1, u2}
  Owners = {u1}
  t1 = t1
  t2 = t2
  Tabs = {t1, t2}
  p1 = p1
  p2 = p2
  Pages = {p1, p2}
  Calls <- MCCalls
  Scenarios <- MCScenarios
  MaxIncidents = 1
SYMMETRY MCSymmetry
CHECK_DEADLOCK FALSE
INVARIANTS
  WebInv
  EndedFamilyIsDead
  ReuseHasACause
  TokenIsOfShownUser
PROPERTIES
  ImplementsSessionFamily
