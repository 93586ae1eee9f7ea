SPECIFICATION Spec
CONSTANTS
  Null = Null
  NoMore = NoMore
  Ids <- MCIds
  Keys <- MCKeys
  Filters = {f, g}
  Limits <- MCLimits
  Asks <- MCAsks
  MaxChanges = 2
SYMMETRY MCSymmetry
CHECK_DEADLOCK FALSE
INVARIANTS
  SteadyRowsComeOnce
  NoEntryTwice
