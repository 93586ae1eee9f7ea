SPECIFICATION Spec
CONSTANTS
  Missing = Missing
  Day = 3
  Carry = 2
  Profiles <- MCProfiles
  Readings <- MCReadings
  Times <- MCTimes
  MaxSamples = 3
  RawUpTo = 2
  FineUpTo = 5
  Fine = 2
  Coarse = 3
  MaxRange = 8
INVARIANTS
  TotalsAreExact
  SeriesShowsEverySample
  PresentationShowsEveryLevel
PROPERTIES
  WorseIsNeverLower
