SPECIFICATION Spec
CONSTANTS
  Absent = Absent
  NaN = NaN
  Junk = Junk
  FlatSlope <- Shallow
  LostRate <- Faint
  ShortSpan = 3
  MaxRetention = 150
  MinObservations = 2
  RollingWindow = 2
  Jobs <- LeakJobs
PROPERTY NoFutureLeak
CHECK_DEADLOCK FALSE
