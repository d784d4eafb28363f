SPECIFICATION Spec
CONSTANTS
  Absent = Absent
  NaN = NaN
  Junk = Junk
  FlatSlope <- Shallow
  LostRate <- Faint
  ShortSpan = 3
  MaxRetention = 150
  MinObservations = 2
  RollingWindow = 2
  Jobs <- MCJobs
INVARIANTS
  EolAgreesWithRul
  LimitingIsTheWorst
  ArrivalOrderDoesNotMatter
  FeaturesAgreeWithEstimate
PROPERTY CutoffHidesTheFuture
CHECK_DEADLOCK FALSE
