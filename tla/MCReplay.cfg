SPECIFICATION ReplaySpec
CONSTANTS
  Names = {own}
  Own = own
  Direct = direct
  Lifecycle = {critical}
  Critical = critical
  NoLifecycle = none
  Heartbeat = 2
  HistoryLength = 1
  MaxRecords = 4
  MaxTime = 2
  MaxSnapshots = 3
  MaxEpochs = 2
  Requests <- Asked
  Tabled <- Given
  Intervals = {0, 2}
  Targets = {1}
  Volts <- Voltages
  Strangers = {1}
  MaxSamples = 2
  MaxReplays = 2
INVARIANTS
  OrderedReplaysAreNotSkewed
  ResultIsOneRun
  ErrorsFitEachOther
  ProfilesAreKept
CHECK_DEADLOCK FALSE
