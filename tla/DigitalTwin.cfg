SPECIFICATION Spec
CONSTANTS
  Names = {own, other}
  Own = own
  Direct = direct
  Lifecycle = {normal, critical}
  Critical = critical
  NoLifecycle = none
  Heartbeat = 2
  HistoryLength = 2
  MaxRecords = 3
  MaxTime = 3
  MaxSnapshots = 4
  MaxEpochs = 2
INVARIANTS
  HistoryInStepOrder
  DiagnosisViewsAgree
  AcceptedIsNotSkewed
PROPERTIES
  AlertsMarkEntries
