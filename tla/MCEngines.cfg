SPECIFICATION Spec
CONSTANTS
  BiasWindow = 3
  MinBiasSamples = 2
  MaxInterval = 1
  ExcitationWindow = 3
  WindowDuration = 2
  MinSamples = 2
  MaxSamples = 3
  WindowHistory = 2
  Debounce = 2
  Hysteresis = 2
  RestDuration = 2
  RollingLength = 2
  TransitionHistory = 1
  Fittings <- MCFittings
  MaxAdvance = 2
  MaxTime = 5
  Heartbeat = 3
INVARIANTS
  RegressorsFresh
  WindowsAreSound
  TrackersMatchEvidence
PROPERTY GapsForgotten
