SPECIFICATION FeedsSpec
CONSTANTS
  Caller = {c1, c2}
  MaxConnects = 2
  System = {y1, y2}
  Nobody = Nobody
  Request = {r1, r2}
  MaxStarts = 2
SYMMETRY Permuted
INVARIANTS
  RunningMeansGenerating
PROPERTIES
  HardwareFeedsWhileConnected
CHECK_DEADLOCK FALSE
