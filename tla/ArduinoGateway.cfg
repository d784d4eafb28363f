SPECIFICATION FairSpec
CONSTANTS
  Caller = {c1, c2}
  MaxConnects = 2
  System = {prototype}
  Nobody = Nobody
INVARIANTS
  NoPortLeaked
  OneReader
  ConnectedIsServed
PROPERTIES
  LossAnswered
  CallsReturn
  ListenersEnd
CHECK_DEADLOCK FALSE
