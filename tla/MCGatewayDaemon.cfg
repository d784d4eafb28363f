SPECIFICATION FairSpec
CONSTANTS
  Source = {tcp, udp}
  AutoReconnect = {tcp}
  Raising = {udp}
  Worker = {w1}
  MaxQueue = 2
  MaxFrames = 3
  MaxStarts = 2
  NoSource = NoSource
INVARIANTS
  Accounting
  Quiescent
PROPERTIES
  OnlyEvictionLosesQueued
  ImplementsChannel
  StopReturns
  LossAnnounced
