SPECIFICATION FairStreamSpec
CONSTANTS
  Client = {a, b}
  Dedicated = {b}
  Sender = {a}
  Twin = {pack}
  NoTwin = NoTwin
  NoClient = NoClient
  MaxSteps = 2
INVARIANTS
  IndexesAgree
PROPERTIES
  ImplementsHub
  CatchesUp
CHECK_DEADLOCK FALSE
