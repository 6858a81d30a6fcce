SPECIFICATION FairSpec
CONSTANTS
  MaxSockets  = 2
  Clients     = {c1, c2, c3}
  Kinds       <- AllKinds
  LruModes    = {TRUE}
  QueueSize   = 1
  MaxAhead    = 1
  MaxConnects = 3
  MaxSends    = 1
  MaxAppCalls = 0
PROPERTIES ClientsServed StopReturns
CHECK_DEADLOCK FALSE
