SPECIFICATION Spec
CONSTANTS
  MaxSockets  = 2
  Clients     = {c1, c2, c3}
  Kinds       <- AllKinds
  LruModes    <- Either
  QueueSize   = 1
  MaxAhead    = 2
  MaxConnects = 3
  MaxSends    = 2
  MaxAppCalls = 1
INVARIANTS OneOwner TurnsAreRight
SYMMETRY Symmetry
CHECK_DEADLOCK FALSE
