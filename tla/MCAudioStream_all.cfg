SPECIFICATION FairSpec
CONSTANTS
  Streams <- AReader
  Readers <- AReader
  Callers <- TwoCallers
  Ops <- AllOps
  MayFail = TRUE
  AtomicBits = FALSE
INVARIANTS
  TypeOK
  FreedOnlyWhenDead
PROPERTIES
  DestroyReturns
  StopTakesEffect
CHECK_DEADLOCK FALSE
