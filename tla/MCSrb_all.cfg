SPECIFICATION FairSpec
CONSTANTS
  Size = 1
  MaxSent = 2
  MaxAnchors = 2
  Lens <- OneToThree
  Readers <- OneReader
  Drainers <- OneDrainer
  Resetters <- OneResetter
  MaxResets = 1
  PutModes <- BothWays
  TimeOuts = TRUE
INVARIANTS
  AnchorsInTurn
  OffsetIsRead
PROPERTIES
  PassedIsFetched
  DrainReturns
CHECK_DEADLOCK FALSE
