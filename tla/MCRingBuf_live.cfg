SPECIFICATION FairSpec
CONSTANTS
  Size = 2
  MaxReq = 2
  MaxBytes = 3
  Controllers <- OneController
  Ops <- WakeOps
  Waits <- MaxDelay
  OwnerChecked = TRUE
PROPERTIES
  ReaderGoesOn
  WriterGoesOn
