SPECIFICATION Spec
CONSTANTS
  Size = 2
  MaxReq = 3
  MaxBytes = 3
  Controllers <- OneController
  Ops <- AbortOps
  Waits <- Timeouts
  OwnerChecked = TRUE
INVARIANTS
  TypeOK
  BufferConsistent
  
  NoLostWakeUp
PROPERTY
  ImplementsStream
\* the kernel may stop the chip
CHECK_DEADLOCK FALSE
