SPECIFICATION FairPipeSpec
CONSTANTS
  Streams <- TwoStreams
  Readers <- InputIsReader
  Callers <- OneApp
  Ops <- NoOps
  AtomicBits = TRUE
  PipeOps <- StartDestroy
  Again = FALSE
  MayFail = FALSE
  OutputFails = FALSE
  Capacity = 2

  
  
PROPERTY EndsStopped
CHECK_DEADLOCK FALSE
