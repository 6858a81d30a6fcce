SPECIFICATION PipeSpec
CONSTANTS
  Streams <- TwoStreams
  Readers <- InputIsReader
  Callers <- OneApp
  Ops <- NoOps
  AtomicBits = TRUE
  PipeOps <- ControlOps
  Again = TRUE
  MayFail = FALSE
  OutputFails = TRUE
  Capacity = 1
INVARIANTS
  NoPhantomStart
CHECK_DEADLOCK FALSE
