SPECIFICATION FairSpec
CONSTANTS
  QueueLength = 3
  MaxPresses = 4
  MaxCalls = 3
  MaxRestarts = 1
INVARIANTS
  StreamIsRead
  MuteAgrees
  
PROPERTIES
  MuteTakesEffect
CHECK_DEADLOCK FALSE
