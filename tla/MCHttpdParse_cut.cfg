SPECIFICATION ParseFairSpec
CONSTANTS
  BlockSize = 6
  ScratchSize = 9
  Requests <- Some3
  MaxRequests = 2
  HangUps <- Either
  Takes <- Lengths
  PurgeSize = 2

  
  
PROPERTY RequestEnds
CHECK_DEADLOCK FALSE
