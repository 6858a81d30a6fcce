SPECIFICATION FairSpec
CONSTANTS
  LastChannel = 2
  MaxResults = 3
  Found <- NoneToTwo
  Groups <- AllOrEach
  MaxScans = 2
  MaxApplies = 2
  MaxLosses = 1
  Prompt = TRUE
INVARIANTS
  
  StrongestFirst
  
PROPERTIES
  
  ProvisioningEnds
CHECK_DEADLOCK FALSE
