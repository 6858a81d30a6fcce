SPECIFICATION FairSpec
CONSTANTS
  Clients <- PhoneAndOther
  Phone = "phone"
  Fds <- TwoNumbers
  MaxVisits = 1
  MaxRequests = 1
  MaxFaults = 1
  MaxServices = 2
INVARIANTS
  
  NoOrphan
PROPERTIES
  SessionKept
  PhoneGetsSession
CHECK_DEADLOCK FALSE
