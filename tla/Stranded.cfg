SPECIFICATION FairSpec
CONSTANTS
  n1 = n1
  n2 = n2
  n3 = n3
  Server = {n1, n2, n3}
  None = None
  EligibleLeaders = {n1}
  InitialEligibleLeaders = {n1}
  Skipped = {}
  FailureLeader = FALSE
  MaxHeartbeats = 0
  MtuEntries = 1
  MaxTerm = 1
  MaxRequests = 2
  MaxPetitions = 0
  MaxDup = 0
  MaxInFlight = 3
  Lossy = FALSE

PROPERTIES
  AppendedIsAcked
CHECK_DEADLOCK FALSE
