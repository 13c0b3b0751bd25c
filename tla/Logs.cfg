SPECIFICATION Spec
CONSTANTS
  n1 = n1
  n2 = n2
  n3 = n3
  Server = {n1, n2, n3}
  None = None
  EligibleLeaders = {n1,n2}
  InitialEligibleLeaders = {n1}
  Skipped <- OneSkipped
  FailureLeader = FALSE
  MaxHeartbeats = 0
  MtuEntries = 1
  MaxTerm = 2
  MaxRequests = 2
  MaxPetitions = 0
  MaxDup = 0
  MaxInFlight = 2
  Lossy = TRUE
CONSTRAINT OneTaskQueued
VIEW LogView
INVARIANTS
  LogTermsOrdered
  LogsMatch
CHECK_DEADLOCK FALSE
