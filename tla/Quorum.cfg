SPECIFICATION Spec
CONSTANTS
  n1 = n1
  n2 = n2
  n3 = n3
  Server = {n1, n2, n3}
  None = None
  EligibleLeaders = {n1, n2}
  InitialEligibleLeaders = {n1, n2}
  Skipped = {}
  FailureLeader = FALSE
  MaxHeartbeats = 0
  MtuEntries = 1
  MaxTerm = 2
  MaxRequests = 0
  MaxPetitions = 0
  MaxDup = 0
  MaxInFlight = 2
  Lossy = TRUE
SYMMETRY CandidateSymmetry
INVARIANT ElectedByQuorum
CHECK_DEADLOCK FALSE
