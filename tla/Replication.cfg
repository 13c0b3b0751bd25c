SPECIFICATION Spec
CONSTANTS
  n1 = n1
  n2 = n2
  n3 = n3
  Server = {n1, n2, n3}
  None = None
  EligibleLeaders = {n1}
  InitialEligibleLeaders = {n1}
  Skipped = {}
  FailureLeader = FALSE
  MaxHeartbeats = 0
  MtuEntries = 1
  MaxTerm = 2
  MaxRequests = 2
  MaxPetitions = 0
  MaxDup = 1
  MaxInFlight = 2
  Lossy = TRUE
SYMMETRY FollowerSymmetry
VIEW ReplicationView
CONSTRAINT DuplicateOrReelection
INVARIANTS
  LogsArePrefixes
  MatchIndexIsSound
  AckedOnMajority
CHECK_DEADLOCK FALSE
