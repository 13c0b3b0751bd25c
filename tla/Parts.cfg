SPECIFICATION PartsSpec
CONSTANTS
    Node = {n1, n2, n3}
    Leader = n1
    Commands = {a, b}
    MaxLog = 2
    MaxRuns = 2
    None = None
    NoLeader = NoLeader
    w1 = w1
    w2 = w2
INVARIANTS
    PartsTypeOK
    CleanRunsPass
    CommittedIsAgreed
    
    FaultsStayLocal
    
    
    DegradedOnlyByFailedStart
    CountsAreOfTheRun
    ListIsExact
    CountIsExact
    ClaimedIsHeld
    ShiftedOnlyBack
    ViewsAreExact
    DetectionsAreExact
    SectionsAreExact
    
    
    
    

    
CHECK_DEADLOCK FALSE
