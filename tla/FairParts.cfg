SPECIFICATION FairPartsSpec
CONSTANTS
    None = None
    w1 = w1
    a = a
    b = b
    c = c
    Command = {a, b, c}
    Worker = {w1}
    LeaderLog <- TwoLeaders
    LeaderCommit <- TwoLeadersCommit
    Preempts = FALSE
    MaxMessages = 3
    MaxTimeouts = 1
PROPERTIES
    
    RequestsFlow
    FollowsLeader
    AllClosedAtLast
    ClientsStop
CHECK_DEADLOCK FALSE
