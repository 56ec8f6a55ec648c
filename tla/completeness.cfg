SPECIFICATION Spec
CONSTANTS
    n1 = n1
    n2 = n2
    n3 = n3
    Voters = {n1, n2, n3}
    Observers = {}
    None = None
    MaxBatch = 1
    Pipelined = FALSE
    MaxTerm = 2
    VoteLinks <- VoteReturn
    FetchLinks <- FetchStar
    MaxLog = 2
    MaxRestarts = 1
INVARIANTS
    FollowsElectedLeader
    LeaderCompleteness
