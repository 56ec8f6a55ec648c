SPECIFICATION Spec
CONSTANTS
    n1 = n1
    n2 = n2
    n3 = n3
    Voters = {n1, n2, n3}
    Observers = {}
    None = None
    MaxBatch = 2
    Pipelined = TRUE
    MaxTerm = 2
    VoteLinks <- VoteChain
    FetchLinks <- FetchPair
    MaxLog = 2
    MaxRestarts = 0
INVARIANT CommittedIsImmutable
