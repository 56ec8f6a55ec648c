SPECIFICATION Spec
CONSTANTS
    n1 = n1
    n2 = n2
    n3 = n3
    Voters = {n1, n2}
    Observers = {n3}
    None = None
    MaxBatch = 1
    Pipelined = FALSE
    MaxTerm = 2
    VoteLinks <- VotePair
    FetchLinks <- FetchChain
    MaxLog = 2
    MaxRestarts = 0
INVARIANT CommittedOnQuorum
