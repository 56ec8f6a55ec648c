SPECIFICATION Spec
CONSTANTS
    n1 = n1
    n2 = n2
    n3 = n3
    Voters = {n1, n2, n3}
    Observers = {}
    None = None
    MaxBatch = 1
    Pipelined = FALSE
    MaxTerm = 1
    VoteLinks <- AllVoteLinks
    FetchLinks = {}
    MaxLog = 0
    MaxRestarts = 2
SYMMETRY VoterSymmetry
INVARIANTS
    ElectionSafety
    BallotsAreBinding
