CONSTANTS
    t1 = t1
    t2 = t2
    NULL = NULL
    Threads = {t1, t2}
    Blocks <- MCBlocks
    Genesis = 0
    Parent <- ForkParent
    Ancestors <- ForkAncestors
    Height <- ForkHeight
    Work <- ForkWork
    BadBody = {2}
    BadConnect = {5}
    InvalidateTargets = {1, 4}
    ReconsiderTargets = {}
    Addresses <- Ascending
    PruneMode = FALSE
    MinBlocksToKeep = 2
    PruneAfterHeight = 2
    MaxSequenceId = 9
    MaxUnlinked = 2
SPECIFICATION FairSpec
INVARIANTS IndexConsistent ActiveChainConsistent FailureHasCause CandidatesWhenSettled BestChainActive
PROPERTY HandlersReturn
