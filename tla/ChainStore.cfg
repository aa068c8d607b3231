CONSTANTS
    t1 = t1
    NULL = NULL
    Threads = {t1}
    Blocks <- MCBlocks
    Genesis = 0
    Parent <- MCParent
    Ancestors <- MCAncestors
    Height <- MCHeight
    Work <- MCWork
    BadBody = {}
    BadConnect = {}
    InvalidateTargets = {2}
    ReconsiderTargets = {2}
    Addresses <- Ascending
    PruneMode = TRUE
    MinBlocksToKeep = 1
    PruneAfterHeight = 1
    MaxSequenceId = 4
    MaxUnlinked = 2
    CheckBlocks = 1
    MaxCrashes = 2
SPECIFICATION StoreSpec
CHECK_DEADLOCK FALSE
INVARIANTS DiskBehindIndex UnsavedAreDirty RestartFailsOnly BestChainAfterRestart IndexConsistent
