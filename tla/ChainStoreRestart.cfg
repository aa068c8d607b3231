CONSTANTS
    t1 = t1
    NULL = NULL
    Threads = {t1}
    Blocks <- MCBlocks
    Genesis = 0
    Parent <- MCParent
    Ancestors <- MCAncestors
    Height <- MCHeight
    Work <- MCWork
    BadBody = {}
    BadConnect = {}
    InvalidateTargets = {2}
    ReconsiderTargets = {2}
    Addresses <- Ascending
    PruneMode = FALSE
    MinBlocksToKeep = 1
    PruneAfterHeight = 1
    MaxSequenceId = 5
    MaxUnlinked = 2
    CheckBlocks = 1
    MaxCrashes = 1
SPECIFICATION StoreSpec
CHECK_DEADLOCK FALSE
INVARIANTS TipOrSuccessorLeft
