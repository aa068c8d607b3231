CONSTANTS
    t1 = t1
    t2 = t2
    NULL = NULL
    Threads = {t1}
    Blocks <- MCBlocks
    Genesis = 0
    Parent <- StemParent
    Ancestors <- StemAncestors
    Height <- StemHeight
    Work <- StemWork
    BadBody = {}
    BadConnect = {}
    InvalidateTargets = {1}
    ReconsiderTargets = {1}
    Addresses <- Ascending
    PruneMode = FALSE
    MinBlocksToKeep = 2
    PruneAfterHeight = 2
    MaxSequenceId = 9
    MaxUnlinked = 2
SPECIFICATION Spec
INVARIANTS BestChainActive
