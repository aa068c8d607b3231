CONSTANTS
    t1 = t1
    t2 = t2
    NULL = NULL
    Threads = {t1}
    Blocks <- MCBlocks
    Genesis = 0
    Parent <- ForkParent
    Ancestors <- ForkAncestors
    Height <- ForkHeight
    Work <- ForkWork
    BadBody = {}
    BadConnect = {}
    InvalidateTargets = {4}
    ReconsiderTargets = {}
    Addresses <- Ascending
    PruneMode = TRUE
    MinBlocksToKeep = 1
    PruneAfterHeight = 0
    MaxSequenceId = 8
    MaxUnlinked = 2
SPECIFICATION Spec
CHECK_DEADLOCK FALSE
INVARIANTS UnlinkedExact ConnectDataAtHand
PROPERTIES NeededDataKept CandidateKeysFixed
