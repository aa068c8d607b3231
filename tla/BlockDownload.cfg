CONSTANTS
    Blocks = {0, 1, 2, 3}
    Genesis = 0
    NULL = null
    Parent <- MCParent
    Ancestors <- MCAncestors
    Height <- MCHeight
    Work <- MCWork
    Nodes = {h, s}
    Prompt = {h}
    Best = 2
    Announced <- MCAnnounced
    HeadersUpTo <- MCHeadersUpTo
    Bad = {3}
    MaxInTransit = 1
    Window = 1
    MinBlocksToKeep = 1
SPECIFICATION DownloadSpec
INVARIANTS RequestsConsistent TimeoutLongEnough
PROPERTIES BestChainDownloaded
CHECK_DEADLOCK FALSE
