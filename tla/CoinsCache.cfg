CONSTANTS
    Txids = {x1}
    Coins = {c1, c2}
    Pruned = Pruned
    Nullifiers = {n1}
    Roots <- MCRoots
    EmptyRoot <- MCEmptyRoot
    Size <- MCSize
    BlockHashes = {b1, b2}
    NullHash = NullHash
    NONE = NONE
SPECIFICATION Spec
SYMMETRY Symmetry
INVARIANTS FreshWhenMovedUp FlagsTruthful BestAnchorHeld
PROPERTIES CachesTransparent
