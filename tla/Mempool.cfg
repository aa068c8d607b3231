CONSTANTS
    Txs <- MCTxs
    Pos = {0, 1}
    Outs = {"pay", "change", "return"}
    NULL = "null"
    Unspendable = {"return"}
    Vin <- MCVin
    Vout <- MCVout
    Version <- MCVersion
    CoinBases <- MCCoinBases
    Nullifiers = {"nf1", "nf2"}
    Reveals <- MCReveals
    Anchor <- MCAnchor
    Blocks <- MCBlocks
    Maturity = 2
    MaxHeight = 4
    MaxBlocks = 4
    Peers = {p1, p2}
    MaxOrphans = 2
SYMMETRY PeerSymmetry
SPECIFICATION MempoolSpec
INVARIANTS CoinsExact PoolMinable OrphansIndexed
PROPERTIES OrphansResolved
CHECK_DEADLOCK FALSE
