CONSTANTS
    Txs = {"t1", "t2"}
    Keys = {"k1", "k2"}
    Notes = {"n1", "n2", "n3", "n4"}
    NULL = "null"
    TxNotes <- MCTxNotes
    Owner <- MCOwner
    Transparent = {"t2"}
    Blocks <- MCBlocks
    WITNESS_CACHE_SIZE = 3
    MaxHeight = 6
    StartHeight = 2
    MaxScans = 2
SPECIFICATION Spec
INVARIANTS WitnessesRight NotesSpendable CacheAssertionsHold
CHECK_DEADLOCK FALSE
