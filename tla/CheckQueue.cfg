CONSTANTS
    Workers = {w1, w2}
    Master = m
    nBatchSize = 2
    MaxAdd = 2
    MaxChecks = 3
    MaxRounds = 2
SPECIFICATION FairSpec
INVARIANTS WaitReturnsConjunction ControlFindsQueueIdle
PROPERTY WaitTerminates
