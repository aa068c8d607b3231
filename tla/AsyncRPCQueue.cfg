CONSTANTS
    Workers = {w1, w2}
    Ops = {o1, o2}
    NONE = NONE
SPECIFICATION AsyncSpec
INVARIANTS FrontExists SettledWhenJoined AllDoneWhenFinished
PROPERTIES ShutdownReturns OperationsEnd
