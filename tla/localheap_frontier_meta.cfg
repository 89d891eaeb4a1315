\* The assertion at local-heap.c:169 after a call that did not extend.
CONSTANTS
    Block = 4
    Meta = 1
    Slop = 2
    StackBytes = 2
    Requests = {1, 3, 5}
    Depths = {2}
    MaxChunks = 2
    Alignment = 2
    VectorTables <- MCVectorTables
SPECIFICATION LHSpec
INVARIANT MutatorFrontierInvariant
CHECK_DEADLOCK FALSE
