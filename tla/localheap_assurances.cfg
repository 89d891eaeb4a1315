\* Calls of HM_ensureHierarchicalHeapAssurances between mutator steps, with
\* blocks of 4 units, requests below, at and above a block, depths 0 (the main thread after initWorld), 1 and 2.
CONSTANTS
    Block = 4
    Meta = 1
    Slop = 2
    StackBytes = 2
    Requests = {1, 3, 5}
    Depths = {0, 1, 2}
    MaxChunks = 2
    Alignment = 2
    VectorTables <- MCVectorTables
SPECIFICATION LHSpec
INVARIANT LHTypeOK
INVARIANT FrontierAssured
\* DIE when the chunk pool is exhausted stops the program.
CHECK_DEADLOCK FALSE
INVARIANT WorldLayout
PROPERTY FrontierNeverRewinds
