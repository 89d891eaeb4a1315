\* Four objects forwarded into one level's to-space: normal objects and
\* sequences below, near and above a block, stacks with unused reserve.
CONSTANTS
    Block = 8
    Hdr = 1
    Slop = 2
    NormalMeta = 1
    SeqMeta = 2
    StackMeta = 1
    StackStruct = 1
    Bodies = {1, 4, 9}
    Reserved = {3}
    MaxCopies = 4
    MaxChunks = 8
SPECIFICATION CoSpec
INVARIANT CopyTypeOK
INVARIANT CopiesDisjoint
INVARIANT ToSpaceTail
\* The collection forwards finitely many objects, then stops.
CHECK_DEADLOCK FALSE
