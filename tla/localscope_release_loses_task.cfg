\* A local collection claims down to the deque top, then releases its scope.
CONSTANTS
    CAP = 4
    LEN = 4
    WordBits = 4
    Thieves = {t1, t2}
    MaxPush = 3
    InitDepth = 1
    Depths = {}
    DesiredScopes = {1}
    MinLocalLevel = 1
    CurrentDepth = 4
    ScopeBits = 3
SYMMETRY ThiefSymmetry
SPECIFICATION LSSpec
INVARIANT ReleaseConserves
