\* Owner pushes, pops and runs local collections that claim levels of its
\* deque while two thieves steal.
CONSTANTS
    CAP = 4
    LEN = 4
    WordBits = 4
    Thieves = {t1, t2}
    MaxPush = 3
    InitDepth = 1
    Depths = {}
    DesiredScopes = {1, 2}
    MinLocalLevel = 1
    CurrentDepth = 4
    ScopeBits = 3
SYMMETRY ThiefSymmetry
SPECIFICATION LSSpec
INVARIANT LSTypeOK
INVARIANT NoDoubleTake
INVARIANT ClaimExcludesThieves
