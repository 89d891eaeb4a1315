\* Owner lowers and raises the depth with setDepth while two thieves steal.
CONSTANTS
    CAP = 2
    LEN = 2
    WordBits = 4
    Thieves = {t1, t2}
    MaxPush = 3
    InitDepth = 1
    Depths = {3}
SYMMETRY ThiefSymmetry
SPECIFICATION Spec
INVARIANT NoDoubleTake
