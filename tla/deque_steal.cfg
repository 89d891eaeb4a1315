\* Owner pushes and pops while two thieves steal; no setDepth.  No symmetry:
\* the refinement property is checked on the same state graph.
CONSTANTS
    CAP = 2
    LEN = 2
    WordBits = 4
    Thieves = {t1, t2}
    MaxPush = 4
    InitDepth = 1
    Depths = {}
SPECIFICATION Spec
INVARIANT TypeOK
INVARIANT NoDoubleTake
INVARIANT QuiescentConservation
PROPERTY RefinesAbstractDeque
