\* A new deque (top = bot = 0) on which the owner pops before any push.
CONSTANTS
    CAP = 2
    LEN = 2
    WordBits = 4
    Thieves = {}
    MaxPush = 1
    InitDepth = 0
    Depths = {}
SPECIFICATION Spec
INVARIANT QuiescentConservation
