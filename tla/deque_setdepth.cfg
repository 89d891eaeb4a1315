\* Owner alone pushes, pops and moves the depth down and up with setDepth.
CONSTANTS
    CAP = 2
    LEN = 2
    WordBits = 4
    Thieves = {}
    MaxPush = 3
    InitDepth = 2
    Depths = {1, 4}
SPECIFICATION Spec
INVARIANT QuiescentConservation
