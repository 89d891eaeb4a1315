\* pushBot's full test uses the data array's length, slots are taken modulo CAP:
\* an array longer than CAP lets a push overwrite a value still in the deque.
CONSTANTS
    CAP = 2
    LEN = 3
    WordBits = 4
    Thieves = {}
    MaxPush = 3
    InitDepth = 1
    Depths = {}
SPECIFICATION Spec
INVARIANT QuiescentConservation
