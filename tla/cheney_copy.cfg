\* Major and minor Cheney copies of every heap of three objects and a weak.
\* One collection stops by design: no deadlock check.
CONSTANTS
    A = A
    B = B
    C = C
    W = W
    Null = Null
    Objects <- MCObjects
    Weak <- MCWeak
    NGlobals = 1
SPECIFICATION Spec
INVARIANT TypeOK
INVARIANT CheneyNoDangling
INVARIANT WeakFixup
INVARIANT WeakDoesNotRetain
PROPERTY CheneyTerminates
CHECK_DEADLOCK FALSE
