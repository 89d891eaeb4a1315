\* One local collection of levels 2..3 over every heap of five objects.
CONSTANTS
    S = S
    T = T
    A = A
    B = B
    C = C
    Null = Null
    Objects <- MCObjects
    Stack = S
    Thread = T
    Level <- MCLevel
    MinLevel = 2
    CurrentDepth = 3
    DequeLen = 1
SPECIFICATION HHSpec
INVARIANT HHTypeOK
INVARIANT NoDanglingAfterCollection
PROPERTY CollectionTerminates
\* One call of collectLocal: it stops in phase "done" by design.
CHECK_DEADLOCK FALSE
