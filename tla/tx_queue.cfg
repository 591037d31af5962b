SPECIFICATION Spec
CONSTANTS
    e1 = e1
    e2 = e2
    e3 = e3
    c1 = c1
    c2 = c2
    nil = nil
    Elem <- ThreeElems
    Nothing = nil
    Consumer <- OneConsumer
    minQueueLen = 1
    smallCount = 4
    MaxCount = 5
    Duplicates = FALSE
    CallsClean = FALSE
CHECK_DEADLOCK FALSE
SYMMETRY Symmetry
INVARIANT RingSound
PROPERTY DequeSpec
