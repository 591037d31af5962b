SPECIFICATION FairSpec
CONSTANTS
    e1 = e1
    e2 = e2
    e3 = e3
    c1 = c1
    c2 = c2
    nil = nil
    Elem <- OneElem
    Nothing = nil
    Consumer <- TwoConsumers
    minQueueLen = 1
    smallCount = 4
    MaxCount = 2
    Duplicates = TRUE
    CallsClean = TRUE
CHECK_DEADLOCK FALSE
INVARIANTS
    NoLostWakeUp
    SignalNotLost
PROPERTY PopReturns
