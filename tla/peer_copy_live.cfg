SPECIFICATION FairSpec
CONSTANTS
    main = main
    r1 = r1
    r2 = r2
    hd1 = hd1
    hd2 = hd2
    Startup = main
    Reverse <- OneReverse
    Handler <- OneHandler
    MaxHeight = 2
    Refused <- FirstRefused
    FileAtStart = "ready"
    MaxSyncs = 1
    MaxCrashes = 0
    MaxDiskErrors = 1
    MaxOwnerErrors = 1
CHECK_DEADLOCK FALSE
INVARIANT RefusedKeptOut
PROPERTIES
    AddBlockReturns
    SyncEnds
