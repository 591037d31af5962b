SPECIFICATION FairSpec
CONSTANTS
    main = main
    r1 = r1
    r2 = r2
    hd1 = hd1
    hd2 = hd2
    Startup = main
    Reverse <- NoReverse
    Handler <- OneHandler
    MaxHeight = 1
    Refused <- NoneRefused
    FileAtStart = "absent"
    MaxSyncs = 0
    MaxCrashes = 0
    MaxDiskErrors = 0
    MaxOwnerErrors = 0
CHECK_DEADLOCK FALSE
PROPERTY AddBlockReturns
