SPECIFICATION Spec
CONSTANTS
    main = main
    r1 = r1
    r2 = r2
    hd1 = hd1
    hd2 = hd2
    Startup = main
    Reverse <- OneReverse
    Handler <- OneHandler
    MaxHeight = 2
    Refused <- NoneRefused
    FileAtStart = "absent"
    MaxSyncs = 1
    MaxCrashes = 1
    MaxDiskErrors = 1
    MaxOwnerErrors = 1
CONSTRAINT FewFaults
CHECK_DEADLOCK FALSE
INVARIANTS
    SyncComplete
    TipStored
    OneOpens
    TipMatchesDisk
PROPERTIES
    TipOnlyAdvances
