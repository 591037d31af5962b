SPECIFICATION FairSpec
CONSTANTS
    n1 = n1
    n2 = n2
    a1 = a1
    a2 = a2
    Node <- TwoNodes
    Address <- TwoAddresses
    MaxTime = 1
    MaxWrites = 2
    MaxGrants = 0
    MaxCrashes = 1
    MaxDrops = 0
    MaxDiskErrors = 0
CHECK_DEADLOCK FALSE
PROPERTY ExchangeEnds
