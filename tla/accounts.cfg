SPECIFICATION Spec
CONSTANTS
    n1 = n1
    n2 = n2
    a1 = a1
    a2 = a2
    Node <- TwoNodes
    Address <- OneAddress
    MaxTime = 3
    MaxWrites = 2
    MaxGrants = 1
    MaxCrashes = 2
    MaxDrops = 1
    MaxDiskErrors = 1
SYMMETRY Symmetry
CHECK_DEADLOCK FALSE
INVARIANTS
    AgreeWhenQuiet
    AnsweredKept
    PermissionsGranted
PROPERTIES
    NeverBackwards
