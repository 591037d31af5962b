SPECIFICATION Spec
CONSTANTS
    Id <- Ids
    MaxTxs = 5
CHECK_DEADLOCK FALSE
INVARIANTS
    RootIsUnique
    PathLeadsToRoot
    AbsentHasNoPath
