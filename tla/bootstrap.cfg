SPECIFICATION FairSpec
CONSTANTS
    k1 = k1
    k2 = k2
    a1 = a1
    a2 = a2
    a3 = a3
    None = None
    PeerKey <- PeerKeys
    AdminKey <- AdminKeys
    MaxCrashes = 3
INVARIANTS
    ServesComplete
    ServedStartsAgain
    OneIdentity
    ShownIsRegistered
    CacheHasAdmins
PROPERTY StartReturns
