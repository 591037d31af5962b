SPECIFICATION FairSpec
CONSTANTS
    t1 = t1
    t2 = t2
    t3 = t3
    coinbase = coinbase
    genesis = genesis
    h1 = h1
    h2 = h2
    h3 = h3
    Tx <- Txs
    CoinbaseTx = coinbase
    Hash <- Hashes
    GenesisHash = genesis
    NoHash = NoHash
    Overwritten = Overwritten
    maxTxsPerBlock = 2
    MaxCrashes = 2
    MaxDiskErrors = 1
INVARIANTS
    ChainIntact
    NeverRefusesToStart
    TipIsLastHash
    AnnouncedDurable
    DocumentsAccounted
    IndexFollowsChain
PROPERTIES
    AppendOnly
    AcceptedIsStored
