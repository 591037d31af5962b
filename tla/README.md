# Blocace in TLA+

Blocace is a document database on top of a blockchain.  Every node keeps a
chain of its own, into which it puts the documents that its clients send, and a
copy of the chain of every peer it knows.  Accounts and collections (schemas of
documents) are exchanged between the nodes.  This directory holds TLA+ models of
the node, the TLC configurations that check them, and TLAPS proofs of their main
invariants.  Line numbers below refer to the files under `src/`;
`PROJECT.json` maps every definition to its lines.

    tlc -workers 2 -config local_chain.cfg MCLocalChain.tla     # a run
    tlapm LocalChainProofs.tla                                  # the proofs

## 1. The system

| Component | State | Operations | Correct when |
|---|---|---|---|
| Local blockchain (`blockchain/blockchain.go`, `block.go`) | bolt file with buckets `blocks` (blocks, `l` last hash, `b` height, `t` total, node key) and `transactions`; `Tip` in memory | `AddBlock`, `Persist`, `NewBlockchain`, `CreateBlockchain`, `IsComplete` | one unbroken chain, append-only, tip and totals agree with it, a restart always accepts it |
| Block generation (`pool/receiver.go`) | the queue, the batch under construction | `Put`, `PutWithoutSignature`, `Monitor`, `generateBlock`, `checkMapping` | every accepted document is in one block, once, in order, and in the end |
| Transaction queue (`pool/queue.go`) | ring of identifiers, two maps, mutex, condition variable, channel `NotEmpty` | `Append`, `Prepend`, `Pop`, `Remove`, `Clean`, `Front`, `Back`, `Length` | a double-ended queue: nothing lost, repeated or reordered; no lost wake-up |
| Copies of peers' chains (`p2p/blockchain_forest.go`, block messages of `p2p/p2p.go`) | a bolt file per peer, `Peers` map with a `Tip` each | `AddBlock`, `GetBlock`, `NewBlockchainForest`, `syncPeerBlockchain`, `handleBlockRequest`, broadcasts | a finished sync leaves no gap; a block that fails its check is never stored; tips name stored blocks |
| Search index (`blockchain/search.go`) | a bleve index per collection, the collections bucket | `NewSearch`, `CreateMapping`, `IndexBlock` | the index and the blocks agree |
| Accounts (`webapi/http.go`, `p2p/p2p.go`, `blockchain/account.go`) | the accounts bucket, a cache | registration, update, permission change, exchange with peers | a write that was answered is not undone by an older one; nodes agree when all is delivered; permissions come from a grant only |
| Collections (`webapi/http.go`, `p2p/p2p.go`) | the collections bucket, a cache, index directories, the open indices | creation over HTTP, exchange with peers | the schema never changes under the documents; a collection reaches every node; its documents are in the index |
| Authentication (`webapi/http.go`, `auth.go`) | cache of challenge words | `JWTChallenge`, `HandleJWT` | a word is used once and by its owner |
| Merkle tree (`blockchain/merkle_tree.go`) | none | `NewMerkleTree`, `GetVerificationPath` | the root depends on the set of documents only; the path of a document leads to it |
| Peer table (`p2p/p2p.go`) | Kademlia's table | discovery, the goroutine that removes stale peers | a live peer is not removed for good |
| Server (`main.go`) | the sum of the above | `server`, `keygen`, shutdown | after any crash the next start serves, or says why not |

HTTP handlers run concurrently and append to the queue.  One `Monitor`
goroutine takes batches out of it, writes blocks and broadcasts them.  Workers
of the p2p node handle messages concurrently, and the main goroutine syncs from
every peer before HTTP is served; both call `BlockchainForest.AddBlock` without
a lock.  `Accounts`, `mappings`, `Peers` and `Tip` are shared between all of
these without a lock; the bolt files and the queue have locks of their own.

What is hard here: crashes between the commit of a block and everything that
follows it (tip, index, broadcast); a commit that fails while its caller goes
on; two goroutines inside `AddBlock` for one peer; a panic in one of them, which
ends the process; broadcasts that are lost or overtake a sync; a ring buffer
that wraps and is resized in both directions; a wake-up only for the first
element; a first start that leaves the file half made; accounts and collections
that are kept in two to four places and written one place after the other, by
HTTP handlers and by messages at once; messages that overtake each other.
`PROJECT.json` lists these hazards, each at its line.

## 2. The modules

| Module | Models | Checked by | Proofs |
|---|---|---|---|
| `LocalChain` | the local chain and its generator | `MCLocalChain` | `LocalChainProofs` |
| `PeerCopy` | one node's copy of one peer's chain | `MCPeerCopy` | `PeerCopyProofs` |
| `TxDeque` | what the queue promises (abstract) | through `TxQueue` | |
| `TxQueue` | the queue as implemented; refines `TxDeque` | `MCTxQueue` | `TxQueueProofs` |
| `Bootstrap` | start, shutdown, keygen | `MCBootstrap` | `BootstrapProofs` |
| `AccountSync` | the accounts of several nodes | `MCAccountSync` | `AccountSyncProofs` |
| `Collections` | the collections of several nodes, and their documents | `MCCollections` | `CollectionsProofs`, `CollectionsReachProofs` |
| `MerkleTree` | construction of the tree, search, verification path | `MCMerkleTree` | `MerkleTreeProofs` |

The modules meet at their edges.  `LocalChain` takes the queue as the FIFO that
`TxQueue` is shown to implement and starts from the database that `Bootstrap`
leaves; `PeerCopy` takes the peer's chain as the append-only chain that
`LocalChain` is shown to keep, so that a block there is its height.
`Collections` takes a document from its put to the commit of a block of its own
in one step, and indexes it in another: the steps between are those of
`LocalChain` and `PeerCopy`.  `AccountSync` and `Collections` start from what
`Bootstrap` calls serving, and have the content of the startup syncs, of which
`Bootstrap` has the order only.

### LocalChain

`queue` is `Receiver.transactionsBuffer`; `pc`, `candidateTxs`, `newBlock` and
`seenTotal` are the program counter and the locals of `Monitor`,
`generateBlock`, `AddBlock` and `Persist`; `blocks`, `lastHash`, `lastHeight`,
`txTotal` and `indexed` are on disk and survive `Crash`.  The actions follow the
code line by line: `Put` (any HTTP handler), `Tick`, `LoopTest`, `Pop`,
`BuildBlock` (`AddBlock` up to `NewBlock`), `ReadTotal` (the View of `Persist`),
`Commit` or `CommitFails` (its Update), `SetTip`, `IndexBlock`, `Broadcast`,
`Crash`, `Restart` (`NewBlockchain` and `IsComplete`).  `ReusePage` models that
`NewBlockchain` keeps a slice of bolt's memory map as `Tip` after its
transaction (`blockchain.go:137`): a later commit may change it.

A block's hash is a fresh model value: SHA-256 over the previous hash, the
Merkle root of UUIDs and the time does not repeat.  `checkMapping` and the
signature check decide whether `Put` is reached at all and are left out.

### PeerCopy

The owner's chain is `0..ownerTip`.  `wire` holds broadcasts, which arrive in
any order or never.  `pc` gives every goroutine its place: the main goroutine
(`Startup`), workers that sync back (`Reverse`) and workers that handle
broadcasts (`Handler`).  `AddBlock` is a step per access to shared state:
`Check`, `Open`, `Create`, `Register`, `SetTip`, `ReadTotal`, `Commit` or
`CommitFails`, `Index`.  The commit of the buckets has an action for its failure,
too: `CreateFails`, after which the code goes on as if they were there.
`syncPeerBlockchain` is `AnswerTip`, then a loop of
`Walk`, `AnswerBlock` and `AddBlock` until `FinishSync`.  A refused block
(`MapToBlock` or the hash check) is a member of `Refused`.  A request that
fails is sent again with nothing changed: a stuttering step.  The count `t` of the
transactions in a copy is displayed and nothing else, and is left out.

The owner may fail, too.  After a commit that failed (`ProduceFails`) its `Tip`
names a block that it does not have (`tipLost`), until it starts again or adds a
block, and what it broadcasts and answers for that block is an empty `BlockP2P`:
`NoBlock`.  In `AddBlock` such a block has no transactions, and the Merkle tree
of none panics (`CheckEmpty`).

`status` is the state of the process: up, crashed, or what it panicked on.  A
panic is an end like a crash (`Ends`), and the operator may start the process
again (`Restart`); `NewBlockchainForest` panics in its turn on a file without
buckets.

### TxQueue and TxDeque

`buf`, `head`, `tail`, `count`, `items`, `ids` are the fields of `Queue`.  The
methods hold the mutex from begin to end and are one step each, except `Pop`,
which gives it up while it waits: `Call`, `Lock`, `Wait`, `TakeOut`.  `Receive`
is a consumer that waits on `NotEmpty` first.  `TakeOut` includes `pop`'s resize
and the deletion from the maps; an identifier whose element `Remove` took out is
skipped as in the loop of `Pop`.  `Clean` keeps `head`, `tail` and `count`, as
the code does.  An index or slice that is out of range sets `panicked`.

`TxDeque` is a sequence with `PutBack`, `PutFront`, `Pop` and `Remove`.  The
refinement mapping reads the ring from `head` on and leaves out identifiers
without an element (`Live`); `DequeSpec` says that every step of the ring is a
step of the sequence or none.  `Live` picks, by position, the identifiers that
have an element (`InOrder`): a function without recursion, so that TLAPS can
reason about it as well as TLC.

### Bootstrap

`disk` says what the database and the index directory hold; `pc` runs through
`server`, `CreateBlockchain` or `NewBlockchain`, `NewSearch`,
`generateAdminAccount`, `NewP2P` to serving.  Every transaction is a step, and
`Crash` may come between any two.  `keygen` is a second process that contends
for the lock of the file.  A panic or `os.Exit(1)` is the state `failed`.  The
syncs of mappings and accounts are a step each, since every request in them has a
time limit.  `SyncPeerBlockchains` is a step that *may* be taken: no fairness
makes it, since `sendBlockRequest` calls itself for as long as the peer fails to
answer (`p2p.go:552`), and `AddBlock` may wait for ever in `bolt.Open`.

### AccountSync

`disk` is the accounts bucket and `cache` the map `P2P.Accounts` of each node.
An account is its `LastModified` and whether its role lists collections to
write.  A goroutine in the middle of its work is a record: `handlers` (HTTP
handlers between their read and their answer), `asks` (`sendAccountsRequest`
waiting), `reverses` (`accountsRequestReverse` to come) and `merges` (a loop over
the accounts of a message).  `AccountRegistration`, `AccountUpdate` and
`SetAccountReadWrite` end at the read; `StoreWrite` is the commit and
`BroadcastObject` sets the cache and sends.  `SetAccountReadWrite` answers after
the commit: it neither sets the cache nor raises `LastModified` nor sends.  A
message is merged in two halves, `MergeIntoCache` and `MergeIntoBucket`, in the
opposite order.  A broadcast that has not arrived is a merge that has not begun:
it may be overtaken, lost (`Lose`) or cut off by a crash of its sender.

The clock is any number: nothing in the code makes it increase.  Which version
stays is then nobody's promise, and the history variable `contested` collects
the addresses for which the clocks were of no help, or which two goroutines of
one node had half stored at once (the two halves run in opposite orders, so
cache and bucket may end with different versions).  The properties are about
the others; `contested` never guards a step.  Admin accounts belong to one node,
are not exchanged and are part of `Bootstrap`.

### Collections

A node keeps a collection in four places: `dirs` (the bleve directory), `bucket`
(the schema), `open` (`Search.BlockchainIndices`) and `cache` (`P2P.mappings`).
`CreateMapping` is three steps: `NewUsing` makes the directory and refuses one
that exists, then the commit of the bucket and the entry of the open index.  A
creation over HTTP sets the cache and broadcasts at the end, *also when the
creation was refused*; a message sets the cache first.  Requests, reverse
requests, merges, losses and crashes are as in `AccountSync`.  `Start` opens
every directory and fills the cache from the bucket.

A document is put (`HandleTransaction`) if `CheckMapping` finds that it conforms
to the schema of the bucket; its block goes to the peers (`blocks`), or is copied
by `SyncBlocks` in the start of either side.  `Persist` is `AddBlock` up to the
commit, of the chain and of the copies; the goroutine is then in `indexing`, and
`IndexBlock` is the second step, to which for a block of the node itself belongs
the broadcast.  A crash in between leaves the document out of the index: the
history `cutShort` remembers it.  `IndexBlock` skips a document whose collection
has no open index there; `overtaken` remembers those for which the mapping was on
its way (`OnItsWay`), but never one in the node's own chain nor, after its
mappings have been asked for, one that its start copies (`Expected`).  A block
that is stored already is left alone when it comes again; the code indexes it once
more unless it is the tip, so that the model has less in the index, never more.
The collection "default" exists everywhere and is not exchanged.

### MerkleTree

One step per round of the loops of `NewMerkleTree` (`NextLevel`),
`findNodeByData` (`Visit`) and `GetVerificationPath` (`Climb`), on a list of
identifiers in any order.  The data of a leaf is `<<id>>` and a hash is the pair
of what was hashed, so that SHA-3 is free of collisions.  What a client does with
a path is in no file of `src/`: it begins at the position beside the deepest hash
(`DocumentPosition`) and goes up a level a round (`Above`, `ClientClimb`).  The
reference for the root, `RootOf`, goes up through the levels of the set of
identifiers (`Levels`) and pads nothing.

## 3. The runs

Passing:

* `local_chain` (94,738 states): all orders of three puts, ticks, two crashes
  with restarts and one failed commit.  The stored blocks are one chain
  (`ChainIntact`), grow only (`AppendOnly`), and always pass `IsComplete`
  (`NeverRefusesToStart`); the tip follows the disk (`TipIsLastHash`); peers hear
  only of stored blocks (`AnnouncedDurable`).  `DocumentsAccounted`: every accepted
  document is in exactly one place (the queue, the batch, one block) and in order,
  until a crash or a failed commit loses it, and `t` counts the blocks' documents.
  `IndexFollowsChain`: the index holds the documents of the chain and no other,
  but for the block that is being added, a crash and a failed commit.
  `AcceptedIsStored`: every accepted document is stored in the end unless
  something failed.
* `peer_copy` (3.8 million): the startup sync, a reverse sync and a broadcast
  handler race from the first block on, while the owner produces two blocks, with
  any two of a crash, a failed commit here and one at the owner.  `SyncComplete`,
  `TipStored`; `OneOpens`: of the goroutines that find the peer unknown only one
  gets the file, makes its buckets and registers it, none finds the buckets made,
  and whatever else panics does so after a fault (an empty block after the owner's
  failed commit; a file without buckets after a failed commit here, or after an
  end of the process while the file was made); and with one sync at a time
  `TipMatchesDisk` and `TipOnlyAdvances`.
* `peer_copy_live` (131,861): the same goroutines on a file that is there, with a
  refused block in the middle of the chain and a failed commit of either node: the
  refused block stays out (`RefusedKeptOut`), `AddBlock` returns or the process
  panics (`AddBlockReturns`), and so for syncs (`SyncEnds`).  That `SyncEnds` holds
  rests on an owner that answers in the end; one that never does keeps the sync
  for ever.
* `tx_queue` (336,174): every call but `Clean`.  `RingSound` (the ring, its
  indices, its length and the maps of elements belong together, and no index is
  out of range) and the refinement `DequeSpec`.
* `tx_queue_wait` (52,188): two consumers that wait, `Clean`, and an element that
  is put twice.  `NoLostWakeUp`, `SignalNotLost`, `PopReturns`.
* `bootstrap` (12,690): starts, three crashes of either process at any step,
  keygen in between.  `ServesComplete`, `ServedStartsAgain`, `OneIdentity`,
  `ShownIsRegistered`, `CacheHasAdmins`; `StartReturns`: a start comes to the sync
  of blocks, or fails or is killed, and waits for no keygen.  It is not said that
  it ever serves: that is up to the peers.
* `accounts` (2.8 million): two nodes register, update and grant one account with
  any clocks, and crash, start, lose messages and fail to commit.
  `AgreeWhenQuiet`: when all is delivered and nothing was lost, all nodes have the
  same version.  `AnsweredKept`: a write that was answered with 200 is in its
  node's bucket, in this version or a newer one, also after a crash.
  `PermissionsGranted`: no account that was never granted to write can write
  anywhere.  `NeverBackwards`: no step puts an older version in the place of a newer.
* `accounts_live` (166,548): with two accounts, the work ends: every request,
  handler and merge is finished, and a starting node serves (`ExchangeEnds`).
* `collections` (1.4 million): two nodes create one collection with two valid
  schemas and one that is refused, put documents, crash and start.  `SchemaKept`:
  nothing replaces a committed schema.  `SchemaIsIndexed`: directory, bucket and
  open index are of one creation.  `DocumentsConform`: every document in a chain
  conforms to the schema of today.  `ReachesAll`: when nothing is on its way, a
  collection that was asked for with one schema is the same at every node.
  `DocumentsFound`: a document is in the index of every node that stores it,
  or about to be, unless its block overtook the mapping (a start's own copies never
  do) or the node crashed between the commit of the block and `IndexBlock`.  Both
  except a collection whose creation was cut off between its directory and its
  commit (`CutOff`), and both hold after failed commits too.
* `merkle`: every order of one to five of six identifiers, and each of the six to
  look for.  `RootIsUnique` (the order does not matter), `PathLeadsToRoot`,
  `AbsentHasNoPath`.

Violated, where the code does not do what its text says:

* `peer_copy_hang` (`AddBlockReturns`): two goroutines that both find the peer
  unknown open its file; `bolt.Open` has no time limit, and the second waits for
  the lock that its own process holds.
* `collections_refused` (`NothingToDo`): a second creation of a collection is
  answered with "the collection already exists. Nothing to do"; yet it replaces
  the schema in the map that decides what peers are told, and is broadcast.  A
  node that did not know the collection then makes it with other fields.

Observed while modelling, in the models, without a run of its own:

* A crash between `Persist` and `IndexBlock` (`blockchain.go:64`,
  `blockchain_forest.go:93`) leaves the documents of a block out of the index:
  nothing indexes those of the own chain again, and of a peer's only the block at
  its tip is asked for once more.  `DocumentsFound` without `cutShort`, and
  `IndexFollowsChain` without `crashes = 0`, are violated in their runs.
  `Persist` returns a nil error after a failed commit (`block.go:126`), so that the
  block is indexed and broadcast all the same.
* `Clean` on a ring that had grown, then `Append`: index out of range
  (`queue.go:42`).
* A crash of the first start before the admin account is stored leaves a database
  whose chain is complete but without the accounts bucket; every later start
  panics in `initializeAccounts` (`p2p.go:311`).
* `Tip` may point into a reused page after a restart until the next local block
  (`blockchain.go:137`, `blockchain_forest.go:194`); the tip properties exclude
  that window (`tipIsPage`).
* A broadcast block is stored without moving `l`, since `receiver.go:76` sends
  it with `IsTip` unset; the copy's tip is that of the last sync.
* Two syncs at once may finish in the other order and move `l` back
  (`blockchain_forest.go:82`); `TipOnlyAdvances` is stated for one sync.
* The error of the transaction that makes the buckets of a copy is never looked at
  (`blockchain_forest.go:53`): after a failure `AddBlock` registers the entry, and
  `Persist` panics on the bucket that is missing (`block.go:71`).  A crash between
  `bolt.Open` and that commit leaves the same file.  On it `NewBlockchainForest`
  panics at every start (`blockchain_forest.go:193`).  `OneOpens` says that this
  needs a fault, not that it does not happen.
* A failed commit at one node makes others panic: it broadcasts and answers an
  empty `BlockP2P` (`receiver.go:76`, `p2p.go:384`), whose hash the receiver asks
  for (`blockchain_forest.go:39`), and `NewMerkleTree` indexes the first of no
  leaves (`merkle_tree.go:53`).
* `Front` and `Back` return nil beside an element that `Remove` took out;
  `resize` makes room for eight times the contents, not "exactly twice"; an
  element put twice can be removed once only.
* A grant stays on the node where it was made, and the next update of the account
  at another node overwrites it there: `SetAccountReadWrite` keeps `LastModified`
  and sends nothing.  Equal or late clocks leave nodes with different versions of
  an account for good, and two merges of one account may leave the cache and the
  bucket of a node with different ones (`p2p.go:188`): `contested`.
* A crash or failed commit between `NewUsing` and the commit of the schema leaves
  a directory without a schema: the next start opens it, creations find the
  collection "existing", and no document can be put (`CutOff`).  If a second
  creation was answered "already exists" in the meantime, it may have told some
  of the other nodes and not all of them, and nothing makes up for it.  A creation with
  an invalid field is broadcast too, and peers keep it in their caches.

Observed in code that is not in the models:

* The test for a received challenge word is inverted (`p2p.go:204`).
* The context for `Shutdown` is made at the start, so that its three seconds have
  passed when a signal comes (`main.go:276`).
* `HandleTransaction` reads the permissions of an account that it did not find
  (`http.go:317`); a creation with an empty collection name is answered with an
  error and broadcast.
* `t` is read in one transaction and written in another (`block.go:115`): two
  `AddBlock` calls for one peer lose an update of that count.
* `GetVerificationPath` would also return a path for the hash of an inner node.
* `IndexBlock` decodes the documents of a block into one map (`search.go:118`):
  fields of one stay in the next.
* `Accounts`, `mappings`, `Peers` and `BlockchainIndices` are Go maps that several
  goroutines write without a lock.  The models give such an access one of its
  orders; the runtime may also end the process.

### Bounds

* `local_chain`: three documents, blocks of at most two, three hashes beside the
  genesis block.  A batch fills up, a document waits for the next block, and all
  splits over one to three blocks occur; two crashes allow one during the
  recovery of the other.
* `peer_copy`: a chain of three blocks (`MaxHeight = 2`) is the least in which a
  broadcast block stands between a tip and a gap.  One sync of each kind and one
  handler race pairwise and all three together.  One crash, one failed commit here
  (`MaxDiskErrors`, of the buckets or of a block) and one at the owner
  (`MaxOwnerErrors`) meet these, two of the three in a behaviour (`FewFaults`); all
  three make 6.1 million states, and pass too.  `peer_copy_live` has no crash, as a
  crash ends what the properties wait for, and the two failed commits;
  `peer_copy_hang` has no fault at all.
* `tx_queue`: three elements and five identifiers, since identifiers outlive
  removed elements.  With `minQueueLen = 1` and the limit of `resize` at 4
  instead of `2 << 18`, the ring has one, eight or more slots, wraps, and is
  resized when full and when half empty.
* `tx_queue_wait`: two consumers, one element that may be in the queue twice:
  what wakes a consumer depends on counts, not on elements.
* `bootstrap`: three crashes, two node keys, three admin keys: the first start
  and two keygens.

* `accounts`: one account, as accounts do not interact, and two nodes: a request,
  its answer, a reverse request and a broadcast meet pairwise.  Three versions let
  one be older, equal or newer than each of two others; two writes (one of them a
  grant), two crashes, one lost message and one failed commit.  Three nodes exceed
  six million states without a fault.  `accounts_live` has two accounts, so that a
  loop over a message has two rounds, and one crash.
* `collections`: one collection and two creations, which is what it takes for a
  schema to be replaced or for nodes to differ; one crash, one lost message, one
  failed commit.  Nodes, collections and valid schemas are interchangeable
  (`Symmetry`).  Two collections with one schema each were checked too and pass.
  Three nodes do not finish in the time of a run.  They matter for one case: a
  creation that is cut off after a second one told one of two other nodes.  It
  turned up when the proof of `DocumentsFound` was designed with three nodes, and
  is why `CutOff` is excepted; the theorems hold for any number of nodes.
* `merkle`: five leaves are the least with padding on two levels; one, two and
  four need none above the first, three needs one.

Deadlock is checked in `local_chain` and `bootstrap`.  In `peer_copy*`,
`accounts*` and `collections*` a system with nothing on the wire and its bounds
used up has nothing to do, in `tx_queue*` all consumers may wait on an empty
queue that is at its bound (or the program has panicked), and in `merkle` the
function returns, so there it is off.

### Fairness

* `LocalChain`: `WF(Monitor)`.  The ticker never stops and the goroutine is
  scheduled; nothing is assumed of clients, crashes or restarts.
* `PeerCopy`: `WF` of each goroutine inside `AddBlock` and in its sync.  That a
  request is answered at last is an assumption on the owner: `sendBlockRequest`
  repeats it without end, and nothing in the code makes it stop.  Broadcasts may
  all be lost.
* `TxQueue`: `SF(Lock)`, because `sync.Mutex` hands itself over to a goroutine
  that starves; `SF(Receive)` for the channel; `WF` for the steps that hold the
  mutex.  Nothing makes anyone call.
* `Bootstrap`: `SF` of the steps of the server and of keygen, as bolt retries
  the file lock every 50 ms.  Nothing makes the operator start anything, and
  nothing makes the sync of blocks end.
* `AccountSync`: `WF` for each kind of step that a goroutine of a node takes:
  goroutines are scheduled, and a request is answered while both nodes run.
  Nobody has to write, to start a node or to break one; the bound on writes,
  crashes and starts is what makes new work end.

## 4. What is proved

All theorems hold for every value of the constants that satisfies
`ConstantsAssumption`: any number of documents, hashes, goroutines, blocks,
crashes and failed commits.

* `LocalChainProofs`: `TypeCorrect`, `ChainStaysIntact`, `AlwaysStarts`,
  `TipFollowsDisk`, `AnnouncedSurvives`, `PopAlwaysReady`, `ChainOnlyGrows`.
  `ChainIntact` alone is not inductive: the inductive invariant adds what the
  locals of `AddBlock` and `Persist` promise at each `pc` (the block that is
  being built continues the last hash at the next height and its hash is not in
  use; after a commit that did not fail it is the last block).  `AlwaysStarts`
  needs the walk of `IsComplete` as a function, which exists because heights are
  consecutive and no two blocks have the same one.

  The module also proves `DocumentsInOnePlace` (of `DocumentsAccounted`) and
  `IndexIsRight` (of `IndexFollowsChain`).  The argument is about positions in
  the history `accepted`: batch and queue are always its end, what is before
  that end has gone into blocks or was lost by a fault, and higher blocks hold
  later documents.  The total is right because the generator alone writes it
  between reading and committing it; the index lacks no more than the block that
  was just committed.
* `PeerCopyProofs`: `TypeCorrect`, `SyncLeavesNoGap`, `TipIsReal`,
  `RefusedStaysOut`.  The invariant behind `SyncLeavesNoGap` says of each sync
  that the interval above its cursor is *covered*: stored, refused, or in the
  hands of a goroutine that is past the tests of `AddBlock`.  The lemma
  `CoveredGrows` shows that no step but a crash or a failed commit takes a
  block out of that set.

  The module also proves `OneGoroutineOpens` (of `OneOpens`), `TipAgrees` (of
  `TipMatchesDisk`) and `TipAdvances` (of `TipOnlyAdvances`).  `OwnerInv` says
  that bolt's lock on the file, taken in `Open` and kept until the process ends,
  leaves the goroutine that makes the buckets alone, and that it finds none made;
  that a file without buckets has a crash, a panic or a failed commit before it;
  and that an empty block is about only after a failed commit of the owner.
  `TipInv` says that with one sync only the main goroutine carries a tip, and
  moves it first in memory and then on disk.
* `TxQueueProofs`: `WakeUpsArrive`, `SubscribersAreTold`, `CountStaysNatural`,
  with repeated elements and `Clean` or without.  `RingStaysSound` (of `RingSound`)
  assumes distinct elements and no `Clean`, as the run does.  Its invariant looks
  at the ring from its head (`IsRing`: k slots further on, without remainders);
  one lemma each for `Append`, `Prepend`, `pop` and `resize` says what they do to
  a ring of any length, and a counting argument gives `newId` a free identifier.
  `QueueIsDeque` (of `DequeSpec`), under the same two assumptions: every step
  of the queue is a step of `TxDeque` or none.  The mapping numbers the
  identifiers that have an element by how many stand before them (`Rank`); the
  lemmas say what a new first or last identifier, a removed one and a skipped
  one do to these numbers.
* `BootstrapProofs`: `TypeCorrect`, `NeverServesHalf`, `StartsAgain`,
  `IdentityKept`, `ShownAfterRegistered`, `CacheComplete`.  The invariant says
  what is on disk at each step of the start, and that the chain's peer id and
  the node's key are those of one creation.
* `AccountSyncProofs`: `TypeCorrect`, `AnsweredStays`, `PermissionsComeFromGrants`,
  `VersionsAdvance`, for any number of nodes, accounts, writes and faults.  For an
  address that is not contested the invariant says that at most one goroutine of
  a node has it half stored, that the version in its hands is newer than the one
  it will replace, and that the bucket is never ahead of the cache but by that
  version.  Permissions are followed through buckets, caches, handlers, answers and
  broadcasts on the way.
  `NodesAgree` (of `AgreeWhenQuiet`): the invariant looks at every version in a
  bucket that another node is behind of, and says who will bring it: a handler
  that has still to broadcast, a broadcast on its way, an answer, or a request of
  either side that is asked or will be (`WillAgree`).  When nothing is on its way
  nobody is left to bring anything, so nobody is behind.
* `CollectionsProofs`: `TypeCorrect`, `IndexHasSchema`, `SchemaStays`,
  `ChainConforms`.  A goroutine that is about to commit a schema made the directory
  itself, nothing is committed for that collection yet, and it is the only one:
  this is why two creations at once do no harm.  `ChainConforms` is strengthened to
  every document on every disk and in every block on the way: each conforms to the
  schema that its owner has.
* `CollectionsReachProofs`: `CollectionReachesAll` (of `ReachesAll`) and
  `DocumentsAreFound` (of `DocumentsFound`).  Once a directory of the collection
  exists anywhere, every node that runs knows the collection, was sent it, or
  there is a node that has it and will tell (`WillKnow`): at the end of its
  creation, in an answer to a request that is asked or will be, or by the reverse
  request.  A node that goes down is asked, and asks, when it starts.  What a node
  knows it has an index for, or is about to (`HasIndex`); and the first directory
  was made for a client and committed (`Rooted`), or there would be nobody to tell.
  For documents, the main goroutine copies and indexes blocks only when it has
  asked every peer for mappings, and `Monitor` indexes only documents of a
  collection that is open (`InTurn`).  So whoever finds no open index in
  `IndexBlock` finds, by `WillKnow`, the mapping on its way.

* `MerkleTreeProofs`: `RootDependsOnSet` (of `RootIsUnique`), `PathVerifies` (of
  `PathLeadsToRoot`), `AbsentGetsNoPath` (of `AbsentHasNoPath`), for blocks of
  any size.  The invariant follows the three loops.  While the tree is made,
  `nodes` is a level of `Levels` (`Built`): padding a level and pairing it gives
  what pairing without padding gives.  The walk over it gives every position a
  level (`Walk`): levels never rise, the queue spans two of them at most, and
  therefore the children of the i-th node met are the nodes 2i and 2i + 1, also
  below a padded level, where a whole tree is met twice.  That is the arithmetic
  that `GetVerificationPath` relies on, and the hashes it has taken are those of
  the siblings on its way up (`Climbed`).  The client goes the same way, by
  induction over its rounds.  The library's induction theorems take an operator;
  `SetInduction` here comes from the well-foundedness of the natural numbers,
  which is stated of sets, and `LevelsIs` and `ClientClimbIs` use it to show that
  the two recursive functions exist.

Only model-checked: liveness, which is out of the prover's reach.  Every invariant
and action property of the passing runs is the property of a theorem.

## 5. What is not modelled

* Authentication (challenge words, tokens): a cache with an expiry of a library
  and an inverted test (above) that makes the exchange of words between nodes
  ineffective; what remains is one map access per request.
* The peer table: discovery and removal are Kademlia's, an external library; the
  repository has one loop that reads its table twice (`p2p.go:250`).  The models
  let a broadcast miss any peer.
* The content of the index (fields, queries): bleve's.  That a document is indexed
  at all, and under which schema, is in `LocalChain`, `PeerCopy` and `Collections`.
* Document validation by JSON schema is one predicate, `CheckMapping`.
* `HandleTransactionBulk` is `HandleTransaction` per document.
* Handlers that only read, JSON and gob encodings, signatures, address formats,
  flags and logging have no state worth checking.
* bolt is a store with atomic transactions and a file lock, noise a network that
  loses and reorders broadcasts.
