------------------------------ MODULE PeerCopy ------------------------------
(***************************************************************************)
(* One node's copy of one peer's blockchain (p2p/blockchain_forest.go and  *)
(* the block messages of p2p/p2p.go).                                      *)
(*                                                                         *)
(* The peer owns the chain: it only grows, so a block is its height.  The  *)
(* node gets blocks from broadcasts (a Handler goroutine per connection,   *)
(* messages may be lost or overtake each other) and from syncs: ask for    *)
(* the tip, then walk back through PrevBlockHash and ask for every block   *)
(* that is not stored, down to the genesis block.  The main goroutine      *)
(* syncs once after the start; a peer that starts makes this node sync     *)
(* back in a goroutine of its own (syncPeerBlockchain, reverse).           *)
(*                                                                         *)
(* AddBlock takes no lock: every access of it to Peers, Tip and the        *)
(* database is a step of its own here, and so is every panic, which ends   *)
(* the process.  A request that fails is sent again with nothing changed,  *)
(* so that the retry of sendBlockRequest is a stuttering step.             *)
(*                                                                         *)
(* An owner whose commit failed keeps a Tip that names no block, and sends *)
(* an empty BlockP2P for it: a block without transactions, NoBlock here.   *)
(***************************************************************************)
EXTENDS Integers

CONSTANTS
    Startup,        \* the main goroutine
    Reverse,        \* goroutines that may run a reverse sync
    Handler,        \* goroutines that handle broadcasts
    MaxHeight,      \* bound on the height of the peer's chain
    Refused,        \* blocks that MapToBlock or the hash check refuses
    FileAtStart,    \* "absent", or "ready": the genesis block is stored
    MaxSyncs,       \* bound on the reverse syncs of a behaviour
    MaxCrashes,     \* bound on the crashes of a behaviour
    MaxDiskErrors,  \* bound on the failed commits of this process
    MaxOwnerErrors  \* bound on those of the owner

Syncer == {Startup} \cup Reverse
Goroutine == Syncer \cup Handler
NoBlock == -1       \* the empty hash: before the genesis block, a nil Tip,
                    \* or that of an empty BlockP2P
Overwritten == -2   \* what a slice of a reused database page reads as
Height == 0..MaxHeight

ASSUME ConstantsAssumption ==
    /\ Syncer \cap Handler = {}
    /\ MaxHeight \in Nat
    /\ Refused \subseteq Height
    /\ FileAtStart \in {"absent", "ready"}
    /\ FileAtStart = "ready" => 0 \notin Refused
    /\ MaxSyncs \in Nat /\ MaxCrashes \in Nat
    /\ MaxDiskErrors \in Nat /\ MaxOwnerErrors \in Nat

VARIABLES
    ownerTip,    \* the last block of the chain, at the peer that owns it
    tipLost,     \* its Tip names a block that it does not have
    wire,        \* its broadcasts that have not arrived
    status,      \* this process: "up", "crashed", or what it panicked on
    pc,          \* where each goroutine is
    blk, isTip,  \* AddBlock's argument: the block, and IsTip
    cursor,      \* syncPeerBlockchain's previousBlockHash
    from,        \* the tip that the sync of a goroutine began with
    known,       \* Peers has an entry for the peer
    tip,         \* its Tip
    tipIsPage,   \* Tip is a slice of bolt's memory map, not a copy
    file,        \* disk: "absent", "empty" (no bucket yet) or "ready"
    locked,      \* this process holds the lock of the file
    stored,      \* disk: the blocks in the file
    lastHash,    \* disk: key "l"
    indexed,     \* disk: the blocks in the search index
    synced,      \* history: tips of the syncs this process finished
    syncs, crashes, diskErrors, ownerErrors    \* history: how many so far

call == <<blk, isTip>>
walk == <<cursor, from, synced>>
entry == <<known, tip, tipIsPage>>
disk == <<file, stored, lastHash, indexed>>
owner == <<ownerTip, tipLost, wire>>
counts == <<syncs, crashes, diskErrors, ownerErrors>>
vars == <<owner, status, pc, call, walk, entry, locked, disk, counts>>

Up == status = "up"
At(g, step) == Up /\ pc[g] = step
Go(g, step) == pc' = [pc EXCEPT ![g] = step]

\* The process is gone: what is left of it is on disk.
Ends(why) ==
    /\ status' = why
    /\ pc' = [g \in Goroutine |-> "idle"]
    /\ blk' = [g \in Goroutine |-> NoBlock]
    /\ isTip' = [g \in Goroutine |-> FALSE]
    /\ cursor' = [g \in Syncer |-> NoBlock]
    /\ from' = [g \in Syncer |-> NoBlock]
    /\ wire' = {} /\ synced' = {}
    /\ known' = FALSE /\ tip' = NoBlock /\ tipIsPage' = FALSE
    /\ locked' = FALSE
    /\ UNCHANGED <<ownerTip, tipLost, disk, syncs, diskErrors, ownerErrors>>

Panic(why) == Ends(why) /\ UNCHANGED crashes

\* Blocks on their way to the database, past the test of AddBlock.
Pending == {blk[g] : g \in {x \in Goroutine :
                              pc[x] \in {"setTip", "readTotal", "commit"}}}

-----------------------------------------------------------------------------

\* The process has started: NewBlockchainForest has read the peers directory.
Init ==
    /\ ownerTip = 0 /\ tipLost = FALSE /\ wire = {} /\ status = "up"
    /\ pc = [g \in Goroutine |-> IF g = Startup THEN "new" ELSE "idle"]
    /\ blk = [g \in Goroutine |-> NoBlock]
    /\ isTip = [g \in Goroutine |-> FALSE]
    /\ cursor = [g \in Syncer |-> NoBlock]
    /\ from = [g \in Syncer |-> NoBlock]
    /\ file = FileAtStart
    /\ known = (file = "ready") /\ locked = known /\ tipIsPage = known
    /\ stored = (IF known THEN {0} ELSE {}) /\ indexed = stored
    /\ lastHash = (IF known THEN 0 ELSE NoBlock)
    /\ tip = lastHash
    /\ synced = {}
    /\ syncs = 0 /\ crashes = 0 /\ diskErrors = 0 /\ ownerErrors = 0

\* The owner adds a block and broadcasts it (generateBlock over there).
Produce ==
    /\ ownerTip < MaxHeight
    /\ ownerTip' = ownerTip + 1 /\ tipLost' = FALSE
    /\ wire' = wire \cup {ownerTip + 1}
    /\ UNCHANGED <<status, pc, call, walk, entry, locked, disk, counts>>

\* The commit of its block fails: its Tip and its broadcast are set from the
\* hash all the same.  A reused page under its Tip does so to the Tip alone.
ProduceFails ==
    /\ ownerErrors < MaxOwnerErrors
    /\ ownerErrors' = ownerErrors + 1
    /\ tipLost' = TRUE /\ wire' = wire \cup {NoBlock}
    /\ UNCHANGED <<ownerTip, status, pc, call, walk, entry, locked, disk,
                   syncs, crashes, diskErrors>>

\* NewBlockchain over there reads the Tip back from its database.
OwnerRestarts ==
    /\ tipLost /\ tipLost' = FALSE
    /\ UNCHANGED <<ownerTip, wire, status, pc, call, walk, entry, locked, disk,
                   counts>>

\* A broadcast is lost, or was never sent to this node.
Lose ==
    /\ \E b \in wire : wire' = wire \ {b}
    /\ UNCHANGED <<ownerTip, tipLost, status, pc, call, walk, entry, locked,
                   disk, counts>>

\* The message handler gets a BlockP2P: GetBlock over there left IsTip unset.
Deliver(g, b) ==
    /\ At(g, "idle") /\ b \in wire
    /\ wire' = wire \ {b}
    /\ blk' = [blk EXCEPT ![g] = b] /\ isTip' = [isTip EXCEPT ![g] = FALSE]
    /\ Go(g, "check")
    /\ UNCHANGED <<ownerTip, tipLost, status, walk, entry, locked, disk,
                   counts>>

-----------------------------------------------------------------------------
(* syncPeerBlockchain and sendBlockRequest.                                *)

\* SyncPeerBlockchains in server, once after the start.
StartSync ==
    /\ At(Startup, "new")
    /\ Go(Startup, "requestTip")
    /\ UNCHANGED <<owner, status, call, walk, entry, locked, disk, counts>>

\* The peer asked for our tip: the handler syncs back.
ReverseSync(g) ==
    /\ At(g, "idle") /\ syncs < MaxSyncs
    /\ syncs' = syncs + 1
    /\ Go(g, "requestTip")
    /\ UNCHANGED <<owner, status, call, walk, entry, locked, disk, crashes,
                   diskErrors, ownerErrors>>

\* Mutant: the tip is updated before AddBlock is called.
AnswerTip_SetsTip(g) ==
    /\ At(g, "requestTip") /\ Go(g, "check")
    /\ blk' = [blk EXCEPT ![g] = IF tipLost THEN NoBlock ELSE ownerTip]
    /\ isTip' = [isTip EXCEPT ![g] = TRUE]
    /\ from' = [from EXCEPT ![g] = ownerTip]
    /\ tip' = ownerTip
    /\ UNCHANGED <<owner, status, cursor, synced, known, tipIsPage,
                   locked, disk, counts>>

\* handleBlockRequest over there answers {"local": "tip"}: with an empty
\* BlockP2P, if GetBlock does not find the block.
AnswerTip(g) ==
    /\ At(g, "requestTip")
    /\ blk' = [blk EXCEPT ![g] = IF tipLost THEN NoBlock ELSE ownerTip]
    /\ isTip' = [isTip EXCEPT ![g] = TRUE]
    /\ from' = [from EXCEPT ![g] = ownerTip]
    /\ Go(g, "check")
    /\ UNCHANGED <<owner, status, cursor, synced, entry, locked,
                   disk, counts>>

\* It answers {"local": <hash>}: a block of its chain is always found.
AnswerBlock(g) ==
    /\ At(g, "request")
    /\ blk' = [blk EXCEPT ![g] = cursor[g]]
    /\ isTip' = [isTip EXCEPT ![g] = FALSE]
    /\ Go(g, "check")
    /\ UNCHANGED <<owner, status, walk, entry, locked, disk,
                   counts>>

\* Mutant: the loop stops at the first stored block.
Walk_StopsAtStored(g) ==
    /\ At(g, "walk") /\ cursor[g] # NoBlock
    /\ IF known /\ cursor[g] \in stored
       THEN cursor' = [cursor EXCEPT ![g] = NoBlock] /\ UNCHANGED pc
       ELSE Go(g, "request") /\ UNCHANGED cursor
    /\ UNCHANGED <<owner, status, call, from, synced, entry, locked, disk,
                   counts>>

\* The hash the loop continues with: GetBlock finds the block, or asks for it.
Walk(g) ==
    /\ At(g, "walk") /\ cursor[g] # NoBlock
    /\ IF known /\ cursor[g] \in stored
       THEN cursor' = [cursor EXCEPT ![g] = @ - 1] /\ UNCHANGED pc
       ELSE Go(g, "request") /\ UNCHANGED cursor
    /\ UNCHANGED <<owner, status, call, from, synced, entry, locked, disk,
                   counts>>

FinishSync(g) ==
    /\ At(g, "walk") /\ cursor[g] = NoBlock
    /\ synced' = synced \cup {from[g]}
    /\ from' = [from EXCEPT ![g] = NoBlock]
    /\ Go(g, "idle")
    /\ UNCHANGED <<owner, status, call, cursor, entry, locked, disk,
                   counts>>

-----------------------------------------------------------------------------
(* BlockchainForest.AddBlock.                                              *)

\* Mutant: a sync asks again for a block that was refused.
Return_RetriesRefused(g) ==
    /\ blk' = [blk EXCEPT ![g] = NoBlock]
    /\ isTip' = [isTip EXCEPT ![g] = FALSE]
    /\ IF g \in Handler
       THEN Go(g, "idle") /\ UNCHANGED cursor
       ELSE /\ Go(g, "walk")
            /\ cursor' = [cursor EXCEPT ![g] =
                            IF blk[g] \in Refused THEN blk[g] ELSE blk[g] - 1]

\* AddBlock returns, and its locals are gone: a sync goes on with the
\* PrevBlockHash of the block.
Return(g) ==
    /\ blk' = [blk EXCEPT ![g] = NoBlock]
    /\ isTip' = [isTip EXCEPT ![g] = FALSE]
    /\ IF g \in Handler
       THEN Go(g, "idle") /\ UNCHANGED cursor
       ELSE Go(g, "walk") /\ cursor' = [cursor EXCEPT ![g] = blk[g] - 1]

FirstStep(g) == IF isTip[g] THEN "setTip" ELSE "readTotal"

\* Mutant: only tips are verified.
IsRefused_OnlyTips(g) == isTip[g] /\ blk[g] \in Refused

IsRefused(g) == blk[g] \in Refused

\* Mutant: the database is opened for every block.
Check_AlwaysOpens(g) ==
    /\ At(g, "check") /\ blk[g] # NoBlock
    /\ IF IsRefused(g) \/ (known /\ tip = blk[g]) THEN Return(g)
       ELSE Go(g, "open") /\ UNCHANGED <<blk, isTip, cursor>>
    /\ UNCHANGED <<owner, status, from, synced, entry, locked, disk,
                   counts>>

\* SetHash makes a Merkle tree of the transactions, and panics without any.
CheckEmpty(g) == At(g, "check") /\ blk[g] = NoBlock /\ Panic("noTransactions")

\* The tests at the top.
Check(g) ==
    /\ At(g, "check") /\ blk[g] # NoBlock
    /\ IF IsRefused(g) \/ (known /\ tip = blk[g]) THEN Return(g)
       ELSE /\ Go(g, IF known THEN FirstStep(g) ELSE "open")
            /\ UNCHANGED <<blk, isTip, cursor>>
    /\ UNCHANGED <<owner, status, from, synced, entry, locked, disk,
                   counts>>

\* Mutant: the file is opened without its lock.
Open_NoLock(g) ==
    /\ At(g, "open") /\ locked' = TRUE
    /\ file' = IF file = "absent" THEN "empty" ELSE file
    /\ Go(g, "create")
    /\ UNCHANGED <<owner, status, call, walk, entry, stored, lastHash,
                   indexed, counts>>

\* bolt.Open without a timeout waits for the lock of the file.
Open(g) ==
    /\ At(g, "open") /\ ~locked
    /\ locked' = TRUE
    /\ file' = IF file = "absent" THEN "empty" ELSE file
    /\ Go(g, "create")
    /\ UNCHANGED <<owner, status, call, walk, entry, stored, lastHash,
                   indexed, counts>>

\* CreateBucket fails, and AddBlock panics, if the bucket exists.
Create(g) ==
    /\ At(g, "create")
    /\ IF file = "ready"
       THEN Panic("bucketExists")
       ELSE /\ file' = "ready" /\ Go(g, "register")
            /\ UNCHANGED <<owner, status, call, walk, entry, locked, stored,
                           lastHash, indexed, counts>>

\* The transaction fails: the error is not looked at, the file has no bucket.
CreateFails(g) ==
    /\ At(g, "create") /\ file # "ready" /\ diskErrors < MaxDiskErrors
    /\ diskErrors' = diskErrors + 1
    /\ Go(g, "register")
    /\ UNCHANGED <<owner, status, call, walk, entry, locked, disk, syncs,
                   crashes, ownerErrors>>

\* The new entry of Peers.
Register(g) ==
    /\ At(g, "register")
    /\ known' = TRUE /\ tipIsPage' = FALSE
    /\ tip' = IF isTip[g] THEN blk[g] ELSE NoBlock
    /\ Go(g, FirstStep(g))
    /\ UNCHANGED <<owner, status, call, walk, locked, disk, counts>>

\* Mutant: Tip stays as it is.
SetTip_Dropped(g) ==
    /\ At(g, "setTip") /\ Go(g, "readTotal")
    /\ UNCHANGED <<owner, status, call, walk, entry, locked, disk, counts>>

SetTip(g) ==
    /\ At(g, "setTip")
    /\ tip' = blk[g] /\ tipIsPage' = FALSE
    /\ Go(g, "readTotal")
    /\ UNCHANGED <<owner, status, call, walk, known, locked, disk, counts>>

\* Persist reads the count "t", which is only for display, in a transaction of
\* its own: without the bucket it panics.
ReadTotal(g) ==
    /\ At(g, "readTotal")
    /\ IF file # "ready"
       THEN Panic("noBucket")
       ELSE /\ Go(g, "commit")
            /\ UNCHANGED <<owner, status, call, walk, entry, locked, disk,
                           counts>>

\* Mutant: every block moves "l".
Commit_AlwaysMovesTip(g) ==
    /\ At(g, "commit") /\ Go(g, "index")
    /\ stored' = stored \cup {blk[g]} /\ lastHash' = blk[g]
    /\ tip' \in IF tipIsPage THEN {tip, Overwritten} ELSE {tip}
    /\ UNCHANGED <<owner, status, call, walk, known, tipIsPage, locked, file,
                   indexed, counts>>

\* The transaction of Persist.  It may reuse the page that Tip points into.
Commit(g) ==
    /\ At(g, "commit")
    /\ stored' = stored \cup {blk[g]}
    /\ lastHash' = IF isTip[g] THEN blk[g] ELSE lastHash
    /\ tip' \in IF tipIsPage THEN {tip, Overwritten} ELSE {tip}
    /\ Go(g, "index")
    /\ UNCHANGED <<owner, status, call, walk, known, tipIsPage, locked, file,
                   indexed, counts>>

\* The transaction fails: Persist logs the error, AddBlock goes on.
CommitFails(g) ==
    /\ At(g, "commit") /\ diskErrors < MaxDiskErrors
    /\ diskErrors' = diskErrors + 1
    /\ Go(g, "index")
    /\ UNCHANGED <<owner, status, call, walk, entry, locked, disk, syncs,
                   crashes, ownerErrors>>

\* IndexBlock, and AddBlock is done.
Index(g) ==
    /\ At(g, "index")
    /\ indexed' = indexed \cup {blk[g]}
    /\ Return(g)
    /\ UNCHANGED <<owner, status, from, synced, entry, locked, file,
                   stored, lastHash, counts>>

AddBlock(g) ==
    \/ CheckEmpty(g) \/ Check(g) \/ Open(g) \/ Create(g) \/ CreateFails(g)
    \/ Register(g) \/ SetTip(g)
    \/ ReadTotal(g) \/ Commit(g) \/ CommitFails(g) \/ Index(g)

-----------------------------------------------------------------------------

Crash ==
    /\ Up /\ crashes < MaxCrashes
    /\ crashes' = crashes + 1
    /\ Ends("crashed")

\* NewBlockchainForest opens the file, and reads "l" from its bucket.
Restart ==
    /\ ~Up
    /\ IF file = "empty"
       THEN Panic("noBucket")
       ELSE /\ status' = "up"
            /\ pc' = [pc EXCEPT ![Startup] = "new"]
            /\ known' = (file = "ready") /\ locked' = known'
            /\ tip' = lastHash /\ tipIsPage' = known'
            /\ UNCHANGED <<owner, call, walk, disk, counts>>

SyncStep(g) == AnswerTip(g) \/ AnswerBlock(g) \/ Walk(g) \/ FinishSync(g)

Next ==
    \/ Produce \/ ProduceFails \/ OwnerRestarts \/ Lose
    \/ StartSync \/ Crash \/ Restart
    \/ \E g \in Handler, b \in Height \cup {NoBlock} : Deliver(g, b)
    \/ \E g \in Reverse : ReverseSync(g)
    \/ \E g \in Syncer : SyncStep(g)
    \/ \E g \in Goroutine : AddBlock(g)

Spec == Init /\ [][Next]_vars

(***************************************************************************)
(* Goroutines are scheduled, and the owner answers in the end: a request   *)
(* that times out is sent again.                                           *)
(***************************************************************************)
FairSpec ==
    /\ Spec
    /\ \A g \in Syncer : WF_vars(SyncStep(g))
    /\ \A g \in Goroutine : WF_vars(AddBlock(g))

-----------------------------------------------------------------------------

TypeOK ==
    /\ ownerTip \in Height /\ tipLost \in BOOLEAN
    /\ wire \subseteq Height \cup {NoBlock}
    /\ status \in {"up", "crashed", "noTransactions", "bucketExists",
                   "noBucket"}
    /\ pc \in [Goroutine -> {"new", "idle", "requestTip", "request", "walk",
                             "check", "open", "create", "register", "setTip",
                             "readTotal", "commit", "index"}]
    /\ blk \in [Goroutine -> Height \cup {NoBlock}]
    /\ isTip \in [Goroutine -> BOOLEAN]
    /\ cursor \in [Syncer -> Height \cup {NoBlock}]
    /\ from \in [Syncer -> Height \cup {NoBlock}]
    /\ known \in BOOLEAN /\ tipIsPage \in BOOLEAN /\ locked \in BOOLEAN
    /\ tip \in Height \cup {NoBlock, Overwritten}
    /\ file \in {"absent", "empty", "ready"}
    /\ stored \subseteq Height /\ indexed \subseteq Height
    /\ lastHash \in Height \cup {NoBlock}
    /\ synced \subseteq Height
    /\ syncs \in 0..MaxSyncs /\ crashes \in 0..MaxCrashes
    /\ diskErrors \in 0..MaxDiskErrors /\ ownerErrors \in 0..MaxOwnerErrors

(***************************************************************************)
(* A sync leaves no gap: once it is finished, every block from its tip     *)
(* down to the genesis block is stored, is being stored by another         *)
(* goroutine, or was refused, whatever broadcasts and other syncs did      *)
(* meanwhile and whatever was left by an earlier crash                     *)
(* (syncPeerBlockchain).                                                   *)
(***************************************************************************)
SyncComplete ==
    diskErrors = 0 =>
        \A s \in synced : 0..s \subseteq stored \cup Refused \cup Pending

(***************************************************************************)
(* The tip in memory and the last hash on disk name blocks that are stored *)
(* or being stored: the test "tip is already up-to-date" never skips a     *)
(* block that nobody stores (AddBlock).                                    *)
(***************************************************************************)
TipStored ==
    /\ diskErrors = 0 =>
          tip \in stored \cup Pending \cup {NoBlock, Overwritten}
    /\ lastHash \in stored \cup {NoBlock}

\* A refused block is never stored, indexed or taken for the tip (AddBlock).
RefusedKeptOut ==
    Refused \cap (stored \cup indexed \cup {tip, lastHash}) = {}

\* No goroutine ever finds the buckets of the database it creates, and any
\* other panic has its cause in a fault: an empty block after a failed commit
\* of the owner, a file without buckets after a failed commit, or after an end
\* of the process between AddBlock's bolt.Open and its Update.
NoPanic ==
    /\ status # "bucketExists"
    /\ status = "noTransactions" => ownerErrors > 0
    /\ status = "noBucket" =>
          crashes > 0 \/ diskErrors > 0 \/ ownerErrors > 0

\* No one holds the lock of a file without having, or making, its entry.
LockHasOwner ==
    Up /\ locked /\ ~known =>
        \E g \in Goroutine : pc[g] \in {"create", "register"}

(***************************************************************************)
(* Goroutines that find the peer unknown at the same time do each other no *)
(* harm but to wait: one of them makes the file, the buckets and the entry *)
(* of Peers, no other enters in between, and none panics on what another   *)
(* made (AddBlock has no lock of its own: it is bolt's lock on the file    *)
(* that keeps them apart).                                                 *)
(***************************************************************************)
OneOpens == NoPanic /\ LockHasOwner

(***************************************************************************)
(* While only the main goroutine syncs, Tip and the last hash on disk      *)
(* agree whenever no tip is on its way to the database (AddBlock,          *)
(* Persist).                                                               *)
(***************************************************************************)
TipMatchesDisk ==
    Up /\ known /\ ~tipIsPage /\ diskErrors = 0 /\ syncs = 0 =>
        \/ tip = lastHash
        \/ \E g \in Syncer : /\ pc[g] \in {"setTip", "readTotal", "commit"}
                             /\ isTip[g]

(***************************************************************************)
(* Nor does "l" go back to an older block then ("first update the tip",    *)
(* syncPeerBlockchain): two syncs at once may finish in the other order.   *)
(***************************************************************************)
TipOnlyAdvances == [][syncs = 0 => lastHash' >= lastHash]_vars

(***************************************************************************)
(* A block that reached AddBlock is dealt with, or the process crashes     *)
(* ("AddBlock persist the broadcasted or requested block from a peer").    *)
(***************************************************************************)
AddBlockReturns ==
    \A g \in Goroutine :
        pc[g] = "check" ~> (pc[g] \in {"idle", "walk"} \/ ~Up)

(***************************************************************************)
(* A sync that has begun comes to its end, or the process crashes, also    *)
(* when blocks on its way are refused or cannot be stored                  *)
(* (syncPeerBlockchain).                                                   *)
(***************************************************************************)
SyncEnds ==
    \A g \in Syncer :
        pc[g] = "requestTip" ~> (pc[g] = "idle" \/ ~Up)

=============================================================================
