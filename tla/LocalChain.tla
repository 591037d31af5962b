----------------------------- MODULE LocalChain -----------------------------
(***************************************************************************)
(* One node's own blockchain: the path of a document from Receiver.Put to  *)
(* the block that stores it (pool/receiver.go, blockchain/blockchain.go,   *)
(* blockchain/block.go), with crashes and restarts at every step.          *)
(*                                                                         *)
(* Concurrent HTTP handlers append transactions to the queue; one Monitor  *)
(* goroutine wakes up on a ticker, pops a batch, and adds a block: it      *)
(* reads the last hash and height, hashes the block, reads the running     *)
(* total, commits everything in one bolt transaction, then sets the        *)
(* in-memory tip, indexes the documents and broadcasts the block.          *)
(*                                                                         *)
(* The database keys of the code are "l" (lastHash), "b" (lastHeight) and  *)
(* "t" (txTotal).  A block and its transactions are one entry of blocks:   *)
(* Persist writes both buckets in the same bolt transaction.  The queue is *)
(* the FIFO that TxQueue implements.  The database starts as the first     *)
(* start of the server leaves it (Bootstrap).                              *)
(***************************************************************************)
EXTENDS Integers, Sequences, FiniteSets

CONSTANTS
    Tx,              \* the transactions clients may submit
    CoinbaseTx,      \* the transaction of the genesis block
    Hash,            \* block hashes; a hash is never drawn twice (SHA-256)
    GenesisHash,     \* the hash of the genesis block
    NoHash,          \* []byte{}, the PrevBlockHash of the genesis block
    maxTxsPerBlock,  \* the --maxtx flag
    Overwritten,     \* what a slice of a reused database page reads as
    MaxCrashes,      \* bound on the crashes of a behaviour
    MaxDiskErrors    \* bound on the failed database commits of a behaviour

ASSUME ConstantsAssumption ==
    /\ CoinbaseTx \notin Tx
    /\ GenesisHash \in Hash
    /\ NoHash \notin Hash
    /\ Overwritten \notin Hash
    /\ maxTxsPerBlock \in Nat
    /\ MaxCrashes \in Nat
    /\ MaxDiskErrors \in Nat

VARIABLES
    queue,         \* Receiver.transactionsBuffer
    accepted,      \* history: the transactions Put accepted, oldest first
    pc,            \* where Monitor is; "down" and "exited" have no process
    candidateTxs,  \* generateBlock's batch
    newBlock,      \* AddBlock's block, from NewBlock to the broadcast
    seenTotal,     \* Persist's currentTxTotalInt
    tip,           \* Blockchain.Tip
    tipIsPage,     \* Tip is a slice of bolt's memory map, not a copy
    blocks,        \* disk: the blocks and transactions buckets
    lastHash,      \* disk: key "l"
    lastHeight,    \* disk: key "b"
    txTotal,       \* disk: key "t"
    indexed,       \* disk: the transactions in the search indices
    announced,     \* history: hashes of the blocks broadcast to peers
    crashes,       \* number of crashes so far
    diskErrors     \* number of commits that failed so far

batch == <<candidateTxs, newBlock, seenTotal>>
memory == <<queue, batch, tip, tipIsPage>>
disk == <<blocks, lastHash, lastHeight, txTotal, indexed>>
history == <<accepted, announced, crashes, diskErrors>>
vars == <<memory, disk, history, pc>>

Block == [prev : Hash \cup {NoHash}, height : Nat,
          txs : SUBSET (Tx \cup {CoinbaseTx})]
HashedBlock == [hash : Hash, block : Block]
NoBlock == [hash |-> NoHash]
GenesisBlock == [prev |-> NoHash, height |-> 0, txs |-> {CoinbaseTx}]

Elems(s) == {s[i] : i \in 1..Len(s)}
Up == pc \notin {"down", "exited"}
StoredTxs == UNION {blocks[h].txs : h \in DOMAIN blocks}

\* Transactions popped from the queue and not yet committed.
InFlight ==
    Elems(candidateTxs)
      \cup (IF pc \in {"persist", "commit"} THEN newBlock.block.txs ELSE {})

(***************************************************************************)
(* IsComplete's loop: from the tip, lastHeight + 1 lookups that all find   *)
(* their block, and the empty hash after the last.  walk[i] is             *)
(* currentBlockHash at iteration i.                                        *)
(***************************************************************************)
IsComplete(from) ==
    \E walk \in [0..(lastHeight + 1) -> Hash \cup {NoHash}] :
        /\ walk[0] = from
        /\ \A i \in 0..lastHeight : /\ walk[i] \in DOMAIN blocks
                                    /\ walk[i + 1] = blocks[walk[i]].prev
        /\ walk[lastHeight + 1] = NoHash

-----------------------------------------------------------------------------

\* The genesis block of CreateBlockchain, committed and indexed by no one.
Init ==
    /\ queue = <<>> /\ accepted = <<>> /\ candidateTxs = <<>>
    /\ newBlock = NoBlock /\ seenTotal = 0
    /\ pc = "tick"
    /\ blocks = [h \in {GenesisHash} |-> GenesisBlock]
    /\ lastHash = GenesisHash /\ tip = GenesisHash /\ tipIsPage = FALSE
    /\ lastHeight = 0 /\ txTotal = 1
    /\ indexed = {} /\ announced = {} /\ crashes = 0 /\ diskErrors = 0

(***************************************************************************)
(* An HTTP handler whose document passed every check appends it (Put and   *)
(* PutWithoutSignature).  SetID draws a new UUID, so no transaction is     *)
(* ever put twice.                                                         *)
(***************************************************************************)
Put(tx) ==
    /\ Up
    /\ tx \notin Elems(accepted)
    /\ queue' = Append(queue, tx)
    /\ accepted' = Append(accepted, tx)
    /\ UNCHANGED <<pc, batch, tip, tipIsPage, disk,
                   announced, crashes, diskErrors>>

(***************************************************************************)
(* A handler commits something else to the same file (RegisterAccount,     *)
(* CreateMapping).  bolt may reuse the page that NewBlockchain took Tip    *)
(* from: a slice that Get returns is valid only inside its transaction.    *)
(***************************************************************************)
ReusePage ==
    /\ Up /\ tipIsPage
    /\ tip' = Overwritten
    /\ UNCHANGED <<pc, queue, batch, tipIsPage, disk, history>>

\* The ticker of Monitor fires: nothing happens on an empty queue.
Tick ==
    /\ pc = "tick"
    /\ IF queue = <<>> THEN UNCHANGED pc ELSE pc' = "length"
    /\ UNCHANGED <<memory, disk, history>>

BatchHasRoom == Len(candidateTxs) < maxTxsPerBlock

\* Mutant: a block is built only from a full batch.
LoopTest_OnlyFullBatch ==
    /\ pc = "length"
    /\ pc' = IF BatchHasRoom /\ queue # <<>> THEN "pop"
             ELSE IF BatchHasRoom THEN "tick" ELSE "addBlock"
    /\ UNCHANGED <<memory, disk, history>>

\* The loop test of generateBlock, and the test on the batch after the loop.
LoopTest ==
    /\ pc = "length"
    /\ pc' = IF BatchHasRoom /\ queue # <<>> THEN "pop"
             ELSE IF candidateTxs # <<>> THEN "addBlock" ELSE "tick"
    /\ UNCHANGED <<memory, disk, history>>

\* Mutant: the newest document is taken instead of the oldest.
Pop_Newest ==
    /\ pc = "pop" /\ queue # <<>> /\ pc' = "length"
    /\ candidateTxs' = Append(candidateTxs, queue[Len(queue)])
    /\ queue' = SubSeq(queue, 1, Len(queue) - 1)
    /\ UNCHANGED <<newBlock, seenTotal, tip, tipIsPage, disk, history>>

\* Queue.Pop: it blocks while the queue is empty.
Pop ==
    /\ pc = "pop"
    /\ queue # <<>>
    /\ candidateTxs' = Append(candidateTxs, Head(queue))
    /\ queue' = Tail(queue)
    /\ pc' = "length"
    /\ UNCHANGED <<newBlock, seenTotal, tip, tipIsPage, disk, history>>

\* Mutants: the block is linked to Tip; its height is the last one.
BlockOnTop_LinksTip == [prev |-> tip, height |-> lastHeight + 1,
                        txs |-> Elems(candidateTxs)]
BlockOnTop_SameHeight == [prev |-> lastHash, height |-> lastHeight,
                          txs |-> Elems(candidateTxs)]

\* The block AddBlock builds on what it read under "l" and "b".
BlockOnTop == [prev |-> lastHash, height |-> lastHeight + 1,
               txs |-> Elems(candidateTxs)]

\* Mutant: the hash does not depend on the chain.
BuildBlock_HashRepeats ==
    /\ pc = "addBlock"
    /\ \E h \in Hash : newBlock' = [hash |-> h, block |-> BlockOnTop]
    /\ candidateTxs' = <<>> /\ pc' = "persist"
    /\ UNCHANGED <<queue, seenTotal, tip, tipIsPage, disk, history>>

\* AddBlock up to NewBlock.
BuildBlock ==
    /\ pc = "addBlock"
    /\ \E h \in Hash \ DOMAIN blocks :
          newBlock' = [hash |-> h, block |-> BlockOnTop]
    /\ candidateTxs' = <<>>
    /\ pc' = "persist"
    /\ UNCHANGED <<queue, seenTotal, tip, tipIsPage, disk, history>>

\* Mutant: Persist returns before its transaction.
ReadTotal_NoCommit ==
    /\ pc = "persist" /\ pc' = "setTip"
    /\ UNCHANGED <<memory, disk, history>>

\* Persist reads "t" in a transaction of its own.
ReadTotal ==
    /\ pc = "persist"
    /\ seenTotal' = txTotal
    /\ pc' = "commit"
    /\ UNCHANGED <<queue, candidateTxs, newBlock, tip, tipIsPage, disk,
                   history>>

\* The bolt transaction of Persist: all of it or nothing survives a crash.
Commit ==
    /\ pc = "commit"
    /\ blocks' = [h \in DOMAIN blocks \cup {newBlock.hash} |->
                     IF h = newBlock.hash THEN newBlock.block ELSE blocks[h]]
    /\ lastHash' = newBlock.hash
    /\ lastHeight' = newBlock.block.height
    /\ txTotal' = seenTotal + Cardinality(newBlock.block.txs)
    /\ pc' = "setTip"
    /\ UNCHANGED <<memory, indexed, history>>

\* Update fails (a full disk): Persist logs the error and returns the hash.
CommitFails ==
    /\ pc = "commit"
    /\ diskErrors < MaxDiskErrors
    /\ diskErrors' = diskErrors + 1
    /\ pc' = "setTip"
    /\ UNCHANGED <<memory, disk, accepted, announced, crashes>>

\* Mutants: the result of Persist is dropped; the block is not indexed.
SetTip_Dropped ==
    /\ pc = "setTip" /\ pc' = "index"
    /\ UNCHANGED <<memory, disk, history>>

SetTip_SkipsIndex ==
    /\ pc = "setTip" /\ pc' = "broadcast"
    /\ tip' = newBlock.hash /\ tipIsPage' = FALSE
    /\ UNCHANGED <<queue, batch, disk, history>>

\* AddBlock's assignment of what Persist returned.
SetTip ==
    /\ pc = "setTip"
    /\ tip' = newBlock.hash
    /\ tipIsPage' = FALSE
    /\ pc' = "index"
    /\ UNCHANGED <<queue, batch, disk, history>>

\* Search.IndexBlock: Put checked that the collection has an index.
IndexBlock ==
    /\ pc = "index"
    /\ indexed' = indexed \cup newBlock.block.txs
    /\ pc' = "broadcast"
    /\ UNCHANGED <<memory, blocks, lastHash, lastHeight, txTotal, history>>

\* GetBlock's answer for the new hash: an empty BlockP2P if it finds none.
FoundHash == IF newBlock.hash \in DOMAIN blocks THEN newBlock.hash ELSE NoHash

\* GetBlock and BroadcastObject: generateBlock is done.
Broadcast ==
    /\ pc = "broadcast"
    /\ announced' = announced \cup {FoundHash}
    /\ newBlock' = NoBlock
    /\ pc' = "tick"
    /\ UNCHANGED <<queue, candidateTxs, seenTotal, tip, tipIsPage, disk,
                   accepted, crashes, diskErrors>>

\* The process dies, or stops on a signal: nothing in memory is saved.
Crash ==
    /\ Up
    /\ crashes < MaxCrashes
    /\ crashes' = crashes + 1
    /\ queue' = <<>> /\ candidateTxs' = <<>>
    /\ newBlock' = NoBlock /\ seenTotal' = 0
    /\ tip' = NoHash /\ tipIsPage' = FALSE
    /\ pc' = "down"
    /\ UNCHANGED <<disk, accepted, announced, diskErrors>>

\* NewBlockchain reads "l"; the server exits if the chain is not complete.
Restart ==
    /\ pc = "down"
    /\ tip' = lastHash /\ tipIsPage' = TRUE
    /\ pc' = IF IsComplete(lastHash) THEN "tick" ELSE "exited"
    /\ UNCHANGED <<queue, batch, disk, history>>

Monitor ==
    \/ Tick \/ LoopTest \/ Pop \/ BuildBlock \/ ReadTotal \/ Commit
    \/ CommitFails \/ SetTip \/ IndexBlock \/ Broadcast

Next == Monitor \/ ReusePage \/ Crash \/ Restart \/ \E tx \in Tx : Put(tx)

Spec == Init /\ [][Next]_vars

\* The Monitor goroutine is scheduled and its ticker never stops.
FairSpec == Spec /\ WF_vars(Monitor)

-----------------------------------------------------------------------------

TypeOK ==
    /\ queue \in Seq(Tx) /\ accepted \in Seq(Tx)
    /\ pc \in {"tick", "length", "pop", "addBlock", "persist", "commit",
               "setTip", "index", "broadcast", "down", "exited"}
    /\ candidateTxs \in Seq(Tx) /\ Len(candidateTxs) <= maxTxsPerBlock
    /\ newBlock = NoBlock \/ newBlock \in HashedBlock
    /\ seenTotal \in Nat
    /\ tip \in Hash \cup {NoHash, Overwritten} /\ tipIsPage \in BOOLEAN
    /\ DOMAIN blocks \subseteq Hash /\ blocks \in [DOMAIN blocks -> Block]
    /\ lastHash \in Hash /\ lastHeight \in Nat /\ txTotal \in Nat
    /\ indexed \subseteq Tx \cup {CoinbaseTx}
    /\ announced \subseteq Hash \cup {NoHash}
    /\ crashes \in 0..MaxCrashes /\ diskErrors \in 0..MaxDiskErrors

(***************************************************************************)
(* The stored blocks are one chain, whatever crashed or failed in between: *)
(* "l" names the newest block and "b" its height, every block but the      *)
(* genesis block points to a stored block one lower, and no two blocks     *)
(* have one height (AddBlock, Persist).                                    *)
(***************************************************************************)
ChainIntact ==
    /\ lastHash \in DOMAIN blocks /\ blocks[lastHash].height = lastHeight
    /\ \A h \in DOMAIN blocks :
          IF blocks[h].height = 0
          THEN blocks[h].prev = NoHash
          ELSE /\ blocks[h].prev \in DOMAIN blocks
               /\ blocks[blocks[h].prev].height = blocks[h].height - 1
    /\ \A h, g \in DOMAIN blocks :
          blocks[h].height = blocks[g].height => h = g

(***************************************************************************)
(* A node that stored its chain itself never fails its own check on        *)
(* restart, "local blockchain verification failed. exiting..." (server in  *)
(* main.go), whichever step the crash interrupted.                         *)
(***************************************************************************)
NeverRefusesToStart == pc # "exited"

(***************************************************************************)
(* The tip a running node serves is the last hash on disk, except between  *)
(* the commit and the assignment of Tip, while Tip is a slice of a         *)
(* database page, and after a commit that failed (AddBlock).               *)
(***************************************************************************)
TipIsLastHash ==
    Up /\ pc # "setTip" /\ ~tipIsPage /\ diskErrors = 0 => tip = lastHash

(***************************************************************************)
(* Until a crash or a failed commit, no accepted document is lost between  *)
(* the queue, the batch, the block being built and the chain.              *)
(***************************************************************************)
NoDocumentLost ==
    crashes = 0 /\ diskErrors = 0 =>
        Elems(accepted) \subseteq Elems(queue) \cup InFlight \cup StoredTxs

(***************************************************************************)
(* A document is stored in at most one block, and never waits again once   *)
(* it is stored, also across crashes (generateBlock, AddBlock).            *)
(***************************************************************************)
NoDocumentTwice ==
    /\ \A h, g \in DOMAIN blocks :
          h # g => blocks[h].txs \cap blocks[g].txs = {}
    /\ (Elems(queue) \cup InFlight) \cap StoredTxs = {}
    /\ Elems(queue) \cap InFlight = {}

(***************************************************************************)
(* Documents are stored in the order they were accepted: while nothing     *)
(* failed, an older one is in the same block or an earlier one.            *)
(***************************************************************************)
InclusionOrder ==
    \A i, j \in DOMAIN accepted : i < j =>
        \A h \in DOMAIN blocks : accepted[j] \in blocks[h].txs =>
            \/ \E g \in DOMAIN blocks : /\ accepted[i] \in blocks[g].txs
                                       /\ blocks[g].height <= blocks[h].height
            \/ /\ crashes + diskErrors > 0
               /\ accepted[i] \notin StoredTxs

(***************************************************************************)
(* The running total under "t" counts exactly the stored transactions,     *)
(* although it is read before the transaction that writes it (Persist).    *)
(***************************************************************************)
TotalMatches == txTotal = Cardinality(StoredTxs)

(***************************************************************************)
(* The account of the accepted documents, whatever handlers, ticks and     *)
(* crashes come together: nothing lost between Put and the chain, nothing  *)
(* twice, the order kept, and the total on disk right.                     *)
(***************************************************************************)
DocumentsAccounted ==
    NoDocumentLost /\ NoDocumentTwice /\ InclusionOrder /\ TotalMatches

(***************************************************************************)
(* Peers hear only of blocks that survive a crash of this node, unless the *)
(* commit failed (generateBlock broadcasts after Persist).                 *)
(***************************************************************************)
AnnouncedDurable == diskErrors = 0 => announced \subseteq DOMAIN blocks

(***************************************************************************)
(* Monitor pops only from a queue that holds a document, so it never       *)
(* blocks inside generateBlock with a batch in its hands.                  *)
(***************************************************************************)
PopNeverBlocks == pc = "pop" => queue # <<>>

(***************************************************************************)
(* No step ever removes or changes a stored block, and the height only     *)
(* grows (the chain is append-only).                                       *)
(***************************************************************************)
AppendOnly ==
    [][/\ \A h \in DOMAIN blocks : /\ h \in DOMAIN blocks'
                                   /\ blocks'[h] = blocks[h]
       /\ lastHeight' >= lastHeight]_vars

(***************************************************************************)
(* Between two ticks, every document in a block is in the search index     *)
(* (docs/README.md: "all the transactions in each block are indexed").     *)
(***************************************************************************)
IndexedWhenIdle == pc = "tick" => StoredTxs \ {CoinbaseTx} \subseteq indexed

(***************************************************************************)
(* Every document in the search index is in a block: a hit can be fetched  *)
(* and verified (docs/README.md: "first verifies that the document has     *)
(* been persisted in the blockchain").                                     *)
(***************************************************************************)
IndexedAreStored == indexed \subseteq StoredTxs

(***************************************************************************)
(* The two of them as far as they hold: the index is complete between two  *)
(* ticks while the process has not crashed, and sound while no commit has  *)
(* failed (AddBlock indexes after Persist, and does not look at its error).*)
(* Nothing indexes again after a crash, and a failed Persist returns nil.  *)
(***************************************************************************)
IndexFollowsChain ==
    /\ crashes = 0 => IndexedWhenIdle
    /\ diskErrors = 0 => IndexedAreStored

(***************************************************************************)
(* An accepted document is stored at last, unless the node crashes or a    *)
(* commit fails first (Monitor).                                           *)
(***************************************************************************)
AcceptedIsStored ==
    \A tx \in Tx : tx \in Elems(accepted) ~>
                    (tx \in StoredTxs \/ crashes + diskErrors > 0)

=============================================================================
