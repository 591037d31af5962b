-------------------------- MODULE LocalChainProofs --------------------------
(***************************************************************************)
(* Theorems about LocalChain for any number of documents, hashes, crashes  *)
(* and failed commits.                                                     *)
(*                                                                         *)
(* ChainIntact and NeverRefusesToStart are not inductive.  They follow     *)
(* from IInv, which also says that every height up to "b" is taken, that a *)
(* block being built extends the chain as it is on disk (Monitor is the    *)
(* only writer), and that a committed block is the last one until it has   *)
(* been broadcast.                                                         *)
(***************************************************************************)
EXTENDS LocalChain, FiniteSetTheorems, TLAPS

\* Every height from the genesis block to "b" has a block.
HeightsTaken ==
    \A n \in 0..lastHeight : \E h \in DOMAIN blocks : blocks[h].height = n

HeightsBounded == \A h \in DOMAIN blocks : blocks[h].height <= lastHeight

\* The block being built extends the stored chain.
NextBlockExtends ==
    pc \in {"persist", "commit"} =>
        /\ newBlock \in HashedBlock
        /\ newBlock.hash \notin DOMAIN blocks
        /\ newBlock.block.prev = lastHash
        /\ newBlock.block.height = lastHeight + 1
        /\ IsFiniteSet(newBlock.block.txs)

\* A committed block stays the last one until it has been broadcast.
CommittedIsLast ==
    pc \in {"setTip", "index", "broadcast"} =>
        /\ newBlock \in HashedBlock
        /\ diskErrors = 0 => newBlock.hash = lastHash

\* Monitor is about to pop: there is room, and a document to take.
PopHasRoom == pc = "pop" => Len(candidateTxs) < maxTxsPerBlock

IInv ==
    /\ TypeOK
    /\ ChainIntact
    /\ HeightsTaken /\ HeightsBounded
    /\ NextBlockExtends /\ CommittedIsLast
    /\ PopHasRoom /\ PopNeverBlocks
    /\ NeverRefusesToStart
    /\ TipIsLastHash
    /\ AnnouncedDurable

-----------------------------------------------------------------------------

\* The documents of a sequence are finitely many.
LEMMA ElemsFinite ==
    ASSUME NEW s \in Seq(Tx)
    PROVE  Elems(s) \in SUBSET Tx /\ IsFiniteSet(Elems(s))
<1>1. s \in Surjection(1..Len(s), Elems(s))
  BY DEF Elems, Surjection
<1>2. IsFiniteSet(1..Len(s))
  BY FS_Interval
<1>3. IsFiniteSet(Elems(s))
  BY <1>1, <1>2, FS_Surjection
<1> QED
  BY <1>3 DEF Elems

(***************************************************************************)
(* A chain whose heights are all taken, each once, is complete: the walk   *)
(* of IsComplete meets the block of each height and then the empty hash.   *)
(***************************************************************************)
LEMMA IntactIsComplete ==
    ASSUME TypeOK, ChainIntact, HeightsTaken
    PROVE  IsComplete(lastHash)
<1> DEFINE At(n) == CHOOSE h \in DOMAIN blocks : blocks[h].height = n
           walk == [i \in 0..(lastHeight + 1) |->
                       IF i = lastHeight + 1 THEN NoHash
                       ELSE At(lastHeight - i)]
<1>1. lastHeight \in Nat /\ DOMAIN blocks \subseteq Hash
  BY DEF TypeOK
<1>2. ASSUME NEW n \in 0..lastHeight
      PROVE  At(n) \in DOMAIN blocks /\ blocks[At(n)].height = n
  BY <1>2 DEF HeightsTaken
<1>3. walk \in [0..(lastHeight + 1) -> Hash \cup {NoHash}]
  <2> SUFFICES ASSUME NEW i \in 0..(lastHeight + 1)
               PROVE  walk[i] \in Hash \cup {NoHash}
    OBVIOUS
  <2>1. CASE i = lastHeight + 1
    BY <2>1
  <2>2. CASE i # lastHeight + 1
    <3>1. lastHeight - i \in 0..lastHeight
      BY <1>1, <2>2
    <3> QED
      BY <1>1, <1>2, <2>2, <3>1
  <2> QED
    BY <2>1, <2>2
<1>4. walk[0] = lastHash
  <2>1. At(lastHeight) \in DOMAIN blocks
        /\ blocks[At(lastHeight)].height = lastHeight
    BY <1>1, <1>2
  <2>2. walk[0] = At(lastHeight)
    BY <1>1
  <2>3. At(lastHeight) = lastHash
    BY <2>1 DEF ChainIntact
  <2> QED
    BY <2>2, <2>3
<1>5. walk[lastHeight + 1] = NoHash
  BY <1>1
<1>6. ASSUME NEW i \in 0..lastHeight
      PROVE  walk[i] \in DOMAIN blocks /\ walk[i + 1] = blocks[walk[i]].prev
  <2>1. lastHeight - i \in 0..lastHeight /\ i # lastHeight + 1
        /\ i \in 0..(lastHeight + 1) /\ i + 1 \in 0..(lastHeight + 1)
    BY <1>1
  <2>2. walk[i] = At(lastHeight - i)
    BY <2>1
  <2> DEFINE h == At(lastHeight - i)
  <2>3. h \in DOMAIN blocks /\ blocks[h].height = lastHeight - i
    BY <1>2, <2>1
  <2> HIDE DEF h
  <2>4. CASE i = lastHeight
    <3>1. blocks[h].prev = NoHash
      BY <1>1, <2>3, <2>4 DEF ChainIntact
    <3> QED
      BY <1>5, <2>2, <2>3, <2>4, <3>1 DEF h
  <2>5. CASE i # lastHeight
    <3> DEFINE g == At(lastHeight - (i + 1))
    <3>1. lastHeight - (i + 1) \in 0..lastHeight /\ i + 1 # lastHeight + 1
      BY <1>1, <2>5
    <3>2. g \in DOMAIN blocks /\ blocks[g].height = lastHeight - (i + 1)
      BY <1>2, <3>1
    <3>3. walk[i + 1] = g
      BY <2>1, <3>1
    <3> HIDE DEF g
    <3>4. blocks[h].height # 0
      BY <1>1, <2>3, <2>5
    <3>5. /\ blocks[h].prev \in DOMAIN blocks
          /\ blocks[blocks[h].prev].height = lastHeight - (i + 1)
      <4>1. blocks[blocks[h].prev].height = (lastHeight - i) - 1
        BY <2>3, <3>4 DEF ChainIntact
      <4> QED
        BY <1>1, <2>3, <3>4, <4>1 DEF ChainIntact
    <3>6. g = blocks[h].prev
      BY <3>2, <3>5 DEF ChainIntact
    <3> QED
      BY <2>2, <2>3, <3>3, <3>6 DEF h
  <2> QED
    BY <2>4, <2>5
<1> HIDE DEF walk
<1> QED
  BY <1>3, <1>4, <1>5, <1>6 DEF IsComplete

-----------------------------------------------------------------------------

LEMMA InitIInv == Init => IInv
<1> SUFFICES ASSUME Init PROVE IInv
  OBVIOUS
<1> USE DEF Init, GenesisBlock
<1>1. blocks[GenesisHash] = GenesisBlock /\ DOMAIN blocks = {GenesisHash}
  OBVIOUS
<1>2. TypeOK
  <2>1. queue \in Seq(Tx) /\ accepted \in Seq(Tx) /\ candidateTxs \in Seq(Tx)
        /\ Len(candidateTxs) = 0
    OBVIOUS
  <2>2. GenesisBlock \in Block
    BY DEF Block
  <2>3. blocks \in [DOMAIN blocks -> Block]
    BY <1>1, <2>2
  <2>4. Len(candidateTxs) <= maxTxsPerBlock /\ crashes \in 0..MaxCrashes
        /\ diskErrors \in 0..MaxDiskErrors
    BY <2>1, ConstantsAssumption
  <2>5. DOMAIN blocks \subseteq Hash /\ lastHash \in Hash
    BY <1>1, ConstantsAssumption
  <2> QED
    BY <2>1, <2>3, <2>4, <2>5 DEF TypeOK
<1>3. ChainIntact
  BY <1>1 DEF ChainIntact
<1>4. HeightsTaken /\ HeightsBounded
  BY <1>1 DEF HeightsTaken, HeightsBounded
<1>5. NextBlockExtends /\ CommittedIsLast /\ PopHasRoom /\ PopNeverBlocks
  BY DEF NextBlockExtends, CommittedIsLast, PopHasRoom, PopNeverBlocks
<1>6. NeverRefusesToStart /\ TipIsLastHash /\ AnnouncedDurable
  BY DEF NeverRefusesToStart, TipIsLastHash, AnnouncedDurable
<1> QED
  BY <1>2, <1>3, <1>4, <1>5, <1>6 DEF IInv

\* The types of the state, one step per action.
LEMMA StepTypeOK == IInv /\ [Next]_vars => TypeOK'
<1> SUFFICES ASSUME IInv, [Next]_vars PROVE TypeOK'
  OBVIOUS
<1> USE DEF TypeOK, memory, batch, disk, history, vars
<1>1. TypeOK /\ NextBlockExtends /\ CommittedIsLast /\ PopHasRoom
  BY DEF IInv
<1>2. ASSUME NEW tx \in Tx, Put(tx) PROVE TypeOK'
  BY <1>1, <1>2 DEF Put
<1>3. CASE Tick
  BY <1>1, <1>3 DEF Tick
<1>4. CASE LoopTest
  BY <1>1, <1>4 DEF LoopTest
<1>5. CASE Pop
  <2>1. Head(queue) \in Tx /\ Tail(queue) \in Seq(Tx)
    BY <1>1, <1>5 DEF Pop
  <2>2. Len(candidateTxs) < maxTxsPerBlock
    BY <1>1, <1>5 DEF Pop, PopHasRoom
  <2> QED
    BY <1>1, <1>5, <2>1, <2>2, ConstantsAssumption DEF Pop
<1>6. CASE BuildBlock
  <2>1. Elems(candidateTxs) \in SUBSET Tx
    BY <1>1, ElemsFinite
  <2>2. BlockOnTop \in Block
    BY <1>1, <2>1 DEF BlockOnTop, Block
  <2>3. newBlock' \in HashedBlock
    BY <1>6, <2>2 DEF BuildBlock, HashedBlock
  <2> QED
    BY <1>1, <1>6, <2>3, ConstantsAssumption DEF BuildBlock
<1>7. CASE ReadTotal
  BY <1>1, <1>7 DEF ReadTotal
<1>8. CASE Commit
  <2>1. newBlock \in HashedBlock /\ IsFiniteSet(newBlock.block.txs)
    BY <1>1, <1>8 DEF Commit, NextBlockExtends
  <2>2. newBlock.hash \in Hash /\ newBlock.block \in Block
        /\ newBlock.block.height \in Nat
    BY <2>1 DEF HashedBlock, Block
  <2>3. txTotal' \in Nat
    BY <1>1, <1>8, <2>1, FS_CardinalityType DEF Commit
  <2>4. DOMAIN blocks' \subseteq Hash /\ blocks' \in [DOMAIN blocks' -> Block]
    BY <1>1, <1>8, <2>2 DEF Commit
  <2> QED
    BY <1>1, <1>8, <2>2, <2>3, <2>4 DEF Commit
<1>9. CASE CommitFails
  BY <1>1, <1>9, ConstantsAssumption DEF CommitFails
<1>10. CASE SetTip
  <2>1. newBlock.hash \in Hash
    BY <1>1, <1>10 DEF SetTip, CommittedIsLast, HashedBlock
  <2> QED
    BY <1>1, <1>10, <2>1 DEF SetTip
<1>11. CASE IndexBlock
  <2>1. newBlock.block.txs \subseteq Tx \cup {CoinbaseTx}
    BY <1>1, <1>11 DEF IndexBlock, CommittedIsLast, HashedBlock, Block
  <2> QED
    BY <1>1, <1>11, <2>1 DEF IndexBlock
<1>12. CASE Broadcast
  <2>1. FoundHash \in Hash \cup {NoHash}
    BY <1>1, <1>12 DEF Broadcast, FoundHash
  <2> QED
    BY <1>1, <1>12, <2>1 DEF Broadcast
<1>13. CASE ReusePage
  BY <1>1, <1>13 DEF ReusePage
<1>14. CASE Crash
  <2>1. queue' \in Seq(Tx) /\ candidateTxs' \in Seq(Tx) /\ Len(candidateTxs') = 0
    BY <1>14 DEF Crash
  <2>2. crashes' \in 0..MaxCrashes
    <3>1. crashes < MaxCrashes /\ crashes' = crashes + 1
      BY <1>14 DEF Crash
    <3>2. crashes \in 0..MaxCrashes
      BY <1>1
    <3> QED
      BY <3>1, <3>2, ConstantsAssumption
  <2>3. Len(candidateTxs') <= maxTxsPerBlock
    BY <2>1, ConstantsAssumption
  <2>4. UNCHANGED <<blocks, lastHash, lastHeight, txTotal, indexed,
                    accepted, announced, diskErrors>>
    BY <1>14 DEF Crash
  <2>5. /\ newBlock' = NoBlock /\ seenTotal' = 0 /\ tip' = NoHash
        /\ tipIsPage' = FALSE /\ pc' = "down"
    BY <1>14 DEF Crash
  <2> QED
    BY <1>1, <2>1, <2>2, <2>3, <2>4, <2>5
<1>15. CASE Restart
  BY <1>1, <1>15 DEF Restart
<1>16. CASE UNCHANGED vars
  BY <1>1, <1>16
<1> QED
  BY <1>2, <1>3, <1>4, <1>5, <1>6, <1>7, <1>8, <1>9, <1>10, <1>11, <1>12,
     <1>13, <1>14, <1>15, <1>16 DEF Next, Monitor

\* Committing a block that extends the chain leaves a chain.
LEMMA CommitKeepsChain ==
    ASSUME IInv, Commit
    PROVE  (ChainIntact /\ HeightsTaken /\ HeightsBounded)'
<1> DEFINE n == newBlock.hash
           b == newBlock.block
<1>1. /\ DOMAIN blocks \subseteq Hash /\ lastHeight \in Nat
      /\ \A h \in DOMAIN blocks : blocks[h].height \in Nat
  BY DEF IInv, TypeOK, Block
<1>2. n \notin DOMAIN blocks /\ b.prev = lastHash /\ b.height = lastHeight + 1
  BY DEF IInv, NextBlockExtends, Commit
<1>3. /\ DOMAIN blocks' = DOMAIN blocks \cup {n}
      /\ blocks'[n] = b
      /\ \A h \in DOMAIN blocks : blocks'[h] = blocks[h]
      /\ lastHash' = n /\ lastHeight' = lastHeight + 1
  BY <1>2 DEF Commit
<1>4. ChainIntact /\ HeightsTaken /\ HeightsBounded
  BY DEF IInv
<1> HIDE DEF n, b
<1>5. HeightsBounded'
  BY <1>1, <1>2, <1>3, <1>4 DEF HeightsBounded
<1>6. HeightsTaken'
  <2> SUFFICES ASSUME NEW k \in 0..(lastHeight + 1)
               PROVE  \E h \in DOMAIN blocks' : blocks'[h].height = k
    BY <1>3 DEF HeightsTaken
  <2>1. CASE k = lastHeight + 1
    BY <1>2, <1>3, <2>1
  <2>2. CASE k # lastHeight + 1
    <3>1. k \in 0..lastHeight
      BY <1>1, <2>2
    <3> QED
      BY <1>3, <1>4, <3>1 DEF HeightsTaken
  <2> QED
    BY <2>1, <2>2
<1>7. ChainIntact'
  <2>1. lastHash' \in DOMAIN blocks' /\ blocks'[lastHash'].height = lastHeight'
    BY <1>2, <1>3
  <2>2. ASSUME NEW h \in DOMAIN blocks'
        PROVE  IF blocks'[h].height = 0
               THEN blocks'[h].prev = NoHash
               ELSE /\ blocks'[h].prev \in DOMAIN blocks'
                    /\ blocks'[blocks'[h].prev].height = blocks'[h].height - 1
    <3>1. CASE h = n
      <4>1. lastHash \in DOMAIN blocks /\ blocks[lastHash].height = lastHeight
        BY <1>4 DEF ChainIntact
      <4> QED
        BY <1>1, <1>2, <1>3, <3>1, <4>1
    <3>2. CASE h \in DOMAIN blocks
      BY <1>3, <1>4, <3>2 DEF ChainIntact
    <3> QED
      BY <1>3, <3>1, <3>2
  <2>3. ASSUME NEW h \in DOMAIN blocks', NEW g \in DOMAIN blocks',
               blocks'[h].height = blocks'[g].height
        PROVE  h = g
    <3>1. \A x \in DOMAIN blocks : blocks'[x].height # blocks'[n].height
      BY <1>1, <1>2, <1>3, <1>4 DEF HeightsBounded
    <3> QED
      BY <1>3, <1>4, <2>3, <3>1 DEF ChainIntact
  <2> QED
    BY <2>1, <2>2, <2>3 DEF ChainIntact
<1> QED
  BY <1>5, <1>6, <1>7

\* Every other step leaves the chain as it is.
LEMMA StepKeepsChain ==
    IInv /\ [Next]_vars => (ChainIntact /\ HeightsTaken /\ HeightsBounded)'
<1> SUFFICES ASSUME IInv, [Next]_vars
             PROVE  (ChainIntact /\ HeightsTaken /\ HeightsBounded)'
  OBVIOUS
<1>1. CASE Commit
  BY <1>1, CommitKeepsChain
<1>2. CASE ~Commit
  <2>1. UNCHANGED <<blocks, lastHash, lastHeight>>
    BY <1>2 DEF Next, Monitor, Put, Tick, LoopTest, Pop, BuildBlock,
                ReadTotal, CommitFails, SetTip, IndexBlock, Broadcast,
                ReusePage, Crash, Restart, vars, disk
  <2> QED
    BY <2>1 DEF IInv, ChainIntact, HeightsTaken, HeightsBounded
<1> QED
  BY <1>1, <1>2

\* What holds of the batch and of the block being built.
LEMMA StepKeepsBatch ==
    IInv /\ [Next]_vars =>
        (NextBlockExtends /\ CommittedIsLast /\ PopHasRoom /\ PopNeverBlocks)'
<1> DEFINE I == NextBlockExtends /\ CommittedIsLast
                  /\ PopHasRoom /\ PopNeverBlocks
<1> SUFFICES ASSUME IInv, [Next]_vars PROVE I'
  OBVIOUS
<1> USE DEF NextBlockExtends, CommittedIsLast, PopHasRoom, PopNeverBlocks,
            memory, batch, disk, history, vars
<1>1. TypeOK /\ I
  BY DEF IInv
<1>2. ASSUME NEW tx \in Tx, Put(tx) PROVE I'
  <2>1. queue' # <<>>
    BY <1>1, <1>2, SMTT(30) DEF Put, TypeOK
  <2> QED
    BY <1>1, <1>2, <2>1 DEF Put
<1>3. CASE Tick
  BY <1>1, <1>3 DEF Tick
<1>4. CASE LoopTest
  BY <1>1, <1>4 DEF LoopTest, BatchHasRoom
<1>5. CASE Pop
  BY <1>1, <1>5 DEF Pop
<1>6. CASE BuildBlock
  <2>1. Elems(candidateTxs) \in SUBSET Tx /\ IsFiniteSet(Elems(candidateTxs))
    BY <1>1, ElemsFinite DEF TypeOK
  <2>2. BlockOnTop \in Block /\ BlockOnTop.txs = Elems(candidateTxs)
        /\ BlockOnTop.prev = lastHash /\ BlockOnTop.height = lastHeight + 1
    BY <1>1, <2>1 DEF BlockOnTop, Block, TypeOK
  <2>3. PICK h \in Hash \ DOMAIN blocks :
            newBlock' = [hash |-> h, block |-> BlockOnTop]
    BY <1>6 DEF BuildBlock
  <2>4. newBlock' \in HashedBlock /\ newBlock'.hash = h
        /\ newBlock'.block = BlockOnTop
    BY <2>2, <2>3 DEF HashedBlock
  <2> QED
    BY <1>1, <1>6, <2>1, <2>2, <2>4 DEF BuildBlock
<1>7. CASE ReadTotal
  BY <1>1, <1>7 DEF ReadTotal
<1>8. CASE Commit
  BY <1>1, <1>8 DEF Commit
<1>9. CASE CommitFails
  BY <1>1, <1>9 DEF CommitFails, TypeOK
<1>10. CASE SetTip
  BY <1>1, <1>10 DEF SetTip
<1>11. CASE IndexBlock
  BY <1>1, <1>11 DEF IndexBlock
<1>12. CASE Broadcast
  BY <1>1, <1>12 DEF Broadcast
<1>13. CASE ReusePage
  BY <1>1, <1>13 DEF ReusePage
<1>14. CASE Crash
  BY <1>1, <1>14 DEF Crash
<1>15. CASE Restart
  BY <1>1, <1>15 DEF Restart
<1>16. CASE UNCHANGED vars
  BY <1>1, <1>16
<1> QED
  BY <1>2, <1>3, <1>4, <1>5, <1>6, <1>7, <1>8, <1>9, <1>10, <1>11, <1>12,
     <1>13, <1>14, <1>15, <1>16 DEF Next, Monitor

\* What a running node serves, announces, and finds when it restarts.
LEMMA StepKeepsService ==
    IInv /\ [Next]_vars =>
        (NeverRefusesToStart /\ TipIsLastHash /\ AnnouncedDurable)'
<1> DEFINE I == NeverRefusesToStart /\ TipIsLastHash /\ AnnouncedDurable
<1> SUFFICES ASSUME IInv, [Next]_vars PROVE I'
  OBVIOUS
<1> USE DEF NeverRefusesToStart, TipIsLastHash, AnnouncedDurable, Up,
            memory, batch, disk, history, vars
<1>1. /\ TypeOK /\ I
      /\ NextBlockExtends /\ CommittedIsLast
      /\ lastHash \in DOMAIN blocks
  BY DEF IInv, ChainIntact
<1>2. ASSUME NEW tx \in Tx, Put(tx) PROVE I'
  BY <1>1, <1>2 DEF Put
<1>3. CASE Tick
  BY <1>1, <1>3 DEF Tick
<1>4. CASE LoopTest
  BY <1>1, <1>4 DEF LoopTest
<1>5. CASE Pop
  BY <1>1, <1>5 DEF Pop
<1>6. CASE BuildBlock
  BY <1>1, <1>6 DEF BuildBlock
<1>7. CASE ReadTotal
  BY <1>1, <1>7 DEF ReadTotal
<1>8. CASE Commit
  <2>1. DOMAIN blocks \subseteq DOMAIN blocks'
    BY <1>8 DEF Commit
  <2> QED
    BY <1>1, <1>8, <2>1 DEF Commit
<1>9. CASE CommitFails
  BY <1>1, <1>9 DEF CommitFails, TypeOK
<1>10. CASE SetTip
  BY <1>1, <1>10 DEF SetTip, CommittedIsLast
<1>11. CASE IndexBlock
  BY <1>1, <1>11 DEF IndexBlock
<1>12. CASE Broadcast
  <2>1. diskErrors = 0 => FoundHash = lastHash
    BY <1>1, <1>12 DEF Broadcast, CommittedIsLast, FoundHash
  <2> QED
    BY <1>1, <1>12, <2>1 DEF Broadcast
<1>13. CASE ReusePage
  BY <1>1, <1>13 DEF ReusePage
<1>14. CASE Crash
  BY <1>1, <1>14 DEF Crash
<1>15. CASE Restart
  <2>1. IsComplete(lastHash)
    BY IntactIsComplete DEF IInv
  <2> QED
    BY <1>1, <1>15, <2>1 DEF Restart
<1>16. CASE UNCHANGED vars
  BY <1>1, <1>16
<1> QED
  BY <1>2, <1>3, <1>4, <1>5, <1>6, <1>7, <1>8, <1>9, <1>10, <1>11, <1>12,
     <1>13, <1>14, <1>15, <1>16 DEF Next, Monitor

\* At every step of the generator the blocks on disk form one chain, and what
\* its locals hold continues that chain.
THEOREM Invariance == Spec => []IInv
<1>1. IInv /\ [Next]_vars => IInv'
  BY StepTypeOK, StepKeepsChain, StepKeepsBatch, StepKeepsService DEF IInv
<1> QED
  BY InitIInv, <1>1, PTL DEF Spec

-----------------------------------------------------------------------------

\* The variables keep their types; a batch never exceeds the limit.
THEOREM TypeCorrect == Spec => []TypeOK
<1>1. IInv => TypeOK
  BY DEF IInv
<1> QED
  BY Invariance, <1>1, PTL

\* The stored blocks form one chain, whatever crashed or failed.
THEOREM ChainStaysIntact == Spec => []ChainIntact
<1>1. IInv => ChainIntact
  BY DEF IInv
<1> QED
  BY Invariance, <1>1, PTL

\* The check of a restarting server never fails on the node's own chain.
THEOREM AlwaysStarts == Spec => []NeverRefusesToStart
<1>1. IInv => NeverRefusesToStart
  BY DEF IInv
<1> QED
  BY Invariance, <1>1, PTL

\* The tip in memory follows the last hash on disk.
THEOREM TipFollowsDisk == Spec => []TipIsLastHash
<1>1. IInv => TipIsLastHash
  BY DEF IInv
<1> QED
  BY Invariance, <1>1, PTL

\* What peers were told of survives a crash.
THEOREM AnnouncedSurvives == Spec => []AnnouncedDurable
<1>1. IInv => AnnouncedDurable
  BY DEF IInv
<1> QED
  BY Invariance, <1>1, PTL

\* Monitor never waits inside generateBlock.
THEOREM PopAlwaysReady == Spec => []PopNeverBlocks
<1>1. IInv => PopNeverBlocks
  BY DEF IInv
<1> QED
  BY Invariance, <1>1, PTL

\* Stored blocks are never removed or changed.
THEOREM ChainOnlyGrows == Spec => AppendOnly
<1>1. IInv /\ [Next]_vars =>
        [/\ \A h \in DOMAIN blocks : /\ h \in DOMAIN blocks'
                                     /\ blocks'[h] = blocks[h]
         /\ lastHeight' >= lastHeight]_vars
  <2> SUFFICES ASSUME IInv, [Next]_vars
               PROVE  /\ \A h \in DOMAIN blocks : /\ h \in DOMAIN blocks'
                                                  /\ blocks'[h] = blocks[h]
                      /\ lastHeight' >= lastHeight
    OBVIOUS
  <2>1. CASE Commit
    BY <2>1 DEF Commit, IInv, NextBlockExtends, TypeOK
  <2>2. CASE ~Commit
    <3>1. UNCHANGED <<blocks, lastHeight>>
      BY <2>2 DEF Next, Monitor, Put, Tick, LoopTest, Pop, BuildBlock,
                  ReadTotal, CommitFails, SetTip, IndexBlock, Broadcast,
                  ReusePage, Crash, Restart, vars, disk
    <3> QED
      BY <3>1 DEF IInv, TypeOK
  <2> QED
    BY <2>1, <2>2
<1> QED
  BY Invariance, <1>1, PTL DEF Spec, AppendOnly

-----------------------------------------------------------------------------
(* The documents: where each accepted one is, and what the index holds.    *)
(*                                                                         *)
(* The argument is about positions in the history accepted.  The batch and *)
(* the queue together are always its end: a crash empties both, and only   *)
(* Put and the chain touch the two sides of that end.  What is before it   *)
(* has gone into blocks, in order, or was lost by a fault.                 *)

Positions == 1..Len(accepted)

\* How many of the accepted documents the batch and the queue come after.
Taken == Len(accepted) - Len(queue) - Len(candidateTxs)

\* The documents of a block that is built and not yet committed.
InBlock == IF pc \in {"persist", "commit"} THEN newBlock.block.txs ELSE {}

AcceptedOnce ==
    \A i, j \in Positions : accepted[i] = accepted[j] => i = j

\* The batch and the queue are the end of accepted.
WaitingIsSuffix ==
    /\ Len(queue) + Len(candidateTxs) <= Len(accepted)
    /\ \A i \in 1..Len(queue) :
          queue[i] = accepted[Taken + Len(candidateTxs) + i]
    /\ \A i \in 1..Len(candidateTxs) : candidateTxs[i] = accepted[Taken + i]

\* What is in blocks was accepted before that; the genesis block's own
\* transaction is nowhere else.
BlocksAreTaken ==
    /\ \A t \in StoredTxs \cup InBlock :
          t = CoinbaseTx \/ \E i \in 1..Taken : t = accepted[i]
    /\ \A h \in DOMAIN blocks :
          CoinbaseTx \in blocks[h].txs => blocks[h].height = 0
    /\ CoinbaseTx \notin InBlock

\* Higher blocks hold later documents, the one that is being built the last.
BlocksInOrder ==
    \A i, j \in Positions :
        /\ \A h, g \in DOMAIN blocks :
              /\ blocks[h].height < blocks[g].height
              /\ accepted[i] \in blocks[h].txs /\ accepted[j] \in blocks[g].txs
              => i < j
        /\ accepted[i] \in StoredTxs /\ accepted[j] \in InBlock => i < j

TakenIsStored ==
    crashes = 0 /\ diskErrors = 0 =>
        \A i \in 1..Taken : accepted[i] \in StoredTxs \cup InBlock

TotalIsRight ==
    /\ IsFiniteSet(StoredTxs) /\ txTotal = Cardinality(StoredTxs)
    /\ pc = "commit" => seenTotal = txTotal

Order ==
    AcceptedOnce /\ WaitingIsSuffix /\ BlocksAreTaken /\ BlocksInOrder
        /\ TakenIsStored

DInv == Order /\ TotalIsRight

\* The index lacks no more than the block that was just committed, and a
\* committed block is as it was built.
IndexInv ==
    /\ crashes = 0 =>
          StoredTxs \ {CoinbaseTx} \subseteq
              indexed \cup (IF pc \in {"setTip", "index"}
                            THEN newBlock.block.txs ELSE {})
    /\ diskErrors = 0 =>
          /\ indexed \subseteq StoredTxs
          /\ pc \in {"setTip", "index"} => newBlock.block.txs \subseteq StoredTxs

-----------------------------------------------------------------------------

\* The sequences by their elements.
LEMMA Lengths ==
    ASSUME TypeOK
    PROVE  /\ Len(accepted) \in Nat /\ Len(queue) \in Nat
           /\ Len(candidateTxs) \in Nat /\ Taken \in Int
           /\ \A i \in Positions : accepted[i] \in Tx
           /\ \A i \in 1..Len(queue) : queue[i] \in Tx
           /\ \A i \in 1..Len(candidateTxs) : candidateTxs[i] \in Tx
  BY DEF TypeOK, Taken, Positions

\* A block that is built holds documents only once it exists.
LEMMA InBlockFinite ==
    ASSUME IInv
    PROVE  IsFiniteSet(InBlock)
  BY FS_EmptySet DEF IInv, NextBlockExtends, InBlock

LEMMA InitOrder ==
    ASSUME Init
    PROVE  DInv
<1>1. blocks[GenesisHash] = GenesisBlock /\ DOMAIN blocks = {GenesisHash}
  BY DEF Init
<1>2. StoredTxs = {CoinbaseTx} /\ InBlock = {}
  BY <1>1 DEF StoredTxs, GenesisBlock, InBlock, Init
<1>3. /\ Len(accepted) = 0 /\ Len(queue) = 0 /\ Len(candidateTxs) = 0
      /\ Taken = 0 /\ Positions = {}
  <2>1. Len(accepted) = 0 /\ Len(queue) = 0 /\ Len(candidateTxs) = 0
    BY DEF Init
  <2> QED
    BY <2>1 DEF Taken, Positions
<1>4. AcceptedOnce /\ BlocksInOrder
  BY <1>3 DEF AcceptedOnce, BlocksInOrder
<1>5. WaitingIsSuffix /\ TakenIsStored
  BY <1>3 DEF WaitingIsSuffix, TakenIsStored
<1>6. BlocksAreTaken
  BY <1>1, <1>2 DEF BlocksAreTaken, GenesisBlock
<1>7. TotalIsRight
  BY <1>2, FS_Singleton DEF TotalIsRight, Init
<1> QED
  BY <1>4, <1>5, <1>6, <1>7 DEF DInv, Order

\* A step that moves no document.
LEMMA QuietOrder ==
    ASSUME Order, InBlock' = InBlock,
           UNCHANGED <<accepted, queue, candidateTxs, blocks,
                       crashes, diskErrors>>
    PROVE  Order'
<1>1. Taken' = Taken /\ Positions' = Positions /\ StoredTxs' = StoredTxs
  BY DEF Taken, Positions, StoredTxs
<1>2. AcceptedOnce' /\ WaitingIsSuffix' /\ TakenIsStored'
  BY <1>1 DEF Order, AcceptedOnce, WaitingIsSuffix, TakenIsStored
<1>3. BlocksAreTaken' /\ BlocksInOrder'
  BY <1>1 DEF Order, BlocksAreTaken, BlocksInOrder
<1> QED
  BY <1>2, <1>3 DEF Order

\* A new document is in no block, and the last of all.
LEMMA PutOrder ==
    ASSUME TypeOK, Order, NEW tx \in Tx, Put(tx)
    PROVE  Order'
<1> DEFINE n == Len(accepted)
           q == Len(queue)
           c == Len(candidateTxs)
<1>1. /\ n \in Nat /\ q \in Nat /\ c \in Nat /\ q + c <= n
      /\ Taken = n - q - c
  BY Lengths DEF Order, WaitingIsSuffix, Taken
<1>2. /\ Len(accepted') = n + 1 /\ accepted'[n + 1] = tx
      /\ \A i \in 1..n : accepted'[i] = accepted[i]
  BY DEF Put, TypeOK
<1>3. /\ Len(queue') = q + 1 /\ queue'[q + 1] = tx
      /\ \A i \in 1..q : queue'[i] = queue[i]
  BY DEF Put, TypeOK
<1>4. /\ UNCHANGED <<candidateTxs, blocks, crashes, diskErrors>>
      /\ InBlock' = InBlock /\ StoredTxs' = StoredTxs
  BY DEF Put, batch, disk, InBlock, StoredTxs
<1>5. \A i \in 1..n : accepted[i] # tx
  BY DEF Put, Elems
<1> HIDE DEF n, q, c
<1>6. Taken' = Taken /\ Positions' = 1..(n + 1) /\ Positions = 1..n
  BY <1>1, <1>2, <1>3, <1>4 DEF Taken, Positions, c, n
<1>7. AcceptedOnce'
  BY <1>1, <1>2, <1>5, <1>6 DEF Order, AcceptedOnce
<1>8. WaitingIsSuffix'
  <2>1. \A i \in 1..(q + 1) : queue'[i] = accepted'[Taken + c + i]
    <3> SUFFICES ASSUME NEW i \in 1..(q + 1)
                 PROVE  queue'[i] = accepted'[Taken + c + i]
      OBVIOUS
    <3>1. CASE i = q + 1
      BY <1>1, <1>2, <1>3, <3>1
    <3>2. CASE i # q + 1
      <4>1. i \in 1..q /\ Taken + c + i \in 1..n
        BY <1>1, <3>2
      <4> QED
        BY <1>2, <1>3, <4>1 DEF Order, WaitingIsSuffix, q, c
    <3> QED
      BY <3>1, <3>2
  <2>2. \A i \in 1..c : candidateTxs[i] = accepted'[Taken + i]
    <3> SUFFICES ASSUME NEW i \in 1..c
                 PROVE  candidateTxs[i] = accepted'[Taken + i]
      OBVIOUS
    <3>1. Taken + i \in 1..n
      BY <1>1
    <3> QED
      BY <1>2, <3>1 DEF Order, WaitingIsSuffix, c
  <2> QED
    BY <1>1, <1>2, <1>3, <1>4, <1>6, <2>1, <2>2 DEF WaitingIsSuffix, c
<1>9. \A i \in 1..Taken : i \in 1..n /\ accepted'[i] = accepted[i]
  BY <1>1, <1>2
<1>10. tx \notin StoredTxs \cup InBlock
  BY <1>5, <1>9, ConstantsAssumption DEF Order, BlocksAreTaken
<1>11. BlocksAreTaken'
  BY <1>4, <1>6, <1>9 DEF Order, BlocksAreTaken
<1>12. BlocksInOrder'
  <2> SUFFICES ASSUME NEW i \in 1..(n + 1), NEW j \in 1..(n + 1)
               PROVE  /\ \A h, g \in DOMAIN blocks :
                            /\ blocks[h].height < blocks[g].height
                            /\ accepted'[i] \in blocks[h].txs
                            /\ accepted'[j] \in blocks[g].txs
                            => i < j
                      /\ accepted'[i] \in StoredTxs /\ accepted'[j] \in InBlock
                         => i < j
    BY <1>4, <1>6 DEF BlocksInOrder
  <2>1. CASE i = n + 1 \/ j = n + 1
    <3>1. \A h \in DOMAIN blocks : tx \notin blocks[h].txs
      BY <1>10 DEF StoredTxs
    <3> QED
      BY <1>2, <1>10, <2>1, <3>1
  <2>2. CASE i # n + 1 /\ j # n + 1
    <3>1. i \in 1..n /\ j \in 1..n
      BY <1>1, <2>2
    <3>2. accepted'[i] = accepted[i] /\ accepted'[j] = accepted[j]
      BY <1>2, <3>1
    <3> QED
      BY <1>6, <3>1, <3>2 DEF Order, BlocksInOrder
  <2> QED
    BY <2>1, <2>2
<1>13. TakenIsStored'
  BY <1>4, <1>6, <1>9 DEF Order, TakenIsStored
<1> QED
  BY <1>7, <1>8, <1>11, <1>12, <1>13 DEF Order

\* The oldest waiting document becomes the last of the batch.
LEMMA PopOrder ==
    ASSUME TypeOK, Order, Pop
    PROVE  Order'
<1> DEFINE n == Len(accepted)
           q == Len(queue)
           c == Len(candidateTxs)
<1>1. /\ n \in Nat /\ q \in Nat /\ c \in Nat /\ q + c <= n
      /\ Taken = n - q - c
  BY Lengths DEF Order, WaitingIsSuffix, Taken
<1>2. /\ q > 0 /\ Len(queue') = q - 1
      /\ \A i \in 1..(q - 1) : queue'[i] = queue[i + 1]
  BY DEF Pop, TypeOK
<1>3. /\ Len(candidateTxs') = c + 1 /\ candidateTxs'[c + 1] = queue[1]
      /\ \A i \in 1..c : candidateTxs'[i] = candidateTxs[i]
  BY DEF Pop, TypeOK
<1>4. /\ UNCHANGED <<accepted, blocks, crashes, diskErrors>>
      /\ InBlock' = InBlock /\ StoredTxs' = StoredTxs
  BY DEF Pop, disk, history, InBlock, StoredTxs
<1> HIDE DEF n, q, c
<1>5. Taken' = Taken /\ Positions' = Positions
  BY <1>1, <1>2, <1>3, <1>4 DEF Taken, Positions, n
<1>6. WaitingIsSuffix'
  <2>1. ASSUME NEW i \in 1..(q - 1)
        PROVE  queue'[i] = accepted[Taken + (c + 1) + i]
    <3>1. i + 1 \in 1..q /\ Taken + c + (i + 1) = Taken + (c + 1) + i
      BY <1>1, <1>2
    <3>2. queue[i + 1] = accepted[Taken + c + (i + 1)]
      BY <3>1 DEF Order, WaitingIsSuffix, q, c
    <3> QED
      BY <1>2, <3>1, <3>2
  <2>2. ASSUME NEW i \in 1..(c + 1)
        PROVE  candidateTxs'[i] = accepted[Taken + i]
    <3>1. CASE i = c + 1
      <4>1. 1 \in 1..q /\ Taken + c + 1 = Taken + i
        BY <1>1, <1>2, <3>1
      <4>2. queue[1] = accepted[Taken + c + 1]
        BY <4>1 DEF Order, WaitingIsSuffix, q, c
      <4> QED
        BY <1>3, <3>1, <4>1, <4>2
    <3>2. CASE i # c + 1
      <4>1. i \in 1..c
        BY <1>1, <3>2
      <4> QED
        BY <1>3, <4>1 DEF Order, WaitingIsSuffix, c
    <3> QED
      BY <3>1, <3>2
  <2>3. Len(queue') + Len(candidateTxs') <= Len(accepted')
    BY <1>1, <1>2, <1>3, <1>4 DEF n
  <2> QED
    BY <1>2, <1>3, <1>4, <1>5, <2>1, <2>2, <2>3 DEF WaitingIsSuffix
<1>7. AcceptedOnce' /\ TakenIsStored'
  BY <1>4, <1>5 DEF Order, AcceptedOnce, TakenIsStored
<1>8. BlocksAreTaken' /\ BlocksInOrder'
  BY <1>4, <1>5 DEF Order, BlocksAreTaken, BlocksInOrder
<1> QED
  BY <1>6, <1>7, <1>8 DEF Order

\* The batch becomes a block: what is stored was accepted before it.
LEMMA BuildOrder ==
    ASSUME TypeOK, Order, BuildBlock
    PROVE  Order'
<1> DEFINE n == Len(accepted)
           q == Len(queue)
           c == Len(candidateTxs)
<1>1. /\ n \in Nat /\ q \in Nat /\ c \in Nat /\ q + c <= n
      /\ Taken = n - q - c
  BY Lengths DEF Order, WaitingIsSuffix, Taken
<1>2. /\ UNCHANGED <<accepted, queue, blocks, crashes, diskErrors>>
      /\ StoredTxs' = StoredTxs /\ Len(candidateTxs') = 0
  BY DEF BuildBlock, disk, history, StoredTxs
<1>3. InBlock = {} /\ InBlock' = Elems(candidateTxs)
  BY DEF BuildBlock, InBlock, BlockOnTop
<1> HIDE DEF n, q, c
<1>4. Taken' = Taken + c /\ Positions' = Positions /\ Positions = 1..n
  BY <1>1, <1>2 DEF Taken, Positions, n, q
<1>5. \A t \in InBlock' : \E i \in 1..Taken' : i > Taken /\ t = accepted[i]
  <2> SUFFICES ASSUME NEW k \in 1..c
               PROVE  \E i \in 1..Taken' :
                         i > Taken /\ candidateTxs[k] = accepted[i]
    BY <1>3 DEF Elems, c
  <2>1. Taken + k \in 1..Taken' /\ Taken + k > Taken
    BY <1>1, <1>4
  <2>2. candidateTxs[k] = accepted[Taken + k]
    BY DEF Order, WaitingIsSuffix, c
  <2> QED
    BY <2>1, <2>2
<1>6. \A i \in 1..Taken : i \in 1..Taken'
  BY <1>1, <1>4
<1>7. Taken' = n - q
  BY <1>1, <1>4
<1>8. WaitingIsSuffix'
  <2>1. \A i \in 1..q : queue[i] = accepted[Taken' + 0 + i]
    BY <1>1, <1>4 DEF Order, WaitingIsSuffix, q, c
  <2> QED
    BY <1>1, <1>2, <2>1 DEF WaitingIsSuffix, n, q
<1>9. AcceptedOnce'
  BY <1>2, <1>4 DEF Order, AcceptedOnce
<1>10. BlocksAreTaken'
  <2>1. CoinbaseTx \notin InBlock'
    BY <1>3, ConstantsAssumption, Lengths DEF Elems
  <2>2. \A t \in StoredTxs' \cup InBlock' :
           t = CoinbaseTx \/ \E i \in 1..Taken' : t = accepted'[i]
    BY <1>2, <1>3, <1>5, <1>6 DEF Order, BlocksAreTaken
  <2> QED
    BY <1>2, <2>1, <2>2 DEF Order, BlocksAreTaken
<1>11. ASSUME NEW i \in Positions, NEW j \in Positions,
             accepted[i] \in StoredTxs, accepted[j] \in InBlock'
       PROVE  i < j
  <2>1. accepted[i] # CoinbaseTx
    BY Lengths, ConstantsAssumption
  <2>2. PICK k \in 1..Taken : accepted[i] = accepted[k]
    BY <1>11, <2>1 DEF Order, BlocksAreTaken
  <2>3. PICK l \in 1..Taken' : l > Taken /\ accepted[j] = accepted[l]
    BY <1>5, <1>11
  <2>4. k \in Positions /\ l \in Positions
    BY <1>1, <1>4, <1>7
  <2>5. i = k /\ j = l
    BY <2>2, <2>3, <2>4 DEF Order, AcceptedOnce
  <2> QED
    BY <1>1, <1>4, <2>2, <2>3, <2>5
<1>12. BlocksInOrder'
  BY <1>2, <1>4, <1>11 DEF Order, BlocksInOrder
<1>13. TakenIsStored'
  <2> SUFFICES ASSUME crashes = 0, diskErrors = 0, NEW i \in 1..Taken'
               PROVE  accepted[i] \in StoredTxs \cup InBlock'
    BY <1>2 DEF TakenIsStored
  <2>1. CASE i <= Taken
    <3>1. i \in 1..Taken
      BY <1>1, <2>1
    <3> QED
      BY <1>3, <3>1 DEF Order, TakenIsStored
  <2>2. CASE i > Taken
    <3>1. i - Taken \in 1..c /\ Taken + (i - Taken) = i
      BY <1>1, <1>4, <2>2
    <3>2. candidateTxs[i - Taken] = accepted[Taken + (i - Taken)]
      BY <3>1 DEF Order, WaitingIsSuffix, c
    <3> QED
      BY <1>3, <3>1, <3>2 DEF Elems, c
  <2> QED
    BY <1>1, <1>4, <2>1, <2>2
<1> QED
  BY <1>8, <1>9, <1>10, <1>12, <1>13 DEF Order

\* The built block is stored, above all others.
LEMMA CommitOrder ==
    ASSUME IInv, Order, Commit
    PROVE  /\ Order'
           /\ StoredTxs' = StoredTxs \cup InBlock
           /\ StoredTxs \cap InBlock = {}
<1> DEFINE b == newBlock.block
           k == newBlock.hash
<1>1. /\ k \notin DOMAIN blocks /\ b.height = lastHeight + 1
      /\ lastHeight \in Nat /\ InBlock = b.txs
      /\ \A h \in DOMAIN blocks : blocks[h].height <= lastHeight
      /\ \A h \in DOMAIN blocks : blocks[h].height \in Nat
  BY DEF Commit, IInv, NextBlockExtends, HeightsBounded, InBlock, TypeOK, Block
<1>2. /\ DOMAIN blocks' = DOMAIN blocks \cup {k} /\ blocks'[k] = b
      /\ \A h \in DOMAIN blocks : blocks'[h] = blocks[h]
  BY <1>1 DEF Commit
<1>3. /\ UNCHANGED <<accepted, queue, candidateTxs, crashes, diskErrors>>
      /\ InBlock' = {}
  BY DEF Commit, memory, batch, history, InBlock
<1> HIDE DEF b, k
<1>4. StoredTxs' = StoredTxs \cup InBlock
  BY <1>1, <1>2 DEF StoredTxs
<1>5. Taken' = Taken /\ Positions' = Positions
  BY <1>3 DEF Taken, Positions
<1>6. AcceptedOnce' /\ WaitingIsSuffix'
  BY <1>3, <1>5 DEF Order, AcceptedOnce, WaitingIsSuffix
<1>7. TakenIsStored'
  BY <1>3, <1>4, <1>5 DEF Order, TakenIsStored
<1>8. BlocksAreTaken'
  BY <1>1, <1>2, <1>3, <1>4, <1>5 DEF Order, BlocksAreTaken
<1>9. BlocksInOrder'
  <2> SUFFICES ASSUME NEW i \in Positions, NEW j \in Positions,
                      NEW h \in DOMAIN blocks', NEW g \in DOMAIN blocks',
                      blocks'[h].height < blocks'[g].height,
                      accepted[i] \in blocks'[h].txs,
                      accepted[j] \in blocks'[g].txs
               PROVE  i < j
    BY <1>3, <1>5 DEF BlocksInOrder
  <2>1. h # k
    BY <1>1, <1>2
  <2>2. CASE g = k
    <3>1. accepted[i] \in StoredTxs /\ accepted[j] \in InBlock
      BY <1>1, <1>2, <2>1, <2>2 DEF StoredTxs
    <3> QED
      BY <3>1 DEF Order, BlocksInOrder
  <2>3. CASE g # k
    BY <1>2, <2>1, <2>3 DEF Order, BlocksInOrder
  <2> QED
    BY <2>2, <2>3
<1>10. StoredTxs \cap InBlock = {}
  <2> SUFFICES ASSUME NEW t \in StoredTxs, t \in InBlock PROVE FALSE
    OBVIOUS
  <2>1. PICK i \in 1..Taken : t = accepted[i]
    BY DEF Order, BlocksAreTaken
  <2>2. i \in Positions
    BY Lengths DEF IInv, Order, WaitingIsSuffix, Taken, Positions
  <2>3. i < i
    BY <2>1, <2>2 DEF Order, BlocksInOrder
  <2> QED
    BY <2>2, <2>3 DEF Positions
<1> QED
  BY <1>4, <1>6, <1>7, <1>8, <1>9, <1>10 DEF Order

\* A fault loses what is not stored: what is left is in order.
LEMMA FaultOrder ==
    ASSUME TypeOK, Order, CommitFails \/ Crash
    PROVE  Order'
<1>1. /\ UNCHANGED <<accepted, blocks>> /\ StoredTxs' = StoredTxs
      /\ InBlock' = {} /\ crashes' + diskErrors' > 0
      /\ crashes' \in Nat /\ diskErrors' \in Nat
  <2>1. crashes \in Nat /\ diskErrors \in Nat
    BY ConstantsAssumption DEF TypeOK
  <2>2. CASE CommitFails
    BY <2>1, <2>2 DEF CommitFails, memory, disk, StoredTxs, InBlock
  <2>3. CASE Crash
    BY <2>1, <2>3 DEF Crash, disk, StoredTxs, InBlock
  <2> QED
    BY <2>2, <2>3
<1>2. /\ Len(queue') \in Nat /\ Len(candidateTxs') \in Nat /\ Taken' \in Int
      /\ Len(queue') + Len(candidateTxs') <= Len(accepted)
      /\ Taken <= Taken' /\ Taken \in Int /\ Len(accepted) \in Nat
  <2>1. CASE CommitFails
    BY <2>1, Lengths
       DEF CommitFails, memory, batch, Taken, Order, WaitingIsSuffix
  <2>2. CASE Crash
    BY <2>2, Lengths DEF Crash, Taken, Order, WaitingIsSuffix
  <2> QED
    BY <2>1, <2>2
<1>3. Positions' = Positions
  BY <1>1 DEF Positions
<1>4. AcceptedOnce' /\ BlocksInOrder'
  BY <1>1, <1>3 DEF Order, AcceptedOnce, BlocksInOrder
<1>5. WaitingIsSuffix'
  <2>1. CASE CommitFails
    BY <2>1 DEF CommitFails, memory, batch, Taken, Order, WaitingIsSuffix
  <2>2. CASE Crash
    <3>1. Len(queue') = 0 /\ Len(candidateTxs') = 0
      BY <2>2 DEF Crash
    <3> QED
      BY <1>1, <1>2, <3>1 DEF WaitingIsSuffix
  <2> QED
    BY <2>1, <2>2
<1>6. BlocksAreTaken'
  <2>1. \A i \in 1..Taken : i \in 1..Taken'
    BY <1>2
  <2> QED
    BY <1>1, <2>1 DEF Order, BlocksAreTaken
<1>7. TakenIsStored'
  BY <1>1 DEF TakenIsStored
<1> QED
  BY <1>4, <1>5, <1>6, <1>7 DEF Order

LEMMA StepOrder ==
    ASSUME IInv, Order, [Next]_vars
    PROVE  Order'
<1>1. TypeOK
  BY DEF IInv
<1>2. ASSUME NEW tx \in Tx, Put(tx) PROVE Order'
  BY <1>1, <1>2, PutOrder
<1>3. CASE Pop
  BY <1>1, <1>3, PopOrder
<1>4. CASE BuildBlock
  BY <1>1, <1>4, BuildOrder
<1>5. CASE Commit
  BY <1>5, CommitOrder
<1>6. CASE CommitFails \/ Crash
  BY <1>1, <1>6, FaultOrder
<1>7. CASE Tick \/ LoopTest \/ ReadTotal \/ SetTip \/ IndexBlock \/ Broadcast
           \/ ReusePage \/ Restart \/ UNCHANGED vars
  <2>1. UNCHANGED <<accepted, queue, candidateTxs, blocks, crashes, diskErrors>>
    BY <1>7 DEF Tick, LoopTest, ReadTotal, SetTip, IndexBlock, Broadcast,
                ReusePage, Restart, vars, memory, batch, disk, history
  <2>2. InBlock' = InBlock
    BY <1>7 DEF Tick, LoopTest, ReadTotal, SetTip, IndexBlock, Broadcast,
                ReusePage, Restart, vars, memory, batch, history, InBlock
  <2> QED
    BY <2>1, <2>2, QuietOrder
<1> QED
  BY <1>2, <1>3, <1>4, <1>5, <1>6, <1>7 DEF Next, Monitor

\* The total is written by the one goroutine that read it.
LEMMA StepTotal ==
    ASSUME IInv, DInv, [Next]_vars
    PROVE  TotalIsRight'
<1>1. CASE Commit
  <2>1. /\ StoredTxs' = StoredTxs \cup InBlock
        /\ StoredTxs \cap InBlock = {}
    BY <1>1, CommitOrder DEF DInv
  <2>2. IsFiniteSet(StoredTxs) /\ IsFiniteSet(InBlock)
    BY InBlockFinite DEF DInv, TotalIsRight
  <2>3. txTotal' = Cardinality(StoredTxs) + Cardinality(InBlock)
    BY <1>1 DEF Commit, DInv, TotalIsRight, InBlock
  <2>4. /\ IsFiniteSet(StoredTxs')
        /\ Cardinality(StoredTxs') =
             Cardinality(StoredTxs) + Cardinality(InBlock)
    <3>1. IsFiniteSet(StoredTxs')
      BY <2>1, <2>2, FS_Union
    <3>2. Cardinality(StoredTxs \cap InBlock) = 0
      BY <2>1, FS_EmptySet
    <3>3. /\ Cardinality(StoredTxs) \in Nat /\ Cardinality(InBlock) \in Nat
          /\ Cardinality(StoredTxs') = Cardinality(StoredTxs)
                + Cardinality(InBlock) - Cardinality(StoredTxs \cap InBlock)
      BY <2>1, <2>2, FS_Union, FS_CardinalityType
    <3> QED
      BY <3>1, <3>2, <3>3
  <2> QED
    BY <1>1, <2>3, <2>4 DEF TotalIsRight, Commit
<1>2. CASE ~Commit
  <2>1. UNCHANGED <<blocks, txTotal>>
    BY <1>2 DEF Next, Monitor, Put, Tick, LoopTest, Pop, BuildBlock,
                ReadTotal, CommitFails, SetTip, IndexBlock, Broadcast,
                ReusePage, Crash, Restart, vars, disk
  <2>2. pc' = "commit" => \/ seenTotal' = txTotal
                          \/ pc = "commit" /\ seenTotal' = seenTotal
    BY <1>2 DEF Next, Monitor, Put, Tick, LoopTest, Pop, BuildBlock,
                ReadTotal, CommitFails, SetTip, IndexBlock, Broadcast,
                ReusePage, Crash, Restart, vars, memory, batch
  <2> QED
    BY <2>1, <2>2 DEF DInv, TotalIsRight, StoredTxs
<1> QED
  BY <1>1, <1>2

\* The invariant that the two theorems rest on, for every value of the
\* constants: Put, the generator and the faults keep each position where
\* it was accepted.
THEOREM DocumentsInvariance == Spec => []DInv
<1>1. Init => DInv
  BY InitOrder
<1>2. IInv /\ DInv /\ [Next]_vars => DInv'
  BY StepOrder, StepTotal DEF DInv
<1> QED
  BY Invariance, <1>1, <1>2, PTL DEF Spec

-----------------------------------------------------------------------------

\* Where the accepted documents are, by their positions.
LEMMA AccountsFollow ==
    ASSUME IInv, DInv
    PROVE  DocumentsAccounted
<1> USE DEF DInv, Order
<1>1. TypeOK
  BY DEF IInv
<1>2. /\ InFlight = Elems(candidateTxs) \cup InBlock
      /\ CoinbaseTx \notin Tx
  BY ConstantsAssumption DEF InFlight, InBlock
<1>3. /\ Len(accepted) \in Nat /\ Len(queue) \in Nat
      /\ Len(candidateTxs) \in Nat
      /\ Len(queue) + Len(candidateTxs) <= Len(accepted)
      /\ Taken = Len(accepted) - Len(queue) - Len(candidateTxs)
  BY <1>1, Lengths DEF WaitingIsSuffix, Taken
<1>4. ASSUME NEW t \in StoredTxs \cup InBlock, t \in Tx
      PROVE  \E i \in Positions : i <= Taken /\ t = accepted[i]
  <2>1. PICK i \in 1..Taken : t = accepted[i]
    BY <1>2, <1>4 DEF BlocksAreTaken
  <2>2. i \in Positions /\ i <= Taken
    BY <1>3 DEF Positions
  <2> QED
    BY <2>1, <2>2
<1>5. ASSUME NEW t \in Elems(candidateTxs)
      PROVE  /\ t \in Tx
             /\ \E i \in Positions : /\ Taken < i
                                     /\ i <= Taken + Len(candidateTxs)
                                     /\ t = accepted[i]
  <2>1. PICK k \in 1..Len(candidateTxs) : t = candidateTxs[k]
    BY DEF Elems
  <2>2. t = accepted[Taken + k]
    BY <2>1 DEF WaitingIsSuffix
  <2>3. /\ Taken + k \in Positions /\ Taken < Taken + k
        /\ Taken + k <= Taken + Len(candidateTxs)
    BY <1>3 DEF Positions
  <2> QED
    BY <1>1, <2>1, <2>2, <2>3, Lengths
<1>6. ASSUME NEW t \in Elems(queue)
      PROVE  /\ t \in Tx
             /\ \E i \in Positions : /\ Taken + Len(candidateTxs) < i
                                     /\ t = accepted[i]
  <2>1. PICK k \in 1..Len(queue) : t = queue[k]
    BY DEF Elems
  <2>2. t = accepted[Taken + Len(candidateTxs) + k]
    BY <2>1 DEF WaitingIsSuffix
  <2>3. /\ Taken + Len(candidateTxs) + k \in Positions
        /\ Taken + Len(candidateTxs) < Taken + Len(candidateTxs) + k
    BY <1>3 DEF Positions
  <2> QED
    BY <1>1, <2>1, <2>2, <2>3, Lengths
<1>7. /\ DOMAIN accepted = Positions
      /\ \A i \in Positions : i \in Nat
      /\ \A i, j \in Positions : accepted[i] = accepted[j] => i = j
  BY <1>1 DEF TypeOK, Positions, AcceptedOnce
<1>8. NoDocumentLost
  <2> SUFFICES ASSUME crashes = 0, diskErrors = 0, NEW i \in Positions
               PROVE  accepted[i] \in Elems(queue) \cup InFlight \cup StoredTxs
    BY DEF NoDocumentLost, Elems, Positions
  <2>1. CASE i <= Taken
    <3>1. i \in 1..Taken
      BY <1>3, <2>1 DEF Positions
    <3> QED
      BY <1>2, <3>1 DEF TakenIsStored
  <2>2. CASE Taken < i /\ i <= Taken + Len(candidateTxs)
    <3>1. /\ i - Taken \in 1..Len(candidateTxs) /\ Taken + (i - Taken) = i
      BY <1>3, <2>2 DEF Positions
    <3>2. candidateTxs[i - Taken] = accepted[Taken + (i - Taken)]
      BY <3>1 DEF WaitingIsSuffix
    <3> QED
      BY <1>2, <3>1, <3>2 DEF Elems
  <2>3. CASE Taken + Len(candidateTxs) < i
    <3> DEFINE k == i - Taken - Len(candidateTxs)
    <3>1. k \in 1..Len(queue) /\ Taken + Len(candidateTxs) + k = i
      BY <1>3, <2>3 DEF Positions
    <3> HIDE DEF k
    <3>2. queue[k] = accepted[Taken + Len(candidateTxs) + k]
      BY <3>1 DEF WaitingIsSuffix
    <3> QED
      BY <1>2, <3>1, <3>2 DEF Elems
  <2> QED
    BY <1>3, <2>1, <2>2, <2>3 DEF Positions
<1>9. NoDocumentTwice
  <2>1. ASSUME NEW h \in DOMAIN blocks, NEW g \in DOMAIN blocks,
               blocks[h].height < blocks[g].height,
               NEW t \in blocks[h].txs, t \in blocks[g].txs
        PROVE  FALSE
    <3>1. t \in StoredTxs /\ blocks[h].height \in Nat /\ blocks[g].height \in Nat
      BY <1>1 DEF StoredTxs, TypeOK, Block
    <3>2. t # CoinbaseTx
      BY <2>1, <3>1 DEF BlocksAreTaken
    <3>3. PICK i \in 1..Taken : t = accepted[i]
      BY <3>1, <3>2 DEF BlocksAreTaken
    <3>4. i \in Positions
      BY <1>3 DEF Positions
    <3>5. i < i
      BY <2>1, <3>3, <3>4 DEF BlocksInOrder
    <3> QED
      BY <3>4, <3>5 DEF Positions
  <2>2. ASSUME NEW h \in DOMAIN blocks, NEW g \in DOMAIN blocks, h # g
        PROVE  blocks[h].txs \cap blocks[g].txs = {}
    <3>1. \/ blocks[h].height < blocks[g].height
          \/ blocks[g].height < blocks[h].height
      BY <1>1, <2>2 DEF IInv, ChainIntact, TypeOK, Block
    <3> QED
      BY <2>1, <3>1
  <2>3. ASSUME NEW t \in (Elems(queue) \cup InFlight) \cap StoredTxs
        PROVE  FALSE
    <3>1. CASE t \in Elems(queue) \cup Elems(candidateTxs)
      <4>1. t \in Tx /\ \E i \in Positions : Taken < i /\ t = accepted[i]
        <5>1. CASE t \in Elems(candidateTxs)
          BY <1>5, <5>1
        <5>2. CASE t \in Elems(queue)
          <6>1. t \in Tx
            BY <1>6, <5>2
          <6>2. PICK i \in Positions : /\ Taken + Len(candidateTxs) < i
                                       /\ t = accepted[i]
            BY <1>6, <5>2
          <6>3. Taken < i
            BY <1>3, <1>7, <6>2
          <6> QED
            BY <6>1, <6>2, <6>3
        <5> QED
          BY <3>1, <5>1, <5>2
      <4>2. PICK i \in Positions : Taken < i /\ t = accepted[i]
        BY <4>1
      <4>3. PICK j \in Positions : j <= Taken /\ t = accepted[j]
        BY <1>4, <2>3, <4>1
      <4>4. i = j
        BY <1>7, <4>2, <4>3
      <4> QED
        BY <1>3, <1>7, <4>2, <4>3, <4>4
    <3>2. CASE t \in InBlock
      <4>1. t # CoinbaseTx
        BY <3>2 DEF BlocksAreTaken
      <4>2. PICK i \in 1..Taken : t = accepted[i]
        BY <3>2, <4>1 DEF BlocksAreTaken
      <4>3. i \in Positions
        BY <1>3 DEF Positions
      <4>4. i < i
        BY <2>3, <3>2, <4>2, <4>3 DEF BlocksInOrder
      <4> QED
        BY <4>3, <4>4 DEF Positions
    <3> QED
      BY <1>2, <2>3, <3>1, <3>2
  <2>4. ASSUME NEW t \in Elems(queue) \cap InFlight
        PROVE  FALSE
    <3>1. t \in Tx /\ \E i \in Positions : /\ Taken + Len(candidateTxs) < i
                                           /\ t = accepted[i]
      BY <1>6
    <3>2. \E i \in Positions : /\ i <= Taken + Len(candidateTxs)
                               /\ t = accepted[i]
      <4>1. CASE t \in Elems(candidateTxs)
        BY <1>5, <4>1
      <4>2. CASE t \in InBlock
        <5>1. PICK i \in Positions : i <= Taken /\ t = accepted[i]
          BY <1>4, <3>1, <4>2
        <5>2. i <= Taken + Len(candidateTxs)
          BY <1>3, <5>1 DEF Positions
        <5> QED
          BY <5>1, <5>2
      <4> QED
        BY <1>2, <2>4, <4>1, <4>2
    <3>3. PICK i \in Positions : /\ Taken + Len(candidateTxs) < i
                                 /\ t = accepted[i]
      BY <3>1
    <3>4. PICK j \in Positions : /\ j <= Taken + Len(candidateTxs)
                                 /\ t = accepted[j]
      BY <3>2
    <3>5. i = j
      BY <1>7, <3>3, <3>4
    <3> QED
      BY <1>3, <1>7, <3>3, <3>4, <3>5
  <2> QED
    BY <2>2, <2>3, <2>4 DEF NoDocumentTwice
<1>10. InclusionOrder
  <2> SUFFICES ASSUME NEW i \in Positions, NEW j \in Positions, i < j,
                      NEW h \in DOMAIN blocks, accepted[j] \in blocks[h].txs
               PROVE  \/ \E g \in DOMAIN blocks :
                            /\ accepted[i] \in blocks[g].txs
                            /\ blocks[g].height <= blocks[h].height
                      \/ /\ crashes + diskErrors > 0
                         /\ accepted[i] \notin StoredTxs
    BY <1>7 DEF InclusionOrder
  <2>1. CASE accepted[i] \in StoredTxs
    <3>1. PICK g \in DOMAIN blocks : accepted[i] \in blocks[g].txs
      BY <2>1 DEF StoredTxs
    <3>2. ~(blocks[h].height < blocks[g].height)
      BY <3>1 DEF BlocksInOrder, Positions
    <3>3. blocks[h].height \in Nat /\ blocks[g].height \in Nat
      BY <1>1 DEF TypeOK, Block
    <3> QED
      BY <3>1, <3>2, <3>3
  <2>2. CASE accepted[i] \notin StoredTxs
    <3>1. accepted[j] \in StoredTxs /\ accepted[j] \in Tx
      BY <1>1, Lengths DEF StoredTxs
    <3>2. i \in 1..Taken
      <4>1. PICK k \in Positions : k <= Taken /\ accepted[j] = accepted[k]
        BY <1>4, <3>1
      <4>2. j = k
        BY <4>1 DEF AcceptedOnce
      <4> QED
        BY <1>3, <4>1, <4>2 DEF Positions
    <3>3. accepted[i] \notin InBlock
      BY <3>1 DEF BlocksInOrder, Positions
    <3>4. ~(crashes = 0 /\ diskErrors = 0)
      BY <2>2, <3>2, <3>3 DEF TakenIsStored
    <3> QED
      BY <1>1, <2>2, <3>4, ConstantsAssumption DEF TypeOK
  <2> QED
    BY <2>1, <2>2
<1>11. TotalMatches
  BY DEF TotalIsRight, TotalMatches
<1> QED
  BY <1>8, <1>9, <1>10, <1>11 DEF DocumentsAccounted

\* Every accepted document is in one place, once and in order, until a fault
\* loses it; the total on disk counts the stored ones.
THEOREM DocumentsInOnePlace == Spec => []DocumentsAccounted
<1>1. IInv /\ DInv => DocumentsAccounted
  BY AccountsFollow
<1> QED
  BY Invariance, DocumentsInvariance, <1>1, PTL

-----------------------------------------------------------------------------

LEMMA StepIndex ==
    ASSUME IInv, IndexInv, [Next]_vars
    PROVE  IndexInv'
<1>1. CASE Commit
  <2>1. StoredTxs' = StoredTxs \cup newBlock.block.txs
    <3>1. newBlock.hash \notin DOMAIN blocks
      BY <1>1 DEF IInv, NextBlockExtends, Commit
    <3>2. /\ DOMAIN blocks' = DOMAIN blocks \cup {newBlock.hash}
          /\ blocks'[newBlock.hash] = newBlock.block
          /\ \A h \in DOMAIN blocks : blocks'[h] = blocks[h]
      BY <1>1, <3>1 DEF Commit
    <3> QED
      BY <3>2 DEF StoredTxs
  <2>2. /\ pc = "commit" /\ pc' = "setTip"
        /\ UNCHANGED <<newBlock, indexed, crashes, diskErrors>>
    BY <1>1 DEF Commit, memory, batch, history
  <2> QED
    BY <2>1, <2>2 DEF IndexInv
<1>2. CASE CommitFails
  <2>1. /\ pc = "commit" /\ UNCHANGED <<newBlock, indexed, crashes>>
        /\ StoredTxs' = StoredTxs /\ diskErrors' # 0
    BY <1>2 DEF CommitFails, memory, batch, disk, StoredTxs, IInv, TypeOK
  <2> QED
    BY <2>1 DEF IndexInv
<1>3. CASE Crash
  <2>1. /\ UNCHANGED <<indexed, diskErrors>> /\ pc' = "down"
        /\ StoredTxs' = StoredTxs /\ crashes' # 0
    BY <1>3 DEF Crash, disk, StoredTxs, IInv, TypeOK
  <2> QED
    BY <2>1 DEF IndexInv
<1>4. CASE IndexBlock
  <2>1. /\ pc = "index" /\ pc' = "broadcast"
        /\ indexed' = indexed \cup newBlock.block.txs
        /\ UNCHANGED <<crashes, diskErrors>> /\ StoredTxs' = StoredTxs
    BY <1>4 DEF IndexBlock, history, StoredTxs
  <2> QED
    BY <2>1 DEF IndexInv
<1>5. CASE ~(Commit \/ CommitFails \/ Crash \/ IndexBlock)
  <2>1. /\ UNCHANGED <<blocks, indexed, crashes, diskErrors>>
        /\ \/ pc' \notin {"setTip", "index"} /\ pc \notin {"setTip", "index"}
           \/ /\ newBlock' = newBlock
              /\ pc' \in {"setTip", "index"} /\ pc \in {"setTip", "index"}
    BY <1>5 DEF Next, Monitor, Put, Tick, LoopTest, Pop, BuildBlock, ReadTotal,
                SetTip, Broadcast, ReusePage, Restart, vars, memory, batch,
                disk, history, Up
  <2>2. StoredTxs' = StoredTxs
    BY <2>1 DEF StoredTxs
  <2> QED
    BY <2>1, <2>2 DEF IndexInv
<1> QED
  BY <1>1, <1>2, <1>3, <1>4, <1>5

\* Between two ticks the index holds the documents of the chain until the
\* node crashes, and no others until a commit fails.
THEOREM IndexIsRight == Spec => []IndexFollowsChain
<1>1. Init => IndexInv
  <2> SUFFICES ASSUME Init PROVE IndexInv
    OBVIOUS
  <2>1. blocks[GenesisHash] = GenesisBlock /\ DOMAIN blocks = {GenesisHash}
    BY DEF Init
  <2>2. StoredTxs = {CoinbaseTx}
    BY <2>1 DEF StoredTxs, GenesisBlock
  <2> QED
    BY <2>2 DEF Init, IndexInv
<1>2. IInv /\ IndexInv /\ [Next]_vars => IndexInv'
  BY StepIndex
<1>3. IndexInv => IndexFollowsChain
  BY DEF IndexInv, IndexFollowsChain, IndexedWhenIdle, IndexedAreStored
<1> QED
  BY Invariance, <1>1, <1>2, <1>3, PTL DEF Spec

=============================================================================
