--------------------------- MODULE PeerCopyProofs ---------------------------
(***************************************************************************)
(* Theorems about PeerCopy for any number of goroutines and blocks.        *)
(*                                                                         *)
(* SyncComplete follows from IInv: what a sync has left behind itself is   *)
(* covered, that is stored, refused or being stored, at every point of its *)
(* walk.  Between crashes Covered only grows, although AddBlock takes no   *)
(* lock, and TipStored makes the shortcut "tip is already up-to-date" safe.*)
(***************************************************************************)
EXTENDS PeerCopy, TLAPS

Covered == stored \cup Refused \cup Pending

\* The steps of AddBlock, and those past its tests.
PastTests == {"open", "create", "register", "setTip", "readTotal", "commit",
              "index"}
Adding == PastTests \cup {"check"}

\* Past the tests of AddBlock a goroutine has a block that is not refused.
CallOK ==
    \A g \in Goroutine :
        /\ pc[g] \in PastTests => blk[g] \in Height \ Refused
        /\ pc[g] = "index" /\ diskErrors = 0 => blk[g] \in stored

\* A sync began with a block of the chain, and asks for one of the chain.
RequestOK ==
    \A g \in Syncer :
        /\ pc[g] \in Adding \cup {"walk", "request"} => from[g] \in Height
        /\ pc[g] = "request" => cursor[g] \in Height

\* Everything above the block a sync is at is covered.
WalkOK ==
    diskErrors = 0 =>
        \A g \in Syncer :
            /\ pc[g] \in {"walk", "request"} =>
                  (cursor[g] + 1)..from[g] \subseteq Covered
            /\ pc[g] \in Adding /\ blk[g] # NoBlock =>
                  (blk[g] + 1)..from[g] \subseteq Covered

\* An empty BlockP2P comes from an owner whose commit failed.
EmptyIsOwners ==
    /\ tipLost \/ NoBlock \in wire => ownerErrors > 0
    /\ \A g \in Goroutine :
          pc[g] = "check" /\ blk[g] = NoBlock => ownerErrors > 0

\* A process that is down runs nothing.
DownIsIdle == ~Up => \A g \in Goroutine : pc[g] = "idle"

IInv ==
    /\ TypeOK
    /\ CallOK /\ RequestOK /\ WalkOK /\ EmptyIsOwners /\ DownIsIdle
    /\ SyncComplete /\ TipStored /\ RefusedKeptOut

-----------------------------------------------------------------------------

\* A counter below its bound may be incremented.
LEMMA Increment ==
    ASSUME NEW bound \in Nat, NEW n \in 0..bound, n < bound
    PROVE  n + 1 \in 0..bound
  OBVIOUS

LEMMA InitIInv == Init => IInv
<1> SUFFICES ASSUME Init PROVE IInv
  OBVIOUS
<1> USE ConstantsAssumption DEF Init, NoBlock, Overwritten, Height
<1>1. stored \subseteq {0} /\ (stored = {0} => file = "ready")
  OBVIOUS
<1>2. TypeOK
  <2>1. /\ ownerTip \in Height /\ lastHash \in Height \cup {NoBlock}
        /\ stored \subseteq Height
    BY <1>1
  <2>2. /\ pc \in [Goroutine -> {"new", "idle"}]
        /\ tipLost \in BOOLEAN /\ wire = {}
    BY DEF Syncer, Goroutine
  <2>3. /\ known \in BOOLEAN /\ tipIsPage \in BOOLEAN /\ locked \in BOOLEAN
    OBVIOUS
  <2> QED
    BY <2>1, <2>2, <2>3 DEF TypeOK, Syncer
<1>3. CallOK /\ RequestOK /\ WalkOK /\ EmptyIsOwners /\ DownIsIdle
  BY DEF CallOK, RequestOK, WalkOK, EmptyIsOwners, DownIsIdle, PastTests,
         Adding, Syncer, Goroutine, Up
<1>4. SyncComplete /\ TipStored /\ RefusedKeptOut
  BY <1>1 DEF SyncComplete, TipStored, RefusedKeptOut
<1> QED
  BY <1>2, <1>3, <1>4 DEF IInv

\* A crash or a panic: the process ends, and only the disk is left.
Reasons == {"crashed", "noTransactions", "bucketExists", "noBucket"}
Ended == crashes' \in 0..MaxCrashes /\ \E why \in Reasons : Ends(why)

\* Nothing is claimed of a process that is gone but what its disk holds.
LEMMA EndedIInv ==
    ASSUME IInv, Ended
    PROVE  IInv'
<1> USE DEF disk
<1>1. PICK why \in Reasons : Ends(why)
  BY DEF Ended
<1>2. /\ status' = why /\ why # "up"
      /\ \A g \in Goroutine : pc'[g] = "idle"
      /\ wire' = {} /\ synced' = {} /\ tip' = NoBlock
      /\ UNCHANGED <<tipLost, stored, indexed, lastHash, ownerErrors>>
  BY <1>1 DEF Ends, Reasons
<1>3. TypeOK'
  BY <1>1 DEF Ended, Ends, Reasons, IInv, TypeOK
<1>4. CallOK' /\ RequestOK' /\ WalkOK' /\ DownIsIdle'
  BY <1>2 DEF CallOK, RequestOK, WalkOK, DownIsIdle, PastTests, Adding, Syncer,
              Goroutine
<1>5. EmptyIsOwners'
  BY <1>2 DEF IInv, EmptyIsOwners
<1>6. SyncComplete' /\ TipStored'
  BY <1>2 DEF IInv, SyncComplete, TipStored
<1>7. RefusedKeptOut'
  BY <1>2, ConstantsAssumption DEF IInv, RefusedKeptOut, NoBlock, Height
<1> QED
  BY <1>3, <1>4, <1>5, <1>6, <1>7 DEF IInv

\* Every crash and every panic ends the process so.
LEMMA WhatEnds ==
    ASSUME TypeOK
    PROVE  /\ Crash => Ended
           /\ \A why \in Reasons : Panic(why) => Ended
           /\ \A g \in Goroutine : CheckEmpty(g) => Ended
<1>1. Crash => Ended
  BY ConstantsAssumption, Increment DEF Crash, Ended, Reasons, TypeOK
<1>2. \A why \in Reasons : Panic(why) => Ended
  BY DEF Panic, Ended, TypeOK
<1> QED
  BY <1>1, <1>2 DEF CheckEmpty, Reasons

\* The types of the state, one step per action.
LEMMA StepTypeOK == IInv /\ [Next]_vars => TypeOK'
<1> SUFFICES ASSUME IInv, [Next]_vars, ~Ended PROVE TypeOK'
  BY EndedIInv DEF IInv
<1>e. /\ ~Crash /\ ~Panic("bucketExists") /\ ~Panic("noBucket")
      /\ \A g \in Goroutine : ~CheckEmpty(g)
  BY WhatEnds DEF IInv, Reasons
<1> USE ConstantsAssumption
    DEF TypeOK, At, Up, Go, NoBlock, Overwritten, Height,
        call, walk, entry, disk, owner, counts, vars
<1>1. /\ TypeOK
      /\ \A g \in Goroutine : pc[g] \in PastTests => blk[g] \in Height
      /\ RequestOK
  BY DEF IInv, CallOK
<1>2. \A g \in Syncer : g \in Goroutine
  BY DEF Goroutine
<1>3. CASE Produce
  <2>1. ownerTip' \in Height /\ wire' \subseteq Height \cup {NoBlock}
    BY <1>1, <1>3 DEF Produce
  <2>2. /\ tipLost' \in BOOLEAN
        /\ UNCHANGED <<status, pc, call, walk, entry, locked, disk, counts>>
    BY <1>3 DEF Produce
  <2> QED
    BY <1>1, <2>1, <2>2
<1>4. CASE Lose \/ OwnerRestarts
  <2>1. wire' \subseteq Height \cup {NoBlock} /\ tipLost' \in BOOLEAN
    BY <1>1, <1>4 DEF Lose, OwnerRestarts
  <2>2. UNCHANGED <<ownerTip, status, pc, call, walk, entry, locked, disk,
                    counts>>
    BY <1>4 DEF Lose, OwnerRestarts
  <2> QED
    BY <1>1, <2>1, <2>2
<1>5. CASE StartSync
  BY <1>1, <1>5 DEF StartSync
<1>6. CASE ProduceFails
  <2>1. ownerErrors' \in 0..MaxOwnerErrors
    BY <1>1, <1>6, Increment DEF ProduceFails
  <2>2. wire' \subseteq Height \cup {NoBlock} /\ tipLost' \in BOOLEAN
    BY <1>1, <1>6 DEF ProduceFails
  <2>3. UNCHANGED <<ownerTip, status, pc, call, walk, entry, locked, disk,
                    syncs, crashes, diskErrors>>
    BY <1>6 DEF ProduceFails
  <2> QED
    BY <1>1, <2>1, <2>2, <2>3
<1>7. CASE Restart
  <2>1. /\ status' = "up" /\ pc' = [pc EXCEPT ![Startup] = "new"]
        /\ known' = (file = "ready") /\ locked' = known' /\ tipIsPage' = known'
        /\ tip' = lastHash
        /\ UNCHANGED <<owner, call, walk, disk, counts>>
    BY <1>7, <1>e DEF Restart
  <2>2. known' \in BOOLEAN /\ locked' \in BOOLEAN /\ tipIsPage' \in BOOLEAN
    BY <2>1
  <2>3. tip' \in Height \cup {NoBlock, Overwritten}
    BY <1>1, <2>1
  <2>4. pc' \in [Goroutine -> {"new", "idle", "requestTip", "request",
                              "walk", "check", "open", "create", "register",
                              "setTip", "readTotal", "commit", "index"}]
    BY <1>1, <2>1
  <2> QED
    BY <1>1, <2>1, <2>2, <2>3, <2>4
<1>8. ASSUME NEW g \in Handler, NEW b \in Height \cup {NoBlock}, Deliver(g, b)
      PROVE  TypeOK'
  BY <1>1, <1>8 DEF Deliver
<1>9. ASSUME NEW g \in Reverse, ReverseSync(g) PROVE TypeOK'
  <2>1. syncs' \in 0..MaxSyncs
    BY <1>1, <1>9, Increment DEF ReverseSync
  <2> QED
    BY <1>1, <1>9, <2>1 DEF ReverseSync
<1>10. ASSUME NEW g \in Syncer, SyncStep(g) PROVE TypeOK'
  <2>1. CASE AnswerTip(g)
    BY <1>1, <2>1 DEF AnswerTip
  <2>2. CASE AnswerBlock(g)
    BY <1>1, <2>2 DEF AnswerBlock
  <2>3. CASE Walk(g)
    <3>1. cursor[g] \in Height
      BY <1>1, <1>10, <2>3 DEF Walk
    <3>2. cursor[g] - 1 \in Height \cup {NoBlock}
      BY <3>1
    <3> QED
      BY <1>1, <2>3, <3>2 DEF Walk
  <2>4. CASE FinishSync(g)
    <3>1. from[g] \in Height
      BY <1>1, <1>10, <2>4 DEF FinishSync, RequestOK
    <3> QED
      BY <1>1, <2>4, <3>1 DEF FinishSync
  <2> QED
    BY <1>10, <2>1, <2>2, <2>3, <2>4 DEF SyncStep
<1>11. ASSUME NEW g \in Goroutine, AddBlock(g) PROVE TypeOK'
  <2>1. ASSUME Return(g), blk[g] \in Height
        PROVE  /\ pc' \in [Goroutine -> {"new", "idle", "requestTip", "request",
                             "walk", "check", "open", "create", "register",
                             "setTip", "readTotal", "commit", "index"}]
               /\ cursor' \in [Syncer -> Height \cup {NoBlock}]
               /\ blk' \in [Goroutine -> Height \cup {NoBlock}]
               /\ isTip' \in [Goroutine -> BOOLEAN]
    <3>1. blk[g] - 1 \in Height \cup {NoBlock}
      BY <2>1
    <3> QED
      BY <1>1, <2>1, <3>1 DEF Return
  <2>2. CASE Check(g)
    <3>1. blk[g] \in Height
      BY <1>1, <1>11, <2>2 DEF Check
    <3> QED
      BY <1>1, <2>1, <2>2, <3>1 DEF Check, FirstStep
  <2>3. CASE Open(g)
    BY <1>1, <2>3 DEF Open
  <2>4. CASE Create(g)
    BY <1>1, <1>e, <2>4 DEF Create
  <2>5. CASE Register(g)
    BY <1>1, <2>5 DEF Register, FirstStep, PastTests
  <2>6. CASE SetTip(g)
    BY <1>1, <2>6 DEF SetTip, PastTests
  <2>7. CASE ReadTotal(g)
    BY <1>1, <1>e, <2>7 DEF ReadTotal
  <2>8. CASE Commit(g)
    <3>1. blk[g] \in Height
      BY <1>1, <1>11, <2>8 DEF Commit, PastTests
    <3>2. stored' \subseteq Height /\ lastHash' \in Height \cup {NoBlock}
      BY <1>1, <2>8, <3>1 DEF Commit
    <3>3. tip' \in Height \cup {NoBlock, Overwritten}
      BY <1>1, <2>8 DEF Commit
    <3>4. /\ pc' = [pc EXCEPT ![g] = "index"]
          /\ UNCHANGED <<owner, status, call, walk, known, tipIsPage, locked,
                         file, indexed, counts>>
      BY <2>8 DEF Commit
    <3> QED
      BY <1>1, <3>2, <3>3, <3>4
  <2>9. CASE CommitFails(g)
    <3>1. diskErrors' \in 0..MaxDiskErrors
      BY <1>1, <2>9, Increment DEF CommitFails
    <3> QED
      BY <1>1, <2>9, <3>1 DEF CommitFails
  <2>10. CASE Index(g)
    <3>1. blk[g] \in Height
      BY <1>1, <1>11, <2>10 DEF Index, PastTests
    <3> QED
      BY <1>1, <2>1, <2>10, <3>1 DEF Index
  <2>11. CASE CreateFails(g)
    <3>1. diskErrors' \in 0..MaxDiskErrors
      BY <1>1, <2>11, Increment DEF CreateFails
    <3> QED
      BY <1>1, <2>11, <3>1 DEF CreateFails
  <2> QED
    BY <1>11, <1>e, <2>2, <2>3, <2>4, <2>5, <2>6, <2>7, <2>8, <2>9, <2>10,
       <2>11
       DEF AddBlock
<1>12. CASE UNCHANGED vars
  BY <1>1, <1>12
<1> QED
  BY <1>e, <1>3, <1>4, <1>5, <1>6, <1>7, <1>8, <1>9, <1>10, <1>11, <1>12
     DEF Next

\* Between crashes, what is covered stays covered.
LEMMA CoveredGrows ==
    ASSUME IInv, [Next]_vars, ~Ended, diskErrors' = 0
    PROVE  diskErrors = 0 /\ Covered \subseteq Covered'
<1>e. /\ ~Crash /\ ~Panic("bucketExists") /\ ~Panic("noBucket")
      /\ \A g \in Goroutine : ~CheckEmpty(g)
  BY WhatEnds DEF IInv, Reasons
<1> USE DEF At, Up, Go, call, walk, entry, disk, owner, counts, vars
<1> DEFINE Busy == {"setTip", "readTotal", "commit"}
<1>1. /\ TypeOK /\ DownIsIdle
      /\ pc \in [Goroutine -> {"new", "idle", "requestTip", "request", "walk",
                               "check", "open", "create", "register",
                               "setTip", "readTotal", "commit", "index"}]
      /\ DOMAIN blk = Goroutine /\ diskErrors \in Nat
  BY DEF IInv, TypeOK
\* It is enough that no block leaves Pending without being stored.
<1>2. ASSUME stored \subseteq stored', diskErrors = 0,
             \A x \in Goroutine : pc[x] \in Busy =>
                 \/ pc'[x] \in Busy /\ blk'[x] = blk[x]
                 \/ blk[x] \in stored'
      PROVE  diskErrors = 0 /\ Covered \subseteq Covered'
  BY <1>2 DEF Covered, Pending
<1> DEFINE Goal == diskErrors = 0 /\ Covered \subseteq Covered'
<1> HIDE DEF Goal
<1>3. CASE UNCHANGED <<pc, blk, stored, diskErrors>>
  BY <1>2, <1>3 DEF Goal
<1>4. CASE Restart
  BY <1>1, <1>2, <1>4, <1>e DEF Restart, DownIsIdle, Goal
<1>5. CASE StartSync
  BY <1>1, <1>2, <1>5 DEF StartSync, Goal
<1>6. ASSUME NEW g \in Handler, NEW b \in Height \cup {NoBlock}, Deliver(g, b)
      PROVE  Goal
  BY <1>1, <1>2, <1>6 DEF Deliver, Goal, Goroutine
<1>7. ASSUME NEW g \in Reverse, ReverseSync(g) PROVE Goal
  BY <1>1, <1>2, <1>7 DEF ReverseSync, Goal, Goroutine, Syncer
<1>8. ASSUME NEW g \in Syncer, SyncStep(g) PROVE Goal
  BY <1>1, <1>2, <1>8
     DEF SyncStep, AnswerTip, AnswerBlock, Walk, FinishSync, Goal, Goroutine
<1>9. ASSUME NEW g \in Goroutine, AddBlock(g) PROVE Goal
  <2>1. CASE Check(g)
    BY <1>1, <1>2, <1>9, <2>1 DEF Check, Return, FirstStep, Goal
  <2>2. CASE Open(g) \/ Create(g) \/ Register(g)
    BY <1>1, <1>2, <1>9, <1>e, <2>2 DEF Open, Create, Register, FirstStep, Goal
  <2>3. CASE SetTip(g) \/ ReadTotal(g)
    BY <1>1, <1>2, <1>9, <1>e, <2>3 DEF SetTip, ReadTotal, Goal
  <2>4. CASE Commit(g)
    BY <1>1, <1>2, <1>9, <2>4 DEF Commit, Goal
  <2>5. CASE CommitFails(g) \/ CreateFails(g)
    BY <1>1, <2>5 DEF CommitFails, CreateFails
  <2>6. CASE Index(g)
    BY <1>1, <1>2, <1>9, <2>6 DEF Index, Return, Goal
  <2> QED
    BY <1>9, <1>e, <2>1, <2>2, <2>3, <2>4, <2>5, <2>6 DEF AddBlock
<1>10. Produce \/ ProduceFails \/ OwnerRestarts \/ Lose =>
         UNCHANGED <<pc, blk, stored, diskErrors>>
  BY DEF Produce, ProduceFails, OwnerRestarts, Lose
<1> QED
  BY <1>e, <1>3, <1>4, <1>5, <1>6, <1>7, <1>8, <1>9, <1>10 DEF Next, Goal

\* What holds of the goroutines inside AddBlock, and of the requests.
LEMMA StepCallOK ==
    IInv /\ [Next]_vars =>
        (CallOK /\ RequestOK /\ EmptyIsOwners /\ DownIsIdle)'
<1> DEFINE I == CallOK /\ RequestOK /\ EmptyIsOwners /\ DownIsIdle
<1> SUFFICES ASSUME IInv, [Next]_vars, ~Ended PROVE I'
  BY EndedIInv DEF IInv
<1>e. /\ ~Crash /\ ~Panic("bucketExists") /\ ~Panic("noBucket")
      /\ \A g \in Goroutine : ~CheckEmpty(g)
  BY WhatEnds DEF IInv, Reasons
<1> USE DEF CallOK, RequestOK, EmptyIsOwners, DownIsIdle, PastTests, Adding,
            At, Up, Go, call, walk, entry, disk, owner, counts, vars
<1>1. /\ TypeOK /\ I
      /\ pc \in [Goroutine -> {"new", "idle", "requestTip", "request", "walk",
                               "check", "open", "create", "register",
                               "setTip", "readTotal", "commit", "index"}]
      /\ blk \in [Goroutine -> Height \cup {NoBlock}]
      /\ cursor \in [Syncer -> Height \cup {NoBlock}]
      /\ from \in [Syncer -> Height \cup {NoBlock}]
      /\ ownerTip \in Height /\ diskErrors \in Nat /\ ownerErrors \in Nat
      /\ NoBlock \notin Height
  BY DEF IInv, TypeOK, Height, NoBlock
<1>2. \A g \in Syncer : g \in Goroutine /\ g \notin Handler
  BY ConstantsAssumption DEF Goroutine
<1>3. Startup \in Syncer /\ Reverse \subseteq Syncer
      /\ Handler \subseteq Goroutine
  BY DEF Goroutine, Syncer
<1>4. CASE Produce \/ Lose
  <2>1. ownerTip + 1 # NoBlock
    BY <1>1 DEF Height, NoBlock
  <2> QED
    BY <1>1, <1>4, <2>1 DEF Produce, Lose
<1>5. CASE StartSync
  BY <1>1, <1>2, <1>3, <1>5 DEF StartSync
<1>6. CASE ProduceFails \/ OwnerRestarts
  BY <1>1, <1>6 DEF ProduceFails, OwnerRestarts
<1>7. CASE Restart
  BY <1>1, <1>2, <1>3, <1>7, <1>e DEF Restart
<1>8. ASSUME NEW g \in Handler, NEW b \in Height \cup {NoBlock}, Deliver(g, b)
      PROVE  I'
  BY <1>1, <1>2, <1>3, <1>8 DEF Deliver
<1>9. ASSUME NEW g \in Reverse, ReverseSync(g) PROVE I'
  BY <1>1, <1>2, <1>3, <1>9 DEF ReverseSync
<1>10. ASSUME NEW g \in Syncer, SyncStep(g) PROVE I'
  <2>1. CASE AnswerTip(g)
    BY <1>1, <1>2, <2>1 DEF AnswerTip
  <2>2. CASE AnswerBlock(g)
    BY <1>1, <1>2, <2>2 DEF AnswerBlock
  <2>3. CASE Walk(g)
    <3>1. cursor[g] \in Height
      BY <1>1, <1>10, <2>3 DEF Walk
    <3> QED
      BY <1>1, <1>2, <2>3, <3>1 DEF Walk
  <2>4. CASE FinishSync(g)
    BY <1>1, <1>2, <2>4 DEF FinishSync
  <2> QED
    BY <1>10, <2>1, <2>2, <2>3, <2>4 DEF SyncStep
<1>11. ASSUME NEW g \in Goroutine, AddBlock(g) PROVE I'
  <2>1. CASE Check(g)
    BY <1>1, <1>2, <1>11, <2>1 DEF Check, Return, FirstStep, IsRefused
  <2>2. CASE Open(g)
    BY <1>1, <1>2, <1>11, <2>2 DEF Open
  <2>3. CASE Create(g)
    BY <1>1, <1>2, <1>11, <1>e, <2>3 DEF Create
  <2>4. CASE Register(g)
    BY <1>1, <1>2, <1>11, <2>4 DEF Register, FirstStep
  <2>5. CASE SetTip(g)
    BY <1>1, <1>2, <1>11, <2>5 DEF SetTip
  <2>6. CASE ReadTotal(g)
    BY <1>1, <1>2, <1>11, <1>e, <2>6 DEF ReadTotal
  <2>7. CASE Commit(g)
    BY <1>1, <1>2, <1>11, <2>7 DEF Commit
  <2>8. CASE CommitFails(g)
    BY <1>1, <1>2, <1>11, <2>8 DEF CommitFails
  <2>9. CASE Index(g)
    BY <1>1, <1>2, <1>11, <2>9 DEF Index, Return
  <2>10. CASE CreateFails(g)
    BY <1>1, <1>2, <1>11, <2>10 DEF CreateFails
  <2> QED
    BY <1>11, <1>e, <2>1, <2>2, <2>3, <2>4, <2>5, <2>6, <2>7, <2>8, <2>9, <2>10
       DEF AddBlock
<1>12. CASE UNCHANGED vars
  BY <1>1, <1>12
<1> QED
  BY <1>e, <1>4, <1>5, <1>6, <1>7, <1>8, <1>9, <1>10, <1>11, <1>12 DEF Next

\* The interval above a block below the one reached, and that block.
LEMMA OneLower ==
    ASSUME NEW c \in Int, NEW t \in Int, NEW S,
           (c + 1)..t \subseteq S, c \in S
    PROVE  ((c - 1) + 1)..t \subseteq S
<1> SUFFICES ASSUME NEW n \in ((c - 1) + 1)..t PROVE n \in S
  OBVIOUS
<1>1. CASE n = c
  BY <1>1
<1>2. CASE n # c
  BY <1>2
<1> QED
  BY <1>1, <1>2

\* What a sync has passed stays covered, and it passes only covered blocks.
LEMMA StepWalkOK == IInv /\ [Next]_vars => (WalkOK /\ SyncComplete)'
<1> SUFFICES ASSUME IInv, [Next]_vars, diskErrors' = 0
             PROVE  /\ \A g \in Syncer :
                          /\ pc'[g] \in {"walk", "request"} =>
                                (cursor'[g] + 1)..from'[g] \subseteq Covered'
                          /\ pc'[g] \in Adding /\ blk'[g] # NoBlock =>
                                (blk'[g] + 1)..from'[g] \subseteq Covered'
                    /\ \A s \in synced' : 0..s \subseteq Covered'
  BY DEF WalkOK, SyncComplete, Covered
<1> USE DEF At, Up, Go, call, walk, entry, disk, owner, counts, vars
<1>1. CASE Ended
  BY <1>1, EndedIInv DEF IInv, WalkOK, SyncComplete, Covered
<1>2. CASE ~Ended
  <2>e. /\ ~Crash /\ ~Panic("bucketExists") /\ ~Panic("noBucket")
        /\ \A g \in Goroutine : ~CheckEmpty(g)
    BY <1>2, WhatEnds DEF IInv, Reasons
  <2>1. diskErrors = 0 /\ Covered \subseteq Covered'
    BY <1>2, CoveredGrows
  <2>2. /\ pc \in [Goroutine -> {"new", "idle", "requestTip", "request",
                             "walk", "check", "open", "create", "register",
                             "setTip", "readTotal", "commit", "index"}]
        /\ blk \in [Goroutine -> Height \cup {NoBlock}]
        /\ cursor \in [Syncer -> Height \cup {NoBlock}]
        /\ from \in [Syncer -> Height \cup {NoBlock}]
        /\ ownerTip \in Height
    BY DEF IInv, TypeOK
  <2>3. \A g \in Syncer :
           /\ pc[g] \in {"walk", "request"} =>
                 (cursor[g] + 1)..from[g] \subseteq Covered
           /\ pc[g] \in Adding /\ blk[g] # NoBlock =>
                 (blk[g] + 1)..from[g] \subseteq Covered
    BY <2>1 DEF IInv, WalkOK
  <2>4. \A s \in synced : 0..s \subseteq Covered
    BY <2>1 DEF IInv, SyncComplete, Covered
  <2>5. \A g \in Syncer : g \in Goroutine /\ g \notin Handler
    BY ConstantsAssumption DEF Goroutine
  <2>6. \A g \in Syncer : pc[g] \in Adding \cup {"walk", "request"} =>
                             from[g] \in Height
    BY DEF IInv, RequestOK
  <2>7. \A g \in Goroutine : pc[g] \in PastTests => blk[g] \in Height
    BY DEF IInv, CallOK
  <2> DEFINE WalkIs(g) == /\ pc[g] \in {"walk", "request"} =>
                                (cursor[g] + 1)..from[g] \subseteq Covered
                          /\ pc[g] \in Adding /\ blk[g] # NoBlock =>
                                (blk[g] + 1)..from[g] \subseteq Covered
             SyncIs == \A s \in synced : 0..s \subseteq Covered
  <2>8. ASSUME NEW g \in Syncer,
               UNCHANGED <<pc[g], blk[g], cursor[g], from[g]>>
        PROVE  WalkIs(g)'
    BY <2>1, <2>3, <2>8
  <2>9. UNCHANGED synced => SyncIs'
    BY <2>1, <2>4
  <2> HIDE DEF WalkIs, SyncIs
  <2> SUFFICES (\A g \in Syncer : WalkIs(g)') /\ SyncIs'
    BY DEF WalkIs, SyncIs
  <2>10. CASE UNCHANGED <<pc, blk, walk>>
    BY <2>8, <2>9, <2>10
  <2>11. CASE StartSync
    BY <2>2, <2>5, <2>8, <2>9, <2>11
       DEF StartSync, WalkIs, Adding, PastTests, Syncer
  <2>12. CASE Restart
    BY <2>2, <2>5, <2>8, <2>9, <2>12, <2>e
       DEF Restart, WalkIs, Adding, PastTests, Syncer
  <2>13. ASSUME NEW h \in Handler, NEW b \in Height \cup {NoBlock},
                Deliver(h, b)
         PROVE  (\A g \in Syncer : WalkIs(g)') /\ SyncIs'
    BY <2>2, <2>5, <2>8, <2>9, <2>13 DEF Deliver
  <2>14. ASSUME NEW h \in Reverse, ReverseSync(h)
         PROVE  (\A g \in Syncer : WalkIs(g)') /\ SyncIs'
    BY <2>2, <2>5, <2>8, <2>9, <2>14
       DEF ReverseSync, WalkIs, Adding, PastTests
  <2>15. ASSUME NEW h \in Syncer, SyncStep(h)
         PROVE  (\A g \in Syncer : WalkIs(g)') /\ SyncIs'
    <3>1. CASE AnswerTip(h)
      <4>1. (ownerTip + 1)..ownerTip = {}
        BY <2>2 DEF Height
      <4>2. WalkIs(h)'
        BY <2>2, <2>5, <3>1, <4>1 DEF AnswerTip, WalkIs
      <4> QED
        BY <2>2, <2>5, <2>8, <2>9, <3>1, <4>2 DEF AnswerTip
    <3>2. CASE AnswerBlock(h)
      <4>1. WalkIs(h)'
        BY <2>1, <2>2, <2>3, <2>5, <3>2 DEF AnswerBlock, WalkIs
      <4> QED
        BY <2>2, <2>5, <2>8, <2>9, <3>2, <4>1 DEF AnswerBlock
    <3>3. CASE Walk(h)
      <4>1. cursor[h] \in stored /\ cursor' = [cursor EXCEPT ![h] = @ - 1]
            /\ UNCHANGED pc => WalkIs(h)'
        <5> SUFFICES ASSUME cursor[h] \in stored, UNCHANGED pc,
                            cursor' = [cursor EXCEPT ![h] = @ - 1]
                     PROVE  WalkIs(h)'
          OBVIOUS
        <5>1. cursor[h] \in Int /\ from[h] \in Int
          BY <2>2 DEF Height, NoBlock
        <5>2. ((cursor[h] - 1) + 1)..from[h] \subseteq Covered
          BY <2>3, <3>3, <5>1, OneLower DEF Walk, Covered
        <5> QED
          BY <2>1, <2>2, <2>5, <3>3, <5>2
             DEF Walk, WalkIs, Adding, PastTests
      <4>2. UNCHANGED cursor /\ Go(h, "request") => WalkIs(h)'
        BY <2>1, <2>2, <2>3, <2>5, <3>3 DEF Walk, WalkIs, Adding, PastTests
      <4>3. WalkIs(h)'
        BY <3>3, <4>1, <4>2 DEF Walk
      <4> QED
        BY <2>2, <2>5, <2>8, <2>9, <3>3, <4>3 DEF Walk
    <3>4. CASE FinishSync(h)
      <4>1. 0..from[h] \subseteq Covered
        BY <2>3, <3>4 DEF FinishSync, NoBlock
      <4>2. SyncIs'
        BY <2>1, <2>4, <3>4, <4>1 DEF FinishSync, SyncIs
      <4>3. WalkIs(h)'
        BY <2>2, <2>5, <3>4 DEF FinishSync, WalkIs, Adding, PastTests
      <4> QED
        BY <2>2, <2>5, <2>8, <3>4, <4>2, <4>3 DEF FinishSync
    <3> QED
      BY <2>15, <3>1, <3>2, <3>3, <3>4 DEF SyncStep
  <2>16. ASSUME NEW h \in Goroutine, AddBlock(h)
         PROVE  (\A g \in Syncer : WalkIs(g)') /\ SyncIs'
    <3>1. ASSUME Return(h), blk[h] \in Covered, pc[h] \in Adding,
                 blk[h] # NoBlock, UNCHANGED <<from, synced>>
          PROVE  (\A g \in Syncer : WalkIs(g)') /\ SyncIs'
      <4>1. ASSUME h \in Syncer PROVE WalkIs(h)'
        <5>1. blk[h] \in Int /\ from[h] \in Int
          BY <2>2, <4>1 DEF Height, NoBlock
        <5>2. ((blk[h] - 1) + 1)..from[h] \subseteq Covered
          BY <2>3, <3>1, <4>1, <5>1, OneLower
        <5> QED
          BY <2>1, <2>2, <2>5, <3>1, <4>1, <5>2
             DEF Return, WalkIs, Adding, PastTests
      <4> QED
        BY <2>2, <2>5, <2>8, <2>9, <3>1, <4>1 DEF Return
    <3>2. ASSUME NEW s \in Adding, Go(h, s), pc[h] \in Adding,
                 UNCHANGED <<blk, walk>>
          PROVE  (\A g \in Syncer : WalkIs(g)') /\ SyncIs'
      <4>1. ASSUME h \in Syncer PROVE WalkIs(h)'
        BY <2>1, <2>2, <2>3, <3>2, <4>1 DEF WalkIs, Adding, PastTests
      <4> QED
        BY <2>2, <2>8, <2>9, <3>2, <4>1
    <3>3. CASE Check(h)
      <4>1. CASE IsRefused(h) \/ (known /\ tip = blk[h])
        <5>1. blk[h] \in Height
          BY <2>2, <3>3 DEF Check
        <5>2. tip = blk[h] => blk[h] \in Covered
          BY <2>1, <5>1
             DEF IInv, TipStored, Covered, NoBlock, Overwritten, Height
        <5>3. blk[h] \in Covered
          BY <4>1, <5>2 DEF IsRefused, Covered
        <5> QED
          BY <3>1, <3>3, <4>1, <5>3 DEF Check, Adding
      <4>2. CASE ~(IsRefused(h) \/ (known /\ tip = blk[h]))
        BY <3>2, <3>3, <4>2 DEF Check, FirstStep, Adding, PastTests
      <4> QED
        BY <4>1, <4>2
    <3>4. CASE Open(h)
      BY <3>2, <3>4 DEF Open, Adding, PastTests
    <3>5. CASE Create(h)
      BY <2>10, <2>e, <3>2, <3>5 DEF Create, Adding, PastTests
    <3>6. CASE Register(h)
      BY <3>2, <3>6 DEF Register, FirstStep, Adding, PastTests
    <3>7. CASE SetTip(h)
      BY <3>2, <3>7 DEF SetTip, Adding, PastTests
    <3>8. CASE ReadTotal(h)
      BY <2>e, <3>2, <3>8 DEF ReadTotal, Adding, PastTests
    <3>9. CASE Commit(h)
      BY <3>2, <3>9 DEF Commit, Adding, PastTests
    <3>10. CASE CommitFails(h)
      BY <3>2, <3>10 DEF CommitFails, Adding, PastTests
    <3>12. CASE CreateFails(h)
      BY <3>2, <3>12 DEF CreateFails, Adding, PastTests
    <3>11. CASE Index(h)
      <4>1. blk[h] \in Covered
        BY <2>1, <3>11 DEF Index, IInv, CallOK, Covered
      <4>2. blk[h] # NoBlock
        BY <2>7, <3>11 DEF Index, PastTests, Height, NoBlock
      <4> QED
        BY <3>1, <3>11, <4>1, <4>2 DEF Index, Adding, PastTests
    <3> QED
      BY <2>16, <2>e, <3>3, <3>4, <3>5, <3>6, <3>7, <3>8, <3>9, <3>10, <3>11,
         <3>12
         DEF AddBlock
  <2>17. Produce \/ ProduceFails \/ OwnerRestarts \/ Lose =>
           UNCHANGED <<pc, blk, walk>>
    BY DEF Produce, ProduceFails, OwnerRestarts, Lose
  <2> QED
    BY <1>2, <2>e, <2>10, <2>11, <2>12, <2>13, <2>14, <2>15, <2>16, <2>17
       DEF Next
<1> QED
  BY <1>1, <1>2

\* Tip and "l" name blocks that are stored or on their way.
LEMMA StepTipStored == IInv /\ [Next]_vars => TipStored'
<1> SUFFICES ASSUME IInv, [Next]_vars, ~Ended PROVE TipStored'
  BY EndedIInv DEF IInv
<1>e. /\ ~Crash /\ ~Panic("bucketExists") /\ ~Panic("noBucket")
      /\ \A g \in Goroutine : ~CheckEmpty(g)
  BY WhatEnds DEF IInv, Reasons
<1> USE DEF At, Up, Go, call, walk, entry, disk, owner, counts, vars
<1>1. /\ pc \in [Goroutine -> {"new", "idle", "requestTip", "request",
                             "walk", "check", "open", "create", "register",
                             "setTip", "readTotal", "commit", "index"}]
      /\ lastHash \in stored \cup {NoBlock}
      /\ tip \in Height \cup {NoBlock, Overwritten}
      /\ Refused \cap {tip} = {}
  BY DEF IInv, TypeOK, TipStored, RefusedKeptOut
<1>2. lastHash' \in stored' \cup {NoBlock}
  <2>1. CASE \E g \in Goroutine : Commit(g)
    BY <1>1, <2>1 DEF Commit
  <2>2. CASE ~\E g \in Goroutine : Commit(g)
    <3>1. UNCHANGED <<stored, lastHash>>
      BY <2>2, <1>e
         DEF Next, Produce, ProduceFails, OwnerRestarts, Lose, StartSync,
             Restart, Deliver, ReverseSync, SyncStep, AnswerTip, AnswerBlock,
             Walk, FinishSync, AddBlock, Check, Open, Create, CreateFails,
             Register, SetTip, ReadTotal, CommitFails, Index
    <3> QED
      BY <1>1, <3>1
  <2> QED
    BY <2>1, <2>2
<1>3. ASSUME diskErrors' = 0
      PROVE  tip' \in stored' \cup Pending' \cup {NoBlock, Overwritten}
  <2>2. CASE Restart
    BY <1>1, <1>e, <2>2 DEF Restart
  <2>3. CASE \E g \in Goroutine : SetTip(g) \/ (Register(g) /\ isTip[g])
    <3>1. PICK g \in Goroutine : SetTip(g) \/ (Register(g) /\ isTip[g])
      BY <2>3
    <3>2. pc'[g] \in {"setTip", "readTotal"} /\ tip' = blk'[g]
      BY <1>1, <3>1 DEF SetTip, Register, FirstStep
    <3>3. tip' \in Pending'
      BY <3>2 DEF Pending
    <3> QED
      BY <3>3
  <2>4. CASE \E g \in Goroutine : Register(g) /\ ~isTip[g]
    BY <2>4 DEF Register
  <2>5. CASE tip' = Overwritten
    BY <2>5
  <2>6. CASE tip' = tip
    <3>1. diskErrors = 0 /\ Covered \subseteq Covered'
      BY <1>3, <2>6, CoveredGrows
    <3>2. tip \in stored \cup Pending \cup {NoBlock, Overwritten}
      BY <3>1 DEF IInv, TipStored
    <3>3. tip \in Covered' \cup {NoBlock, Overwritten}
      BY <3>1, <3>2 DEF Covered
    <3> QED
      BY <1>1, <2>6, <3>3 DEF Covered
  <2>7. \/ Restart \/ tip' = Overwritten \/ tip' = tip
        \/ \E g \in Goroutine : SetTip(g) \/ Register(g)
    BY <1>e
       DEF Next, Produce, ProduceFails, OwnerRestarts, Lose, StartSync,
           Deliver, ReverseSync, SyncStep, AnswerTip, AnswerBlock, Walk,
           FinishSync, AddBlock, Check, Open, Create, CreateFails, ReadTotal,
           Commit, CommitFails, Index
  <2> QED
    BY <2>2, <2>3, <2>4, <2>5, <2>6, <2>7
<1> QED
  BY <1>2, <1>3 DEF TipStored

\* A refused block gets no further than the tests of AddBlock.
LEMMA StepRefused == IInv /\ [Next]_vars => RefusedKeptOut'
<1> SUFFICES ASSUME IInv, [Next]_vars, ~Ended PROVE RefusedKeptOut'
  BY EndedIInv DEF IInv
<1>e. /\ ~Crash /\ ~Panic("bucketExists") /\ ~Panic("noBucket")
      /\ \A g \in Goroutine : ~CheckEmpty(g)
  BY WhatEnds DEF IInv, Reasons
<1> USE DEF At, Up, Go, call, walk, entry, disk, owner, counts, vars
<1>1. /\ Refused \cap (stored \cup indexed \cup {tip, lastHash}) = {}
      /\ \A g \in Goroutine : pc[g] \in PastTests => blk[g] \notin Refused
      /\ NoBlock \notin Refused /\ Overwritten \notin Refused
  BY ConstantsAssumption
     DEF IInv, RefusedKeptOut, CallOK, NoBlock, Overwritten, Height
<1>2. CASE Restart
  BY <1>1, <1>e, <1>2 DEF Restart, RefusedKeptOut
<1>3. ASSUME NEW g \in Goroutine, AddBlock(g) PROVE RefusedKeptOut'
  <2>1. CASE \/ Check(g) \/ Open(g) \/ Create(g) \/ CreateFails(g)
             \/ ReadTotal(g) \/ CommitFails(g)
    BY <1>1, <1>e, <2>1
       DEF Check, Open, Create, CreateFails, ReadTotal, CommitFails,
           RefusedKeptOut
  <2>2. CASE Register(g)
    BY <1>1, <2>2 DEF Register, RefusedKeptOut, PastTests
  <2>3. CASE SetTip(g)
    BY <1>1, <2>3 DEF SetTip, RefusedKeptOut, PastTests
  <2>4. CASE Commit(g)
    BY <1>1, <2>4 DEF Commit, RefusedKeptOut, PastTests
  <2>5. CASE Index(g)
    BY <1>1, <2>5 DEF Index, RefusedKeptOut, PastTests
  <2> QED
    BY <1>3, <1>e, <2>1, <2>2, <2>3, <2>4, <2>5 DEF AddBlock
<1>4. CASE UNCHANGED <<entry, disk>>
  BY <1>1, <1>4 DEF RefusedKeptOut
<1>5. \/ Restart \/ UNCHANGED <<entry, disk>>
      \/ \E g \in Goroutine : AddBlock(g)
  BY <1>e
     DEF Next, Produce, ProduceFails, OwnerRestarts, Lose, StartSync, Deliver,
         ReverseSync, SyncStep, AnswerTip, AnswerBlock, Walk, FinishSync
<1> QED
  BY <1>2, <1>3, <1>4, <1>5

\* Whatever the goroutines of AddBlock and the syncs hold is a block of the
\* owner's chain, and a sync has all that is above its cursor.
THEOREM Invariance == Spec => []IInv
<1>1. IInv /\ [Next]_vars => IInv'
  BY StepTypeOK, StepCallOK, StepWalkOK, StepTipStored, StepRefused DEF IInv
<1> QED
  BY InitIInv, <1>1, PTL DEF Spec

-----------------------------------------------------------------------------

\* The variables keep their types: no sync walks past the genesis block.
THEOREM TypeCorrect == Spec => []TypeOK
<1>1. IInv => TypeOK
  BY DEF IInv
<1> QED
  BY Invariance, <1>1, PTL

\* A finished sync leaves no gap, for any number of concurrent syncs.
THEOREM SyncLeavesNoGap == Spec => []SyncComplete
<1>1. IInv => SyncComplete
  BY DEF IInv
<1> QED
  BY Invariance, <1>1, PTL

\* The tip names a block that is stored or on its way to the database.
THEOREM TipIsReal == Spec => []TipStored
<1>1. IInv => TipStored
  BY DEF IInv
<1> QED
  BY Invariance, <1>1, PTL

\* A block that fails its verification is never stored or indexed.
THEOREM RefusedStaysOut == Spec => []RefusedKeptOut
<1>1. IInv => RefusedKeptOut
  BY DEF IInv
<1> QED
  BY Invariance, <1>1, PTL

-----------------------------------------------------------------------------
(* Who opens the file of the peer, and what the tip in memory has to do    *)
(* with the one on disk.                                                   *)
(*                                                                         *)
(* OwnerInv says that bolt's lock on the file does what a lock of AddBlock *)
(* would have done: it stays taken from Open until the process ends, so    *)
(* that the goroutine between Open and Register is alone.  TipInv needs it,*)
(* since Register is one of the two steps that write Tip.                  *)

\* A goroutine that makes the file and the entry; one that has the entry.
Making == {"create", "register"}
Storing == {"setTip", "readTotal", "commit", "index"}

\* One of the faults that can leave a file without its buckets has happened.
Fault == crashes > 0 \/ diskErrors > 0 \/ ownerErrors > 0

\* The goroutine that got the lock is alone, and finds no bucket.
MakerIsAlone ==
    \A g \in Goroutine :
        /\ pc[g] \in Making => /\ locked /\ ~known
                               /\ \A h \in Goroutine : pc[h] \in Making => g = h
        /\ pc[g] = "create" => file # "ready"
        /\ pc[g] = "register" /\ file # "ready" => diskErrors > 0
        /\ pc[g] \in Storing => known
        /\ pc[g] = "commit" => file = "ready"

\* While there is no entry nothing is stored, and the buckets are as new.
UnknownIsNew ==
    /\ known => locked
    /\ file # "ready" => lastHash = NoBlock
    /\ known /\ file # "ready" => diskErrors > 0
    /\ Up /\ ~known =>
          /\ lastHash = NoBlock
          /\ file = "ready" => \E g \in Goroutine : pc[g] = "register"
    /\ ~Up => ~known /\ ~locked /\ (file = "empty" => Fault)

OwnerInv == MakerIsAlone /\ UnknownIsNew /\ NoPanic /\ LockHasOwner

\* Only syncs carry tips, and a tip is a block of the chain.
TipsOfSyncs ==
    /\ \A g \in Handler : ~isTip[g]
    /\ \A g \in Goroutine :
          /\ pc[g] = "setTip" => isTip[g]
          /\ pc[g] \in Adding /\ isTip[g] => blk[g] <= ownerTip
    /\ lastHash <= ownerTip

\* The main goroutine alone moves the tip, first in memory, then on disk.
OneSync ==
    syncs = 0 =>
        /\ \A g \in Reverse \ {Startup} : pc[g] = "idle"
        /\ isTip[Startup] =>
              /\ pc[Startup] \in Adding /\ blk[Startup] # NoBlock =>
                    lastHash <= blk[Startup]
              /\ pc[Startup] \in {"readTotal", "commit"} =>
                    tip = blk[Startup] /\ ~tipIsPage

TipInv == TipsOfSyncs /\ OneSync /\ TipMatchesDisk

-----------------------------------------------------------------------------

LEMMA InitOwner == Init => OwnerInv
<1> SUFFICES ASSUME Init PROVE OwnerInv
  OBVIOUS
<1>1. \A g \in Goroutine : pc[g] \in {"new", "idle"}
  BY DEF Init
<1>2. MakerIsAlone
  BY <1>1 DEF MakerIsAlone, Making, Storing
<1>3. UnknownIsNew
  BY ConstantsAssumption DEF Init, UnknownIsNew, Up
<1>4. NoPanic /\ LockHasOwner
  BY DEF Init, NoPanic, LockHasOwner
<1> QED
  BY <1>2, <1>3, <1>4 DEF OwnerInv

\* A step that neither opens the file nor makes anything in it, and leaves
\* the key "l" alone unless there is an entry.
LEMMA OwnerKept ==
    ASSUME OwnerInv,
           UNCHANGED <<status, known, locked, file, crashes>>,
           diskErrors > 0 => diskErrors' > 0,
           ownerErrors > 0 => ownerErrors' > 0,
           lastHash' = lastHash \/ (known /\ file = "ready"),
           \A h \in Goroutine :
              \/ pc'[h] = pc[h]
              \/ /\ pc[h] \notin Making /\ pc'[h] \notin Making
                 /\ pc'[h] \in Storing => known
                 /\ pc'[h] = "commit" => file = "ready"
    PROVE  OwnerInv'
<1>1. \A h \in Goroutine :
        /\ pc'[h] \in Making <=> pc[h] \in Making
        /\ pc'[h] \in Making => pc'[h] = pc[h]
        /\ pc'[h] \in Storing => known
        /\ pc'[h] = "create" => pc[h] = "create"
        /\ pc[h] = "register" <=> pc'[h] = "register"
        /\ pc'[h] = "commit" => file = "ready"
  BY DEF OwnerInv, MakerIsAlone, Making, Storing
<1>2. MakerIsAlone'
  <2> SUFFICES ASSUME NEW g \in Goroutine
               PROVE  /\ pc'[g] \in Making =>
                            /\ locked /\ ~known
                            /\ \A h \in Goroutine : pc'[h] \in Making => g = h
                      /\ pc'[g] = "create" => file # "ready"
                      /\ pc'[g] = "register" /\ file # "ready" =>
                            diskErrors' > 0
                      /\ pc'[g] \in Storing => known
                      /\ pc'[g] = "commit" => file = "ready"
    BY DEF MakerIsAlone
  <2> QED
    BY <1>1 DEF OwnerInv, MakerIsAlone
<1>3. UnknownIsNew'
  BY <1>1 DEF OwnerInv, UnknownIsNew, Up, Fault
<1>4. NoPanic' /\ LockHasOwner'
  BY <1>1 DEF OwnerInv, NoPanic, LockHasOwner, Making, Up
<1> QED
  BY <1>2, <1>3, <1>4 DEF OwnerInv

\* The steps of syncs and of the owner.
LEMMA SyncOwner ==
    ASSUME TypeOK, OwnerInv,
           \/ Produce \/ ProduceFails \/ OwnerRestarts \/ Lose
           \/ StartSync \/ UNCHANGED vars
           \/ \E g \in Handler, b \in Height \cup {NoBlock} : Deliver(g, b)
           \/ \E g \in Reverse : ReverseSync(g)
           \/ \E g \in Syncer : SyncStep(g)
    PROVE  OwnerInv'
<1>1. /\ UNCHANGED <<status, known, locked, file, lastHash, crashes,
                     diskErrors>>
      /\ ownerErrors' = ownerErrors \/ ownerErrors' = ownerErrors + 1
  BY DEF Produce, ProduceFails, OwnerRestarts, Lose, StartSync, Deliver,
         ReverseSync, SyncStep, AnswerTip, AnswerBlock, Walk, FinishSync, vars,
         entry, disk, counts
<1>2. ownerErrors \in Int
  BY DEF TypeOK
<1>3. ASSUME NEW h \in Goroutine
      PROVE  \/ pc'[h] = pc[h]
             \/ pc[h] \notin Making /\ pc'[h] \notin Making \cup Storing
  <2>1. CASE Produce \/ ProduceFails \/ OwnerRestarts \/ Lose \/ UNCHANGED vars
    BY <2>1 DEF Produce, ProduceFails, OwnerRestarts, Lose, vars
  <2>2. CASE StartSync \/ \E g \in Reverse : ReverseSync(g)
    BY <2>2 DEF StartSync, ReverseSync, At, Go, TypeOK, Making, Storing
  <2>3. CASE \E g \in Handler, b \in Height \cup {NoBlock} : Deliver(g, b)
    BY <2>3 DEF Deliver, At, Go, TypeOK, Making, Storing
  <2>4. CASE \E g \in Syncer : SyncStep(g)
    <3>1. PICK g \in Syncer : SyncStep(g)
      BY <2>4
    <3>2. g \in Goroutine
      BY DEF Goroutine
    <3>3. CASE AnswerTip(g) \/ AnswerBlock(g)
      BY <3>2, <3>3 DEF AnswerTip, AnswerBlock, At, Go, TypeOK, Making, Storing
    <3>4. CASE Walk(g) \/ FinishSync(g)
      BY <3>2, <3>4 DEF Walk, FinishSync, At, Go, TypeOK, Making, Storing
    <3> QED
      BY <3>1, <3>3, <3>4 DEF SyncStep
  <2> QED
    BY <2>1, <2>2, <2>3, <2>4
<1> QED
  BY <1>1, <1>2, <1>3, OwnerKept DEF Storing

\* The steps of AddBlock besides those that make the file and the entry.
LEMMA StoreOwner ==
    ASSUME TypeOK, OwnerInv, NEW g \in Goroutine, ~Panic("noBucket"),
           \/ Check(g) \/ SetTip(g) \/ ReadTotal(g) \/ Commit(g)
           \/ CommitFails(g) \/ Index(g)
    PROVE  OwnerInv'
<1>1. pc[g] \notin Making
  BY DEF Check, SetTip, ReadTotal, Commit, CommitFails, Index, At, Making
<1>2. pc[g] # "check" => known
  BY DEF Check, SetTip, ReadTotal, Commit, CommitFails, Index, At, Storing,
         OwnerInv, MakerIsAlone
<1>3. \A h \in Goroutine : h # g => pc'[h] = pc[h]
  BY DEF Check, SetTip, ReadTotal, Commit, CommitFails, Index, Return, Go,
         TypeOK
<1>4. /\ pc'[g] \notin Making /\ (pc'[g] \in Storing => known)
      /\ pc'[g] = "commit" => file = "ready"
  <2>1. CASE Check(g)
    BY <2>1 DEF Check, Return, Go, FirstStep, TypeOK, Making, Storing
  <2>2. CASE ~Check(g)
    <3>1. pc[g] # "check"
      BY <2>2 DEF SetTip, ReadTotal, Commit, CommitFails, Index, At
    <3>2. pc'[g] \notin Making /\ (pc'[g] = "commit" => file = "ready")
      BY <2>2 DEF SetTip, ReadTotal, Commit, CommitFails, Index, Return, Go,
                  TypeOK, Making
    <3> QED
      BY <1>2, <3>1, <3>2
  <2> QED
    BY <2>1, <2>2
<1>5. /\ UNCHANGED <<status, known, locked, file, crashes, ownerErrors>>
      /\ diskErrors' = diskErrors \/ diskErrors' = diskErrors + 1
      /\ lastHash' = lastHash \/ (known /\ pc[g] = "commit")
  BY <1>2 DEF Check, SetTip, ReadTotal, Commit, CommitFails, Index, At,
              entry, disk, counts
<1>6. pc[g] = "commit" => file = "ready"
  BY DEF OwnerInv, MakerIsAlone
<1>7. diskErrors > 0 => diskErrors' > 0
  BY <1>5 DEF TypeOK
<1> QED
  BY <1>1, <1>3, <1>4, <1>5, <1>6, <1>7, OwnerKept

\* bolt's lock: whoever gets it finds no other maker, and no buckets.
LEMMA OpenOwner ==
    ASSUME TypeOK, OwnerInv, NEW g \in Goroutine, Open(g)
    PROVE  OwnerInv'
<1>1. /\ ~locked /\ locked' /\ pc'[g] = "create" /\ Up
      /\ \A h \in Goroutine : h # g => pc'[h] = pc[h]
      /\ UNCHANGED <<status, known, lastHash, counts>>
      /\ file' = IF file = "absent" THEN "empty" ELSE file
  BY DEF Open, At, Go, TypeOK, entry, counts
<1>2. ~known /\ \A h \in Goroutine : pc[h] \notin Making
  BY <1>1 DEF OwnerInv, MakerIsAlone, UnknownIsNew
<1>3. file # "ready" /\ file' # "ready"
  BY <1>1, <1>2 DEF OwnerInv, UnknownIsNew, Making
<1>4. MakerIsAlone'
  BY <1>1, <1>2, <1>3 DEF OwnerInv, MakerIsAlone, Making, Storing
<1>5. UnknownIsNew'
  BY <1>1, <1>2, <1>3 DEF OwnerInv, UnknownIsNew, Up
<1>6. NoPanic' /\ LockHasOwner'
  BY <1>1 DEF OwnerInv, NoPanic, LockHasOwner, counts
<1> QED
  BY <1>4, <1>5, <1>6 DEF OwnerInv

LEMMA CreateOwner ==
    ASSUME TypeOK, OwnerInv, NEW g \in Goroutine, Create(g) \/ CreateFails(g)
    PROVE  OwnerInv'
<1>1. pc[g] = "create" /\ Up /\ file # "ready" /\ locked /\ ~known
  BY DEF Create, CreateFails, At, OwnerInv, MakerIsAlone, Making
<1>2. /\ pc'[g] = "register"
      /\ \A h \in Goroutine : h # g => pc'[h] = pc[h]
      /\ UNCHANGED <<status, known, locked, lastHash, crashes, ownerErrors>>
      /\ \/ file' = "ready" /\ UNCHANGED diskErrors
         \/ UNCHANGED file /\ diskErrors' = diskErrors + 1
  BY <1>1 DEF Create, CreateFails, Go, TypeOK, entry, disk, counts
<1>3. diskErrors \in Nat
  BY ConstantsAssumption DEF TypeOK
<1>4. \A h \in Goroutine : pc'[h] \in Making => h = g
  BY <1>1, <1>2 DEF OwnerInv, MakerIsAlone, Making
<1>5. \A h \in Goroutine : /\ pc'[h] # "create" /\ pc'[h] # "commit"
                           /\ pc'[h] \in Storing => known
  BY <1>1, <1>2, <1>4 DEF OwnerInv, MakerIsAlone, Making, Storing
<1>6. file' # "ready" => diskErrors' > 0
  BY <1>2, <1>3
<1>7. MakerIsAlone'
  BY <1>1, <1>2, <1>4, <1>5, <1>6 DEF MakerIsAlone
<1>8. UnknownIsNew'
  BY <1>1, <1>2, <1>6 DEF OwnerInv, UnknownIsNew, Up
<1>9. NoPanic' /\ LockHasOwner'
  BY <1>1, <1>2 DEF OwnerInv, NoPanic, LockHasOwner, Up
<1> QED
  BY <1>7, <1>8, <1>9 DEF OwnerInv

LEMMA RegisterOwner ==
    ASSUME TypeOK, OwnerInv, NEW g \in Goroutine, Register(g)
    PROVE  OwnerInv'
<1>1. pc[g] = "register" /\ Up /\ locked /\ ~known
  BY DEF Register, At, OwnerInv, MakerIsAlone, Making
<1>2. /\ known' /\ pc'[g] \in {"setTip", "readTotal"}
      /\ \A h \in Goroutine : h # g => pc'[h] = pc[h]
      /\ UNCHANGED <<status, locked, file, lastHash, counts>>
  BY DEF Register, Go, FirstStep, TypeOK, disk
<1>3. \A h \in Goroutine : pc'[h] \notin Making
  BY <1>1, <1>2 DEF OwnerInv, MakerIsAlone, Making
<1>4. file # "ready" => diskErrors > 0
  BY <1>1 DEF OwnerInv, MakerIsAlone
<1>5. MakerIsAlone'
  <2>1. \A h \in Goroutine : pc'[h] = "commit" => pc[h] = "commit"
    BY <1>2
  <2> QED
    BY <1>2, <1>3, <2>1 DEF OwnerInv, MakerIsAlone, Making
<1>6. UnknownIsNew'
  BY <1>1, <1>2, <1>4 DEF OwnerInv, UnknownIsNew, Up, counts
<1>7. NoPanic' /\ LockHasOwner'
  BY <1>1, <1>2 DEF OwnerInv, NoPanic, LockHasOwner, Up
<1> QED
  BY <1>5, <1>6, <1>7 DEF OwnerInv

\* What becomes of the file when the process ends, and why it may end.
LEMMA EndedOwner ==
    ASSUME IInv, OwnerInv, NEW why \in Reasons \ {"bucketExists"}, Ends(why),
           Fault', why = "noTransactions" => ownerErrors > 0
    PROVE  OwnerInv'
<1>1. /\ \A g \in Goroutine : pc'[g] = "idle"
      /\ status' = why /\ ~known' /\ ~locked'
      /\ UNCHANGED <<file, lastHash, diskErrors, ownerErrors>>
  BY DEF Ends, disk
<1>2. why # "up" /\ why # "bucketExists"
  BY DEF Reasons
<1>3. MakerIsAlone'
  BY <1>1 DEF MakerIsAlone, Making, Storing
<1>4. UnknownIsNew'
  BY <1>1, <1>2 DEF OwnerInv, UnknownIsNew, Up
<1>5. NoPanic' /\ LockHasOwner'
  BY <1>1, <1>2 DEF NoPanic, LockHasOwner, Up, Fault
<1> QED
  BY <1>3, <1>4, <1>5 DEF OwnerInv

LEMMA FaultOwner ==
    ASSUME IInv, OwnerInv,
           \/ Crash \/ Restart
           \/ \E g \in Goroutine :
                 CheckEmpty(g) \/ (ReadTotal(g) /\ Panic("noBucket"))
    PROVE  OwnerInv'
<1>0. /\ crashes \in Nat /\ diskErrors \in Nat /\ ownerErrors \in Nat
      /\ file \in {"absent", "empty", "ready"}
      /\ {"crashed", "noTransactions", "noBucket"}
            \subseteq Reasons \ {"bucketExists"}
  BY ConstantsAssumption DEF IInv, TypeOK, Reasons
<1>1. CASE Crash
  <2>1. Ends("crashed") /\ crashes' = crashes + 1
    BY <1>1 DEF Crash
  <2>2. Fault'
    BY <1>0, <2>1 DEF Fault
  <2> QED
    BY <1>0, <2>1, <2>2, EndedOwner
<1>2. ASSUME NEW g \in Goroutine, CheckEmpty(g)
      PROVE  OwnerInv'
  <2>1. pc[g] = "check" /\ blk[g] = NoBlock /\ Ends("noTransactions")
    BY <1>2 DEF CheckEmpty, Panic, At
  <2>2. ownerErrors > 0 /\ ownerErrors' = ownerErrors
    BY <2>1 DEF IInv, EmptyIsOwners, Ends
  <2>3. Fault'
    BY <2>2 DEF Fault
  <2> QED
    BY <1>0, <2>1, <2>2, <2>3, EndedOwner
<1>3. ASSUME NEW g \in Goroutine, ReadTotal(g), Panic("noBucket")
      PROVE  OwnerInv'
  <2>1. file # "ready"
    <3>1. ASSUME file = "ready"
          PROVE  FALSE
      <4>1. UNCHANGED status /\ status = "up"
        BY <1>3, <3>1 DEF ReadTotal, At, Up
      <4> QED
        BY <1>3, <4>1 DEF Panic, Ends
    <3> QED
      BY <3>1
  <2>2. known /\ diskErrors > 0
    BY <1>3, <2>1
       DEF ReadTotal, At, OwnerInv, MakerIsAlone, UnknownIsNew, Storing
  <2>3. Ends("noBucket") /\ diskErrors' = diskErrors
    BY <1>3 DEF Panic, Ends
  <2>4. Fault'
    BY <2>2, <2>3 DEF Fault
  <2> QED
    BY <1>0, <2>3, <2>4, EndedOwner
<1>4. CASE Restart /\ file = "empty"
  <2>1. Ends("noBucket") /\ UNCHANGED crashes /\ ~Up
    BY <1>4 DEF Restart, Panic
  <2>2. Fault /\ UNCHANGED <<diskErrors, ownerErrors>>
    BY <1>4, <2>1 DEF OwnerInv, UnknownIsNew, Ends
  <2>3. Fault'
    BY <2>1, <2>2 DEF Fault
  <2> QED
    BY <1>0, <2>1, <2>3, EndedOwner
<1>5. CASE Restart /\ file # "empty"
  <2>1. \A g \in Goroutine : pc[g] = "idle" /\ pc'[g] \in {"idle", "new"}
    BY <1>5 DEF Restart, IInv, DownIsIdle, TypeOK
  <2>2. /\ status' = "up" /\ known' = (file = "ready") /\ locked' = known'
        /\ UNCHANGED <<file, lastHash>> /\ ~Up
    BY <1>5 DEF Restart, disk
  <2>3. MakerIsAlone'
    BY <2>1 DEF MakerIsAlone, Making, Storing
  <2>4. UnknownIsNew'
    BY <2>2 DEF OwnerInv, UnknownIsNew, Up
  <2>5. NoPanic' /\ LockHasOwner'
    BY <2>2 DEF NoPanic, LockHasOwner
  <2> QED
    BY <2>3, <2>4, <2>5 DEF OwnerInv
<1> QED
  BY <1>1, <1>2, <1>3, <1>4, <1>5

LEMMA StepOwner ==
    ASSUME IInv, OwnerInv, [Next]_vars
    PROVE  OwnerInv'
<1>1. TypeOK
  BY DEF IInv
<1>2. CASE \E g \in Goroutine : AddBlock(g)
  <2>1. PICK g \in Goroutine : AddBlock(g)
    BY <1>2
  <2>2. CASE CheckEmpty(g) \/ (ReadTotal(g) /\ Panic("noBucket"))
    BY <2>2, FaultOwner
  <2>3. CASE \/ Check(g) \/ SetTip(g) \/ ReadTotal(g) \/ Commit(g)
             \/ CommitFails(g) \/ Index(g)
    <3>1. CASE Panic("noBucket") /\ ~ReadTotal(g)
      <4>1. UNCHANGED status /\ status = "up"
        BY <2>3, <3>1 DEF Check, SetTip, Commit, CommitFails, Index, At, Up
      <4> QED
        BY <3>1, <4>1 DEF Panic, Ends
    <3> QED
      BY <1>1, <2>2, <2>3, <3>1, StoreOwner
  <2> QED
    BY <1>1, <2>1, <2>2, <2>3, OpenOwner, CreateOwner, RegisterOwner
       DEF AddBlock
<1>3. CASE Crash \/ Restart
  BY <1>3, FaultOwner
<1>4. CASE \/ Produce \/ ProduceFails \/ OwnerRestarts \/ Lose
           \/ StartSync \/ UNCHANGED vars
           \/ \E g \in Handler, b \in Height \cup {NoBlock} : Deliver(g, b)
           \/ \E g \in Reverse : ReverseSync(g)
           \/ \E g \in Syncer : SyncStep(g)
  BY <1>1, <1>4, SyncOwner
<1> QED
  BY <1>2, <1>3, <1>4 DEF Next

\* One goroutine at most is between AddBlock's test of the map and its entry
\* there, for every number of goroutines: bolt lets no second one in.
THEOREM OwnerInvariance == Spec => []OwnerInv
<1>1. IInv /\ OwnerInv /\ [Next]_vars => OwnerInv'
  BY StepOwner
<1> QED
  BY Invariance, InitOwner, <1>1, PTL DEF Spec

\* Only one goroutine makes the file, the buckets and the entry of a peer:
\* none ever panics on what another made, whatever crashes and failed commits
\* came before, and where none came no panic happens at all.
THEOREM OneGoroutineOpens == Spec => []OneOpens
<1>1. OwnerInv => OneOpens
  BY DEF OwnerInv, OneOpens
<1> QED
  BY OwnerInvariance, <1>1, PTL

-----------------------------------------------------------------------------

LEMMA InitTip == Init => TipInv
<1> SUFFICES ASSUME Init PROVE TipInv
  OBVIOUS
<1>1. /\ \A g \in Goroutine : pc[g] \in {"new", "idle"} /\ ~isTip[g]
      /\ tip = lastHash /\ lastHash <= ownerTip /\ pc[Startup] = "new"
  <2>1. /\ \A g \in Goroutine : pc[g] \in {"new", "idle"} /\ ~isTip[g]
        /\ pc[Startup] = "new"
    BY DEF Init, Goroutine, Syncer
  <2>2. tip = lastHash /\ ownerTip = 0 /\ lastHash \in {0, NoBlock}
    BY DEF Init
  <2>3. lastHash <= ownerTip
    BY <2>2 DEF NoBlock
  <2> QED
    BY <2>1, <2>2, <2>3
<1>2. Startup \in Goroutine /\ Handler \subseteq Goroutine
  BY DEF Goroutine, Syncer
<1>3. TipsOfSyncs
  BY <1>1, <1>2 DEF TipsOfSyncs, Adding, PastTests
<1>4. OneSync
  <2>1. \A g \in Reverse \ {Startup} : g \in Goroutine /\ pc[g] = "idle"
    BY DEF Init, Goroutine, Syncer
  <2> QED
    BY <1>1, <1>2, <2>1 DEF OneSync
<1>5. TipMatchesDisk
  BY <1>1 DEF TipMatchesDisk
<1> QED
  BY <1>3, <1>4, <1>5 DEF TipInv

\* Where a goroutine is that carries a tip.
LEMMA Carriers ==
    ASSUME TypeOK
    PROVE  /\ Startup \in Goroutine /\ Startup \in Syncer
           /\ Handler \subseteq Goroutine /\ Reverse \subseteq Goroutine
           /\ Syncer \subseteq Goroutine
           /\ lastHash \in Int /\ ownerTip \in Int
           /\ \A g \in Goroutine : blk[g] \in Int /\ isTip[g] \in BOOLEAN
           /\ \A g \in Goroutine : g \in Handler \/ g \in Reverse \/ g = Startup
           /\ Startup \notin Handler
  BY ConstantsAssumption
     DEF Goroutine, Syncer, TypeOK, Height, NoBlock

(***************************************************************************)
(* A step of one goroutine that leaves both tips alone keeps TipInv, if    *)
(* what it says of the goroutine itself is kept.                           *)
(***************************************************************************)
LEMMA TipKept ==
    ASSUME TypeOK, TipInv, NEW g \in Goroutine,
           UNCHANGED <<ownerTip, status, known, tip, tipIsPage, lastHash>>,
           \A h \in Goroutine : h # g =>
              UNCHANGED <<pc[h], blk[h], isTip[h]>>,
           syncs' = syncs \/ (syncs' # 0 /\ syncs' \in Nat),
           diskErrors' = diskErrors \/ diskErrors' # 0,
           \* what changes in g itself
           g \in Handler => ~isTip'[g],
           pc'[g] = "setTip" => isTip'[g],
           pc'[g] \in Adding /\ isTip'[g] =>
              /\ blk'[g] <= ownerTip
              /\ syncs = 0 /\ blk'[g] # NoBlock => lastHash <= blk'[g],
           syncs' = 0 /\ g \in Reverse \ {Startup} => pc'[g] = "idle",
           syncs' = 0 /\ pc'[g] \in {"readTotal", "commit"} /\ isTip'[g] =>
              tip = blk'[g] /\ ~tipIsPage,
           g \in Syncer /\ pc[g] \in {"setTip", "readTotal", "commit"} /\ isTip[g]
              => \/ pc'[g] \in {"setTip", "readTotal", "commit"} /\ isTip'[g]
                 \/ diskErrors' # 0
    PROVE  TipInv'
<1> USE Carriers
<1>1. TipsOfSyncs'
  BY DEF TipInv, TipsOfSyncs
<1>2. OneSync'
  BY DEF TipInv, OneSync
<1>3. TipMatchesDisk'
  BY DEF TipInv, TipMatchesDisk, Up
<1> QED
  BY <1>1, <1>2, <1>3 DEF TipInv

\* Before the first reverse sync, whoever carries a tip is the main goroutine.
LEMMA AloneWithTip ==
    ASSUME TypeOK, TipInv, NEW g \in Goroutine, syncs = 0, pc[g] # "idle",
           isTip[g] \/ g \in Syncer
    PROVE  g = Startup
  BY Carriers DEF TipInv, TipsOfSyncs, OneSync, Syncer

\* The steps of syncs: AnswerTip takes the newest block of the chain.
LEMMA SyncTip ==
    ASSUME IInv, TipInv, NEW g \in Syncer, SyncStep(g)
    PROVE  TipInv'
<1> USE Carriers
<1>1. TypeOK /\ g \in Goroutine /\ g \notin Handler
  BY ConstantsAssumption DEF IInv
<1>2. syncs = 0 /\ pc[g] # "idle" => g = Startup
  BY <1>1, AloneWithTip
<1>3. pc[g] \in {"requestTip", "request", "walk"}
  BY DEF SyncStep, AnswerTip, AnswerBlock, Walk, FinishSync, At
<1>4. /\ UNCHANGED <<ownerTip, status, known, tip, tipIsPage, lastHash,
                     syncs, diskErrors>>
      /\ \A h \in Goroutine : h # g => UNCHANGED <<pc[h], blk[h], isTip[h]>>
  BY <1>1 DEF SyncStep, AnswerTip, AnswerBlock, Walk, FinishSync, Go, TypeOK,
              owner, entry, disk, counts, call
<1>5. CASE AnswerTip(g)
  <2>1. pc'[g] = "check" /\ blk'[g] \in {NoBlock, ownerTip}
    BY <1>1, <1>5 DEF AnswerTip, Go, TypeOK
  <2>2. lastHash <= ownerTip /\ ownerTip <= ownerTip /\ NoBlock <= ownerTip
    BY <1>1 DEF TipInv, TipsOfSyncs, TypeOK, Height, NoBlock
  <2> QED
    BY <1>1, <1>2, <1>3, <1>4, <2>1, <2>2, TipKept
<1>6. CASE AnswerBlock(g)
  <2>1. pc'[g] = "check" /\ ~isTip'[g]
    BY <1>1, <1>6 DEF AnswerBlock, Go, TypeOK
  <2> QED
    BY <1>1, <1>2, <1>3, <1>4, <2>1, TipKept
<1>7. CASE Walk(g) \/ FinishSync(g)
  <2>1. pc'[g] \in {"walk", "request", "idle"}
    BY <1>1, <1>7 DEF Walk, FinishSync, At, Go, TypeOK
  <2>2. pc'[g] \notin Adding
    BY <2>1 DEF Adding, PastTests
  <2> QED
    BY <1>1, <1>2, <1>3, <1>4, <2>1, <2>2, TipKept
<1> QED
  BY <1>5, <1>6, <1>7 DEF SyncStep

\* What begins a call of AddBlock or a sync.
LEMMA BeginTip ==
    ASSUME IInv, TipInv,
           \/ StartSync
           \/ \E g \in Handler, b \in Height \cup {NoBlock} : Deliver(g, b)
           \/ \E g \in Reverse : ReverseSync(g)
    PROVE  TipInv'
<1> USE Carriers
<1>1. TypeOK
  BY DEF IInv
<1>2. CASE StartSync
  <2>1. /\ pc[Startup] = "new" /\ pc'[Startup] = "requestTip"
        /\ UNCHANGED <<ownerTip, status, known, tip, tipIsPage, lastHash,
                       syncs, diskErrors, blk, isTip>>
        /\ \A h \in Goroutine : h # Startup => pc'[h] = pc[h]
    BY <1>1, <1>2 DEF StartSync, At, Go, TypeOK, owner, entry, disk, counts,
                      call
  <2>2. pc'[Startup] \notin Adding
    BY <2>1 DEF Adding, PastTests
  <2> QED
    BY <1>1, <2>1, <2>2, TipKept
<1>3. CASE \E g \in Handler, b \in Height \cup {NoBlock} : Deliver(g, b)
  <2>1. PICK g \in Handler, b \in Height \cup {NoBlock} : Deliver(g, b)
    BY <1>3
  <2>2. /\ pc[g] = "idle" /\ pc'[g] = "check" /\ ~isTip'[g]
        /\ UNCHANGED <<ownerTip, status, known, tip, tipIsPage, lastHash,
                       syncs, diskErrors>>
        /\ \A h \in Goroutine : h # g => UNCHANGED <<pc[h], blk[h], isTip[h]>>
    BY <1>1, <2>1 DEF Deliver, At, Go, TypeOK, entry, disk, counts
  <2>3. g \notin Syncer /\ g \in Goroutine
    BY <1>1, ConstantsAssumption
  <2> QED
    BY <1>1, <2>2, <2>3, TipKept DEF Syncer
<1>4. CASE \E g \in Reverse : ReverseSync(g)
  <2>1. PICK g \in Reverse : ReverseSync(g)
    BY <1>4
  <2>2. /\ pc[g] = "idle" /\ pc'[g] = "requestTip" /\ syncs' = syncs + 1
        /\ UNCHANGED <<ownerTip, status, known, tip, tipIsPage, lastHash,
                       diskErrors, blk, isTip>>
        /\ \A h \in Goroutine : h # g => pc'[h] = pc[h]
    BY <1>1, <2>1 DEF ReverseSync, At, Go, TypeOK, owner, entry, disk, call
  <2>3. syncs' # 0 /\ syncs' \in Nat
    BY <1>1, <2>2, ConstantsAssumption DEF TypeOK
  <2>4. g \in Goroutine /\ g \notin Handler
    BY <1>1, ConstantsAssumption DEF Syncer
  <2>5. pc'[g] \notin Adding
    BY <2>2 DEF Adding, PastTests
  <2> QED
    BY <1>1, <2>2, <2>3, <2>4, <2>5, TipKept
<1> QED
  BY <1>2, <1>3, <1>4

\* The steps of AddBlock that write neither tip.
LEMMA QuietTip ==
    ASSUME IInv, OwnerInv, TipInv, NEW g \in Goroutine, ~Ended,
           \/ Check(g) \/ Open(g) \/ Create(g) \/ CreateFails(g)
           \/ ReadTotal(g) \/ CommitFails(g) \/ Index(g)
    PROVE  TipInv'
<1> USE Carriers
<1>e. ~Panic("bucketExists") /\ ~Panic("noBucket")
  BY WhatEnds DEF IInv, Reasons
<1>1. TypeOK
  BY DEF IInv
<1>2. syncs = 0 /\ pc[g] # "idle" /\ isTip[g] => g = Startup
  BY <1>1, AloneWithTip
<1>3. syncs = 0 /\ g \in Reverse \ {Startup} => pc[g] = "idle"
  BY DEF TipInv, OneSync
<1>4. pc[g] \in {"check", "open", "create", "readTotal", "commit", "index"}
  BY DEF Check, Open, Create, CreateFails, ReadTotal, CommitFails, Index, At
<1>5. pc[g] \in Adding /\ pc[g] # "idle" /\ blk[g] # NoBlock
  <2>1. pc[g] \in PastTests => blk[g] # NoBlock
    BY DEF IInv, CallOK, Height, NoBlock
  <2>2. pc[g] = "check" => blk[g] # NoBlock
    BY DEF Check, Open, Create, CreateFails, ReadTotal, CommitFails, Index, At
  <2> QED
    BY <1>4, <2>1, <2>2 DEF Adding, PastTests
<1>6. /\ g \in Handler => ~isTip[g]
      /\ isTip[g] => blk[g] <= ownerTip /\ (syncs = 0 => lastHash <= blk[g])
      /\ syncs = 0 /\ isTip[g] /\ pc[g] \in {"readTotal", "commit"} =>
            tip = blk[g] /\ ~tipIsPage
  BY <1>1, <1>2, <1>5 DEF TipInv, TipsOfSyncs, OneSync
<1>7. /\ UNCHANGED <<ownerTip, known, tip, tipIsPage, lastHash, syncs>>
      /\ \A h \in Goroutine : h # g => UNCHANGED <<pc[h], blk[h], isTip[h]>>
  BY <1>1, <1>e
     DEF Check, Open, Create, CreateFails, ReadTotal, CommitFails, Index,
         Return, Go, TypeOK, owner, entry, disk, counts, call
<1>8. CASE Return(g)
  <2>1. ~isTip'[g] /\ pc'[g] \in {"idle", "walk"}
    BY <1>1, <1>8 DEF Return, Go, TypeOK
  <2>2. UNCHANGED <<status, diskErrors>> /\ pc[g] \in {"check", "index"}
    BY <1>1, <1>8, <1>e, <2>1
       DEF Check, Open, Create, CreateFails, ReadTotal, CommitFails, Index, At,
           Go, TypeOK, counts
  <2>3. pc'[g] \notin Adding
    BY <2>1 DEF Adding, PastTests
  <2> QED
    BY <1>1, <1>3, <1>5, <1>7, <2>1, <2>2, <2>3, TipKept
<1>9. CASE ~Return(g)
  <2>1. UNCHANGED <<blk, isTip>>
    BY <1>9, <1>e
       DEF Check, Open, Create, CreateFails, ReadTotal, CommitFails, Index, call
  <2>2. CASE Check(g)
    <3>1. /\ pc[g] = "check" /\ pc'[g] \in {"open", FirstStep(g)}
          /\ UNCHANGED <<status, diskErrors>>
      BY <1>1, <1>9, <2>2 DEF Check, At, Go, TypeOK, counts
    <3>2. /\ pc'[g] = "setTip" => isTip[g]
          /\ pc'[g] \in {"readTotal", "commit"} => ~isTip[g]
      BY <3>1 DEF FirstStep
    <3> QED
      BY <1>1, <1>3, <1>5, <1>6, <1>7, <2>1, <3>1, <3>2, TipKept
  <2>3. CASE Open(g) \/ Create(g)
    <3>1. /\ pc[g] \in {"open", "create"} /\ pc'[g] \in {"create", "register"}
          /\ UNCHANGED <<status, diskErrors>>
      BY <1>1, <1>e, <2>3 DEF Open, Create, At, Go, TypeOK, counts
    <3> QED
      BY <1>1, <1>3, <1>5, <1>6, <1>7, <2>1, <3>1, TipKept
  <2>4. CASE ReadTotal(g)
    <3>1. /\ pc[g] = "readTotal" /\ pc'[g] = "commit"
          /\ UNCHANGED <<status, diskErrors>>
      BY <1>1, <1>e, <2>4 DEF ReadTotal, At, Go, TypeOK, counts
    <3> QED
      BY <1>1, <1>3, <1>5, <1>6, <1>7, <2>1, <3>1, TipKept
  <2>5. CASE CommitFails(g)
    <3>1. /\ pc[g] = "commit" /\ pc'[g] = "index" /\ UNCHANGED status
          /\ diskErrors' # 0
      BY <1>1, <2>5 DEF CommitFails, At, Go, TypeOK
    <3> QED
      BY <1>1, <1>3, <1>5, <1>6, <1>7, <2>1, <3>1, TipKept
  <2>6. CASE Index(g)
    BY <1>9, <2>6 DEF Index
  <2>7. CASE CreateFails(g)
    <3>1. /\ pc[g] = "create" /\ pc'[g] = "register" /\ UNCHANGED status
          /\ diskErrors' # 0
      BY <1>1, <2>7 DEF CreateFails, At, Go, TypeOK
    <3> QED
      BY <1>1, <1>3, <1>5, <1>6, <1>7, <2>1, <3>1, TipKept
  <2> QED
    BY <2>2, <2>3, <2>4, <2>5, <2>6, <2>7
<1> QED
  BY <1>8, <1>9

\* The two steps that write the tip in memory, and the one on disk.
LEMMA WriteTip ==
    ASSUME IInv, OwnerInv, TipInv, NEW g \in Goroutine,
           Register(g) \/ SetTip(g) \/ Commit(g)
    PROVE  TipInv'
<1> USE Carriers
<1>1. TypeOK
  BY DEF IInv
<1>2. pc[g] \in {"register", "setTip", "commit"}
  BY DEF Register, SetTip, Commit, At
<1>3. pc[g] \in Adding /\ pc[g] # "idle" /\ blk[g] # NoBlock
  BY <1>2 DEF Adding, PastTests, IInv, CallOK, Height, NoBlock
<1>4. syncs = 0 /\ isTip[g] => g = Startup
  BY <1>1, <1>3, AloneWithTip
<1>5. /\ UNCHANGED <<ownerTip, status, syncs, diskErrors, blk, isTip>>
      /\ \A h \in Goroutine : h # g => pc'[h] = pc[h]
      /\ pc'[g] \in {"setTip", "readTotal", "index"}
      /\ pc'[g] = "setTip" => isTip[g]
  BY <1>1 DEF Register, SetTip, Commit, Go, FirstStep, TypeOK, owner, counts,
              call
<1>6. lastHash' <= ownerTip
  BY <1>1, <1>3 DEF Register, SetTip, Commit, TipInv, TipsOfSyncs, disk
<1>7. TipsOfSyncs'
  BY <1>1, <1>3, <1>5, <1>6 DEF TipInv, TipsOfSyncs
<1>8. ASSUME syncs = 0, NEW h \in Reverse, h # Startup
      PROVE  pc'[h] = "idle"
  BY <1>1, <1>3, <1>5, <1>8 DEF TipInv, OneSync
<1>9. CASE Register(g)
  <2>1. /\ pc[g] = "register" /\ ~known /\ Up /\ lastHash = NoBlock
        /\ known' /\ ~tipIsPage' /\ UNCHANGED lastHash
        /\ tip' = IF isTip[g] THEN blk[g] ELSE NoBlock
        /\ pc'[g] = FirstStep(g)
    BY <1>1, <1>9 DEF Register, At, Go, OwnerInv, MakerIsAlone, UnknownIsNew,
                      Making, TypeOK, disk
  <2>2. \A h \in Goroutine : h # g => pc[h] \notin Storing
    BY <2>1 DEF OwnerInv, MakerIsAlone
  <2>3. pc'[g] = IF isTip[g] THEN "setTip" ELSE "readTotal"
    BY <2>1 DEF FirstStep
  <2>4. OneSync'
    BY <1>1, <1>3, <1>4, <1>5, <1>8, <2>1, <2>2, <2>3
       DEF TipInv, OneSync, Storing
  <2>5. TipMatchesDisk'
    BY <1>1, <1>4, <1>5, <2>1, <2>3 DEF TipMatchesDisk
  <2> QED
    BY <1>7, <2>4, <2>5 DEF TipInv
<1>10. CASE SetTip(g)
  <2>1. /\ pc[g] = "setTip" /\ pc'[g] = "readTotal" /\ isTip[g]
        /\ tip' = blk[g] /\ ~tipIsPage' /\ UNCHANGED <<lastHash, known>>
    BY <1>1, <1>10 DEF SetTip, At, Go, TypeOK, disk, TipInv, TipsOfSyncs
  <2>2. OneSync'
    BY <1>1, <1>3, <1>4, <1>5, <1>8, <2>1 DEF TipInv, OneSync
  <2>3. TipMatchesDisk'
    BY <1>1, <1>4, <1>5, <2>1 DEF TipMatchesDisk
  <2> QED
    BY <1>7, <2>2, <2>3 DEF TipInv
<1>11. CASE Commit(g)
  <2>1. /\ pc[g] = "commit" /\ pc'[g] = "index"
        /\ lastHash' = (IF isTip[g] THEN blk[g] ELSE lastHash)
        /\ ~tipIsPage => tip' = tip
        /\ UNCHANGED <<known, tipIsPage>>
    BY <1>1, <1>11 DEF Commit, At, Go, TypeOK
  <2>2. OneSync'
    <3> SUFFICES ASSUME syncs = 0
                 PROVE  isTip[Startup] =>
                          /\ pc'[Startup] \in Adding /\ blk[Startup] # NoBlock
                                => lastHash' <= blk[Startup]
                          /\ pc'[Startup] \in {"readTotal", "commit"} =>
                                tip' = blk[Startup] /\ ~tipIsPage'
      BY <1>5, <1>8 DEF OneSync
    <3>1. CASE isTip[g]
      BY <1>1, <1>4, <2>1, <3>1
    <3>2. CASE ~isTip[g]
      BY <1>1, <1>5, <2>1, <3>2 DEF TipInv, OneSync
    <3> QED
      BY <3>1, <3>2
  <2>3. TipMatchesDisk'
    <3> SUFFICES ASSUME Up, known, ~tipIsPage, diskErrors = 0, syncs = 0
                 PROVE  \/ tip = lastHash'
                        \/ \E h \in Syncer :
                              /\ pc'[h] \in {"setTip", "readTotal", "commit"}
                              /\ isTip[h]
      BY <1>5, <2>1 DEF TipMatchesDisk, Up
    <3>1. CASE isTip[g]
      BY <1>1, <1>4, <2>1, <3>1 DEF TipInv, OneSync
    <3>2. CASE ~isTip[g]
      BY <1>1, <1>5, <2>1, <3>2 DEF TipInv, TipMatchesDisk
    <3> QED
      BY <3>1, <3>2
  <2> QED
    BY <1>7, <2>2, <2>3 DEF TipInv
<1> QED
  BY <1>9, <1>10, <1>11

\* The owner, crashes and restarts.
LEMMA OtherTip ==
    ASSUME IInv, OwnerInv, TipInv,
           \/ Produce \/ ProduceFails \/ OwnerRestarts \/ Lose
           \/ Ended \/ Restart \/ UNCHANGED vars
    PROVE  TipInv'
<1> USE Carriers
<1>1. TypeOK
  BY DEF IInv
<1>2. CASE Produce \/ ProduceFails \/ OwnerRestarts \/ Lose \/ UNCHANGED vars
  <2>1. /\ ownerTip' = ownerTip \/ ownerTip' = ownerTip + 1
        /\ UNCHANGED <<status, pc, blk, isTip, known, tip, tipIsPage, lastHash,
                       syncs, diskErrors>>
    BY <1>2 DEF Produce, ProduceFails, OwnerRestarts, Lose, vars, owner, call,
                entry, disk, counts
  <2>2. TipsOfSyncs'
    BY <1>1, <2>1 DEF TipInv, TipsOfSyncs
  <2>3. OneSync' /\ TipMatchesDisk'
    BY <2>1 DEF TipInv, OneSync, TipMatchesDisk, Up
  <2> QED
    BY <2>2, <2>3 DEF TipInv
<1>3. CASE Ended
  <2>1. /\ \A g \in Goroutine : pc'[g] = "idle" /\ ~isTip'[g]
        /\ ~known' /\ UNCHANGED <<ownerTip, lastHash>>
    BY <1>3 DEF Ended, Ends, disk
  <2>2. TipsOfSyncs' /\ OneSync' /\ TipMatchesDisk'
    BY <1>1, <2>1 DEF TipInv, TipsOfSyncs, OneSync, TipMatchesDisk, Adding,
                      PastTests
  <2> QED
    BY <2>2 DEF TipInv
<1>4. CASE Restart /\ ~Ended
  <2>e. ~Panic("noBucket")
    BY <1>1, <1>4, WhatEnds DEF Reasons
  <2>1. /\ \A g \in Goroutine : pc'[g] \in {"idle", "new"}
        /\ \A g \in Goroutine : g # Startup => pc'[g] = "idle"
        /\ tip' = lastHash
        /\ UNCHANGED <<ownerTip, lastHash, isTip, syncs>>
    BY <1>1, <1>4, <2>e
       DEF Restart, IInv, DownIsIdle, TypeOK, owner, call, disk, counts
  <2>2. TipsOfSyncs' /\ OneSync' /\ TipMatchesDisk'
    BY <1>1, <2>1 DEF TipInv, TipsOfSyncs, OneSync, TipMatchesDisk, Adding,
                      PastTests
  <2> QED
    BY <2>2 DEF TipInv
<1> QED
  BY <1>2, <1>3, <1>4

LEMMA StepTip ==
    ASSUME IInv, OwnerInv, TipInv, [Next]_vars
    PROVE  TipInv'
<1>0. Crash \/ (\E g \in Goroutine : CheckEmpty(g)) => Ended
  BY WhatEnds DEF IInv
<1>1. CASE \E g \in Goroutine : AddBlock(g)
  <2>1. PICK g \in Goroutine : AddBlock(g)
    BY <1>1
  <2> QED
    BY <1>0, <2>1, QuietTip, WriteTip, OtherTip DEF AddBlock
<1>2. CASE \E g \in Syncer : SyncStep(g)
  BY <1>2, SyncTip
<1>3. CASE \/ StartSync
           \/ \E g \in Handler, b \in Height \cup {NoBlock} : Deliver(g, b)
           \/ \E g \in Reverse : ReverseSync(g)
  BY <1>3, BeginTip
<1>4. CASE \/ Produce \/ ProduceFails \/ OwnerRestarts \/ Lose
           \/ Crash \/ Restart \/ UNCHANGED vars
  BY <1>0, <1>4, OtherTip
<1> QED
  BY <1>1, <1>2, <1>3, <1>4 DEF Next

\* Only syncs move the tip, forward, and with one sync it is in memory first
\* and on disk after the commit.
THEOREM TipInvariance == Spec => []TipInv
<1>1. IInv /\ OwnerInv /\ TipInv /\ [Next]_vars => TipInv'
  BY StepTip
<1> QED
  BY Invariance, OwnerInvariance, InitTip, <1>1, PTL DEF Spec

\* With one sync the tip in memory is the one on disk, unless that sync is
\* on its way from the one to the other.
THEOREM TipAgrees == Spec => []TipMatchesDisk
<1>1. TipInv => TipMatchesDisk
  BY DEF TipInv
<1> QED
  BY TipInvariance, <1>1, PTL

\* With one sync the tip on disk never goes back.
THEOREM TipAdvances == Spec => TipOnlyAdvances
<1>1. IInv /\ TipInv /\ [Next]_vars => [syncs = 0 => lastHash' >= lastHash]_vars
  <2> SUFFICES ASSUME IInv, TipInv, [Next]_vars, syncs = 0
               PROVE  lastHash' >= lastHash
    OBVIOUS
  <2>1. TypeOK
    BY DEF IInv
  <2>2. CASE \E g \in Goroutine : Commit(g)
    <3>1. PICK g \in Goroutine : Commit(g)
      BY <2>2
    <3>2. /\ pc[g] = "commit" /\ pc[g] \in Adding /\ pc[g] # "idle"
          /\ blk[g] # NoBlock
      BY <3>1
         DEF Commit, At, Adding, PastTests, IInv, CallOK, Height, NoBlock
    <3>3. isTip[g] => lastHash <= blk[g]
      BY <2>1, <3>2, AloneWithTip DEF TipInv, OneSync
    <3> QED
      BY <2>1, <3>1, <3>3, Carriers DEF Commit
  <2>3. CASE ~\E g \in Goroutine : Commit(g)
    <3>1. lastHash' = lastHash
      BY <2>3 DEF Next, Produce, ProduceFails, OwnerRestarts, Lose, StartSync,
                  Crash, Restart, Deliver, ReverseSync, SyncStep, AnswerTip,
                  AnswerBlock, Walk, FinishSync, AddBlock, CheckEmpty, Check,
                  Open, Create, CreateFails, Register, SetTip, ReadTotal,
                  CommitFails, Index, Panic, Ends, vars, disk
    <3> QED
      BY <2>1, <3>1, Carriers
  <2> QED
    BY <2>2, <2>3
<1> QED
  BY Invariance, TipInvariance, <1>1, PTL DEF Spec, TipOnlyAdvances

=============================================================================
