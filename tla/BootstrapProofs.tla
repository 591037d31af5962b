-------------------------- MODULE BootstrapProofs --------------------------
(***************************************************************************)
(* What holds of every start of the server, for any set of keys and any    *)
(* number of crashes: proofs about main.go, blockchain.go and p2p.go.      *)
(***************************************************************************)
EXTENDS Bootstrap, TLAPS

\* The stages of a start, by what must be on disk when they are reached.
Synced == {"syncMappings", "syncAccounts", "syncBlocks", "serving"}
HasGenesis == {"admin", "print", "accounts", "mappings"} \cup Synced
HasIndex == {"collection", "isComplete"} \cup HasGenesis
HasBlocks == {"txBucket", "persist", "search"} \cup HasIndex
FirstStart == {"create", "txBucket", "persist", "admin", "print"}
LaterStart == {"read", "isComplete"}

\* The lock says which process is at work on the file.
LockInv ==
    /\ lock = "server" <=> pc \notin Down \cup {"open"}
    /\ lock = "keygen" <=> kpc \in {"admin", "print"}
    /\ kpc # "idle" => disk.file
    /\ pc \notin Down \cup {"open"} => disk.file

\* What is on disk comes in the order of the first start.
DiskInv ==
    /\ ~disk.file => disk.buckets = {} /\ disk.key = None
                     /\ disk.genesis = None /\ ~disk.index /\ disk.admins = {}
    /\ disk.genesis # None => /\ disk.genesis = disk.key
                              /\ {"blocks", "transactions"} \subseteq disk.buckets
    /\ "accounts" \in disk.buckets <=> disk.admins # {}
    /\ "blocks" \in disk.buckets <=> disk.key # None

\* A first start begins with no file.
StageInv ==
    /\ pc = "open" /\ ~found => ~disk.file
    /\ pc \in FirstStart => ~found
    /\ pc \in LaterStart => found
    /\ pc = "create" => disk.genesis = None
    /\ pc \in HasBlocks => "blocks" \in disk.buckets
    /\ pc = "persist" => "transactions" \in disk.buckets
    /\ pc \in HasIndex => disk.index
    /\ pc \in HasGenesis => disk.genesis # None
    /\ pc \in {"search", "collection"} /\ ~found => disk.genesis # None
    /\ pc \in {"mappings"} \cup Synced =>
          "accounts" \in disk.buckets /\ cache = disk.admins
    /\ pc \in Synced => "collections" \in disk.buckets

\* The node goes by the key on disk.
NodeInv ==
    /\ pc \in {"txBucket", "persist"} \cup HasGenesis => node = disk.key
    /\ pc \in {"search", "collection"} /\ ~found => node = disk.key

\* Keys that are kept to be shown have been registered.
KeyInv ==
    /\ \A p \in Process : mine[p] # None => mine[p] \in disk.admins
    /\ pc = "print" => mine["server"] # None
    /\ kpc = "print" => mine["keygen"] # None
    /\ ShownIsRegistered

Whole == disk.buckets = Bucket /\ disk.genesis # None /\ disk.index

\* Nothing is taken from a disk that has served.
ServedInv == served => Whole /\ pc # "failed"

IInv ==
    /\ TypeOK /\ LockInv /\ DiskInv /\ StageInv /\ NodeInv /\ KeyInv
    /\ ServedInv

-----------------------------------------------------------------------------

\* Nothing is there yet.
LEMMA InitOK == Init => IInv
<1> SUFFICES ASSUME Init PROVE IInv
    OBVIOUS
<1> USE DEF Init
<1>1. TypeOK
    <2>1. disk \in Disk
        BY DEF Disk
    <2>2. mine \in [Process -> AdminKey \cup {None}]
        OBVIOUS
    <2>3. crashes \in 0..MaxCrashes
        BY ConstantsAssumption DEF ConstantsAssumption
    <2> QED BY <2>1, <2>2, <2>3, Zenon DEF TypeOK, Down
<1>2. LockInv
    BY ConstantsAssumption DEF LockInv, ConstantsAssumption, Down
<1>3. DiskInv
    BY DEF DiskInv
<1>4. StageInv /\ NodeInv
    BY DEF StageInv, NodeInv, FirstStart, LaterStart, HasBlocks, HasIndex,
           HasGenesis, Synced
<1>5. KeyInv
    BY DEF KeyInv, ShownIsRegistered
<1> QED BY <1>1, <1>2, <1>3, <1>4, <1>5 DEF IInv, ServedInv

\* A bucket is added and the rest stays.
LEMMA BucketAdded ==
    ASSUME disk \in Disk
    PROVE  /\ WithBucket(disk, "blocks") \in Disk
           /\ WithBucket(disk, "accounts") \in Disk
           /\ \A key \in PeerKey :
                [WithBucket(disk, "blocks") EXCEPT !.key = key] \in Disk
           /\ \A key \in AdminKey :
                [WithBucket(disk, "accounts") EXCEPT !.admins = @ \cup {key}] \in Disk
<1>1. \A b \in Bucket : WithBucket(disk, b) \in Disk
    BY DEF WithBucket, Disk, Bucket
<1>2. "blocks" \in Bucket /\ "accounts" \in Bucket
    BY DEF Bucket
<1>3. \A d \in Disk, key \in PeerKey : [d EXCEPT !.key = key] \in Disk
    BY DEF Disk
<1>4. \A d \in Disk, key \in AdminKey :
          [d EXCEPT !.admins = @ \cup {key}] \in Disk
    BY DEF Disk
<1> QED BY <1>1, <1>2, <1>3, <1>4

\* generateAdminAccount, before the key is shown.
LEMMA DrawTypes ==
    ASSUME TypeOK, NEW p \in Process, Draw(p)
    PROVE  /\ disk' \in Disk /\ mine' \in [Process -> AdminKey \cup {None}]
           /\ drawn' \subseteq AdminKey /\ printed' = printed
<1>1. PICK key \in AdminKey :
          /\ Register(p, key)
          /\ drawn' = drawn \cup {key} /\ mine' = [mine EXCEPT ![p] = key]
    BY DEF Draw
<1>2. disk' = [WithBucket(disk, "accounts") EXCEPT !.admins = @ \cup {key}]
      /\ printed' = printed
    BY <1>1 DEF Register
<1>3. disk' \in Disk
    BY <1>2, BucketAdded DEF TypeOK
<1>4. mine' \in [Process -> AdminKey \cup {None}] /\ drawn' \subseteq AdminKey
    BY <1>1 DEF TypeOK
<1> QED BY <1>2, <1>3, <1>4

\* Every step keeps the types.
LEMMA TypeStep ==
    ASSUME ConstantsAssumption, TypeOK, KeyInv, [Next]_vars
    PROVE  TypeOK'
<1> USE DEF TypeOK, Disk, Bucket, ConstantsAssumption, KeyInv, Goto, world,
           keys, Process, Down, Boot
<1>1. CASE Start
    BY <1>1 DEF Start
<1>2. CASE Open
    BY <1>2 DEF Open
<1>3. CASE CreateBlocks
    <2>1. PICK key \in PeerKey :
              /\ disk' = [WithBucket(disk, "blocks") EXCEPT !.key = key]
              /\ node' = key
        BY <1>3 DEF CreateBlocks
    <2>2. disk' \in Disk
        BY <2>1, BucketAdded
    <2> QED BY <1>3, <2>1, <2>2 DEF CreateBlocks
<1>4. CASE CreateTransactions
    BY <1>4 DEF CreateTransactions, WithBucket
<1>5. CASE PersistGenesis
    BY <1>5 DEF PersistGenesis
<1>6. CASE ReadTip
    BY <1>6 DEF ReadTip, Fail, Exit
<1>7. CASE OpenIndex
    BY <1>7 DEF OpenIndex, AfterSearch
<1>8. CASE StoreCollection
    BY <1>8 DEF StoreCollection, AfterSearch, WithBucket
<1>9. CASE IsComplete
    BY <1>9 DEF IsComplete, Identity, Fail, Exit
<1>10. CASE NewAdmin
    BY <1>10, DrawTypes DEF NewAdmin
<1>11. CASE ShowAdmin
    BY <1>11 DEF ShowAdmin, Show
<1>12. CASE InitializeAccounts
    BY <1>12 DEF InitializeAccounts, Fail, Exit
<1>13. CASE InitializeMappings
    BY <1>13 DEF InitializeMappings, Fail, Exit
<1>14. CASE SyncMappings \/ SyncAccounts \/ SyncPeerBlockchains
    BY <1>14 DEF SyncMappings, SyncAccounts, SyncPeerBlockchains
<1>15. CASE Stop
    BY <1>15 DEF Stop, Exit
<1>16. CASE Crash
    BY <1>16 DEF Crash, Exit
<1>17. CASE KeygenStart
    BY <1>17 DEF KeygenStart
<1>18. CASE KeygenOpen
    BY <1>18 DEF KeygenOpen
<1>19. CASE KeygenAdmin
    BY <1>19, DrawTypes DEF KeygenAdmin
<1>20. CASE KeygenShow
    BY <1>20 DEF KeygenShow, Show
<1>21. CASE KeygenCrash
    BY <1>21 DEF KeygenCrash
<1>22. CASE UNCHANGED vars
    BY <1>22 DEF vars
<1> QED
    BY <1>1, <1>2, <1>3, <1>4, <1>5, <1>6, <1>7, <1>8, <1>9, <1>10, <1>11,
       <1>12, <1>13, <1>14, <1>15, <1>16, <1>17, <1>18, <1>19, <1>20,
       <1>21, <1>22 DEF Next, BootStep, KeygenStep

\* The lock changes hands with the step of the process that has it.
LEMMA LockStep ==
    ASSUME ConstantsAssumption, TypeOK, LockInv, [Next]_vars
    PROVE  LockInv'
<1> USE DEF Disk, ConstantsAssumption, TypeOK, LockInv, Goto, world, keys,
           Process, Down, Boot
<1>1. CASE Start
    BY <1>1 DEF Start
<1>2. CASE Open
    BY <1>2 DEF Open
<1>3. CASE CreateBlocks
    BY <1>3 DEF CreateBlocks, WithBucket
<1>4. CASE CreateTransactions
    BY <1>4 DEF CreateTransactions, WithBucket
<1>5. CASE PersistGenesis
    BY <1>5 DEF PersistGenesis
<1>6. CASE ReadTip
    BY <1>6 DEF ReadTip, Fail, Exit
<1>7. CASE OpenIndex
    BY <1>7 DEF OpenIndex, AfterSearch
<1>8. CASE StoreCollection
    BY <1>8 DEF StoreCollection, AfterSearch, WithBucket
<1>9. CASE IsComplete
    BY <1>9 DEF IsComplete, Identity, Fail, Exit
<1>10. CASE NewAdmin
    BY <1>10 DEF NewAdmin, Draw, Register, WithBucket
<1>11. CASE ShowAdmin
    BY <1>11 DEF ShowAdmin, Show
<1>12. CASE InitializeAccounts
    BY <1>12 DEF InitializeAccounts, Fail, Exit
<1>13. CASE InitializeMappings
    BY <1>13 DEF InitializeMappings, Fail, Exit
<1>14. CASE SyncMappings \/ SyncAccounts \/ SyncPeerBlockchains
    BY <1>14 DEF SyncMappings, SyncAccounts, SyncPeerBlockchains
<1>15. CASE Stop
    BY <1>15 DEF Stop, Exit
<1>16. CASE Crash
    BY <1>16 DEF Crash, Exit
<1>17. CASE KeygenStart
    BY <1>17 DEF KeygenStart
<1>18. CASE KeygenOpen
    BY <1>18 DEF KeygenOpen
<1>19. CASE KeygenAdmin
    BY <1>19 DEF KeygenAdmin, Draw, Register, WithBucket
<1>20. CASE KeygenShow
    BY <1>20 DEF KeygenShow, Show
<1>21. CASE KeygenCrash
    BY <1>21 DEF KeygenCrash
<1>22. CASE UNCHANGED vars
    BY <1>22 DEF vars
<1> QED
    BY <1>1, <1>2, <1>3, <1>4, <1>5, <1>6, <1>7, <1>8, <1>9, <1>10, <1>11,
       <1>12, <1>13, <1>14, <1>15, <1>16, <1>17, <1>18, <1>19, <1>20,
       <1>21, <1>22 DEF Next, BootStep, KeygenStep

\* What is on disk grows in order.
LEMMA DiskStep ==
    ASSUME ConstantsAssumption, TypeOK, LockInv, DiskInv, StageInv, NodeInv, [Next]_vars
    PROVE  DiskInv'
<1> USE DEF Disk, TypeOK, LockInv, DiskInv, StageInv, NodeInv, FirstStart,
           ConstantsAssumption, Bucket, Goto, world, keys, Process, Down, Boot
<1>1. CASE Start
    BY <1>1 DEF Start
<1>2. CASE Open
    BY <1>2 DEF Open
<1>3. CASE CreateBlocks
    BY <1>3 DEF CreateBlocks, WithBucket
<1>4. CASE CreateTransactions
    BY <1>4 DEF CreateTransactions, WithBucket
<1>5. CASE PersistGenesis
    BY <1>5 DEF PersistGenesis
<1>6. CASE ReadTip
    BY <1>6 DEF ReadTip, Fail, Exit
<1>7. CASE OpenIndex
    BY <1>7 DEF OpenIndex, AfterSearch
<1>8. CASE StoreCollection
    BY <1>8 DEF StoreCollection, AfterSearch, WithBucket
<1>9. CASE IsComplete
    BY <1>9 DEF IsComplete, Identity, Fail, Exit
<1>10. CASE NewAdmin
    BY <1>10 DEF NewAdmin, Draw, Register, WithBucket
<1>11. CASE ShowAdmin
    BY <1>11 DEF ShowAdmin, Show
<1>12. CASE InitializeAccounts
    BY <1>12 DEF InitializeAccounts, Fail, Exit
<1>13. CASE InitializeMappings
    BY <1>13 DEF InitializeMappings, Fail, Exit
<1>14. CASE SyncMappings \/ SyncAccounts \/ SyncPeerBlockchains
    BY <1>14 DEF SyncMappings, SyncAccounts, SyncPeerBlockchains
<1>15. CASE Stop
    BY <1>15 DEF Stop, Exit
<1>16. CASE Crash
    BY <1>16 DEF Crash, Exit
<1>17. CASE KeygenStart
    BY <1>17 DEF KeygenStart
<1>18. CASE KeygenOpen
    BY <1>18 DEF KeygenOpen
<1>19. CASE KeygenAdmin
    BY <1>19 DEF KeygenAdmin, Draw, Register, WithBucket
<1>20. CASE KeygenShow
    BY <1>20 DEF KeygenShow, Show
<1>21. CASE KeygenCrash
    BY <1>21 DEF KeygenCrash
<1>22. CASE UNCHANGED vars
    BY <1>22 DEF vars
<1> QED
    BY <1>1, <1>2, <1>3, <1>4, <1>5, <1>6, <1>7, <1>8, <1>9, <1>10, <1>11,
       <1>12, <1>13, <1>14, <1>15, <1>16, <1>17, <1>18, <1>19, <1>20,
       <1>21, <1>22 DEF Next, BootStep, KeygenStep

\* Each stage of a start leaves what the next ones ask for.
LEMMA StageStep ==
    ASSUME ConstantsAssumption, TypeOK, LockInv, DiskInv, StageInv, NodeInv, [Next]_vars
    PROVE  StageInv'
<1> USE DEF Disk, TypeOK, LockInv, DiskInv, StageInv, NodeInv,
           ConstantsAssumption, Bucket, FirstStart, LaterStart, HasBlocks,
           HasIndex, HasGenesis, Synced, Goto, world, keys, Process, Down, Boot
<1>1. CASE Start
    BY <1>1 DEF Start
<1>2. CASE Open
    BY <1>2 DEF Open
<1>3. CASE CreateBlocks
    BY <1>3 DEF CreateBlocks, WithBucket
<1>4. CASE CreateTransactions
    BY <1>4 DEF CreateTransactions, WithBucket
<1>5. CASE PersistGenesis
    BY <1>5 DEF PersistGenesis
<1>6. CASE ReadTip
    BY <1>6 DEF ReadTip, Fail, Exit
<1>7. CASE OpenIndex
    BY <1>7 DEF OpenIndex, AfterSearch
<1>8. CASE StoreCollection
    BY <1>8 DEF StoreCollection, AfterSearch, WithBucket
<1>9. CASE IsComplete
    BY <1>9 DEF IsComplete, Identity, Fail, Exit
<1>10. CASE NewAdmin
    BY <1>10 DEF NewAdmin, Draw, Register, WithBucket
<1>11. CASE ShowAdmin
    BY <1>11 DEF ShowAdmin, Show
<1>12. CASE InitializeAccounts
    BY <1>12 DEF InitializeAccounts, Fail, Exit
<1>13. CASE InitializeMappings
    BY <1>13 DEF InitializeMappings, Fail, Exit
<1>14. CASE SyncMappings \/ SyncAccounts \/ SyncPeerBlockchains
    BY <1>14 DEF SyncMappings, SyncAccounts, SyncPeerBlockchains
<1>15. CASE Stop
    BY <1>15 DEF Stop, Exit
<1>16. CASE Crash
    BY <1>16 DEF Crash, Exit
<1>17. CASE KeygenStart
    BY <1>17 DEF KeygenStart
<1>18. CASE KeygenOpen
    BY <1>18 DEF KeygenOpen
<1>19. CASE KeygenAdmin
    BY <1>19 DEF KeygenAdmin, Draw, Register, WithBucket
<1>20. CASE KeygenShow
    BY <1>20 DEF KeygenShow, Show
<1>21. CASE KeygenCrash
    BY <1>21 DEF KeygenCrash
<1>22. CASE UNCHANGED vars
    BY <1>22 DEF vars
<1> QED
    BY <1>1, <1>2, <1>3, <1>4, <1>5, <1>6, <1>7, <1>8, <1>9, <1>10, <1>11,
       <1>12, <1>13, <1>14, <1>15, <1>16, <1>17, <1>18, <1>19, <1>20,
       <1>21, <1>22 DEF Next, BootStep, KeygenStep

\* The key is drawn once.
LEMMA NodeStep ==
    ASSUME TypeOK, LockInv, DiskInv, StageInv, NodeInv, [Next]_vars
    PROVE  NodeInv'
<1> USE DEF Disk, TypeOK, LockInv, DiskInv, StageInv, NodeInv, FirstStart,
           LaterStart, HasGenesis, Synced, Goto, world, keys, Process, Down, Boot
<1>1. CASE Start
    BY <1>1 DEF Start
<1>2. CASE Open
    BY <1>2 DEF Open
<1>3. CASE CreateBlocks
    BY <1>3 DEF CreateBlocks, WithBucket
<1>4. CASE CreateTransactions
    BY <1>4 DEF CreateTransactions, WithBucket
<1>5. CASE PersistGenesis
    BY <1>5 DEF PersistGenesis
<1>6. CASE ReadTip
    BY <1>6 DEF ReadTip, Fail, Exit
<1>7. CASE OpenIndex
    BY <1>7 DEF OpenIndex, AfterSearch
<1>8. CASE StoreCollection
    BY <1>8 DEF StoreCollection, AfterSearch, WithBucket
<1>9. CASE IsComplete
    BY <1>9 DEF IsComplete, Identity, Fail, Exit
<1>10. CASE NewAdmin
    BY <1>10 DEF NewAdmin, Draw, Register, WithBucket
<1>11. CASE ShowAdmin
    BY <1>11 DEF ShowAdmin, Show
<1>12. CASE InitializeAccounts
    BY <1>12 DEF InitializeAccounts, Fail, Exit
<1>13. CASE InitializeMappings
    BY <1>13 DEF InitializeMappings, Fail, Exit
<1>14. CASE SyncMappings \/ SyncAccounts \/ SyncPeerBlockchains
    BY <1>14 DEF SyncMappings, SyncAccounts, SyncPeerBlockchains
<1>15. CASE Stop
    BY <1>15 DEF Stop, Exit
<1>16. CASE Crash
    BY <1>16 DEF Crash, Exit
<1>17. CASE KeygenStart
    BY <1>17 DEF KeygenStart
<1>18. CASE KeygenOpen
    BY <1>18 DEF KeygenOpen
<1>19. CASE KeygenAdmin
    BY <1>19 DEF KeygenAdmin, Draw, Register, WithBucket
<1>20. CASE KeygenShow
    BY <1>20 DEF KeygenShow, Show
<1>21. CASE KeygenCrash
    BY <1>21 DEF KeygenCrash
<1>22. CASE UNCHANGED vars
    BY <1>22 DEF vars
<1> QED
    BY <1>1, <1>2, <1>3, <1>4, <1>5, <1>6, <1>7, <1>8, <1>9, <1>10, <1>11,
       <1>12, <1>13, <1>14, <1>15, <1>16, <1>17, <1>18, <1>19, <1>20,
       <1>21, <1>22 DEF Next, BootStep, KeygenStep

\* A key is registered before it is kept to be shown.
LEMMA KeyStep ==
    ASSUME ConstantsAssumption, TypeOK, KeyInv, DiskInv, [Next]_vars
    PROVE  KeyInv'
<1> USE DEF Disk, TypeOK, DiskInv, KeyInv, ShownIsRegistered,
           ConstantsAssumption, Goto, world, keys, Process, Down, Boot
<1>1. CASE Start
    BY <1>1 DEF Start
<1>2. CASE Open
    BY <1>2 DEF Open
<1>3. CASE CreateBlocks
    BY <1>3 DEF CreateBlocks, WithBucket
<1>4. CASE CreateTransactions
    BY <1>4 DEF CreateTransactions, WithBucket
<1>5. CASE PersistGenesis
    BY <1>5 DEF PersistGenesis
<1>6. CASE ReadTip
    BY <1>6 DEF ReadTip, Fail, Exit
<1>7. CASE OpenIndex
    BY <1>7 DEF OpenIndex, AfterSearch
<1>8. CASE StoreCollection
    BY <1>8 DEF StoreCollection, AfterSearch, WithBucket
<1>9. CASE IsComplete
    BY <1>9 DEF IsComplete, Identity, Fail, Exit
<1>10. CASE NewAdmin
    BY <1>10 DEF NewAdmin, Draw, Register, WithBucket
<1>11. CASE ShowAdmin
    BY <1>11 DEF ShowAdmin, Show
<1>12. CASE InitializeAccounts
    BY <1>12 DEF InitializeAccounts, Fail, Exit
<1>13. CASE InitializeMappings
    BY <1>13 DEF InitializeMappings, Fail, Exit
<1>14. CASE SyncMappings \/ SyncAccounts \/ SyncPeerBlockchains
    BY <1>14 DEF SyncMappings, SyncAccounts, SyncPeerBlockchains
<1>15. CASE Stop
    BY <1>15 DEF Stop, Exit
<1>16. CASE Crash
    BY <1>16 DEF Crash, Exit
<1>17. CASE KeygenStart
    BY <1>17 DEF KeygenStart
<1>18. CASE KeygenOpen
    BY <1>18 DEF KeygenOpen
<1>19. CASE KeygenAdmin
    BY <1>19 DEF KeygenAdmin, Draw, Register, WithBucket
<1>20. CASE KeygenShow
    BY <1>20 DEF KeygenShow, Show
<1>21. CASE KeygenCrash
    BY <1>21 DEF KeygenCrash
<1>22. CASE UNCHANGED vars
    BY <1>22 DEF vars
<1> QED
    BY <1>1, <1>2, <1>3, <1>4, <1>5, <1>6, <1>7, <1>8, <1>9, <1>10, <1>11,
       <1>12, <1>13, <1>14, <1>15, <1>16, <1>17, <1>18, <1>19, <1>20,
       <1>21, <1>22 DEF Next, BootStep, KeygenStep

\* A start that finds everything does not fail.
LEMMA ServedStep ==
    ASSUME ConstantsAssumption, TypeOK, LockInv, DiskInv, StageInv, NodeInv, ServedInv, [Next]_vars
    PROVE  ServedInv'
<1> USE DEF Disk, TypeOK, LockInv, DiskInv, StageInv, NodeInv, ServedInv,
           Whole, Bucket, HasBlocks, HasIndex, HasGenesis, Synced, FirstStart,
           ConstantsAssumption, Goto, world, keys, Process, Down, Boot
<1>1. CASE Start
    BY <1>1 DEF Start
<1>2. CASE Open
    BY <1>2 DEF Open
<1>3. CASE CreateBlocks
    BY <1>3 DEF CreateBlocks, WithBucket
<1>4. CASE CreateTransactions
    BY <1>4 DEF CreateTransactions, WithBucket
<1>5. CASE PersistGenesis
    BY <1>5 DEF PersistGenesis
<1>6. CASE ReadTip
    BY <1>6 DEF ReadTip, Fail, Exit
<1>7. CASE OpenIndex
    BY <1>7 DEF OpenIndex, AfterSearch
<1>8. CASE StoreCollection
    BY <1>8 DEF StoreCollection, AfterSearch, WithBucket
<1>9. CASE IsComplete
    BY <1>9 DEF IsComplete, Identity, Fail, Exit
<1>10. CASE NewAdmin
    BY <1>10 DEF NewAdmin, Draw, Register, WithBucket
<1>11. CASE ShowAdmin
    BY <1>11 DEF ShowAdmin, Show
<1>12. CASE InitializeAccounts
    BY <1>12 DEF InitializeAccounts, Fail, Exit
<1>13. CASE InitializeMappings
    BY <1>13 DEF InitializeMappings, Fail, Exit
<1>14. CASE SyncMappings \/ SyncAccounts \/ SyncPeerBlockchains
    <2>1. served' = served \/ pc = "syncBlocks"
        BY <1>14 DEF SyncMappings, SyncAccounts, SyncPeerBlockchains
    <2>2. disk' = disk /\ pc' # "failed"
        BY <1>14 DEF SyncMappings, SyncAccounts, SyncPeerBlockchains
    <2>3. pc = "syncBlocks" => Whole
        OBVIOUS
    <2> QED BY <2>1, <2>2, <2>3
<1>15. CASE Stop
    BY <1>15 DEF Stop, Exit
<1>16. CASE Crash
    BY <1>16 DEF Crash, Exit
<1>17. CASE KeygenStart
    BY <1>17 DEF KeygenStart
<1>18. CASE KeygenOpen
    BY <1>18 DEF KeygenOpen
<1>19. CASE KeygenAdmin
    BY <1>19 DEF KeygenAdmin, Draw, Register, WithBucket
<1>20. CASE KeygenShow
    BY <1>20 DEF KeygenShow, Show
<1>21. CASE KeygenCrash
    BY <1>21 DEF KeygenCrash
<1>22. CASE UNCHANGED vars
    BY <1>22 DEF vars
<1> QED
    BY <1>1, <1>2, <1>3, <1>4, <1>5, <1>6, <1>7, <1>8, <1>9, <1>10, <1>11,
       <1>12, <1>13, <1>14, <1>15, <1>16, <1>17, <1>18, <1>19, <1>20,
       <1>21, <1>22 DEF Next, BootStep, KeygenStep

-----------------------------------------------------------------------------

\* What is on disk fits the step that the start of the server, or keygen,
\* has reached.
THEOREM Invariance == Spec => []IInv
<1>1. IInv /\ [Next]_vars => IInv'
    BY ConstantsAssumption, TypeStep, LockStep, DiskStep, StageStep, NodeStep,
       KeyStep, ServedStep
    DEF IInv
<1> QED BY InitOK, <1>1, PTL DEF Spec

(***************************************************************************)
(* The types of the model.                                                 *)
(***************************************************************************)
THEOREM TypeCorrect == Spec => []TypeOK
<1>1. IInv => TypeOK
    BY DEF IInv
<1> QED BY Invariance, <1>1, PTL

(***************************************************************************)
(* A server that serves has everything on disk: no crash during the first  *)
(* start leads to a server that runs on half of it (server in main.go).    *)
(***************************************************************************)
THEOREM NeverServesHalf == Spec => []ServesComplete
<1>1. IInv => ServesComplete
    <2> SUFFICES ASSUME IInv, pc = "serving"
                 PROVE  /\ disk.buckets = Bucket /\ disk.genesis # None
                        /\ disk.index /\ disk.admins # {}
        BY DEF ServesComplete
    <2>1. disk.genesis # None /\ disk.index
        BY DEF IInv, StageInv, HasGenesis, Synced, HasIndex
    <2>2. Bucket \subseteq disk.buckets
        BY <2>1 DEF IInv, StageInv, DiskInv, HasBlocks, HasIndex, HasGenesis,
               Synced, Bucket
    <2>3. disk.buckets \subseteq Bucket
        BY DEF IInv, TypeOK, Disk
    <2>4. disk.admins # {}
        BY <2>2 DEF IInv, DiskInv, Bucket
    <2> QED BY <2>1, <2>2, <2>3, <2>4
<1> QED BY Invariance, <1>1, PTL

(***************************************************************************)
(* After a server has served once, no start of it fails, whenever it and   *)
(* keygen are killed (NewBlockchain, IsComplete, NewP2P).                  *)
(***************************************************************************)
THEOREM StartsAgain == Spec => []ServedStartsAgain
<1>1. IInv => ServedStartsAgain
    BY DEF IInv, ServedInv, ServedStartsAgain
<1> QED BY Invariance, <1>1, PTL

(***************************************************************************)
(* A peer keeps the identity its genesis block was made with.              *)
(***************************************************************************)
THEOREM IdentityKept == Spec => []OneIdentity
<1>1. IInv => OneIdentity
    BY DEF IInv, OneIdentity, NodeInv, StageInv, DiskInv, HasGenesis, Synced
<1> QED BY Invariance, <1>1, PTL

(***************************************************************************)
(* An admin key is shown only after its account is on disk.                *)
(***************************************************************************)
THEOREM ShownAfterRegistered == Spec => []ShownIsRegistered
<1>1. IInv => ShownIsRegistered
    BY DEF IInv, KeyInv
<1> QED BY Invariance, <1>1, PTL

(***************************************************************************)
(* The file lock keeps keygen and a serving server apart, so that the      *)
(* accounts in memory are all there are.                                   *)
(***************************************************************************)
THEOREM CacheComplete == Spec => []CacheHasAdmins
<1>1. IInv => CacheHasAdmins
    BY DEF IInv, StageInv, CacheHasAdmins, Synced
<1> QED BY Invariance, <1>1, PTL

=============================================================================
