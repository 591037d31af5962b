----------------------------- MODULE Bootstrap -----------------------------
(***************************************************************************)
(* From `blocace server' to the first request served, and the command      *)
(* `blocace keygen' beside it (main.go): what each step leaves on disk,    *)
(* what the next one expects to find there, and what a crash between two   *)
(* steps does to the starts that follow.                                   *)
(*                                                                         *)
(* Each step is one transaction of the database or the creation of one     *)
(* search index.  bolt.Open locks the file and waits for the lock without  *)
(* a time limit; the lock goes with the process.  What is stored is        *)
(* abstracted to what later steps ask of it.                               *)
(*                                                                         *)
(* What the syncs with peers bring is the subject of Collections,          *)
(* AccountSync and PeerCopy.  Here they matter for what they may do to the *)
(* start: the sync of blocks may last for ever.                            *)
(***************************************************************************)
EXTENDS Naturals, FiniteSets

CONSTANTS
    PeerKey,      \* key pairs of nodes, drawn by noise.GenerateKeys
    AdminKey,     \* key pairs of admin accounts, drawn by crypto.GenerateKey
    None,
    MaxCrashes    \* bound

ASSUME ConstantsAssumption ==
    /\ None \notin PeerKey \cup AdminKey \cup {"server", "keygen"}
    /\ MaxCrashes \in Nat

VARIABLES
    disk,       \* what survives a crash, see Disk
    pc,         \* the next step of the server
    found,      \* what DbExists told the server
    node,       \* Local.PeerId
    cache,      \* the accounts in the memory of the server
    kpc,        \* the next step of keygen
    lock,       \* the process that has the database open
    mine,       \* the admin key each process has drawn and not shown yet
    drawn,      \* history: the admin keys that were drawn,
    printed,    \* the admin keys that were shown,
    served,     \* and whether the server has served
    crashes

keys == <<mine, drawn, printed>>
world == <<kpc, lock, keys, served, crashes>>
vars == <<disk, pc, found, node, cache, kpc, lock, mine, drawn, printed,
          served, crashes>>

Process == {"server", "keygen"}
Bucket == {"blocks", "transactions", "collections", "accounts"}
Down == {"down", "failed"}    \* killed or stopped; ended by a panic or exit(1)
Boot == {"open", "create", "txBucket", "persist", "read", "search",
         "collection", "isComplete", "admin", "print", "accounts", "mappings",
         "syncMappings", "syncAccounts", "syncBlocks"}

Goto(step) == pc' = step
WithBucket(d, b) == [d EXCEPT !.buckets = @ \cup {b}]

\* The server process ends: its memory and its lock are gone.
Exit(how) ==
    /\ pc' = how /\ node' = None /\ cache' = {}
    /\ mine' = [mine EXCEPT !["server"] = None]
    /\ lock' = IF lock = "server" THEN None ELSE lock
    /\ UNCHANGED <<disk, found, kpc, drawn, printed, served>>

\* A panic or exit(1) of the server.
Fail == Exit("failed") /\ UNCHANGED crashes

-----------------------------------------------------------------------------

Init ==
    /\ disk = [file |-> FALSE, buckets |-> {}, key |-> None, genesis |-> None,
               index |-> FALSE, admins |-> {}]
    /\ pc = "down" /\ found = FALSE /\ node = None /\ cache = {}
    /\ kpc = "idle" /\ lock = None /\ mine = [p \in Process |-> None]
    /\ drawn = {} /\ printed = {} /\ served = FALSE /\ crashes = 0

\* server: DbExists decides between NewBlockchain and CreateBlockchain.
Start ==
    /\ pc \in Down
    /\ Goto("open") /\ found' = disk.file
    /\ UNCHANGED <<disk, node, cache, world>>

\* bolt.Open makes the file if there is none.
Open ==
    /\ pc = "open" /\ lock = None
    /\ Goto(IF found THEN "read" ELSE "create")
    /\ lock' = "server" /\ disk' = [disk EXCEPT !.file = TRUE]
    /\ UNCHANGED <<found, node, cache, kpc, keys, served, crashes>>

\* CreateBlockchain: the blocks bucket and the key of the node.
CreateBlocks ==
    /\ pc = "create"
    /\ Goto("txBucket")
    /\ \E key \in PeerKey :
          /\ disk' = [WithBucket(disk, "blocks") EXCEPT !.key = key]
          /\ node' = key
    /\ UNCHANGED <<found, cache, world>>

\* CreateBlockchain: NewGenesisBlock makes the transactions bucket.
CreateTransactions ==
    /\ pc = "txBucket"
    /\ Goto("persist")
    /\ disk' = WithBucket(disk, "transactions")
    /\ UNCHANGED <<found, node, cache, world>>

\* CreateBlockchain: Persist, with the coinbase transaction of this node.
PersistGenesis ==
    /\ pc = "persist"
    /\ Goto("search")
    /\ disk' = [disk EXCEPT !.genesis = node]
    /\ UNCHANGED <<found, node, cache, world>>

\* NewBlockchain panics on a database without the blocks bucket.
ReadTip ==
    /\ pc = "read"
    /\ IF "blocks" \in disk.buckets
       THEN Goto("search") /\ UNCHANGED <<disk, found, node, cache, world>>
       ELSE Fail

\* What comes after NewSearch.
AfterSearch == IF found THEN "isComplete" ELSE "admin"

\* Mutant: NewSearch does not try to open the index first.
OpenIndex_AlwaysCreates ==
    /\ pc = "search"
    /\ IF disk.index THEN Fail
       ELSE /\ Goto("collection")
            /\ disk' = [disk EXCEPT !.index = TRUE]
            /\ UNCHANGED <<found, node, cache, world>>

\* NewSearch opens the default index, or has CreateMapping make it.
OpenIndex ==
    /\ pc = "search"
    /\ Goto(IF disk.index THEN AfterSearch ELSE "collection")
    /\ disk' = [disk EXCEPT !.index = TRUE]
    /\ UNCHANGED <<found, node, cache, world>>

\* CreateMapping, its transaction: the default collection.
StoreCollection ==
    /\ pc = "collection"
    /\ Goto(AfterSearch)
    /\ disk' = WithBucket(disk, "collections")
    /\ UNCHANGED <<found, node, cache, world>>

\* Mutant: NewBlockchain draws a key of its own.
Identity_Fresh == CHOOSE key \in PeerKey : key # disk.key

\* NewBlockchain reads the key of the node again; IsComplete needs a height.
Identity == disk.key

\* Mutant: the verdict of IsComplete is ignored.
IsComplete_Ignored ==
    /\ pc = "isComplete"
    /\ Goto("accounts") /\ node' = Identity
    /\ UNCHANGED <<disk, found, cache, world>>

IsComplete ==
    /\ pc = "isComplete"
    /\ IF disk.genesis # None
       THEN /\ Goto("accounts") /\ node' = Identity
            /\ UNCHANGED <<disk, found, cache, world>>
       ELSE Fail

-----------------------------------------------------------------------------
(* generateAdminAccount, for the server and for keygen. *)

\* Mutant: the key is shown, and then written to a database closed by then.
Register_OnlyShows(p, key) ==
    /\ printed' = printed \cup {key}
    /\ UNCHANGED disk

\* The account is written first; then its key is shown, once.
Register(p, key) ==
    /\ disk' = [WithBucket(disk, "accounts") EXCEPT !.admins = @ \cup {key}]
    /\ UNCHANGED printed

Draw(p) ==
    \E key \in AdminKey \ drawn :
        /\ drawn' = drawn \cup {key}
        /\ mine' = [mine EXCEPT ![p] = key]
        /\ Register(p, key)

Show(p) ==
    /\ printed' = printed \cup {mine[p]}
    /\ mine' = [mine EXCEPT ![p] = None]
    /\ UNCHANGED <<disk, drawn>>

NewAdmin ==
    /\ pc = "admin"
    /\ Goto("print") /\ Draw("server")
    /\ UNCHANGED <<found, node, cache, kpc, lock, served, crashes>>

ShowAdmin ==
    /\ pc = "print"
    /\ Goto("accounts") /\ Show("server")
    /\ UNCHANGED <<found, node, cache, kpc, lock, served, crashes>>

\* keygen panics if there is no file.  Bound: a key is left for the server.
KeygenStart ==
    /\ kpc = "idle" /\ disk.file /\ Cardinality(AdminKey \ drawn) > 1
    /\ kpc' = "open"
    /\ UNCHANGED <<disk, pc, found, node, cache, lock, keys, served, crashes>>

\* Mutant: keygen opens the file without its lock.
KeygenOpen_NoLock ==
    /\ kpc = "open"
    /\ kpc' = "admin"
    /\ UNCHANGED <<disk, pc, found, node, cache, lock, keys, served, crashes>>

KeygenOpen ==
    /\ kpc = "open" /\ lock = None
    /\ kpc' = "admin" /\ lock' = "keygen"
    /\ UNCHANGED <<disk, pc, found, node, cache, keys, served, crashes>>

KeygenAdmin ==
    /\ kpc = "admin"
    /\ kpc' = "print" /\ Draw("keygen")
    /\ UNCHANGED <<pc, found, node, cache, lock, served, crashes>>

\* The process ends, and gives the file up.
KeygenShow ==
    /\ kpc = "print"
    /\ kpc' = "idle" /\ lock' = None /\ Show("keygen")
    /\ UNCHANGED <<pc, found, node, cache, served, crashes>>

-----------------------------------------------------------------------------
(* NewP2P and what follows. *)

\* Mutant: it waits for a keygen to make the bucket, with the file locked.
InitializeAccounts_Waits ==
    /\ pc = "accounts"
    /\ IF "accounts" \in disk.buckets
       THEN /\ Goto("mappings") /\ cache' = disk.admins
            /\ UNCHANGED <<disk, found, node, world>>
       ELSE UNCHANGED vars

\* initializeAccounts panics without its bucket.
InitializeAccounts ==
    /\ pc = "accounts"
    /\ IF "accounts" \in disk.buckets
       THEN /\ Goto("mappings") /\ cache' = disk.admins
            /\ UNCHANGED <<disk, found, node, world>>
       ELSE Fail

\* So does initializeMappings.
InitializeMappings ==
    /\ pc = "mappings"
    /\ IF "collections" \in disk.buckets
       THEN /\ Goto("syncMappings")
            /\ UNCHANGED <<disk, found, node, cache, world>>
       ELSE Fail

\* One request per peer, which ends after ten seconds at most.
SyncMappings ==
    /\ pc = "syncMappings"
    /\ Goto("syncAccounts")
    /\ UNCHANGED <<disk, found, node, cache, world>>

\* So here.
SyncAccounts ==
    /\ pc = "syncAccounts"
    /\ Goto("syncBlocks")
    /\ UNCHANGED <<disk, found, node, cache, world>>

\* SyncPeerBlockchains is done, and the HTTP server starts.  Nothing says that
\* it is ever done: sendBlockRequest calls itself for as long as a peer fails
\* to answer, and AddBlock may wait in bolt.Open for a lock that this process
\* holds.
SyncPeerBlockchains ==
    /\ pc = "syncBlocks"
    /\ Goto("serving") /\ served' = TRUE
    /\ UNCHANGED <<disk, found, node, cache, kpc, lock, keys, crashes>>

\* SIGINT or SIGTERM while the server serves.
Stop == pc = "serving" /\ Exit("down") /\ UNCHANGED crashes

\* The process is killed, or panics on what a peer sent.
Crash ==
    /\ pc \in Boot \cup {"serving"} /\ crashes < MaxCrashes
    /\ Exit("down") /\ crashes' = crashes + 1

KeygenCrash ==
    /\ kpc # "idle" /\ crashes < MaxCrashes
    /\ kpc' = "idle" /\ crashes' = crashes + 1
    /\ mine' = [mine EXCEPT !["keygen"] = None]
    /\ lock' = IF lock = "keygen" THEN None ELSE lock
    /\ UNCHANGED <<disk, pc, found, node, cache, drawn, printed, served>>

BootStep ==
    \/ Open \/ CreateBlocks \/ CreateTransactions \/ PersistGenesis
    \/ ReadTip \/ OpenIndex \/ StoreCollection \/ IsComplete
    \/ NewAdmin \/ ShowAdmin
    \/ InitializeAccounts \/ InitializeMappings
    \/ SyncMappings \/ SyncAccounts

KeygenStep == KeygenOpen \/ KeygenAdmin \/ KeygenShow

Next ==
    \/ Start \/ Stop \/ Crash \/ KeygenStart \/ KeygenCrash
    \/ BootStep \/ SyncPeerBlockchains \/ KeygenStep

Spec == Init /\ [][Next]_vars

(***************************************************************************)
(* A process that can take its next step takes it; bolt tries the lock     *)
(* every 50 milliseconds, and gets it if it is free again and again.       *)
(* Nothing makes the operator start anything, and nothing makes the sync   *)
(* of blocks end.                                                          *)
(***************************************************************************)
FairSpec == Spec /\ SF_vars(BootStep) /\ SF_vars(KeygenStep)

-----------------------------------------------------------------------------

Disk == [file : BOOLEAN, buckets : SUBSET Bucket,
         key : PeerKey \cup {None}, genesis : PeerKey \cup {None},
         index : BOOLEAN, admins : SUBSET AdminKey]

TypeOK ==
    /\ disk \in Disk
    /\ pc \in Boot \cup Down \cup {"serving"}
    /\ found \in BOOLEAN /\ served \in BOOLEAN
    /\ node \in PeerKey \cup {None}
    /\ cache \subseteq AdminKey
    /\ kpc \in {"idle", "open", "admin", "print"}
    /\ lock \in Process \cup {None}
    /\ mine \in [Process -> AdminKey \cup {None}]
    /\ drawn \subseteq AdminKey /\ printed \subseteq AdminKey
    /\ crashes \in 0..MaxCrashes

(***************************************************************************)
(* A server that serves has everything on disk, whatever crashes and       *)
(* failed starts came before: the four buckets, a genesis block, the       *)
(* default index, an admin account (server, NewBlockchain, NewP2P).        *)
(***************************************************************************)
ServesComplete ==
    pc = "serving" =>
        /\ disk.buckets = Bucket /\ disk.genesis # None /\ disk.index
        /\ disk.admins # {}

(***************************************************************************)
(* A server that has served once never fails to start again, as far as its *)
(* own database goes (the copies of peers are the subject of PeerCopy).    *)
(***************************************************************************)
ServedStartsAgain == served => pc # "failed"

(***************************************************************************)
(* The peer id a server goes by is the one its key on disk stands for and  *)
(* the one its genesis block carries, however often it crashed between     *)
(* drawing the key and serving ("make sure to reuse the priv key").        *)
(***************************************************************************)
OneIdentity == pc = "serving" => node = disk.key /\ node = disk.genesis

(***************************************************************************)
(* A key that was shown belongs to a registered account ("the admin        *)
(* account has been created and registered successfully").                 *)
(***************************************************************************)
ShownIsRegistered == printed \subseteq disk.admins

(***************************************************************************)
(* The server knows every admin account on disk while it serves, although  *)
(* keygen writes the file from a process of its own (initializeAccounts).  *)
(***************************************************************************)
CacheHasAdmins == pc = "serving" => cache = disk.admins

(***************************************************************************)
(* A start comes as far as the sync of blocks, fails or is killed: up to   *)
(* there nothing waits for ever, not even for a keygen that has the file   *)
(* (bolt.Open without a time limit).  From there on it is up to the peers. *)
(***************************************************************************)
StartReturns == pc = "open" ~> pc \in Down \cup {"syncBlocks", "serving"}

=============================================================================
