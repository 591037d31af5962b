---------------------------- MODULE Collections ----------------------------
(***************************************************************************)
(* The collections of several nodes: creation over HTTP, their exchange    *)
(* between peers, and the documents that are put into them                 *)
(* (blockchain/search.go, the mapping messages of p2p/p2p.go, checkMapping *)
(* of pool/receiver.go).                                                   *)
(*                                                                         *)
(* A node keeps a collection in four places: a bleve index in a directory  *)
(* (dirs), the schema in the collections bucket (bucket), the open index   *)
(* (open) and the map of the peer-to-peer layer (cache).  CreateMapping    *)
(* makes the directory, commits the schema, then opens; nothing puts the   *)
(* three right after a failure in between.  HTTP sets the cache last, a    *)
(* message sets it first.                                                  *)
(*                                                                         *)
(* The collection "default" exists everywhere and is never exchanged; it   *)
(* is left out.  A block carries one document, which goes from Put to the  *)
(* commit of its block in one step (LocalChain has the steps between);     *)
(* IndexBlock is a step of its own, after the commit.  Equal goroutines or *)
(* messages count once.                                                    *)
(***************************************************************************)
EXTENDS Integers, FiniteSets

CONSTANTS
    Node, Collection,
    Schema,         \* the field lists that clients send
    Invalid,        \* those with a field that CreateMapping refuses
    NoSchema,
    MaxCreations,   \* bound on the creation requests of a behaviour
    MaxCrashes,     \* bound on the crashes of a behaviour
    MaxDrops,       \* bound on the messages lost without a crash
    MaxDiskErrors   \* bound on the failed commits of a behaviour

ASSUME ConstantsAssumption ==
    /\ Invalid \subseteq Schema /\ NoSchema \notin Schema
    /\ MaxCreations \in Nat /\ MaxCrashes \in Nat
    /\ MaxDrops \in Nat /\ MaxDiskErrors \in Nat

SchemaOrNone == Schema \cup {NoSchema}
\* A DocumentMapping.
Mapping == [collection : Collection, fields : Schema]
\* A document in the chain of its owner: fits is the schema it conforms to.
Document == [owner : Node, collection : Collection, fits : Schema]

\* CollectionMappingCreation, in CreateMapping or before the broadcast.
Creation == [node : Node, mapping : Mapping,
             at : {"newIndex", "store", "announce"}]
\* sendMappingsRequest, waiting for the answer; by is "main" in the start.
Ask == [from : Node, to : Node, by : {"main", "worker"},
        known : SUBSET Collection]
\* mappingsRequestReverse, after the answer has been sent.
Reverse == [node : Node, peer : Node, known : SUBSET Collection]
\* The loop over the mappings of a message: those not yet looked at, and the
\* one in CreateMapping (none or one).
Merge == [node : Node, from : Node, by : {"main", "worker", "broadcast"},
          todo : SUBSET Mapping, creating : SUBSET Mapping,
          at : {"next", "newIndex", "store"}]
\* A block on its way to a node: broadcast, copied by a goroutine that a
\* peer's request began ("worker"), or copied by the start ("main").
BlockMessage == [to : Node, document : Document, by : {"main", "worker"}]
\* AddBlock between the commit and the end of IndexBlock.
Indexing == [node : Node, document : Document,
             by : {"monitor", "main", "worker"}]

VARIABLES
    status,      \* "down", "starting" (it listens, no HTTP yet) or "serving"
    toAsk,       \* SyncMappingsFromPeers: the peers still to ask
    toSync,      \* SyncPeerBlockchains: the peers still to copy
    dirs,        \* disk: the index directories, with the schema they are for
    bucket,      \* disk: the collections bucket
    open,        \* Search.BlockchainIndices
    cache,       \* P2P.mappings
    creations, asks, reverses, merges, blocks,
    stored,      \* disk: the documents in the blocks of all chains it keeps
    indexing,    \* the goroutines in IndexBlock
    indexed,     \* disk: the documents in its indices
    requested,   \* history: the schemas that HTTP asked for
    overtaken,   \* history: documents whose block came before the mapping
    cutShort,    \* history: documents whose IndexBlock a crash ended
    created, crashes, drops, diskErrors      \* history: how many so far

nodes == <<status, toAsk, toSync>>
collections == <<dirs, bucket, open, cache>>
tasks == <<creations, asks, reverses, merges>>
documents == <<stored, indexing, indexed, overtaken, cutShort>>
counts == <<crashes, drops, diskErrors>>
history == <<requested, created>>
vars == <<nodes, collections, tasks, blocks, documents, history, counts>>

Up == {n \in Node : status[n] # "down"}
Peers(n) == Up \ {n}
Known(n) == {c \in Collection : cache[n][c] # NoSchema}
Place(f, n, c, s) == [f EXCEPT ![n][c] = s]

-----------------------------------------------------------------------------

\* Databases without a collection of their own; any node may be down.
Init ==
    /\ status \in [Node -> {"down", "serving"}]
    /\ toAsk = [n \in Node |-> {}] /\ toSync = toAsk
    /\ dirs = [n \in Node |-> [c \in Collection |-> NoSchema]]
    /\ bucket = dirs /\ cache = dirs
    /\ open = [n \in Node |-> {}]
    /\ creations = {} /\ asks = {} /\ reverses = {} /\ merges = {}
    /\ blocks = {}
    /\ stored = [n \in Node |-> {}] /\ indexed = stored
    /\ overtaken = stored /\ cutShort = stored /\ indexing = {}
    /\ requested = [c \in Collection |-> {}]
    /\ created = 0 /\ crashes = 0 /\ drops = 0 /\ diskErrors = 0

-----------------------------------------------------------------------------
(* Creation over HTTP: CreateMappingByJson, then the broadcast.            *)

\* The collection has an open index, or a field is refused: no creation, and
\* the broadcast all the same.
CollectionMappingCreation(n, c) ==
    /\ status[n] = "serving" /\ created < MaxCreations
    /\ created' = created + 1
    /\ \E s \in Schema :
         /\ creations' = creations \cup
              {[node |-> n, mapping |-> [collection |-> c, fields |-> s],
                at |-> IF c \in open[n] \/ s \in Invalid THEN "announce"
                                                         ELSE "newIndex"]}
         /\ requested' = [requested EXCEPT ![c] = @ \cup {s}]
    /\ UNCHANGED <<nodes, collections, asks, reverses, merges, blocks,
                   documents, counts>>

\* bleve.NewUsing makes the directory: it refuses one that exists.
NewUsing(n, m) ==
    dirs' = IF dirs[n][m.collection] = NoSchema
            THEN Place(dirs, n, m.collection, m.fields) ELSE dirs

MayCreate(n, m) == dirs[n][m.collection] = NoSchema

\* Mutant: the error of NewUsing is logged and not returned.
CreateIndex_GoesOn(h) ==
    /\ h.at = "newIndex"
    /\ NewUsing(h.node, h.mapping)
    /\ creations' = (creations \ {h}) \cup {[h EXCEPT !.at = "store"]}
    /\ UNCHANGED <<nodes, bucket, open, cache, asks, reverses, merges, blocks,
                   documents, history, counts>>

\* CreateMapping up to NewUsing; an error ends it.
CreateIndex(h) ==
    /\ h.at = "newIndex"
    /\ NewUsing(h.node, h.mapping)
    /\ creations' = (creations \ {h}) \cup
         {[h EXCEPT !.at = IF MayCreate(h.node, h.mapping) THEN "store"
                                                           ELSE "announce"]}
    /\ UNCHANGED <<nodes, bucket, open, cache, asks, reverses, merges, blocks,
                   documents, history, counts>>

\* The commit of CreateMapping, then the entry of BlockchainIndices.
StoreMapping(n, m) ==
    /\ bucket' = Place(bucket, n, m.collection, m.fields)
    /\ open' = [open EXCEPT ![n] = @ \cup {m.collection}]

Store(h) ==
    /\ h.at = "store"
    /\ StoreMapping(h.node, h.mapping)
    /\ creations' = (creations \ {h}) \cup {[h EXCEPT !.at = "announce"]}
    /\ UNCHANGED <<nodes, dirs, cache, asks, reverses, merges, blocks,
                   documents, history, counts>>

\* The commit fails: the directory stays, the index is not entered.
StoreFails(h) ==
    /\ h.at = "store"
    /\ diskErrors < MaxDiskErrors /\ diskErrors' = diskErrors + 1
    /\ creations' = (creations \ {h}) \cup {[h EXCEPT !.at = "announce"]}
    /\ UNCHANGED <<nodes, collections, asks, reverses, merges, blocks,
                   documents, history, crashes, drops>>

\* BroadcastObject: the cache is set whatever it holds, then every peer in
\* the table gets the mapping.
BroadcastObject(h) ==
    /\ h.at = "announce"
    /\ cache' = Place(cache, h.node, h.mapping.collection, h.mapping.fields)
    /\ merges' = merges \cup
         {[node |-> p, from |-> h.node, by |-> "broadcast",
           todo |-> {h.mapping}, creating |-> {}, at |-> "next"] :
                                                     p \in Peers(h.node)}
    /\ creations' = creations \ {h}
    /\ UNCHANGED <<nodes, dirs, bucket, open, asks, reverses, blocks,
                   documents, history, counts>>

-----------------------------------------------------------------------------
(* The exchange between peers.                                             *)

AskFor(n, peer, by) ==
    [from |-> n, to |-> peer, by |-> by, known |-> Known(n)]

MainIsWaiting(n) ==
    \/ \E q \in asks : q.from = n /\ q.by = "main"
    \/ \E m \in merges : m.node = n /\ m.by = "main"
    \/ \E b \in blocks : b.to = n /\ b.by = "main"
    \/ \E i \in indexing : i.node = n /\ i.by = "main"

\* SyncMappingsFromPeers, one peer after the other.
AskNextPeer(n) ==
    /\ status[n] = "starting" /\ ~MainIsWaiting(n)
    /\ \E p \in toAsk[n] :
         /\ toAsk' = [toAsk EXCEPT ![n] = @ \ {p}]
         /\ asks' = IF p \in Up THEN asks \cup {AskFor(n, p, "main")}
                                ELSE asks
    /\ UNCHANGED <<status, toSync, collections, creations, reverses, merges,
                   blocks, documents, history, counts>>

\* A loop over the mappings of a message, unless it is over.
Rest(m) == {x \in {m} : x.todo # {} \/ x.creating # {}}

\* handleMappingsRequest sends the mappings that the peer does not name; our
\* side loops over them.
AnswerAsk(q) ==
    LET new == {[collection |-> c, fields |-> cache[q.to][c]] :
                                             c \in Known(q.to) \ q.known}
    IN  /\ asks' = asks \ {q}
        /\ merges' = merges \cup
             Rest([node |-> q.from, from |-> q.to, by |-> q.by,
                   todo |-> new, creating |-> {}, at |-> "next"])
        /\ reverses' = reverses \cup {[node |-> q.to, peer |-> q.from,
                                       known |-> q.known]}
        /\ UNCHANGED <<nodes, collections, creations, blocks, documents,
                       history, counts>>

\* RequestMessage times out.
AskFails(q) ==
    /\ drops < MaxDrops /\ drops' = drops + 1
    /\ asks' = asks \ {q}
    /\ UNCHANGED <<nodes, collections, creations, reverses, merges, blocks,
                   documents, history, crashes, diskErrors>>

\* Mutant: the peer is never asked back.
MappingsRequestReverse_Never(r) ==
    /\ reverses' = reverses \ {r}
    /\ UNCHANGED <<nodes, collections, creations, asks, merges, blocks,
                   documents, history, counts>>

\* mappingsRequestReverse: ask back when the peer names a collection that is
\* new here.
MappingsRequestReverse(r) ==
    /\ reverses' = reverses \ {r}
    /\ asks' = IF r.known \subseteq Known(r.node) \/ r.peer \notin Up
               THEN asks
               ELSE asks \cup {AskFor(r.node, r.peer, "worker")}
    /\ UNCHANGED <<nodes, collections, creations, merges, blocks, documents,
                   history, counts>>

\* One round of the loop: a mapping that is new, by the cache, goes into the
\* cache, then into CreateMapping, which may refuse a field at once.
MergeIntoCache(m) ==
    /\ m.at = "next"
    /\ \E x \in m.todo :
         LET rest == [m EXCEPT !.todo = @ \ {x}]
             new == cache[m.node][x.collection] = NoSchema
         IN  /\ cache' = IF new
                         THEN Place(cache, m.node, x.collection, x.fields)
                         ELSE cache
             /\ merges' = (merges \ {m}) \cup
                  IF new /\ x.fields \notin Invalid
                  THEN {[rest EXCEPT !.creating = {x}, !.at = "newIndex"]}
                  ELSE Rest(rest)
    /\ UNCHANGED <<nodes, dirs, bucket, open, creations, asks, reverses,
                   blocks, documents, history, counts>>

\* What remains after an error of CreateMapping: the handler of a broadcast
\* returns (it had one mapping), sendMappingsRequest goes on.
NextRound(m) == Rest([m EXCEPT !.creating = {}, !.at = "next"])

MergeCreateIndex(m) ==
    /\ m.at = "newIndex"
    /\ \E x \in m.creating :
         /\ NewUsing(m.node, x)
         /\ merges' = (merges \ {m}) \cup
              IF MayCreate(m.node, x) THEN {[m EXCEPT !.at = "store"]}
                                      ELSE NextRound(m)
    /\ UNCHANGED <<nodes, bucket, open, cache, creations, asks, reverses,
                   blocks, documents, history, counts>>

MergeStore(m) ==
    /\ m.at = "store"
    /\ \E x \in m.creating : StoreMapping(m.node, x)
    /\ merges' = (merges \ {m}) \cup NextRound(m)
    /\ UNCHANGED <<nodes, dirs, cache, creations, asks, reverses, blocks,
                   documents, history, counts>>

MergeStoreFails(m) ==
    /\ m.at = "store"
    /\ diskErrors < MaxDiskErrors /\ diskErrors' = diskErrors + 1
    /\ merges' = (merges \ {m}) \cup NextRound(m)
    /\ UNCHANGED <<nodes, collections, creations, asks, reverses, blocks,
                   documents, history, crashes, drops>>

\* A broadcast is lost: SendMessage fails, or the peer is not in the table.
\* A start never gives up a block: it asks again.
Lose ==
    /\ drops < MaxDrops /\ drops' = drops + 1
    /\ \/ \E m \in merges : /\ m.by = "broadcast" /\ m.at = "next"
                            /\ merges' = merges \ {m} /\ UNCHANGED blocks
       \/ \E b \in blocks : /\ b.by # "main"
                            /\ blocks' = blocks \ {b} /\ UNCHANGED merges
    /\ UNCHANGED <<nodes, collections, creations, asks, reverses, documents,
                   history, crashes, diskErrors>>

-----------------------------------------------------------------------------
(* Documents.                                                              *)

\* Mutant: the schema is read from the map of the peer-to-peer layer.
CheckMapping_Cache(n, c, fits) == cache[n][c] = fits

\* checkMapping reads the schema from the bucket.
CheckMapping(n, c, fits) == bucket[n][c] = fits

\* A mapping of the collection will come: it is being created or sent, it has
\* been asked for, or a node that has it has not finished its start.
OnItsWay(n) ==
    {c \in Collection :
        \/ \E h \in creations : h.mapping.collection = c
        \/ \E m \in merges : /\ m.node = n
                             /\ \E x \in m.todo \cup m.creating :
                                   x.collection = c
        \/ \E q \in asks : q.from = n /\ c \notin q.known
        \/ \E r \in reverses : r.node = n /\ c \in r.known
        \/ \E p \in Node : status[p] # "serving" /\ bucket[p][c] # NoSchema}

\* AddBlock of the chain or of the forest, up to the commit of the block.
Persist(n, d, by) ==
    /\ stored' = [stored EXCEPT ![n] = @ \cup {d}]
    /\ indexing' = indexing \cup {[node |-> n, document |-> d, by |-> by]}
    /\ UNCHANGED <<indexed, overtaken, cutShort>>

\* Put over HTTP by an account that may write there (AccountSync has the
\* permissions), and generateBlock, by the one goroutine Monitor.
HandleTransaction(n, c) ==
    /\ status[n] = "serving" /\ c \in open[n]
    /\ \A i \in indexing : i.node = n => i.by # "monitor"
    /\ \E s \in Schema :
         LET d == [owner |-> n, collection |-> c, fits |-> s]
         IN  /\ CheckMapping(n, c, s)
             /\ d \notin stored[n]
             /\ Persist(n, d, "monitor")
    /\ UNCHANGED <<nodes, collections, tasks, blocks, history, counts>>

\* A block arrives; one that is there already is left alone (the code stores
\* and indexes it once more if it is not the tip, which can only add to the
\* index).
ReceiveBlock(b) ==
    /\ b.by = "main" => b.document.owner \in Up
    /\ blocks' = blocks \ {b}
    /\ \/ b.document \notin stored[b.to] /\ Persist(b.to, b.document, b.by)
       \/ b.document \in stored[b.to] /\ UNCHANGED documents
    /\ UNCHANGED <<nodes, collections, tasks, history, counts>>

\* The collections whose index this goroutine may find missing for now: none
\* in the chain of the node itself; all when a block comes while the start
\* still has peers to ask.
Expected(i) ==
    {c \in Collection :
        \/ i.by = "worker" /\ toAsk[i.node] # {}
        \/ i.by # "monitor" /\ c \in OnItsWay(i.node)}

\* IndexBlock skips a document whose collection has no open index.  Monitor
\* then broadcasts the block.
IndexBlock(i) ==
    LET n == i.node
        d == i.document
    IN  /\ indexing' = indexing \ {i}
        /\ \/ /\ d.collection \in open[n]
              /\ indexed' = [indexed EXCEPT ![n] = @ \cup {d}]
              /\ UNCHANGED overtaken
           \/ /\ d.collection \in Expected(i) \ open[n]
              /\ overtaken' = [overtaken EXCEPT ![n] = @ \cup {d}]
              /\ UNCHANGED indexed
           \/ /\ d.collection \notin Expected(i) \cup open[n]
              /\ UNCHANGED <<indexed, overtaken>>
        /\ blocks' = blocks \cup
             {[to |-> p, document |-> d, by |-> "worker"] :
                 p \in {q \in Peers(n) : i.by = "monitor"}}
        /\ UNCHANGED <<nodes, collections, tasks, stored, cutShort, history,
                       counts>>

Chain(n) == {d \in stored[n] : d.owner = n}

\* The walk from the tip of a peer, over blocks that are not there yet, and
\* the walk of the peer over our chain, which the request for the tip begins.
Walks(n, p) ==
    {[to |-> n, document |-> d, by |-> "main"] : d \in Chain(p) \ stored[n]}
    \cup {[to |-> p, document |-> d, by |-> "worker"] :
                                                d \in Chain(n) \ stored[p]}

\* Mutant: the blocks are copied before the mappings are known.
SyncBlocks_First(n) ==
    /\ status[n] = "starting" /\ ~MainIsWaiting(n)
    /\ \E p \in toSync[n] \cap Up :
         /\ toSync' = [toSync EXCEPT ![n] = @ \ {p}]
         /\ blocks' = blocks \cup Walks(n, p)
    /\ UNCHANGED <<status, toAsk, collections, tasks, documents, history,
                   counts>>

\* SyncPeerBlockchains, after the mappings, one peer after the other.  A peer
\* that is down is asked again.
SyncBlocks(n) ==
    /\ status[n] = "starting" /\ toAsk[n] = {} /\ ~MainIsWaiting(n)
    /\ \E p \in toSync[n] \cap Up :
         /\ toSync' = [toSync EXCEPT ![n] = @ \ {p}]
         /\ blocks' = blocks \cup Walks(n, p)
    /\ UNCHANGED <<status, toAsk, collections, tasks, documents, history,
                   counts>>

-----------------------------------------------------------------------------
(* Starts and faults.                                                      *)

\* NewSearch opens every directory; NewP2P reads the bucket, listens and
\* finds the peers that run.
Start(n) ==
    /\ status[n] = "down"
    /\ status' = [status EXCEPT ![n] = "starting"]
    /\ open' = [open EXCEPT ![n] = {c \in Collection : dirs[n][c] # NoSchema}]
    /\ cache' = [cache EXCEPT ![n] = bucket[n]]
    /\ toAsk' = [toAsk EXCEPT ![n] = Peers(n)]
    /\ toSync' = [toSync EXCEPT ![n] = Peers(n)]
    /\ UNCHANGED <<dirs, bucket, tasks, blocks, documents, history, counts>>

\* The syncs are done: server begins to serve HTTP.
Serve(n) ==
    /\ status[n] = "starting" /\ toAsk[n] = {} /\ toSync[n] = {}
    /\ ~MainIsWaiting(n)
    /\ status' = [status EXCEPT ![n] = "serving"]
    /\ UNCHANGED <<toAsk, toSync, collections, tasks, blocks, documents,
                   history, counts>>

\* The process ends: what it had sent may be lost, or any part of it.  A
\* document between the commit and the index stays out of the index: a block
\* that is stored is not asked for again, but for the tip.
Crash(n) ==
    /\ status[n] # "down" /\ crashes < MaxCrashes
    /\ crashes' = crashes + 1
    /\ status' = [status EXCEPT ![n] = "down"]
    /\ toAsk' = [toAsk EXCEPT ![n] = {}]
    /\ toSync' = [toSync EXCEPT ![n] = {}]
    /\ open' = [open EXCEPT ![n] = {}]
    /\ cache' = [cache EXCEPT ![n] = [c \in Collection |-> NoSchema]]
    /\ creations' = {h \in creations : h.node # n}
    /\ asks' = {q \in asks : q.from # n /\ q.to # n}
    /\ reverses' = {r \in reverses : r.node # n}
    /\ \E lost \in SUBSET {m \in merges : /\ m.from = n /\ m.at = "next"
                                          /\ m.by = "broadcast"} :
         merges' = {m \in merges : m.node # n} \ lost
    /\ \E lost \in SUBSET {b \in blocks : /\ b.document.owner = n
                                          /\ b.by # "main"} :
         blocks' = {b \in blocks : b.to # n} \ lost
    /\ indexing' = {i \in indexing : i.node # n}
    /\ cutShort' = [cutShort EXCEPT ![n] =
                       @ \cup {d \in Document :
                                 \E i \in indexing : /\ i.node = n
                                                     /\ i.document = d}]
    /\ UNCHANGED <<dirs, bucket, stored, indexed, overtaken, history, drops,
                   diskErrors>>

-----------------------------------------------------------------------------

Request ==
    \E n \in Node, c \in Collection :
        \/ CollectionMappingCreation(n, c)
        \/ HandleTransaction(n, c)

Work ==
    \/ \E h \in creations : CreateIndex(h) \/ Store(h) \/ BroadcastObject(h)
    \/ \E n \in Node : AskNextPeer(n) \/ SyncBlocks(n) \/ Serve(n)
    \/ \E q \in asks : AnswerAsk(q)
    \/ \E r \in reverses : MappingsRequestReverse(r)
    \/ \E m \in merges : \/ MergeIntoCache(m) \/ MergeCreateIndex(m)
                         \/ MergeStore(m)
    \/ \E b \in blocks : ReceiveBlock(b)
    \/ \E i \in indexing : IndexBlock(i)

Fault ==
    \/ \E h \in creations : StoreFails(h)
    \/ \E q \in asks : AskFails(q)
    \/ \E m \in merges : MergeStoreFails(m)
    \/ Lose
    \/ \E n \in Node : Crash(n)

Next == Request \/ Work \/ Fault \/ \E n \in Node : Start(n)

Spec == Init /\ [][Next]_vars

-----------------------------------------------------------------------------
(* Properties.                                                             *)

TypeOK ==
    /\ status \in [Node -> {"down", "starting", "serving"}]
    /\ toAsk \in [Node -> SUBSET Node] /\ toSync \in [Node -> SUBSET Node]
    /\ dirs \in [Node -> [Collection -> SchemaOrNone]]
    /\ bucket \in [Node -> [Collection -> SchemaOrNone]]
    /\ cache \in [Node -> [Collection -> SchemaOrNone]]
    /\ open \in [Node -> SUBSET Collection]
    /\ creations \subseteq Creation /\ asks \subseteq Ask
    /\ reverses \subseteq Reverse /\ merges \subseteq Merge
    /\ blocks \subseteq BlockMessage
    /\ stored \in [Node -> SUBSET Document] /\ indexing \subseteq Indexing
    /\ indexed \in [Node -> SUBSET Document]
    /\ overtaken \in [Node -> SUBSET Document]
    /\ cutShort \in [Node -> SUBSET Document]
    /\ requested \in [Collection -> SUBSET Schema]
    /\ created \in Nat /\ crashes \in Nat /\ drops \in Nat
    /\ diskErrors \in Nat

\* Nothing replaces the schema of a collection once it is committed: not a
\* second creation that passed the test of CreateMappingByJson in time, not
\* a mapping of a peer with other fields, not a restart.
SchemaKept ==
    [][\A n \in Node, c \in Collection :
        bucket[n][c] # NoSchema => bucket'[n][c] = bucket[n][c]]_vars

\* The schema that documents are checked against (the bucket) is the one
\* that the index was made with, and an open index is the collection's own,
\* whichever two goroutines created it.
SchemaIsIndexed ==
    \A n \in Node, c \in Collection :
        /\ bucket[n][c] # NoSchema => dirs[n][c] = bucket[n][c]
        /\ c \in open[n] => dirs[n][c] # NoSchema

\* Every document in a node's chain conforms to the schema that the
\* collection has there today, not only to the one at the time of its Put.
DocumentsConform ==
    \A n \in Node : \A d \in stored[n] :
        d.owner = n => bucket[n][d.collection] = d.fits

Idle == /\ creations = {} /\ asks = {} /\ reverses = {} /\ merges = {}
        /\ \A n \in Node : status[n] = "serving"

\* A creation was cut off between the directory and the commit, by a crash or
\* an error: NewUsing refuses the collection for good.
CutOff(n, c) ==
    /\ dirs[n][c] # NoSchema /\ bucket[n][c] = NoSchema
    /\ \A h \in creations :
          h.at = "store" => h.node # n \/ h.mapping.collection # c
    /\ \A m \in merges : \A x \in m.creating :
          m.at = "store" => m.node # n \/ x.collection # c

\* When nothing is on its way, a collection that was only ever asked for
\* with one valid schema is the same at every node, in all four places,
\* whoever was down in between, unless its creation was cut off somewhere.
ReachesAll ==
    Idle /\ drops = 0 =>
        \A c \in Collection, n, p \in Node :
            /\ \A q \in Node : ~CutOff(q, c)
            /\ \E s \in Schema \ Invalid : requested[c] = {s}
            => /\ bucket[n][c] = bucket[p][c]
               /\ cache[n][c] = bucket[n][c]
               /\ (c \in open[n]) = (bucket[n][c] # NoSchema)

\* A document is in the index of every node that stores it, or is on its way
\* from the commit to the index, unless the node crashed there, or the block
\* came before a mapping that was on its way to the node.  A start asks for
\* mappings first, so that it finds none of its blocks that way.
\* A creation that is cut off anywhere is excepted: a second one at that
\* node, which found the directory made, may have told some nodes of the
\* collection and not others when the node crashed; started again, the node
\* has no schema of it to tell the others.
DocumentsFound ==
    drops = 0 =>
        \A n \in Node : \A d \in stored[n] :
            /\ requested[d.collection] \cap Invalid = {}
            /\ \A q \in Node : ~CutOff(q, d.collection)
            => \/ d \in indexed[n] \cup overtaken[n] \cup cutShort[n]
               \/ \E i \in indexing : i.node = n /\ i.document = d

\* "the collection already exists. Nothing to do": without failures, what a
\* node tells its peers of a collection is the schema it has (violated).
NothingToDo ==
    \A n \in Node, c \in Collection :
        /\ status[n] = "serving" /\ bucket[n][c] # NoSchema
        /\ cache[n][c] # NoSchema
        => cache[n][c] = bucket[n][c]
=============================================================================
