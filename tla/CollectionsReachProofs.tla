---------------------- MODULE CollectionsReachProofs ------------------------
(***************************************************************************)
(* A collection reaches every node, and its documents the index of every   *)
(* node, for any number of nodes, collections, schemas, requests, crashes  *)
(* and failed commits.                                                     *)
(*                                                                         *)
(* ReachesAll speaks of a system at rest; ReachInv says why nothing is     *)
(* missing before it comes to rest.  Its main part is WillKnow: once a     *)
(* directory of a collection exists anywhere, every node that runs knows   *)
(* the collection, was sent it, or some node that has it WillTell it: by   *)
(* the broadcast at the end of a creation, by an answer to a question that *)
(* is asked or is about to be, or by the reverse request that follows it.  *)
(* The other parts say that what is promised is kept: goroutines belong to *)
(* nodes that run (Alive), a schema anywhere was asked for by a client     *)
(* (Wanted), what a node knows has an index or is about to get one         *)
(* (HasIndex), and the first directory was made for a client and committed *)
(* (Rooted), so that there is a node to tell the others.                   *)
(*                                                                         *)
(* DocumentsFound follows with Found: when IndexBlock looks for the index  *)
(* of a document it is open, or a mapping is on its way.                   *)
(***************************************************************************)
EXTENDS CollectionsProofs

-----------------------------------------------------------------------------
(* The invariant.                                                          *)

\* The behaviour so far promises the collection to everybody: no message was
\* lost but by a crash, no schema was refused, no creation was cut off.
Sound(c) ==
    /\ drops = 0 /\ requested[c] \cap Invalid = {}
    /\ \A q \in Node : ~CutOff(q, c)

\* A node is creating the collection for a client.
Creating(n, c) ==
    \E h \in creations : h.node = n /\ h.mapping.collection = c

\* A node is between the directory and the commit of the collection.
CreatingAtStore(n, c) ==
    \E h \in creations :
        h.at = "store" /\ h.node = n /\ h.mapping.collection = c

MergingAtStore(n, c) ==
    \E m \in merges : /\ m.at = "store" /\ m.node = n
                      /\ \E x \in m.creating : x.collection = c

\* A node is about to make the directory of a collection that it was sent.
Making(n, c) ==
    \E m \in merges : /\ m.at = "newIndex" /\ m.node = n
                      /\ \E x \in m.creating : x.collection = c

\* A mapping of the collection was sent to a node.
Coming(n, c) ==
    \E m \in merges : m.node = n /\ \E x \in m.todo : x.collection = c

\* Goroutines run, and messages go, where there is a process; SyncMappings-
\* FromPeers is part of a start.
Alive ==
    /\ \A h \in creations : h.node \in Up
    /\ \A m \in merges : m.node \in Up
    /\ \A q \in asks : /\ q.from \in Up /\ q.to \in Up
                       /\ q.by = "main" => status[q.from] = "starting"
    /\ \A r \in reverses : r.node \in Up
    /\ \A n \in Node : toAsk[n] # {} => status[n] = "starting"
    /\ \A b \in blocks : b.to \in Up
    /\ \A i \in indexing : i.node \in Up

\* SyncPeerBlockchains comes after the mappings, and Put wants the index.
InTurn ==
    /\ \A b \in blocks : b.by = "main" => toAsk[b.to] = {}
    /\ \A i \in indexing :
          /\ i.by = "main" => toAsk[i.node] = {}
          /\ i.by = "monitor" => i.document.collection \in open[i.node]

\* Every schema anywhere was asked for by a client.
Wanted ==
    /\ \A h \in creations :
          h.mapping.fields \in requested[h.mapping.collection]
    /\ \A m \in merges : \A x \in m.todo \cup m.creating :
          x.fields \in requested[x.collection]
    /\ \A n \in Node, c \in Collection :
          {cache[n][c], dirs[n][c]} \subseteq requested[c] \cup {NoSchema}

\* What is committed at a node that runs has an open index there, and is in
\* the cache, or a creation will put it there.
Opened ==
    \A n \in Up, c \in Collection :
        bucket[n][c] # NoSchema => /\ c \in open[n]
                                   /\ c \in Known(n) \/ Creating(n, c)

\* A message sets the cache first.
CachedFirst ==
    /\ \A m \in merges : \A x \in m.creating : x.collection \in Known(m.node)
    /\ \A m \in merges : m.at = "next" => m.creating = {}

\* What a node knows or announces has a directory, or will have one at once.
HasIndex ==
    /\ \A n \in Up : \A c \in Known(n) :
          Sound(c) => dirs[n][c] # NoSchema \/ Making(n, c)
    /\ \A h \in creations :
          h.at = "announce" /\ Sound(h.mapping.collection) =>
              dirs[h.node][h.mapping.collection] # NoSchema
    /\ \A m \in merges : \A x \in m.todo :
          m.by = "broadcast" /\ Sound(x.collection) =>
              dirs[m.from][x.collection] # NoSchema

\* The first directory of a collection was made for a client, and committed.
Root(c) ==
    \E n \in Node : bucket[n][c] # NoSchema \/ CreatingAtStore(n, c)

Mentioned(c) ==
    \/ \E n \in Node : c \in Known(n) \/ dirs[n][c] # NoSchema
    \/ \E m \in merges : \E x \in m.todo \cup m.creating : x.collection = c

Rooted == \A c \in Collection : Sound(c) /\ Mentioned(c) => Root(c)

\* Node p has the collection and will tell n of it: p creates it and has the
\* broadcast before it; p is down and asks n when it starts; or one of the
\* two is about to ask the other, or has asked.
WillTell(p, n, c) ==
    \/ dirs[p][c] # NoSchema /\ Creating(p, c)
    \/ /\ bucket[p][c] # NoSchema
       /\ \/ status[p] = "down"
          \/ p \in toAsk[n] \/ n \in toAsk[p]
          \/ \E q \in asks : q.from = n /\ q.to = p /\ c \notin q.known
          \/ \E q \in asks : /\ q.from = p /\ q.to = n
                             /\ q.by = "main" /\ c \in q.known
          \/ \E r \in reverses : r.node = n /\ r.peer = p /\ c \in r.known

\* A node knows the collection, was sent it, or will be told.
Reached(n, c) ==
    c \in Known(n) \/ Coming(n, c) \/ \E p \in Node : WillTell(p, n, c)

WillKnow ==
    \A n \in Up, c \in Collection :
        Sound(c) /\ (\E p \in Node : dirs[p][c] # NoSchema) => Reached(n, c)

\* A goroutine is between the commit and the index of the document.
BeingIndexed(n, d) == \E i \in indexing : i.node = n /\ i.document = d

\* DocumentsFound.
Found ==
    \A n \in Node : \A d \in stored[n] :
        Sound(d.collection) =>
            \/ d \in indexed[n] \cup overtaken[n] \cup cutShort[n]
            \/ BeingIndexed(n, d)

ReachInv ==
    /\ IInv /\ Alive /\ InTurn /\ Wanted /\ Opened /\ CachedFirst
    /\ HasIndex /\ Rooted /\ WillKnow

-----------------------------------------------------------------------------
(* What the steps do to the tasks.                                         *)

LEMMA CreationIs ==
    ASSUME TypeOK, NEW h \in creations, NEW a \in {"store", "announce"}
    PROVE  LET g == [h EXCEPT !.at = a]
           IN  /\ g.node = h.node /\ g.mapping = h.mapping /\ g.at = a
               /\ g \in Creation
<1>1. h \in Creation
  BY DEF TypeOK
<1> QED
  BY <1>1 DEF Creation

\* What the loop goes on with after a mapping.
LEMMA NextRoundIs ==
    ASSUME NEW m \in Merge
    PROVE  /\ \A k \in NextRound(m) :
                 /\ k.node = m.node /\ k.from = m.from /\ k.by = m.by
                 /\ k.todo = m.todo /\ k.creating = {} /\ k.at = "next"
           /\ m.todo # {} => \E k \in NextRound(m) :
                                 k.node = m.node /\ k.todo = m.todo
<1> DEFINE k == [m EXCEPT !.creating = {}, !.at = "next"]
<1>1. /\ k.node = m.node /\ k.from = m.from /\ k.by = m.by
      /\ k.todo = m.todo /\ k.creating = {} /\ k.at = "next"
  BY DEF Merge
<1>2. NextRound(m) \subseteq {k} /\ (m.todo # {} => k \in NextRound(m))
  BY <1>1 DEF NextRound, Rest
<1> HIDE DEF k
<1> QED
  BY <1>1, <1>2

\* One round of the loop takes x.
IntoCache(m, x) ==
    LET n == m.node
        c == x.collection
        new == cache[n][c] = NoSchema
    IN  /\ x \in Mapping /\ n \in Node
        /\ new => cache'[n][c] = x.fields
        /\ ~new => cache'[n][c] = cache[n][c]
        /\ \A p \in Node, d \in Collection :
              p # n \/ d # c => cache'[p][d] = cache[p][d]
        /\ merges \ {m} \subseteq merges'
        /\ \A k \in merges' :
              \/ k \in merges /\ k # m
              \/ /\ k.node = n /\ k.from = m.from /\ k.by = m.by
                 /\ k.todo = m.todo \ {x}
                 /\ \/ k.at = "newIndex" /\ k.creating = {x}
                    \/ k.at = "next" /\ k.creating = {}
        /\ m.todo # {x} =>
              \E k \in merges' : k.node = n /\ k.todo = m.todo \ {x}
        /\ new /\ x.fields \notin Invalid =>
              \E k \in merges' : k.node = n /\ k.at = "newIndex"
                                            /\ k.creating = {x}

LEMMA MergeIntoCacheDoes ==
    ASSUME TypeOK, CachedFirst, NEW m \in merges, MergeIntoCache(m)
    PROVE  \E x \in m.todo : IntoCache(m, x)
<1>1. PICK x \in m.todo :
        LET rest == [m EXCEPT !.todo = @ \ {x}]
            new == cache[m.node][x.collection] = NoSchema
        IN  /\ cache' = IF new
                        THEN Place(cache, m.node, x.collection, x.fields)
                        ELSE cache
            /\ merges' = (merges \ {m}) \cup
                 IF new /\ x.fields \notin Invalid
                 THEN {[rest EXCEPT !.creating = {x}, !.at = "newIndex"]}
                 ELSE Rest(rest)
  BY DEF MergeIntoCache
<1>2. /\ m \in Merge /\ m.node \in Node /\ x \in Mapping
      /\ x.collection \in Collection /\ x.fields \in Schema
      /\ m.at = "next" /\ m.creating = {}
  BY DEF TypeOK, Merge, MergeIntoCache, CachedFirst, Mapping
<1> DEFINE rest == [m EXCEPT !.todo = @ \ {x}]
           into == [rest EXCEPT !.creating = {x}, !.at = "newIndex"]
           n == m.node
           c == x.collection
           new == cache[n][c] = NoSchema
<1>3. /\ rest.node = n /\ rest.from = m.from /\ rest.by = m.by
      /\ rest.todo = m.todo \ {x} /\ rest.at = "next" /\ rest.creating = {}
  BY <1>2 DEF Merge
<1>4. /\ into.node = n /\ into.from = m.from /\ into.by = m.by
      /\ into.todo = m.todo \ {x} /\ into.at = "newIndex"
      /\ into.creating = {x}
  BY <1>2 DEF Merge
<1>5. Rest(rest) \subseteq {rest} /\ (m.todo # {x} => rest \in Rest(rest))
  BY <1>3 DEF Rest
<1>6. /\ new => cache'[n][c] = x.fields
      /\ ~new => cache'[n][c] = cache[n][c]
      /\ \A p \in Node, d \in Collection :
            p # n \/ d # c => cache'[p][d] = cache[p][d]
  <2>1. cache \in [Node -> [Collection -> SchemaOrNone]]
        /\ x.fields \in SchemaOrNone
    BY <1>2 DEF TypeOK, SchemaOrNone
  <2>2. /\ new => cache' = Place(cache, n, c, x.fields)
        /\ ~new => cache' = cache
    BY <1>1
  <2>3. n \in Node /\ c \in Collection
    BY <1>2
  <2> HIDE DEF n, c, new
  <2>4. LET P == Place(cache, n, c, x.fields)
        IN  /\ P[n][c] = x.fields
            /\ \A p \in Node, d \in Collection :
                  p # n \/ d # c => P[p][d] = cache[p][d]
    BY <2>1, <2>3, PlaceType
  <2>5. CASE new
    BY <2>2, <2>4, <2>5
  <2>6. CASE ~new
    BY <2>2, <2>6
  <2> QED
    BY <2>5, <2>6
<1>7. /\ new /\ x.fields \notin Invalid => merges' = (merges \ {m}) \cup {into}
      /\ ~(new /\ x.fields \notin Invalid) =>
            merges' = (merges \ {m}) \cup Rest(rest)
  BY <1>1
<1> HIDE DEF rest, into, new
<1>8. /\ merges \ {m} \subseteq merges'
      /\ \A k \in merges' : k \in merges \ {m} \/ k = rest \/ k = into
      /\ m.todo # {x} => rest \in merges' \/ into \in merges'
      /\ new /\ x.fields \notin Invalid => into \in merges'
  BY <1>5, <1>7
<1>9. IntoCache(m, x)
  BY <1>2, <1>3, <1>4, <1>6, <1>8 DEF IntoCache, new
<1> QED
  BY <1>9

\* A creation goes one step further.
Further(h) ==
    \E g \in Creation :
        /\ g.node = h.node /\ g.mapping = h.mapping
        /\ creations' = (creations \ {h}) \cup {g}
        /\ g.at = "store" => /\ dirs[h.node][h.mapping.collection] = NoSchema
                             /\ h.at = "newIndex"
        /\ g.at = "announce" =>
              dirs[h.node][h.mapping.collection] # NoSchema
        /\ g.at # "newIndex"

\* One place of the directories is set, if it was not.
OnePlace(f, g, n, c, s) ==
    /\ f[n][c] = NoSchema => g[n][c] = s
    /\ f[n][c] # NoSchema => g[n][c] = f[n][c]
    /\ \A p \in Node, d \in Collection : p # n \/ d # c => g[p][d] = f[p][d]

LEMMA NewUsingDoes ==
    ASSUME TypeOK, NEW n \in Node, NEW m \in Mapping, NewUsing(n, m)
    PROVE  /\ OnePlace(dirs, dirs', n, m.collection, m.fields)
           /\ m.collection \in Collection /\ m.fields \in Schema
           /\ m.fields # NoSchema
<1> DEFINE c == m.collection
           s == m.fields
<1>1. c \in Collection /\ s \in Schema /\ s # NoSchema
  BY ConstantsAssumption DEF Mapping
<1>2. /\ dirs[n][c] = NoSchema => dirs' = Place(dirs, n, c, s)
      /\ dirs[n][c] # NoSchema => dirs' = dirs
  BY DEF NewUsing
<1>3. dirs \in [Node -> [Collection -> SchemaOrNone]] /\ s \in SchemaOrNone
  BY <1>1 DEF TypeOK, SchemaOrNone
<1> HIDE DEF c, s
<1>4. LET P == Place(dirs, n, c, s)
      IN  /\ P[n][c] = s
          /\ \A p \in Node, d \in Collection :
                p # n \/ d # c => P[p][d] = dirs[p][d]
  BY <1>1, <1>3, PlaceType
<1>5. OnePlace(dirs, dirs', n, c, s)
  <2>1. CASE dirs[n][c] = NoSchema
    BY <2>1, <1>2, <1>4 DEF OnePlace
  <2>2. CASE dirs[n][c] # NoSchema
    BY <2>2, <1>2 DEF OnePlace
  <2> QED
    BY <2>1, <2>2
<1> QED
  BY <1>1, <1>5 DEF c, s

\* A commit sets one place of the bucket, where nothing was committed.
Commits(n, m) ==
    /\ OnePlace(bucket, bucket', n, m.collection, m.fields)
    /\ bucket[n][m.collection] = NoSchema
    /\ m.collection \in Collection /\ m.fields # NoSchema
    /\ open'[n] = open[n] \cup {m.collection}
    /\ \A p \in Node : p # n => open'[p] = open[p]

LEMMA StoreMappingDoes ==
    ASSUME TypeOK, NEW n \in Node, NEW m \in Mapping, MayCommit(n, m),
           StoreMapping(n, m)
    PROVE  Commits(n, m)
<1> DEFINE c == m.collection
           s == m.fields
<1>1. c \in Collection /\ s \in Schema /\ s # NoSchema
  BY ConstantsAssumption DEF Mapping
<1>2. bucket' = Place(bucket, n, c, s) /\ bucket[n][c] = NoSchema
  BY DEF StoreMapping, MayCommit
<1>3. bucket \in [Node -> [Collection -> SchemaOrNone]] /\ s \in SchemaOrNone
  BY <1>1 DEF TypeOK, SchemaOrNone
<1>4. /\ open'[n] = open[n] \cup {c}
      /\ \A p \in Node : p # n => open'[p] = open[p]
  BY DEF StoreMapping, TypeOK
<1> HIDE DEF c, s
<1>5. OnePlace(bucket, bucket', n, c, s)
  BY <1>1, <1>2, <1>3, PlaceType DEF OnePlace
<1> QED
  BY <1>1, <1>2, <1>4, <1>5 DEF Commits, c, s

\* The steps of a creation up to the announcement.
LEMMA CreationDoes ==
    ASSUME IInv, NEW h \in creations
    PROVE  /\ CreateIndex(h) =>
                /\ Further(h)
                /\ OnePlace(dirs, dirs', h.node, h.mapping.collection,
                            h.mapping.fields)
           /\ Store(h) => Further(h) /\ Commits(h.node, h.mapping)
           /\ StoreFails(h) => Further(h)
<1>1. TypeOK /\ h.node \in Node /\ h.mapping \in Mapping
  BY DEF IInv, TypeOK, Creation
<1>2. h.at = "store" => MayCommit(h.node, h.mapping)
  BY DEF IInv, StoreReady
<1>3. MayCommit(h.node, h.mapping) =>
         dirs[h.node][h.mapping.collection] # NoSchema
  BY <1>1, ConstantsAssumption DEF MayCommit, Mapping
<1>4. ASSUME CreateIndex(h)
      PROVE  Further(h) /\ OnePlace(dirs, dirs', h.node, h.mapping.collection,
                                    h.mapping.fields)
  <2>1. OnePlace(dirs, dirs', h.node, h.mapping.collection, h.mapping.fields)
    BY <1>1, <1>4, NewUsingDoes DEF CreateIndex
  <2>2. CASE MayCreate(h.node, h.mapping)
    <3> DEFINE g == [h EXCEPT !.at = "store"]
    <3>1. /\ g.node = h.node /\ g.mapping = h.mapping /\ g.at = "store"
          /\ g \in Creation
      BY <1>1, CreationIs
    <3>2. creations' = (creations \ {h}) \cup {g} /\ h.at = "newIndex"
      BY <1>4, <2>2 DEF CreateIndex
    <3> HIDE DEF g
    <3> QED
      BY <2>1, <2>2, <3>1, <3>2 DEF Further, MayCreate
  <2>3. CASE ~MayCreate(h.node, h.mapping)
    <3> DEFINE g == [h EXCEPT !.at = "announce"]
    <3>1. /\ g.node = h.node /\ g.mapping = h.mapping /\ g.at = "announce"
          /\ g \in Creation
      BY <1>1, CreationIs
    <3>2. creations' = (creations \ {h}) \cup {g}
      BY <1>4, <2>3 DEF CreateIndex
    <3> HIDE DEF g
    <3> QED
      BY <2>1, <2>3, <3>1, <3>2 DEF Further, MayCreate
  <2> QED
    BY <2>2, <2>3
<1>5. ASSUME Store(h) \/ StoreFails(h) PROVE Further(h)
  <2> DEFINE g == [h EXCEPT !.at = "announce"]
  <2>1. /\ g.node = h.node /\ g.mapping = h.mapping /\ g.at = "announce"
        /\ g \in Creation
    BY <1>1, CreationIs
  <2>2. creations' = (creations \ {h}) \cup {g} /\ h.at = "store"
    BY <1>5 DEF Store, StoreFails
  <2> HIDE DEF g
  <2> QED
    BY <1>2, <1>3, <2>1, <2>2 DEF Further
<1>6. Store(h) => Commits(h.node, h.mapping)
  BY <1>1, <1>2, StoreMappingDoes DEF Store
<1> QED
  BY <1>4, <1>5, <1>6

\* The announcement.
Announces(h) ==
    LET n == h.node
        c == h.mapping.collection
    IN  /\ n \in Node /\ c \in Collection
        /\ cache'[n][c] = h.mapping.fields /\ h.mapping.fields # NoSchema
        /\ \A p \in Node, d \in Collection :
              p # n \/ d # c => cache'[p][d] = cache[p][d]
        /\ merges \subseteq merges'
        /\ \A k \in merges' :
              \/ k \in merges
              \/ /\ k.node \in Up /\ k.from = n /\ k.by = "broadcast"
                 /\ k.todo = {h.mapping} /\ k.creating = {} /\ k.at = "next"
        /\ \A p \in Up : p # n =>
              \E k \in merges' : k.node = p /\ k.todo = {h.mapping}

LEMMA BroadcastObjectDoes ==
    ASSUME TypeOK, NEW h \in creations, BroadcastObject(h)
    PROVE  Announces(h)
<1>1. /\ h.node \in Node /\ h.mapping.collection \in Collection
      /\ h.mapping.fields \in Schema /\ h.mapping.fields # NoSchema
  BY ConstantsAssumption DEF TypeOK, Creation, Mapping
<1>2. cache' = Place(cache, h.node, h.mapping.collection, h.mapping.fields)
  BY DEF BroadcastObject
<1>3. /\ cache'[h.node][h.mapping.collection] = h.mapping.fields
      /\ \A p \in Node, d \in Collection :
            p # h.node \/ d # h.mapping.collection =>
                cache'[p][d] = cache[p][d]
  <2> DEFINE n == h.node
             c == h.mapping.collection
             s == h.mapping.fields
  <2>1. cache \in [Node -> [Collection -> SchemaOrNone]] /\ s \in SchemaOrNone
    BY <1>1 DEF TypeOK, SchemaOrNone
  <2>2. n \in Node /\ c \in Collection /\ cache' = Place(cache, n, c, s)
    BY <1>1, <1>2
  <2> HIDE DEF n, c, s
  <2>3. /\ cache'[n][c] = s
        /\ \A p \in Node, d \in Collection :
              p # n \/ d # c => cache'[p][d] = cache[p][d]
    BY <2>1, <2>2, PlaceType
  <2> QED
    BY <2>3 DEF n, c, s
<1> DEFINE msg(p) == [node |-> p, from |-> h.node, by |-> "broadcast",
                      todo |-> {h.mapping}, creating |-> {}, at |-> "next"]
<1>4. merges' = merges \cup {msg(p) : p \in Peers(h.node)}
  BY DEF BroadcastObject
<1>5. \A p \in Peers(h.node) :
         /\ msg(p).node = p /\ msg(p).from = h.node
         /\ msg(p).by = "broadcast" /\ msg(p).todo = {h.mapping}
         /\ msg(p).creating = {} /\ msg(p).at = "next"
  OBVIOUS
<1> HIDE DEF msg
<1> QED
  BY <1>1, <1>3, <1>4, <1>5 DEF Announces, Peers

\* The answer to a request for mappings.
Answers(q) ==
    /\ merges \subseteq merges'
    /\ \A k \in merges' :
          \/ k \in merges
          \/ /\ k.node = q.from /\ k.by = q.by
             /\ k.creating = {} /\ k.at = "next"
             /\ \A x \in k.todo : /\ x.collection \in Known(q.to)
                                  /\ x.fields = cache[q.to][x.collection]
    /\ \A c \in Known(q.to) \ q.known :
          \E k \in merges' : /\ k.node = q.from
                             /\ \E x \in k.todo : x.collection = c

LEMMA AnswerAskDoes ==
    ASSUME TypeOK, NEW q \in asks, AnswerAsk(q)
    PROVE  Answers(q)
<1> DEFINE new == {[collection |-> c, fields |-> cache[q.to][c]] :
                                             c \in Known(q.to) \ q.known}
           m == [node |-> q.from, from |-> q.to, by |-> q.by,
                 todo |-> new, creating |-> {}, at |-> "next"]
<1>1. merges' = merges \cup Rest(m)
  BY DEF AnswerAsk
<1>2. /\ m.node = q.from /\ m.by = q.by /\ m.creating = {}
      /\ m.at = "next" /\ m.todo = new
  OBVIOUS
<1>3. Rest(m) \subseteq {m} /\ (m.todo # {} => m \in Rest(m))
  BY DEF Rest
<1>4. \A x \in new : /\ x.collection \in Known(q.to)
                     /\ x.fields = cache[q.to][x.collection]
  <2> SUFFICES ASSUME NEW x \in new
               PROVE  /\ x.collection \in Known(q.to)
                      /\ x.fields = cache[q.to][x.collection]
    OBVIOUS
  <2>1. PICK c \in Known(q.to) \ q.known :
          x = [collection |-> c, fields |-> cache[q.to][c]]
    OBVIOUS
  <2>2. x.collection = c /\ x.fields = cache[q.to][c]
    BY <2>1
  <2> QED
    BY <2>2
<1>5. \A c \in Known(q.to) \ q.known : \E x \in new : x.collection = c
  <2> SUFFICES ASSUME NEW c \in Known(q.to) \ q.known
               PROVE  \E x \in new : x.collection = c
    OBVIOUS
  <2> DEFINE x == [collection |-> c, fields |-> cache[q.to][c]]
  <2>1. x \in new /\ x.collection = c
    OBVIOUS
  <2> HIDE DEF new, x
  <2> QED
    BY <2>1
<1> HIDE DEF m, new
<1>6. \A c \in Known(q.to) \ q.known : m \in merges'
  BY <1>1, <1>2, <1>3, <1>5
<1> QED
  BY <1>1, <1>2, <1>3, <1>4, <1>5, <1>6 DEF Answers

\* The steps of the loop over the mappings of a message, inside CreateMapping.
GoesOn(m) ==
    \E ks \in SUBSET Merge :
        /\ merges' = (merges \ {m}) \cup ks
        /\ \A k \in ks :
              /\ k.node = m.node /\ k.from = m.from /\ k.by = m.by
              /\ k.todo = m.todo
              /\ \/ /\ k.at = "store" /\ k.creating = m.creating
                    /\ m.at = "newIndex"
                    /\ \A x \in m.creating :
                          dirs[m.node][x.collection] = NoSchema
                 \/ k.at = "next" /\ k.creating = {}
        /\ m.todo # {} => \E k \in ks : k.node = m.node /\ k.todo = m.todo

LEMMA MergeDoes ==
    ASSUME IInv, NEW m \in merges
    PROVE  /\ MergeCreateIndex(m) =>
                /\ GoesOn(m)
                /\ \E x \in m.creating :
                      /\ m.creating = {x} /\ x \in Mapping
                      /\ OnePlace(dirs, dirs', m.node, x.collection, x.fields)
           /\ MergeStore(m) =>
                GoesOn(m) /\ \E x \in m.creating : Commits(m.node, x)
           /\ MergeStoreFails(m) => GoesOn(m)
<1>1. TypeOK /\ m \in Merge /\ m.node \in Node
  BY DEF IInv, TypeOK, Merge
<1>2. m.todo \in SUBSET Mapping /\ m.creating \in SUBSET Mapping
  BY <1>1 DEF Merge
<1>3. \A x, y \in m.creating : x = y
  BY DEF IInv, OneCreator
<1>4. ASSUME merges' = (merges \ {m}) \cup NextRound(m) PROVE GoesOn(m)
  <2>1. NextRound(m) \in SUBSET Merge
    BY <1>1, NextRoundType
  <2> QED
    BY <1>1, <1>4, <2>1, NextRoundIs DEF GoesOn
<1>5. ASSUME MergeCreateIndex(m)
      PROVE  /\ GoesOn(m)
             /\ \E x \in m.creating :
                   /\ m.creating = {x} /\ x \in Mapping
                   /\ OnePlace(dirs, dirs', m.node, x.collection, x.fields)
  <2>1. PICK x \in m.creating :
          /\ NewUsing(m.node, x)
          /\ merges' = (merges \ {m}) \cup
               IF MayCreate(m.node, x) THEN {[m EXCEPT !.at = "store"]}
                                       ELSE NextRound(m)
    BY <1>5 DEF MergeCreateIndex
  <2>2. m.creating = {x} /\ x \in Mapping
    BY <1>2, <1>3, <2>1
  <2>3. OnePlace(dirs, dirs', m.node, x.collection, x.fields)
    BY <1>1, <2>1, <2>2, NewUsingDoes
  <2>4. CASE MayCreate(m.node, x)
    <3> DEFINE k == [m EXCEPT !.at = "store"]
    <3>1. /\ k.node = m.node /\ k.from = m.from /\ k.by = m.by
          /\ k.todo = m.todo /\ k.at = "store" /\ k.creating = m.creating
          /\ k \in Merge
      BY <1>1 DEF Merge
    <3>2. merges' = (merges \ {m}) \cup {k} /\ m.at = "newIndex"
      BY <1>5, <2>1, <2>4 DEF MergeCreateIndex
    <3>3. \A y \in m.creating : dirs[m.node][y.collection] = NoSchema
      BY <2>2, <2>4 DEF MayCreate
    <3> HIDE DEF k
    <3>4. {k} \in SUBSET Merge
      BY <3>1
    <3>5. GoesOn(m)
      BY <3>1, <3>2, <3>3, <3>4 DEF GoesOn
    <3> QED
      BY <2>2, <2>3, <3>5
  <2>5. CASE ~MayCreate(m.node, x)
    BY <1>4, <2>1, <2>2, <2>3, <2>5
  <2> QED
    BY <2>4, <2>5
<1>6. ASSUME MergeStore(m)
      PROVE  GoesOn(m) /\ \E x \in m.creating : Commits(m.node, x)
  <2>1. PICK x \in m.creating : StoreMapping(m.node, x)
    BY <1>6 DEF MergeStore
  <2>2. MayCommit(m.node, x) /\ x \in Mapping
    BY <1>2, <1>6, <2>1 DEF IInv, StoreReady, MergeStore
  <2>3. Commits(m.node, x)
    BY <1>1, <2>1, <2>2, StoreMappingDoes
  <2> QED
    BY <1>4, <1>6, <2>3 DEF MergeStore
<1>7. MergeStoreFails(m) => GoesOn(m)
  BY <1>4 DEF MergeStoreFails
<1> QED
  BY <1>5, <1>6, <1>7

-----------------------------------------------------------------------------
(* The steps keep the parts of the invariant.                              *)

\* Which steps change what.
LEMMA Sources ==
    ASSUME [Next]_vars
    PROVE  /\ \/ dirs' = dirs
              \/ \E h \in creations : CreateIndex(h)
              \/ \E m \in merges : MergeCreateIndex(m)
           /\ \/ bucket' = bucket
              \/ \E h \in creations : Store(h)
              \/ \E m \in merges : MergeStore(m)
           /\ \/ cache' = cache
              \/ \E h \in creations : BroadcastObject(h)
              \/ \E m \in merges : MergeIntoCache(m)
              \/ \E n \in Node : Start(n) \/ Crash(n)
           /\ \/ creations' \subseteq creations
              \/ \E h \in creations :
                    CreateIndex(h) \/ Store(h) \/ StoreFails(h)
              \/ \E n \in Node, c \in Collection :
                    CollectionMappingCreation(n, c)
           /\ \/ merges' \subseteq merges
              \/ \E m \in merges : \/ MergeCreateIndex(m) \/ MergeStore(m)
                                   \/ MergeStoreFails(m) \/ MergeIntoCache(m)
              \/ \E q \in asks : AnswerAsk(q)
              \/ \E h \in creations : BroadcastObject(h)
           /\ \/ requested' = requested
              \/ \E n \in Node, d \in Collection :
                    CollectionMappingCreation(n, d)
           /\ drops' = drops \/ drops' = drops + 1
           /\ \/ status' = status
              \/ \E n \in Node : Serve(n) \/ Start(n) \/ Crash(n)
           /\ \/ open' = open
              \/ \E h \in creations : Store(h)
              \/ \E m \in merges : MergeStore(m)
              \/ \E n \in Node : Start(n) \/ Crash(n)
<1> USE DEF nodes, collections, tasks, documents, counts, history
<1>1. \/ dirs' = dirs
      \/ \E h \in creations : CreateIndex(h)
      \/ \E m \in merges : MergeCreateIndex(m)
  BY ZenonT(60)
     DEF Next, vars, Request, Work, Fault, CollectionMappingCreation, Store,
         StoreFails, BroadcastObject, AskNextPeer, AnswerAsk, AskFails,
         MappingsRequestReverse, MergeIntoCache, MergeStore, MergeStoreFails,
         Lose, HandleTransaction, ReceiveBlock, IndexBlock, SyncBlocks, Start,
         Serve, Crash
<1>2. \/ bucket' = bucket
      \/ \E h \in creations : Store(h)
      \/ \E m \in merges : MergeStore(m)
  BY ZenonT(60)
     DEF Next, vars, Request, Work, Fault, CollectionMappingCreation,
         CreateIndex, StoreFails, BroadcastObject, AskNextPeer, AnswerAsk,
         AskFails, MappingsRequestReverse, MergeIntoCache, MergeCreateIndex,
         MergeStoreFails, Lose, HandleTransaction, ReceiveBlock, IndexBlock,
         SyncBlocks, Start, Serve, Crash
<1>3. \/ cache' = cache
      \/ \E h \in creations : BroadcastObject(h)
      \/ \E m \in merges : MergeIntoCache(m)
      \/ \E n \in Node : Start(n) \/ Crash(n)
  BY ZenonT(60)
     DEF Next, vars, Request, Work, Fault, CollectionMappingCreation,
         CreateIndex, Store, StoreFails, AskNextPeer, AnswerAsk, AskFails,
         MappingsRequestReverse, MergeCreateIndex, MergeStore,
         MergeStoreFails, Lose, HandleTransaction, ReceiveBlock, IndexBlock,
         SyncBlocks, Serve
<1>4. \/ creations' \subseteq creations
      \/ \E h \in creations :
            CreateIndex(h) \/ Store(h) \/ StoreFails(h)
      \/ \E n \in Node, c \in Collection :
            CollectionMappingCreation(n, c)
  BY ZenonT(60)
     DEF Next, vars, Request, Work, Fault, BroadcastObject, AskNextPeer,
         AnswerAsk, AskFails, MappingsRequestReverse, MergeIntoCache,
         MergeCreateIndex, MergeStore, MergeStoreFails, Lose,
         HandleTransaction, ReceiveBlock, IndexBlock, SyncBlocks, Start,
         Serve, Crash
<1>5. \/ merges' \subseteq merges
      \/ \E m \in merges : \/ MergeCreateIndex(m) \/ MergeStore(m)
                           \/ MergeStoreFails(m) \/ MergeIntoCache(m)
      \/ \E q \in asks : AnswerAsk(q)
      \/ \E h \in creations : BroadcastObject(h)
  BY ZenonT(60)
     DEF Next, vars, Request, Work, Fault, CollectionMappingCreation,
         CreateIndex, Store, StoreFails, AskNextPeer, AskFails,
         MappingsRequestReverse, Lose, HandleTransaction, ReceiveBlock,
         IndexBlock, SyncBlocks, Start, Serve, Crash
<1>6. \/ requested' = requested
      \/ \E n \in Node, d \in Collection :
            CollectionMappingCreation(n, d)
  BY ZenonT(60)
     DEF Next, vars, Request, Work, Fault, CreateIndex, Store, StoreFails,
         BroadcastObject, AskNextPeer, AnswerAsk, AskFails,
         MappingsRequestReverse, MergeIntoCache, MergeCreateIndex, MergeStore,
         MergeStoreFails, Lose, HandleTransaction, ReceiveBlock, IndexBlock,
         SyncBlocks, Start, Serve, Crash
<1>7. drops' = drops \/ drops' = drops + 1
  BY ZenonT(60)
     DEF Next, vars, Request, Work, Fault, CollectionMappingCreation,
         CreateIndex, Store, StoreFails, BroadcastObject, AskNextPeer,
         AnswerAsk, AskFails, MappingsRequestReverse, MergeIntoCache,
         MergeCreateIndex, MergeStore, MergeStoreFails, Lose,
         HandleTransaction, ReceiveBlock, IndexBlock, SyncBlocks, Start,
         Serve, Crash
<1>8. \/ status' = status
      \/ \E n \in Node : Serve(n) \/ Start(n) \/ Crash(n)
  BY ZenonT(60)
     DEF Next, vars, Request, Work, Fault, CollectionMappingCreation,
         CreateIndex, Store, StoreFails, BroadcastObject, AskNextPeer,
         AnswerAsk, AskFails, MappingsRequestReverse, MergeIntoCache,
         MergeCreateIndex, MergeStore, MergeStoreFails, Lose,
         HandleTransaction, ReceiveBlock, IndexBlock, SyncBlocks
<1>9. \/ open' = open
      \/ \E h \in creations : Store(h)
      \/ \E m \in merges : MergeStore(m)
      \/ \E n \in Node : Start(n) \/ Crash(n)
  BY ZenonT(60)
     DEF Next, vars, Request, Work, Fault, CollectionMappingCreation,
         CreateIndex, StoreFails, BroadcastObject, AskNextPeer, AnswerAsk,
         AskFails, MappingsRequestReverse, MergeIntoCache, MergeCreateIndex,
         MergeStoreFails, Lose, HandleTransaction, ReceiveBlock, IndexBlock,
         SyncBlocks, Serve
<1> QED
  BY <1>1, <1>2, <1>3, <1>4, <1>5, <1>6, <1>7, <1>8, <1>9

\* Directories and requests are never undone.
LEMMA StepGrows ==
    ASSUME IInv, [Next]_vars
    PROVE  /\ \A n \in Node, c \in Collection :
                 dirs[n][c] # NoSchema => dirs'[n][c] = dirs[n][c]
           /\ \A c \in Collection : requested[c] \subseteq requested'[c]
           /\ drops' = 0 => drops = 0
<1> USE DEF nodes, collections, tasks, documents, counts, history
<1>1. ASSUME NEW h \in creations, CreateIndex(h)
      PROVE  \A n \in Node, c \in Collection :
                dirs[n][c] # NoSchema => dirs'[n][c] = dirs[n][c]
  BY <1>1, CreationDoes DEF OnePlace
<1>2. ASSUME NEW m \in merges, MergeCreateIndex(m)
      PROVE  \A n \in Node, c \in Collection :
                dirs[n][c] # NoSchema => dirs'[n][c] = dirs[n][c]
  BY <1>2, MergeDoes DEF OnePlace
<1>3. \/ dirs' = dirs
      \/ \E h \in creations : CreateIndex(h)
      \/ \E m \in merges : MergeCreateIndex(m)
  BY Sources
<1>4. \A n \in Node, c \in Collection :
         dirs[n][c] # NoSchema => dirs'[n][c] = dirs[n][c]
  BY <1>1, <1>2, <1>3
<1>5. ASSUME NEW n \in Node, NEW d \in Collection,
             CollectionMappingCreation(n, d)
      PROVE  \A c \in Collection : requested[c] \subseteq requested'[c]
  BY <1>5 DEF CollectionMappingCreation, IInv, TypeOK
<1>6. \/ requested' = requested
      \/ \E n \in Node, d \in Collection : CollectionMappingCreation(n, d)
  BY Sources
<1>7. \A c \in Collection : requested[c] \subseteq requested'[c]
  BY <1>5, <1>6
<1>8. drops' = drops \/ drops' = drops + 1
  BY Sources
<1>9. drops' = 0 => drops = 0
  BY <1>8 DEF IInv, TypeOK
<1> QED
  BY <1>4, <1>7, <1>9

\* Nobody comes to the commit of a collection that has a directory.
LEMMA StepAtStore ==
    ASSUME IInv, CachedFirst, [Next]_vars
    PROVE  /\ \A h \in creations' :
                 /\ h.at = "store"
                 /\ dirs[h.node][h.mapping.collection] # NoSchema
                 => h \in creations
           /\ \A m \in merges' : \A x \in m.creating :
                 /\ m.at = "store"
                 /\ dirs[m.node][x.collection] # NoSchema
                 => m \in merges
<1> DEFINE P == \A h \in creations' :
                   /\ h.at = "store"
                   /\ dirs[h.node][h.mapping.collection] # NoSchema
                   => h \in creations
           Q == \A m \in merges' : \A x \in m.creating :
                   /\ m.at = "store"
                   /\ dirs[m.node][x.collection] # NoSchema
                   => m \in merges
<1> USE DEF nodes, collections, tasks, documents, counts, history
<1>1. TypeOK
  BY DEF IInv
<1>2. ASSUME NEW h \in creations, CreateIndex(h) \/ Store(h) \/ StoreFails(h)
      PROVE  P
  BY <1>2, CreationDoes DEF Further
<1>3. ASSUME NEW n \in Node, NEW c \in Collection,
             CollectionMappingCreation(n, c)
      PROVE  P
  BY <1>3 DEF CollectionMappingCreation
<1>4. \/ creations' \subseteq creations
      \/ \E h \in creations : CreateIndex(h) \/ Store(h) \/ StoreFails(h)
      \/ \E n \in Node, c \in Collection : CollectionMappingCreation(n, c)
  BY Sources
<1>5. P
  BY <1>2, <1>3, <1>4
<1>6. ASSUME NEW m \in merges,
             MergeCreateIndex(m) \/ MergeStore(m) \/ MergeStoreFails(m)
      PROVE  Q
  BY <1>6, MergeDoes DEF GoesOn
<1>7. ASSUME NEW m \in merges, MergeIntoCache(m) PROVE Q
  BY <1>1, <1>7, MergeIntoCacheDoes DEF IntoCache
<1>8. ASSUME NEW q \in asks, AnswerAsk(q) PROVE Q
  BY <1>1, <1>8, AnswerAskDoes DEF Answers
<1>9. ASSUME NEW h \in creations, BroadcastObject(h) PROVE Q
  BY <1>1, <1>9, BroadcastObjectDoes DEF Announces
<1>10. \/ merges' \subseteq merges
       \/ \E m \in merges : \/ MergeCreateIndex(m) \/ MergeStore(m)
                            \/ MergeStoreFails(m) \/ MergeIntoCache(m)
       \/ \E q \in asks : AnswerAsk(q)
       \/ \E h \in creations : BroadcastObject(h)
  BY Sources
<1>11. Q
  BY <1>6, <1>7, <1>8, <1>9, <1>10
<1> QED
  BY <1>5, <1>11

\* A commit is made by who is at it.
LEMMA StepCommits ==
    ASSUME IInv, [Next]_vars, NEW n \in Node, NEW c \in Collection,
           bucket[n][c] = NoSchema, bucket'[n][c] # NoSchema
    PROVE  CreatingAtStore(n, c) \/ MergingAtStore(n, c)
<1> USE DEF nodes, collections, tasks, documents, counts, history
<1>1. ASSUME NEW h \in creations, Store(h) PROVE CreatingAtStore(n, c)
  BY <1>1, CreationDoes DEF Commits, OnePlace, CreatingAtStore, Store
<1>2. ASSUME NEW m \in merges, MergeStore(m) PROVE MergingAtStore(n, c)
  BY <1>2, MergeDoes DEF Commits, OnePlace, MergingAtStore, MergeStore
<1>3. \/ bucket' = bucket
      \/ \E h \in creations : Store(h)
      \/ \E m \in merges : MergeStore(m)
  BY Sources
<1> QED
  BY <1>1, <1>2, <1>3

\* A collection that has a directory is committed, is about to be, or is cut
\* off.
LEMMA CutOffIs ==
    ASSUME NEW n \in Node, NEW c \in Collection
    PROVE  /\ CutOff(n, c) <=>
                /\ dirs[n][c] # NoSchema /\ bucket[n][c] = NoSchema
                /\ ~CreatingAtStore(n, c) /\ ~MergingAtStore(n, c)
           /\ CutOff(n, c)' <=>
                /\ dirs'[n][c] # NoSchema /\ bucket'[n][c] = NoSchema
                /\ ~CreatingAtStore(n, c)' /\ ~MergingAtStore(n, c)'
  BY DEF CutOff, CreatingAtStore, MergingAtStore

\* A behaviour that is sound was sound before.
LEMMA SoundBefore ==
    ASSUME IInv, CachedFirst, [Next]_vars, NEW c \in Collection, Sound(c)'
    PROVE  Sound(c)
<1>1. drops = 0 /\ requested[c] \cap Invalid = {}
  BY StepGrows DEF Sound
<1>2. ASSUME NEW q \in Node, CutOff(q, c) PROVE FALSE
  <2>1. /\ dirs[q][c] # NoSchema /\ bucket[q][c] = NoSchema
        /\ ~CreatingAtStore(q, c) /\ ~MergingAtStore(q, c)
    BY <1>2, CutOffIs
  <2>2. dirs'[q][c] # NoSchema /\ bucket'[q][c] = NoSchema
    BY <2>1, StepGrows, StepCommits
  <2>3. ~CreatingAtStore(q, c)' /\ ~MergingAtStore(q, c)'
    BY <2>1, StepAtStore DEF CreatingAtStore, MergingAtStore
  <2> QED
    BY <2>2, <2>3, CutOffIs DEF Sound
<1> QED
  BY <1>1, <1>2 DEF Sound

\* A crash ends the goroutines of the node, and what is sent to it; a start
\* finds none.
LEMMA StepAlive ==
    ASSUME IInv, Alive, CachedFirst, [Next]_vars
    PROVE  Alive'
<1> USE DEF nodes, collections, tasks, documents, counts, history
<1>1. TypeOK /\ TypeOK'
  BY StepTypeOK DEF IInv
<1> DEFINE Same1 == status' = status /\ toAsk' = toAsk
           Creations == \A h \in creations' : h.node \in Up
           Merges == \A m \in merges' : m.node \in Up
           Asks == \A q \in asks' :
                      /\ q.from \in Up /\ q.to \in Up
                      /\ q.by = "main" => status[q.from] = "starting"
           Reverses == \A r \in reverses' : r.node \in Up
           Blocks == \A b \in blocks' : b.to \in Up
           Indexings == \A i \in indexing' : i.node \in Up
           Tasks == /\ Creations /\ Merges /\ Asks /\ Reverses
                    /\ Blocks /\ Indexings
<1>2. ASSUME Same1, Tasks PROVE Alive'
  BY <1>2 DEF Alive, Up
<1>3. CASE UNCHANGED vars
  BY <1>3 DEF vars, Alive, Up
<1>4. ASSUME NEW n \in Node, NEW c \in Collection,
             CollectionMappingCreation(n, c)
      PROVE  Same1 /\ Tasks
  <2>1. Creations
    BY <1>4 DEF CollectionMappingCreation, Alive, Up
  <2> QED
    BY <1>4, <2>1 DEF CollectionMappingCreation, Alive
<1>5. ASSUME NEW n \in Node, NEW c \in Collection, HandleTransaction(n, c)
      PROVE  Same1 /\ Tasks
  <2>1. Indexings
    BY <1>5 DEF HandleTransaction, Persist, Alive, Up
  <2> QED
    BY <1>5, <2>1 DEF HandleTransaction, Alive
<1>6. ASSUME NEW h \in creations, CreateIndex(h) \/ Store(h) \/ StoreFails(h)
      PROVE  Same1 /\ Tasks
  <2>1. Creations
    BY <1>6, CreationDoes DEF Further, Alive
  <2> QED
    BY <1>6, <2>1 DEF CreateIndex, Store, StoreFails, Alive
<1>7. ASSUME NEW h \in creations, BroadcastObject(h) PROVE Same1 /\ Tasks
  <2>1. Merges
    BY <1>1, <1>7, BroadcastObjectDoes DEF Announces, Alive
  <2> QED
    BY <1>7, <2>1 DEF BroadcastObject, Alive
<1>8. ASSUME NEW n \in Node, AskNextPeer(n) PROVE Alive'
  <2>1. PICK p \in toAsk[n] :
           /\ toAsk' = [toAsk EXCEPT ![n] = @ \ {p}]
           /\ asks' = IF p \in Up THEN asks \cup {AskFor(n, p, "main")}
                                  ELSE asks
    BY <1>8 DEF AskNextPeer
  <2>2. /\ AskFor(n, p, "main").from = n /\ AskFor(n, p, "main").to = p
        /\ AskFor(n, p, "main").by = "main"
    BY DEF AskFor
  <2>3. status[n] = "starting" /\ n \in Up /\ status' = status /\ Up' = Up
    BY <1>8 DEF AskNextPeer, Up
  <2>4. Asks
    <3>1. CASE p \in Up
      BY <2>1, <2>2, <2>3, <3>1 DEF Alive
    <3>2. CASE p \notin Up
      BY <2>1, <3>2 DEF Alive
    <3> QED
      BY <3>1, <3>2
  <2>5. \A o \in Node : toAsk'[o] # {} => status[o] = "starting"
    BY <2>1, <2>3, <1>1 DEF Alive, TypeOK
  <2> QED
    BY <1>8, <2>3, <2>4, <2>5 DEF AskNextPeer, Alive
<1>9. ASSUME NEW q \in asks, AnswerAsk(q) PROVE Same1 /\ Tasks
  <2>1. Merges
    BY <1>1, <1>9, AnswerAskDoes DEF Answers, Alive
  <2>2. Reverses
    BY <1>9 DEF AnswerAsk, Alive
  <2> QED
    BY <1>9, <2>1, <2>2 DEF AnswerAsk, Alive
<1>10. ASSUME NEW q \in asks, AskFails(q) PROVE Same1 /\ Tasks
  BY <1>10 DEF AskFails, Alive
<1>11. ASSUME NEW r \in reverses, MappingsRequestReverse(r)
       PROVE  Same1 /\ Tasks
  <2>1. /\ AskFor(r.node, r.peer, "worker").from = r.node
        /\ AskFor(r.node, r.peer, "worker").to = r.peer
        /\ AskFor(r.node, r.peer, "worker").by = "worker"
    BY DEF AskFor
  <2>2. \/ asks' = asks
        \/ /\ asks' = asks \cup {AskFor(r.node, r.peer, "worker")}
           /\ r.peer \in Up
    BY <1>11 DEF MappingsRequestReverse
  <2>3. Asks
    BY <2>1, <2>2 DEF Alive
  <2> QED
    BY <1>11, <2>3 DEF MappingsRequestReverse, Alive
<1>12. ASSUME NEW m \in merges, MergeIntoCache(m) PROVE Same1 /\ Tasks
  <2>1. Merges
    BY <1>1, <1>12, MergeIntoCacheDoes DEF IntoCache, Alive
  <2> QED
    BY <1>12, <2>1 DEF MergeIntoCache, Alive
<1>13. ASSUME NEW m \in merges,
              MergeCreateIndex(m) \/ MergeStore(m) \/ MergeStoreFails(m)
       PROVE  Same1 /\ Tasks
  <2>1. Merges
    BY <1>13, MergeDoes DEF GoesOn, Alive
  <2> QED
    BY <1>13, <2>1 DEF MergeCreateIndex, MergeStore, MergeStoreFails, Alive
<1>14. ASSUME Lose PROVE Same1 /\ Tasks
  BY <1>14 DEF Lose, Alive
<1>15. ASSUME NEW b \in blocks, ReceiveBlock(b) PROVE Same1 /\ Tasks
  <2>1. Indexings
    BY <1>15 DEF ReceiveBlock, Persist, Alive
  <2> QED
    BY <1>15, <2>1 DEF ReceiveBlock, Alive
<1>16. ASSUME NEW n \in Node, SyncBlocks(n) PROVE Same1 /\ Tasks
  <2>1. Blocks
    BY <1>16 DEF SyncBlocks, Walks, Alive, Up
  <2> QED
    BY <1>16, <2>1 DEF SyncBlocks, Alive
<1>17. ASSUME NEW n \in Node, Serve(n) PROVE Alive'
  <2>1. /\ status'[n] = "serving" /\ status[n] = "starting"
        /\ \A p \in Node : p # n => status'[p] = status[p]
    BY <1>1, <1>17 DEF Serve, TypeOK
  <2>2. Up' = Up
    BY <2>1 DEF Up
  <2>3. \A q \in asks : q.by = "main" => q.from # n
    BY <1>17 DEF Serve, MainIsWaiting
  <2>4. \A q \in asks : q.from \in Node
    BY <1>1 DEF TypeOK, Ask
  <2>5. \A q \in asks : q.by = "main" => status'[q.from] = "starting"
    BY <2>1, <2>3, <2>4 DEF Alive
  <2>6. \A o \in Node : toAsk[o] # {} => status'[o] = "starting"
    BY <1>17, <2>1 DEF Serve, Alive
  <2> QED
    BY <1>17, <2>2, <2>5, <2>6 DEF Serve, Alive
<1>18. ASSUME NEW n \in Node, Start(n) PROVE Alive'
  <2>1. /\ status'[n] = "starting" /\ status[n] = "down"
        /\ \A p \in Node : p # n => status'[p] = status[p]
    BY <1>1, <1>18 DEF Start, TypeOK
  <2>2. Up \subseteq Up' /\ n \notin Up
    BY <2>1 DEF Up
  <2>3. \A q \in asks : q.by = "main" => status'[q.from] = "starting"
    BY <2>1, <2>2 DEF Alive, Up
  <2>4. \A o \in Node : toAsk'[o] # {} => status'[o] = "starting"
    BY <1>1, <1>18, <2>1 DEF Start, Alive, TypeOK
  <2> QED
    BY <1>18, <2>2, <2>3, <2>4 DEF Start, Alive
<1>19. ASSUME NEW n \in Node, Crash(n) PROVE Alive'
  <2>1. \A p \in Node : p # n => status'[p] = status[p]
    BY <1>1, <1>19 DEF Crash, TypeOK
  <2>2. \A p \in Up : p # n => p \in Up'
    BY <2>1 DEF Up
  <2>3. /\ \A h \in creations' : h \in creations /\ h.node # n
        /\ \A m \in merges' : m \in merges /\ m.node # n
        /\ \A q \in asks' : q \in asks /\ q.from # n /\ q.to # n
        /\ \A r \in reverses' : r \in reverses /\ r.node # n
        /\ \A b \in blocks' : b \in blocks /\ b.to # n
        /\ \A i \in indexing' : i \in indexing /\ i.node # n
    BY <1>19 DEF Crash
  <2>4. \A q \in asks' : q.by = "main" => status'[q.from] = "starting"
    BY <2>1, <2>3 DEF Alive, Up
  <2>5. \A o \in Node : toAsk'[o] # {} => o # n /\ toAsk[o] # {}
    BY <1>1, <1>19 DEF Crash, TypeOK
  <2>6. \A o \in Node : toAsk'[o] # {} => status'[o] = "starting"
    BY <2>1, <2>5 DEF Alive
  <2> QED
    BY <2>2, <2>3, <2>4, <2>6 DEF Alive
<1>20. ASSUME NEW i \in indexing, IndexBlock(i) PROVE Same1 /\ Tasks
  <2>1. Blocks
    BY <1>20 DEF IndexBlock, Alive, Peers
  <2>2. Indexings
    BY <1>20 DEF IndexBlock, Alive
  <2> QED
    BY <1>20, <2>1, <2>2 DEF IndexBlock, Alive
<1> HIDE DEF Same1, Tasks
<1> QED
  BY <1>2, <1>3, <1>4, <1>5, <1>6, <1>7, <1>8, <1>9, <1>10, <1>11, <1>12,
     <1>13, <1>14, <1>15, <1>16, <1>17, <1>18, <1>19, <1>20
     DEF Next, Request, Work, Fault

\* A schema is put where it was in another place, or a client sent it.
LEMMA StepWanted ==
    ASSUME IInv, CachedFirst, Wanted, [Next]_vars
    PROVE  Wanted'
<1> USE DEF nodes, collections, tasks, documents, counts, history
<1>1. TypeOK /\ TypeOK'
  BY StepTypeOK DEF IInv
<1> DEFINE Asked(c, s) == s \in requested'[c]
           P == \A h \in creations' :
                   Asked(h.mapping.collection, h.mapping.fields)
           Q == \A m \in merges' : \A x \in m.todo \cup m.creating :
                   Asked(x.collection, x.fields)
           D == \A n \in Node, c \in Collection :
                   dirs'[n][c] \in requested'[c] \cup {NoSchema}
           C == \A n \in Node, c \in Collection :
                   cache'[n][c] \in requested'[c] \cup {NoSchema}
<1>2. \A c \in Collection : requested[c] \subseteq requested'[c]
  BY StepGrows
<1>3. /\ \A h \in creations : Asked(h.mapping.collection, h.mapping.fields)
      /\ \A m \in merges : \A x \in m.todo \cup m.creating :
            x \in Mapping /\ Asked(x.collection, x.fields)
      /\ \A n \in Node, c \in Collection :
            /\ dirs[n][c] \in requested'[c] \cup {NoSchema}
            /\ cache[n][c] \in requested'[c] \cup {NoSchema}
      /\ \A h \in creations : h.node \in Node /\ h.mapping \in Mapping
      /\ \A m \in merges : m.node \in Node
      /\ \A x \in Mapping : x.collection \in Collection
  BY <1>1, <1>2 DEF Wanted, TypeOK, Creation, Merge, Mapping
<1> HIDE DEF Asked
<1>4. P
  <2>1. ASSUME NEW h \in creations,
               CreateIndex(h) \/ Store(h) \/ StoreFails(h)
        PROVE  P
    BY <2>1, <1>3, CreationDoes DEF Further
  <2>2. ASSUME NEW n \in Node, NEW c \in Collection,
               CollectionMappingCreation(n, c)
        PROVE  P
    <3>1. PICK s \in Schema : \E at \in {"announce", "newIndex"} :
            /\ creations' = creations \cup
                 {[node |-> n, mapping |-> [collection |-> c, fields |-> s],
                   at |-> at]}
            /\ requested' = [requested EXCEPT ![c] = @ \cup {s}]
      BY <2>2 DEF CollectionMappingCreation
    <3>2. Asked(c, s)
      BY <1>1, <3>1 DEF Asked, TypeOK
    <3> QED
      BY <1>3, <3>1, <3>2
  <2>3. \/ creations' \subseteq creations
        \/ \E h \in creations : CreateIndex(h) \/ Store(h) \/ StoreFails(h)
        \/ \E n \in Node, c \in Collection : CollectionMappingCreation(n, c)
    BY Sources
  <2> QED
    BY <1>3, <2>1, <2>2, <2>3
<1>5. Q
  <2>1. ASSUME NEW m \in merges,
               MergeCreateIndex(m) \/ MergeStore(m) \/ MergeStoreFails(m)
        PROVE  Q
    BY <2>1, <1>3, MergeDoes DEF GoesOn
  <2>2. ASSUME NEW m \in merges, MergeIntoCache(m) PROVE Q
    BY <1>1, <2>2, <1>3, MergeIntoCacheDoes DEF IntoCache
  <2>3. ASSUME NEW q \in asks, AnswerAsk(q) PROVE Q
    <3>1. q.to \in Node
      BY <1>1 DEF TypeOK, Ask
    <3>2. \A c \in Known(q.to) : Asked(c, cache[q.to][c])
      BY <1>3, <3>1 DEF Known, Asked
    <3> QED
      BY <1>1, <2>3, <1>3, <3>2, AnswerAskDoes DEF Answers
  <2>4. ASSUME NEW h \in creations, BroadcastObject(h) PROVE Q
    BY <1>1, <2>4, <1>3, BroadcastObjectDoes DEF Announces
  <2>5. \/ merges' \subseteq merges
        \/ \E m \in merges : \/ MergeCreateIndex(m) \/ MergeStore(m)
                             \/ MergeStoreFails(m) \/ MergeIntoCache(m)
        \/ \E q \in asks : AnswerAsk(q)
        \/ \E h \in creations : BroadcastObject(h)
    BY Sources
  <2> QED
    BY <1>3, <2>1, <2>2, <2>3, <2>4, <2>5
<1>6. D
  <2>1. ASSUME NEW h \in creations, CreateIndex(h) PROVE D
    BY <1>3, <2>1, CreationDoes DEF OnePlace, Asked
  <2>2. ASSUME NEW m \in merges, MergeCreateIndex(m) PROVE D
    BY <1>3, <2>2, MergeDoes DEF OnePlace, Asked
  <2>3. \/ dirs' = dirs
        \/ \E h \in creations : CreateIndex(h)
        \/ \E m \in merges : MergeCreateIndex(m)
    BY Sources
  <2> QED
    BY <1>3, <2>1, <2>2, <2>3
<1>7. C
  <2>1. ASSUME NEW h \in creations, BroadcastObject(h) PROVE C
    BY <1>1, <1>3, <2>1, BroadcastObjectDoes DEF Announces, Asked
  <2>2. ASSUME NEW m \in merges, MergeIntoCache(m) PROVE C
    BY <1>1, <1>3, <2>2, MergeIntoCacheDoes DEF IntoCache, Asked
  <2>3. ASSUME NEW n \in Node, Start(n) PROVE C
    <3>1. \A p \in Node, c \in Collection :
             cache'[p][c] = IF p = n THEN bucket[p][c] ELSE cache[p][c]
      BY <1>1, <2>3 DEF Start, TypeOK
    <3>2. \A p \in Node, c \in Collection :
             bucket[p][c] \in requested'[c] \cup {NoSchema}
      BY <1>3 DEF IInv, SchemaIsIndexed
    <3> QED
      BY <1>3, <3>1, <3>2
  <2>4. ASSUME NEW n \in Node, Crash(n) PROVE C
    <3>1. \A p \in Node, c \in Collection :
             cache'[p][c] = IF p = n THEN NoSchema ELSE cache[p][c]
      BY <1>1, <2>4 DEF Crash, TypeOK
    <3> QED
      BY <1>3, <3>1
  <2>5. \/ cache' = cache
        \/ \E h \in creations : BroadcastObject(h)
        \/ \E m \in merges : MergeIntoCache(m)
        \/ \E n \in Node : Start(n) \/ Crash(n)
    BY Sources
  <2> QED
    BY <1>3, <2>1, <2>2, <2>3, <2>4, <2>5
<1> QED
  BY <1>4, <1>5, <1>6, <1>7 DEF Wanted, Asked

\* A process forgets nothing that it knows.
LEMMA StepKnown ==
    ASSUME IInv, CachedFirst, [Next]_vars, NEW n \in Up, n \in Up'
    PROVE  /\ Known(n) \subseteq Known(n)'
           /\ open[n] \subseteq open'[n]
<1>1. TypeOK /\ n \in Node
  BY DEF IInv, Up
<1>2. ASSUME NEW h \in creations, BroadcastObject(h)
      PROVE  Known(n) \subseteq Known(n)'
  BY <1>1, <1>2, BroadcastObjectDoes DEF Announces, Known
<1>3. ASSUME NEW m \in merges, MergeIntoCache(m)
      PROVE  Known(n) \subseteq Known(n)'
  BY <1>1, <1>3, MergeIntoCacheDoes DEF IntoCache, Known
<1>4. ASSUME NEW p \in Node, Start(p) \/ Crash(p)
      PROVE  cache'[n] = cache[n] /\ open'[n] = open[n]
  <2>1. p # n
    BY <1>1, <1>4 DEF Start, Crash, Up, TypeOK
  <2> QED
    BY <1>1, <1>4, <2>1 DEF Start, Crash, TypeOK
<1>5. Known(n) \subseteq Known(n)'
  BY <1>2, <1>3, <1>4, Sources DEF Known
<1>6. ASSUME NEW h \in creations, Store(h) PROVE open[n] \subseteq open'[n]
  BY <1>1, <1>6, CreationDoes DEF Commits
<1>7. ASSUME NEW m \in merges, MergeStore(m) PROVE open[n] \subseteq open'[n]
  BY <1>1, <1>7, MergeDoes DEF Commits
<1>8. open[n] \subseteq open'[n]
  BY <1>4, <1>6, <1>7, Sources
<1> QED
  BY <1>5, <1>8

\* A mapping goes into the cache before CreateMapping.
LEMMA StepCachedFirst ==
    ASSUME IInv, Alive, CachedFirst, [Next]_vars
    PROVE  CachedFirst'
<1> DEFINE P(m) == /\ \A x \in m.creating : x.collection \in Known(m.node)'
                   /\ m.at = "next" => m.creating = {}
<1>1. TypeOK /\ Alive'
  BY StepAlive DEF IInv
<1>2. ASSUME NEW m \in merges, m.node \in Up' PROVE P(m)
  <2>1. m.node \in Up
    BY DEF Alive
  <2>2. Known(m.node) \subseteq Known(m.node)'
    BY <1>2, <2>1, StepKnown
  <2> QED
    BY <2>2 DEF CachedFirst
<1>3. \A m \in merges' : m \in merges => P(m)
  BY <1>1, <1>2 DEF Alive
<1> DEFINE Q == \A m \in merges' : P(m)
<1>4. ASSUME NEW m \in merges,
             MergeCreateIndex(m) \/ MergeStore(m) \/ MergeStoreFails(m)
      PROVE  Q
  <2>1. m.node \in Up /\ Up' = Up
    BY <1>4 DEF Alive, Up, MergeCreateIndex, MergeStore, MergeStoreFails,
                nodes
  <2>2. P(m)
    BY <1>2, <2>1
  <2>3. GoesOn(m)
    BY <1>4, MergeDoes
  <2>4. \A k \in merges' :
           \/ k \in merges
           \/ k.creating = m.creating /\ k.node = m.node /\ k.at = "store"
           \/ k.creating = {}
    BY <2>3 DEF GoesOn
  <2> QED
    BY <1>3, <2>2, <2>4
<1>5. ASSUME NEW m \in merges, MergeIntoCache(m) PROVE Q
  <2>1. PICK x \in m.todo : IntoCache(m, x)
    BY <1>1, <1>5, MergeIntoCacheDoes
  <2>2. x.collection \in Known(m.node)'
    <3>1. /\ x.collection \in Collection /\ x.fields # NoSchema
          /\ m.node \in Node
      BY <1>1, ConstantsAssumption DEF TypeOK, Merge, Mapping
    <3> QED
      BY <2>1, <3>1 DEF IntoCache, Known
  <2> QED
    BY <1>3, <2>1, <2>2 DEF IntoCache
<1>6. ASSUME NEW q \in asks, AnswerAsk(q) PROVE Q
  BY <1>1, <1>3, <1>6, AnswerAskDoes DEF Answers
<1>7. ASSUME NEW h \in creations, BroadcastObject(h) PROVE Q
  BY <1>1, <1>3, <1>7, BroadcastObjectDoes DEF Announces
<1>8. Q
  <2> HIDE DEF P
  <2> QED
    BY <1>3, <1>4, <1>5, <1>6, <1>7, Sources
<1> QED
  BY <1>8 DEF CachedFirst

\* A creation ends with the announcement, unless the process ends.
LEMMA StepCreating ==
    ASSUME IInv, [Next]_vars, NEW n \in Node, NEW c \in Collection,
           Creating(n, c)
    PROVE  \/ Creating(n, c)'
           \/ Crash(n)
           \/ \E h \in creations : /\ h.node = n /\ h.mapping.collection = c
                                   /\ BroadcastObject(h)
<1> USE DEF nodes, collections, tasks, documents, counts, history
<1>1. PICK h \in creations : h.node = n /\ h.mapping.collection = c
  BY DEF Creating
<1>2. CASE h \in creations'
  BY <1>1, <1>2 DEF Creating
<1>3. CASE h \notin creations'
  <2>1. ASSUME NEW g \in creations,
               CreateIndex(g) \/ Store(g) \/ StoreFails(g)
        PROVE  Creating(n, c)'
    BY <1>1, <1>3, <2>1, CreationDoes DEF Further, Creating
  <2>2. ASSUME NEW g \in creations, BroadcastObject(g) PROVE g = h
    BY <1>3, <2>2 DEF BroadcastObject
  <2>3. ASSUME NEW p \in Node, Crash(p) PROVE p = n
    BY <1>1, <1>3, <2>3 DEF Crash
  <2>4. \/ creations \subseteq creations'
        \/ \E g \in creations : \/ CreateIndex(g) \/ Store(g) \/ StoreFails(g)
                                \/ BroadcastObject(g)
        \/ \E p \in Node : Crash(p)
    BY ZenonT(60)
       DEF Next, vars, Request, Work, Fault, CollectionMappingCreation,
           AskNextPeer, AnswerAsk, AskFails, MappingsRequestReverse,
           MergeIntoCache, MergeCreateIndex, MergeStore, MergeStoreFails,
           Lose, HandleTransaction, ReceiveBlock, IndexBlock, SyncBlocks,
           Start, Serve
  <2> QED
    BY <1>1, <1>3, <2>1, <2>2, <2>3, <2>4
<1> QED
  BY <1>2, <1>3

\* A process that was not there is one that starts.
LEMMA StepStarts ==
    ASSUME TypeOK, [Next]_vars, NEW n \in Up', n \notin Up
    PROVE  Start(n)
<1>1. n \in Node /\ status[n] = "down" /\ status'[n] # "down"
  BY DEF Up
<1>2. ASSUME NEW p \in Node, Serve(p) \/ Start(p) \/ Crash(p)
      PROVE  p = n
  BY <1>1, <1>2 DEF Serve, Start, Crash, TypeOK
<1>3. ~Serve(n) /\ ~Crash(n)
  BY <1>1 DEF Serve, Crash
<1> QED
  BY <1>1, <1>2, <1>3, Sources

\* The order of a start: no peer to ask comes back, and no index closes, as
\* long as the process runs.
LEMMA StepInTurn ==
    ASSUME IInv, Alive, InTurn, CachedFirst, [Next]_vars
    PROVE  InTurn'
<1> USE DEF nodes, collections, tasks, documents, counts, history
<1>1. TypeOK /\ Alive'
  BY StepAlive DEF IInv
<1>2. ASSUME NEW n \in Up, n \in Up'
      PROVE  toAsk[n] = {} => toAsk'[n] = {}
  <2>1. ASSUME NEW p \in Node, AskNextPeer(p)
        PROVE  toAsk'[n] \subseteq toAsk[n]
    BY <1>1, <2>1 DEF AskNextPeer, TypeOK, Up
  <2>2. ASSUME NEW p \in Node, Start(p) \/ Crash(p) PROVE toAsk'[n] = toAsk[n]
    <3>1. p # n
      BY <1>1, <1>2, <2>2 DEF Start, Crash, Up, TypeOK
    <3> QED
      BY <1>1, <2>2, <3>1 DEF Start, Crash, TypeOK, Up
  <2>3. \/ toAsk' = toAsk
        \/ \E p \in Node : AskNextPeer(p) \/ Start(p) \/ Crash(p)
    BY ZenonT(60)
       DEF Next, vars, Request, Work, Fault, CollectionMappingCreation,
           CreateIndex, Store, StoreFails, BroadcastObject, AnswerAsk,
           AskFails, MappingsRequestReverse, MergeIntoCache,
           MergeCreateIndex, MergeStore, MergeStoreFails, Lose,
           HandleTransaction, ReceiveBlock, IndexBlock, SyncBlocks, Serve
  <2> QED
    BY <2>1, <2>2, <2>3
<1>3. ASSUME NEW b \in blocks, b \in blocks', b.by = "main"
      PROVE  toAsk'[b.to] = {}
  <2>1. b.to \in Up /\ b.to \in Up'
    BY <1>1, <1>3 DEF Alive
  <2> QED
    BY <1>2, <1>3, <2>1 DEF InTurn
<1>4. ASSUME NEW i \in indexing, i \in indexing'
      PROVE  /\ i.by = "main" => toAsk'[i.node] = {}
             /\ i.by = "monitor" => i.document.collection \in open'[i.node]
  <2>1. i.node \in Up /\ i.node \in Up'
    BY <1>1, <1>4 DEF Alive
  <2>2. open[i.node] \subseteq open'[i.node]
    BY <2>1, StepKnown
  <2> QED
    BY <1>2, <1>4, <2>1, <2>2 DEF InTurn
<1>5. ASSUME NEW b \in blocks', b \notin blocks, b.by = "main"
      PROVE  toAsk'[b.to] = {}
  <2>1. ASSUME NEW n \in Node, SyncBlocks(n) PROVE toAsk'[b.to] = {}
    BY <1>5, <2>1 DEF SyncBlocks, Walks
  <2>2. ~\E i \in indexing : IndexBlock(i)
    BY <1>5 DEF IndexBlock
  <2>3. \/ blocks' \subseteq blocks
        \/ \E n \in Node : SyncBlocks(n)
        \/ \E i \in indexing : IndexBlock(i)
    BY ZenonT(60)
       DEF Next, vars, Request, Work, Fault, CollectionMappingCreation,
           CreateIndex, Store, StoreFails, BroadcastObject, AskNextPeer,
           AnswerAsk, AskFails, MappingsRequestReverse, MergeIntoCache,
           MergeCreateIndex, MergeStore, MergeStoreFails, Lose,
           HandleTransaction, ReceiveBlock, Start, Serve, Crash
  <2> QED
    BY <1>5, <2>1, <2>2, <2>3
<1>6. ASSUME NEW i \in indexing', i \notin indexing
      PROVE  /\ i.by = "main" => toAsk'[i.node] = {}
             /\ i.by = "monitor" => i.document.collection \in open'[i.node]
  <2>1. ASSUME NEW n \in Node, NEW c \in Collection, HandleTransaction(n, c)
        PROVE  /\ i.by = "monitor" /\ i.document.collection = c
               /\ c \in open[n] /\ i.node = n /\ open' = open
    BY <1>6, <2>1 DEF HandleTransaction, Persist
  <2>2. ASSUME NEW b \in blocks, ReceiveBlock(b)
        PROVE  /\ i.by = b.by /\ b.by # "monitor" /\ i.node = b.to
               /\ toAsk' = toAsk
    <3>1. b.by # "monitor"
      BY <1>1 DEF TypeOK, BlockMessage
    <3> QED
      BY <1>6, <2>2, <3>1 DEF ReceiveBlock, Persist
  <2>3. \/ indexing' \subseteq indexing
        \/ \E n \in Node, c \in Collection : HandleTransaction(n, c)
        \/ \E b \in blocks : ReceiveBlock(b)
    BY ZenonT(60)
       DEF Next, vars, Request, Work, Fault, CollectionMappingCreation,
           CreateIndex, Store, StoreFails, BroadcastObject, AskNextPeer,
           AnswerAsk, AskFails, MappingsRequestReverse, MergeIntoCache,
           MergeCreateIndex, MergeStore, MergeStoreFails, Lose,
           IndexBlock, SyncBlocks, Start, Serve, Crash
  <2>4. CASE indexing' \subseteq indexing
    BY <1>6, <2>4
  <2>5. CASE \E n \in Node, c \in Collection : HandleTransaction(n, c)
    BY <2>1, <2>5
  <2>6. CASE \E b \in blocks : ReceiveBlock(b)
    BY <2>2, <2>6 DEF InTurn
  <2> QED
    BY <2>3, <2>4, <2>5, <2>6
<1> QED
  BY <1>3, <1>4, <1>5, <1>6 DEF InTurn

\* A commit opens the index, and the cache has the collection before it or
\* after the broadcast; a start opens every directory and reads the bucket.
LEMMA StepOpened ==
    ASSUME IInv, Alive, Opened, CachedFirst, [Next]_vars
    PROVE  Opened'
<1> USE DEF nodes, collections, tasks, documents, counts, history
<1>1. TypeOK /\ SchemaIsIndexed
  BY DEF IInv
<1> SUFFICES ASSUME NEW n \in Up', NEW c \in Collection,
                    bucket'[n][c] # NoSchema
             PROVE  c \in open'[n] /\ (c \in Known(n)' \/ Creating(n, c)')
  BY DEF Opened
<1>2. n \in Node
  BY DEF Up
<1>3. CASE n \notin Up
  <2>1. Start(n)
    BY <1>1, <1>3, StepStarts
  <2>2. bucket' = bucket /\ dirs' = dirs /\ cache'[n] = bucket[n]
        /\ open'[n] = {d \in Collection : dirs[n][d] # NoSchema}
    BY <1>1, <1>2, <2>1 DEF Start, TypeOK
  <2>3. c \in open'[n]
    BY <1>1, <1>2, <2>2 DEF SchemaIsIndexed
  <2>4. c \in Known(n)'
    BY <2>2 DEF Known
  <2> QED
    BY <2>3, <2>4
<1>4. CASE n \in Up
  <2>1. Known(n) \subseteq Known(n)' /\ open[n] \subseteq open'[n]
    BY <1>4, StepKnown
  <2>2. CASE bucket[n][c] # NoSchema
    <3>1. c \in open'[n]
      BY <1>4, <2>1, <2>2 DEF Opened
    <3>2. CASE c \in Known(n)
      BY <2>1, <3>1, <3>2
    <3>3. CASE Creating(n, c)
      <4>1. ~Crash(n)
        BY <1>1, <1>2 DEF Crash, Up, TypeOK
      <4>2. ASSUME NEW h \in creations, h.node = n,
                   h.mapping.collection = c, BroadcastObject(h)
            PROVE  c \in Known(n)'
        BY <1>1, <4>2, BroadcastObjectDoes DEF Announces, Known
      <4> QED
        BY <1>2, <3>1, <3>3, <4>1, <4>2, StepCreating
    <3> QED
      BY <1>4, <2>2, <3>2, <3>3 DEF Opened
  <2>3. CASE bucket[n][c] = NoSchema
    <3>1. ASSUME NEW h \in creations, Store(h)
          PROVE  c \in open'[n] /\ Creating(n, c)'
      <4>1. Further(h) /\ Commits(h.node, h.mapping)
        BY <3>1, CreationDoes
      <4>2. h.node \in Node
        BY <1>1 DEF TypeOK, Creation
      <4>3. h.node = n /\ h.mapping.collection = c
        BY <1>2, <2>3, <4>1, <4>2 DEF Commits, OnePlace
      <4> QED
        BY <4>1, <4>3 DEF Commits, Further, Creating
    <3>2. ASSUME NEW m \in merges, MergeStore(m)
          PROVE  c \in open'[n] /\ c \in Known(n)'
      <4>1. PICK x \in m.creating : Commits(m.node, x)
        BY <3>2, MergeDoes
      <4>2. m.node \in Node
        BY <1>1 DEF TypeOK, Merge
      <4>3. m.node = n /\ x.collection = c
        BY <1>2, <2>3, <4>1, <4>2 DEF Commits, OnePlace
      <4> QED
        BY <2>1, <4>1, <4>3 DEF Commits, CachedFirst
    <3> QED
      BY <2>3, <3>1, <3>2, Sources
  <2> QED
    BY <2>2, <2>3
<1> QED
  BY <1>3, <1>4

\* A first directory stays the first: it was committed, or is about to be.
LEMMA StepRoot ==
    ASSUME IInv, CachedFirst, [Next]_vars, NEW c \in Collection,
           Sound(c)', Root(c)
    PROVE  Root(c)'
<1>1. TypeOK /\ TypeOK'
  BY StepTypeOK DEF IInv
<1>2. PICK n \in Node : bucket[n][c] # NoSchema \/ CreatingAtStore(n, c)
  BY DEF Root
<1>3. CASE bucket[n][c] # NoSchema
  BY <1>3, StepSchemas DEF IInv, SchemaInv, Kept, Root
<1>4. CASE CreatingAtStore(n, c)
  <2>1. PICK h \in creations :
           h.at = "store" /\ h.node = n /\ h.mapping.collection = c
    BY <1>4 DEF CreatingAtStore
  <2>2. dirs[n][c] # NoSchema
    <3>1. MayCommit(h.node, h.mapping)
      BY <2>1 DEF IInv, StoreReady
    <3> QED
      BY <1>1, <2>1, <3>1, TaskTypes DEF MayCommit
  <2>3. ~MergingAtStore(n, c)'
    <3> SUFFICES ASSUME NEW m \in merges', NEW x \in m.creating,
                        m.at = "store", m.node = n, x.collection = c
                 PROVE  FALSE
      BY DEF MergingAtStore
    <3>1. m \in merges
      BY <2>2, StepAtStore
    <3> QED
      BY <2>1, <3>1 DEF IInv, OneCreator, Same
  <2>4. dirs'[n][c] # NoSchema
    BY <2>2, StepGrows
  <2>5. bucket'[n][c] # NoSchema \/ CreatingAtStore(n, c)'
    BY <2>3, <2>4, CutOffIs DEF Sound
  <2> QED
    BY <2>5 DEF Root
<1> QED
  BY <1>2, <1>3, <1>4

\* A mapping comes from a creation or from where it was already.
LEMMA StepRooted ==
    ASSUME IInv, CachedFirst, HasIndex, Rooted, [Next]_vars
    PROVE  Rooted'
<1>1. TypeOK
  BY DEF IInv
<1> SUFFICES ASSUME NEW c \in Collection, Sound(c)', Mentioned(c)'
             PROVE  Root(c)'
  BY DEF Rooted
<1>2. Sound(c)
  BY SoundBefore
<1>3. Mentioned(c) => Root(c)'
  BY <1>2, StepRoot DEF Rooted
<1>4. ASSUME NEW h \in creations, BroadcastObject(h),
             h.mapping.collection = c
      PROVE  Mentioned(c)
  <2>1. h.node \in Node /\ h.at = "announce"
    BY <1>1, <1>4 DEF TypeOK, Creation, BroadcastObject
  <2> QED
    BY <1>2, <1>4, <2>1 DEF HasIndex, Mentioned
<1>5. ASSUME NEW n \in Node, c \in Known(n)' PROVE Mentioned(c) \/ Root(c)'
  <2>1. ASSUME NEW h \in creations, BroadcastObject(h) PROVE Mentioned(c)
    <3>1. CASE h.mapping.collection = c
      BY <1>4, <2>1, <3>1
    <3>2. CASE h.mapping.collection # c
      BY <1>1, <1>5, <2>1, <3>2, BroadcastObjectDoes
         DEF Announces, Known, Mentioned
    <3> QED
      BY <3>1, <3>2
  <2>2. ASSUME NEW m \in merges, MergeIntoCache(m) PROVE Mentioned(c)
    BY <1>1, <1>5, <2>2, MergeIntoCacheDoes DEF IntoCache, Known, Mentioned
  <2>3. ASSUME NEW p \in Node, Start(p) PROVE Mentioned(c)
    <3>1. cache'[n] = IF n = p THEN bucket[n] ELSE cache[n]
      BY <1>1, <2>3 DEF Start, TypeOK
    <3>2. bucket[n][c] # NoSchema => dirs[n][c] # NoSchema
      BY DEF IInv, SchemaIsIndexed
    <3> QED
      BY <1>5, <3>1, <3>2 DEF Known, Mentioned
  <2>4. ASSUME NEW p \in Node, Crash(p) PROVE Mentioned(c)
    <3>1. cache'[n][c] = cache[n][c] \/ cache'[n][c] = NoSchema
      BY <1>1, <2>4 DEF Crash, TypeOK
    <3> QED
      BY <1>5, <3>1 DEF Known, Mentioned
  <2>5. CASE cache' = cache
    BY <1>5, <2>5 DEF Known, Mentioned
  <2> QED
    BY <2>1, <2>2, <2>3, <2>4, <2>5, Sources
<1>6. ASSUME NEW n \in Node, dirs'[n][c] # NoSchema
      PROVE  Mentioned(c) \/ Root(c)'
  <2>1. ASSUME NEW h \in creations, CreateIndex(h), dirs[n][c] = NoSchema
        PROVE  Root(c)'
    <3>1. /\ Further(h)
          /\ OnePlace(dirs, dirs', h.node, h.mapping.collection,
                      h.mapping.fields)
      BY <2>1, CreationDoes
    <3>2. h.node \in Node
      BY <1>1 DEF TypeOK, Creation
    <3>3. h.node = n /\ h.mapping.collection = c
      BY <1>6, <2>1, <3>1 DEF OnePlace
    <3>4. PICK g \in Creation :
            /\ g.node = h.node /\ g.mapping = h.mapping
            /\ g \in creations'
            /\ g.at # "announce" /\ g.at # "newIndex"
      BY <2>1, <3>1, <3>3 DEF Further
    <3>5. g.at = "store"
      BY <3>4 DEF Creation
    <3> QED
      BY <3>3, <3>4, <3>5 DEF Root, CreatingAtStore
  <2>2. ASSUME NEW m \in merges, MergeCreateIndex(m), dirs[n][c] = NoSchema
        PROVE  Mentioned(c)
    BY <1>6, <2>2, MergeDoes DEF OnePlace, Mentioned
  <2>3. CASE dirs[n][c] # NoSchema
    BY <2>3 DEF Mentioned
  <2>4. CASE dirs' = dirs
    BY <1>6, <2>3, <2>4
  <2> QED
    BY <2>1, <2>2, <2>3, <2>4, Sources
<1>7. ASSUME NEW k \in merges', NEW x \in k.todo \cup k.creating,
             x.collection = c
      PROVE  Mentioned(c)
  <2>1. ASSUME NEW m \in merges,
               MergeCreateIndex(m) \/ MergeStore(m) \/ MergeStoreFails(m)
        PROVE  Mentioned(c)
    BY <1>7, <2>1, MergeDoes DEF GoesOn, Mentioned
  <2>2. ASSUME NEW m \in merges, MergeIntoCache(m) PROVE Mentioned(c)
    BY <1>1, <1>7, <2>2, MergeIntoCacheDoes DEF IntoCache, Mentioned
  <2>3. ASSUME NEW q \in asks, AnswerAsk(q) PROVE Mentioned(c)
    <3>1. q.to \in Node
      BY <1>1 DEF TypeOK, Ask
    <3> QED
      BY <1>1, <1>7, <2>3, <3>1, AnswerAskDoes DEF Answers, Mentioned
  <2>4. ASSUME NEW h \in creations, BroadcastObject(h) PROVE Mentioned(c)
    BY <1>1, <1>4, <1>7, <2>4, BroadcastObjectDoes DEF Announces, Mentioned
  <2>5. CASE merges' \subseteq merges
    BY <1>7, <2>5 DEF Mentioned
  <2> QED
    BY <2>1, <2>2, <2>3, <2>4, <2>5, Sources
<1> QED
  BY <1>3, <1>5, <1>6, <1>7 DEF Mentioned

\* A directory that is being made from a message is made, or was there.
LEMMA StepMaking ==
    ASSUME IInv, [Next]_vars, NEW n \in Up', NEW c \in Collection,
           Making(n, c)
    PROVE  Making(n, c)' \/ dirs'[n][c] # NoSchema
<1>1. TypeOK /\ n \in Node
  BY DEF IInv, Up
<1>2. PICK m \in merges :
         /\ m.at = "newIndex" /\ m.node = n
         /\ \E x \in m.creating : x.collection = c
  BY DEF Making
<1>3. CASE m \in merges'
  BY <1>2, <1>3 DEF Making
<1>4. CASE m \notin merges'
  <2> USE DEF nodes, collections, tasks, documents, counts, history
  <2>1. ASSUME NEW k \in merges, MergeCreateIndex(k)
        PROVE  dirs'[n][c] # NoSchema
    <3>1. GoesOn(k)
      BY <2>1, MergeDoes
    <3>2. k = m
      BY <1>4, <3>1 DEF GoesOn
    <3>3. PICK x \in m.creating :
             /\ m.creating = {x}
             /\ OnePlace(dirs, dirs', m.node, x.collection, x.fields)
      BY <2>1, <3>2, MergeDoes
    <3>4. x.fields # NoSchema /\ x.collection = c
      BY <1>1, <1>2, <3>3, TaskTypes
    <3> QED
      BY <1>2, <3>3, <3>4 DEF OnePlace
  <2>2. ASSUME NEW k \in merges,
               MergeStore(k) \/ MergeStoreFails(k) \/ MergeIntoCache(k)
        PROVE  FALSE
    <3>1. k # m
      BY <1>2, <2>2 DEF MergeStore, MergeStoreFails, MergeIntoCache
    <3>2. merges \ {k} \subseteq merges'
      BY <2>2 DEF MergeStore, MergeStoreFails, MergeIntoCache
    <3> QED
      BY <1>4, <3>1, <3>2
  <2>3. ~Lose
    BY <1>2, <1>4 DEF Lose
  <2>4. ASSUME NEW p \in Node, Crash(p) PROVE FALSE
    <3>1. p # n
      BY <1>1, <2>4 DEF Crash, Up, TypeOK
    <3> QED
      BY <1>2, <1>4, <2>4, <3>1 DEF Crash
  <2>5. \/ merges \subseteq merges'
        \/ \E k \in merges : \/ MergeCreateIndex(k) \/ MergeStore(k)
                             \/ MergeStoreFails(k) \/ MergeIntoCache(k)
        \/ Lose
        \/ \E p \in Node : Crash(p)
    BY ZenonT(60)
       DEF Next, vars, Request, Work, Fault, CollectionMappingCreation,
           CreateIndex, Store, StoreFails, BroadcastObject, AskNextPeer,
           AnswerAsk, AskFails, MappingsRequestReverse, HandleTransaction,
           ReceiveBlock, IndexBlock, SyncBlocks, Start, Serve
  <2> QED
    BY <1>4, <2>1, <2>2, <2>3, <2>4, <2>5
<1> QED
  BY <1>3, <1>4

\* What is known is indexed: the cache is set last by HTTP, and first, but
\* with CreateMapping next, by a message.
LEMMA StepHasIndex ==
    ASSUME IInv, Alive, Wanted, CachedFirst, HasIndex, [Next]_vars
    PROVE  HasIndex'
<1> USE DEF nodes, collections, tasks, documents, counts, history
<1>1. TypeOK /\ TypeOK' /\ Wanted'
  BY StepTypeOK, StepWanted DEF IInv
<1>2. /\ \A h \in creations : /\ h.node \in Node
                              /\ h.mapping.collection \in Collection
      /\ \A m \in merges : m.node \in Node /\ m.from \in Node
      /\ \A m \in merges : \A x \in m.todo \cup m.creating :
            x.collection \in Collection
  BY <1>1 DEF TypeOK, Creation, Merge, Mapping
<1>3. \A n \in Node, c \in Collection :
         dirs[n][c] # NoSchema => dirs'[n][c] # NoSchema
  BY StepGrows
<1>4. ASSUME NEW h \in creations, BroadcastObject(h),
             Sound(h.mapping.collection)
      PROVE  dirs'[h.node][h.mapping.collection] # NoSchema
  BY <1>2, <1>3, <1>4 DEF HasIndex, BroadcastObject
<1>5. ASSUME NEW n \in Up', NEW c \in Known(n)', Sound(c)'
      PROVE  dirs'[n][c] # NoSchema \/ Making(n, c)'
  <2>1. n \in Node /\ c \in Collection /\ Sound(c)
    BY <1>5, SoundBefore DEF Known, Up
  <2>2. CASE n \notin Up
    <3>1. Start(n)
      BY <1>1, <2>2, StepStarts
    <3>2. dirs' = dirs /\ cache'[n] = bucket[n]
      BY <1>1, <2>1, <3>1 DEF Start, TypeOK
    <3> QED
      BY <1>5, <2>1, <3>2 DEF Known, IInv, SchemaIsIndexed
  <2>3. CASE n \in Up /\ c \in Known(n)
    BY <1>3, <2>1, <2>3, StepMaking DEF HasIndex
  <2>4. CASE n \in Up /\ c \notin Known(n)
    <3>1. ASSUME NEW h \in creations, BroadcastObject(h)
          PROVE  dirs'[n][c] # NoSchema
      <4>1. h.node = n /\ h.mapping.collection = c
        BY <1>1, <1>5, <2>1, <2>4, <3>1, BroadcastObjectDoes
           DEF Announces, Known
      <4> QED
        BY <1>4, <2>1, <3>1, <4>1
    <3>2. ASSUME NEW m \in merges, MergeIntoCache(m) PROVE Making(n, c)'
      <4>1. PICK x \in m.todo : IntoCache(m, x)
        BY <1>1, <3>2, MergeIntoCacheDoes
      <4>2. m.node = n /\ x.collection = c /\ cache[n][c] = NoSchema
        BY <1>5, <2>1, <2>4, <4>1 DEF IntoCache, Known
      <4>3. x.fields \notin Invalid
        BY <2>1, <4>2 DEF Wanted, Sound
      <4> QED
        BY <4>1, <4>2, <4>3 DEF IntoCache, Making
    <3>3. ASSUME NEW p \in Node, Start(p) \/ Crash(p) PROVE FALSE
      <4>1. p # n
        BY <1>1, <2>1, <2>4, <3>3 DEF Start, Crash, Up, TypeOK
      <4>2. cache'[n] = cache[n]
        BY <1>1, <2>1, <3>3, <4>1 DEF Start, Crash, TypeOK
      <4> QED
        BY <1>5, <2>4, <4>2 DEF Known
    <3>4. cache' # cache
      BY <1>5, <2>4 DEF Known
    <3> QED
      BY <3>1, <3>2, <3>3, <3>4, Sources
  <2> QED
    BY <2>2, <2>3, <2>4
<1>6. ASSUME NEW g \in creations', g.at = "announce",
             Sound(g.mapping.collection)'
      PROVE  dirs'[g.node][g.mapping.collection] # NoSchema
  <2>1. /\ g.node \in Node /\ g.mapping.collection \in Collection
        /\ Sound(g.mapping.collection)
    BY <1>1, <1>6, SoundBefore DEF TypeOK, Creation, Mapping
  <2>2. CASE g \in creations
    BY <1>3, <1>6, <2>1, <2>2 DEF HasIndex
  <2>3. ASSUME NEW h \in creations,
               CreateIndex(h) \/ Store(h) \/ StoreFails(h)
        PROVE  dirs'[g.node][g.mapping.collection] # NoSchema
    BY <1>2, <1>3, <1>6, <2>1, <2>2, <2>3, CreationDoes DEF Further
  <2>4. ASSUME NEW n \in Node, NEW c \in Collection,
               CollectionMappingCreation(n, c), g \notin creations
        PROVE  dirs'[g.node][g.mapping.collection] # NoSchema
    <3>1. PICK s \in Schema :
            /\ g = [node |-> n, mapping |-> [collection |-> c, fields |-> s],
                    at |-> IF c \in open[n] \/ s \in Invalid
                           THEN "announce" ELSE "newIndex"]
            /\ requested' = [requested EXCEPT ![c] = @ \cup {s}]
      BY <2>4 DEF CollectionMappingCreation
    <3>2. g.node = n /\ g.mapping.collection = c
      BY <3>1
    <3>3. c \in open[n] \/ s \in Invalid
      BY <1>6, <3>1
    <3>4. s \in requested'[c]
      BY <1>1, <3>1 DEF TypeOK
    <3>5. c \in open[n]
      BY <1>6, <3>2, <3>3, <3>4 DEF Sound
    <3> QED
      BY <1>3, <3>2, <3>5 DEF IInv, SchemaIsIndexed
  <2> QED
    BY <2>2, <2>3, <2>4, Sources
<1>7. ASSUME NEW k \in merges', NEW x \in k.todo, k.by = "broadcast",
             Sound(x.collection)'
      PROVE  dirs'[k.from][x.collection] # NoSchema
  <2>1. Sound(x.collection)
    BY <1>1, <1>7, SoundBefore DEF TypeOK, Merge, Mapping
  <2>2. ASSUME NEW m \in merges, m.by = "broadcast", m.from = k.from,
               x \in m.todo
        PROVE  dirs'[k.from][x.collection] # NoSchema
    BY <1>2, <1>3, <2>1, <2>2 DEF HasIndex
  <2>3. ASSUME NEW m \in merges,
               MergeCreateIndex(m) \/ MergeStore(m) \/ MergeStoreFails(m)
        PROVE  dirs'[k.from][x.collection] # NoSchema
    BY <1>7, <2>2, <2>3, MergeDoes DEF GoesOn
  <2>4. ASSUME NEW m \in merges, MergeIntoCache(m)
        PROVE  dirs'[k.from][x.collection] # NoSchema
    BY <1>1, <1>7, <2>2, <2>4, MergeIntoCacheDoes DEF IntoCache
  <2>5. ASSUME NEW q \in asks, AnswerAsk(q)
        PROVE  dirs'[k.from][x.collection] # NoSchema
    <3>1. q.by # "broadcast"
      BY <1>1 DEF TypeOK, Ask
    <3> QED
      BY <1>1, <1>7, <2>2, <2>5, <3>1, AnswerAskDoes DEF Answers
  <2>6. ASSUME NEW h \in creations, BroadcastObject(h)
        PROVE  dirs'[k.from][x.collection] # NoSchema
    BY <1>1, <1>4, <1>7, <2>1, <2>2, <2>6, BroadcastObjectDoes DEF Announces
  <2>7. CASE merges' \subseteq merges
    BY <1>7, <2>2, <2>7
  <2> QED
    BY <2>3, <2>4, <2>5, <2>6, <2>7, Sources
<1> QED
  BY <1>5, <1>6, <1>7 DEF HasIndex

-----------------------------------------------------------------------------
(* Every node that runs is told of a sound collection.                     *)

\* A mapping that was sent goes into the cache, unless it is lost or one of
\* the two processes ends.
LEMMA StepComing ==
    ASSUME IInv, CachedFirst, Alive, HasIndex, [Next]_vars,
           NEW n \in Up, NEW c \in Collection, Coming(n, c),
           drops' = 0, Sound(c), n \in Up'
    PROVE  \/ Coming(n, c)' \/ c \in Known(n)'
           \/ \E p \in Node : Crash(p) /\ dirs[p][c] # NoSchema
<1>1. TypeOK /\ n \in Node
  BY DEF IInv, Up
<1>2. PICK m \in merges : m.node = n /\ \E x \in m.todo : x.collection = c
  BY DEF Coming
<1>3. m \in Merge /\ m.from \in Node
  BY <1>1 DEF TypeOK, Merge
<1>4. CASE m \in merges'
  BY <1>2, <1>4 DEF Coming
<1>5. CASE m \notin merges'
  <2> USE DEF nodes, collections, tasks, documents, counts, history
  <2>1. ASSUME NEW k \in merges,
               MergeCreateIndex(k) \/ MergeStore(k) \/ MergeStoreFails(k)
        PROVE  Coming(n, c)'
    BY <1>2, <1>5, <2>1, MergeDoes DEF GoesOn, Coming
  <2>2. ASSUME NEW k \in merges, MergeIntoCache(k)
        PROVE  Coming(n, c)' \/ c \in Known(n)'
    <3>1. PICK y \in k.todo : IntoCache(k, y)
      BY <1>1, <2>2, MergeIntoCacheDoes
    <3>2. k = m
      BY <1>5, <3>1 DEF IntoCache
    <3>3. CASE y.collection = c
      <4>1. y.fields # NoSchema
        BY <3>1, ConstantsAssumption DEF IntoCache, Mapping
      <4> QED
        BY <1>2, <3>1, <3>2, <3>3, <4>1 DEF IntoCache, Known
    <3>4. CASE y.collection # c
      <4>1. PICK x \in m.todo : x.collection = c
        BY <1>2
      <4>2. x \in m.todo \ {y}
        BY <3>4, <4>1
      <4> QED
        BY <1>2, <3>1, <3>2, <4>1, <4>2 DEF IntoCache, Coming
    <3> QED
      BY <3>3, <3>4
  <2>3. ~Lose
    BY DEF Lose, IInv, TypeOK
  <2>4. ASSUME NEW p \in Node, Crash(p)
        PROVE  dirs[p][c] # NoSchema
    <3>1. p # n
      BY <1>1, <2>4 DEF Crash, Up, TypeOK
    <3>2. m.from = p /\ m.by = "broadcast"
      BY <1>2, <1>5, <2>4, <3>1 DEF Crash
    <3> QED
      BY <1>2, <3>2 DEF HasIndex
  <2>5. \/ merges \subseteq merges'
        \/ \E k \in merges : \/ MergeCreateIndex(k) \/ MergeStore(k)
                             \/ MergeStoreFails(k) \/ MergeIntoCache(k)
        \/ Lose
        \/ \E p \in Node : Crash(p)
    BY ZenonT(60)
       DEF Next, vars, Request, Work, Fault, CollectionMappingCreation,
           CreateIndex, Store, StoreFails, BroadcastObject, AskNextPeer,
           AnswerAsk, AskFails, MappingsRequestReverse, HandleTransaction,
           ReceiveBlock, IndexBlock, SyncBlocks, Start, Serve
  <2> QED
    BY <1>5, <2>1, <2>2, <2>3, <2>4, <2>5
<1> QED
  BY <1>4, <1>5

\* After a crash a collection that has a directory is committed, and its node
\* tells of it when it starts.
LEMMA CrashTells ==
    ASSUME IInv, Alive, CachedFirst, [Next]_vars, NEW p \in Node, Crash(p),
           NEW n, NEW c \in Collection, Sound(c)', dirs[p][c] # NoSchema
    PROVE  WillTell(p, n, c)'
<1> USE DEF collections
<1>1. dirs'[p][c] # NoSchema /\ status'[p] = "down"
  BY DEF Crash, IInv, TypeOK
<1>2. ~CreatingAtStore(p, c)' /\ ~MergingAtStore(p, c)'
  BY DEF Crash, CreatingAtStore, MergingAtStore
<1>3. bucket'[p][c] # NoSchema
  BY <1>1, <1>2, CutOffIs DEF Sound
<1> QED
  BY <1>1, <1>3 DEF WillTell

\* The broadcast of a creation tells everybody.
LEMMA BroadcastTells ==
    ASSUME TypeOK, NEW h \in creations, BroadcastObject(h), NEW n \in Up
    PROVE  \/ h.mapping.collection \in Known(n)'
           \/ Coming(n, h.mapping.collection)'
<1>1. Announces(h)
  BY BroadcastObjectDoes
<1>2. CASE n = h.node
  BY <1>1, <1>2 DEF Announces, Known
<1>3. CASE n # h.node
  BY <1>1, <1>3 DEF Announces, Coming
<1> QED
  BY <1>2, <1>3

\* The promise of a node stays, becomes a message, or is kept.
LEMMA StepWillTell ==
    ASSUME IInv, Alive, Opened, CachedFirst, HasIndex, [Next]_vars,
           NEW n \in Up, n \in Up', NEW c \in Collection, Sound(c)',
           NEW p \in Node, WillTell(p, n, c)
    PROVE  Reached(n, c)'
<1> USE DEF nodes, collections, tasks, documents, counts, history
<1>1. TypeOK /\ TypeOK' /\ n \in Node /\ drops' = 0
  BY StepTypeOK DEF IInv, Up, Sound
<1>2. dirs[p][c] # NoSchema
  BY DEF WillTell, IInv, SchemaIsIndexed
<1>3. /\ dirs'[p][c] # NoSchema
      /\ bucket[p][c] # NoSchema => bucket'[p][c] # NoSchema
  BY <1>2, StepGrows, StepSchemas DEF IInv, SchemaInv, Kept
<1>4. ASSUME Crash(p) PROVE Reached(n, c)'
  BY <1>2, <1>4, CrashTells DEF Reached
<1>5. ASSUME Creating(p, c) PROVE Reached(n, c)'
  BY <1>1, <1>3, <1>4, <1>5, StepCreating, BroadcastTells
     DEF Reached, WillTell
<1>6. CASE ~Creating(p, c)
  <2>1. bucket[p][c] # NoSchema /\ bucket'[p][c] # NoSchema
    BY <1>3, <1>6 DEF WillTell
  <2>2. p \in Up => c \in Known(p)
    BY <1>6, <2>1 DEF Opened
  <2>3. ~Crash(n) /\ ~Start(n) /\ Known(n) \subseteq Known(n)'
    BY <1>1, StepKnown DEF Crash, Start, Up, TypeOK
  <2>4. CASE status[p] = "down"
    <3>1. CASE p \in Up'
      <4>1. Start(p) /\ p # n
        BY <1>1, <2>4, <3>1, StepStarts DEF Up
      <4>2. n \in toAsk'[p]
        BY <1>1, <4>1 DEF Start, Peers, TypeOK
      <4> QED
        BY <2>1, <4>2 DEF Reached, WillTell
    <3>2. CASE p \notin Up'
      BY <2>1, <3>2 DEF Reached, WillTell, Up
    <3> QED
      BY <3>1, <3>2
  <2>5. ASSUME NEW o \in Node, AskNextPeer(o),
               p \in toAsk[n] \/ n \in toAsk[p]
        PROVE  Reached(n, c)'
    <3>1. PICK x \in toAsk[o] :
             /\ toAsk' = [toAsk EXCEPT ![o] = @ \ {x}]
             /\ asks' = IF x \in Up THEN asks \cup {AskFor(o, x, "main")}
                                    ELSE asks
      BY <2>5 DEF AskNextPeer
    <3>2. /\ AskFor(o, x, "main").from = o /\ AskFor(o, x, "main").to = x
          /\ AskFor(o, x, "main").by = "main"
          /\ AskFor(o, x, "main").known = Known(o)
      BY DEF AskFor
    <3>3. status' = status /\ o \in Up
      BY <2>5 DEF AskNextPeer, Up
    <3>4. CASE p \in toAsk'[n] \/ n \in toAsk'[p]
      BY <2>1, <3>4 DEF Reached, WillTell
    <3>5. CASE o = n /\ x = p
      <4>1. CASE p \in Up /\ c \notin Known(n)
        BY <2>1, <3>1, <3>2, <3>5, <4>1 DEF Reached, WillTell
      <4>2. CASE p \notin Up
        BY <2>1, <3>3, <4>2 DEF Reached, WillTell, Up
      <4>3. CASE c \in Known(n)
        BY <2>3, <4>3 DEF Reached
      <4> QED
        BY <4>1, <4>2, <4>3
    <3>6. CASE o = p /\ x = n
      BY <2>1, <2>2, <3>1, <3>2, <3>3, <3>6 DEF Reached, WillTell
    <3> QED
      BY <1>1, <2>5, <3>1, <3>4, <3>5, <3>6 DEF TypeOK
  <2>6. CASE p \in toAsk[n] \/ n \in toAsk[p]
    <3>1. ASSUME NEW o \in Node, Start(o) \/ Crash(o)
          PROVE  Reached(n, c)'
      <4>1. CASE o # n /\ o # p
        BY <1>1, <2>1, <2>6, <3>1, <4>1
           DEF Start, Crash, Reached, WillTell, TypeOK
      <4>2. CASE o = p
        <5>1. Start(p) => status[p] = "down"
          BY DEF Start
        <5> QED
          BY <1>4, <2>4, <3>1, <4>2, <5>1
      <4> QED
        BY <2>3, <3>1, <4>1, <4>2
    <3>2. CASE toAsk' = toAsk
      BY <2>1, <2>6, <3>2 DEF Reached, WillTell
    <3>3. \/ toAsk' = toAsk
          \/ \E o \in Node : AskNextPeer(o) \/ Start(o) \/ Crash(o)
      BY ZenonT(60)
         DEF Next, vars, Request, Work, Fault, CollectionMappingCreation,
             CreateIndex, Store, StoreFails, BroadcastObject, AnswerAsk,
             AskFails, MappingsRequestReverse, MergeIntoCache,
             MergeCreateIndex, MergeStore, MergeStoreFails, Lose,
             HandleTransaction, ReceiveBlock, IndexBlock, SyncBlocks, Serve
    <3> QED
      BY <2>5, <2>6, <3>1, <3>2, <3>3
  <2>7. ASSUME NEW q \in asks, q \notin asks',
               \/ q.from = n /\ q.to = p
               \/ q.from = p /\ q.to = n
        PROVE  Crash(p) \/ AnswerAsk(q)
    <3>1. \A k \in asks : ~AskFails(k)
      BY <1>1 DEF AskFails, TypeOK
    <3>2. ASSUME NEW k \in asks, AnswerAsk(k) PROVE k = q
      BY <2>7, <3>2 DEF AnswerAsk
    <3>3. ASSUME NEW o \in Node, Crash(o) PROVE o = p
      <4>1. o # n
        BY <2>3, <3>3
      <4>2. q.from = o \/ q.to = o
        BY <2>7, <3>3 DEF Crash
      <4> QED
        BY <2>7, <4>1, <4>2
    <3>4. \/ asks \subseteq asks'
          \/ \E k \in asks : AnswerAsk(k) \/ AskFails(k)
          \/ \E o \in Node : Crash(o)
      BY ZenonT(60)
         DEF Next, vars, Request, Work, Fault, CollectionMappingCreation,
             CreateIndex, Store, StoreFails, BroadcastObject, AskNextPeer,
             MappingsRequestReverse, MergeIntoCache, MergeCreateIndex,
             MergeStore, MergeStoreFails, Lose, HandleTransaction,
             ReceiveBlock, IndexBlock, SyncBlocks, Serve, Start
    <3> QED
      BY <2>7, <3>1, <3>2, <3>3, <3>4
  <2>8. ASSUME NEW q \in asks, q.from = n, q.to = p, c \notin q.known
        PROVE  Reached(n, c)'
    <3>1. CASE q \in asks'
      BY <2>1, <2>8, <3>1 DEF Reached, WillTell
    <3>2. ASSUME AnswerAsk(q) PROVE Coming(n, c)'
      <4>1. c \in Known(p)
        BY <2>2, <2>8 DEF Alive
      <4> QED
        BY <1>1, <2>8, <3>2, <4>1, AnswerAskDoes DEF Answers, Coming
    <3>3. ASSUME AnswerAsk(q) PROVE Reached(n, c)'
      BY <3>2, <3>3 DEF Reached
    <3> QED
      BY <1>4, <2>7, <2>8, <3>1, <3>3
  <2>9. ASSUME NEW q \in asks, q.from = p, q.to = n, q.by = "main",
               c \in q.known
        PROVE  Reached(n, c)'
    <3>1. CASE q \in asks'
      BY <2>1, <2>9, <3>1 DEF Reached, WillTell
    <3>2. ASSUME AnswerAsk(q) PROVE Reached(n, c)'
      <4> DEFINE r == [node |-> q.to, peer |-> q.from, known |-> q.known]
      <4>1. r \in reverses'
        BY <3>2 DEF AnswerAsk
      <4>2. r.node = n /\ r.peer = p /\ c \in r.known
        BY <2>9
      <4> HIDE DEF r
      <4> QED
        BY <2>1, <4>1, <4>2 DEF Reached, WillTell
    <3> QED
      BY <1>4, <2>7, <2>9, <3>1, <3>2
  <2>10. ASSUME NEW r \in reverses, r.node = n, r.peer = p, c \in r.known
         PROVE  Reached(n, c)'
    <3>1. CASE r \in reverses'
      BY <2>1, <2>10, <3>1 DEF Reached, WillTell
    <3>2. ASSUME MappingsRequestReverse(r) PROVE Reached(n, c)'
      <4>1. CASE c \in Known(n)
        BY <2>3, <4>1 DEF Reached
      <4>2. CASE c \notin Known(n) /\ p \in Up
        <5> DEFINE q == AskFor(n, p, "worker")
        <5>1. q.from = n /\ q.to = p /\ q.known = Known(n)
          BY DEF AskFor
        <5>2. q \in asks'
          BY <2>10, <3>2, <4>2 DEF MappingsRequestReverse
        <5> HIDE DEF q
        <5> QED
          BY <2>1, <4>2, <5>1, <5>2 DEF Reached, WillTell
      <4>3. CASE p \notin Up
        BY <2>1, <3>2, <4>3
           DEF MappingsRequestReverse, Reached, WillTell, Up
      <4> QED
        BY <4>1, <4>2, <4>3
    <3>3. ASSUME NEW k \in reverses, MappingsRequestReverse(k),
                 r \notin reverses'
          PROVE  k = r
      BY <3>3 DEF MappingsRequestReverse
    <3>4. ASSUME NEW o \in Node, Crash(o) PROVE r \in reverses'
      <4>1. o # n
        BY <2>3, <3>4
      <4>2. reverses' = {k \in reverses : k.node # o}
        BY <3>4 DEF Crash
      <4> QED
        BY <2>10, <4>1, <4>2
    <3>5. \/ reverses \subseteq reverses'
          \/ \E k \in reverses : MappingsRequestReverse(k)
          \/ \E o \in Node : Crash(o)
      BY ZenonT(60)
         DEF Next, vars, Request, Work, Fault, CollectionMappingCreation,
             CreateIndex, Store, StoreFails, BroadcastObject, AskNextPeer,
             AnswerAsk, AskFails, MergeIntoCache, MergeCreateIndex,
             MergeStore, MergeStoreFails, Lose, HandleTransaction,
             ReceiveBlock, IndexBlock, SyncBlocks, Serve, Start
    <3> QED
      BY <3>1, <3>2, <3>3, <3>4, <3>5
  <2> QED
    BY <1>6, <2>4, <2>6, <2>8, <2>9, <2>10 DEF WillTell
<1> QED
  BY <1>5, <1>6

\* Whoever runs is told: a node that was running, because nobody takes a
\* promise back; one that starts, because it asks whoever runs, and whoever
\* does not run asks it later.
LEMMA StepWillKnow ==
    ASSUME ReachInv, [Next]_vars
    PROVE  WillKnow'
<1> SUFFICES ASSUME NEW n \in Up', NEW c \in Collection, Sound(c)',
                    NEW z \in Node, dirs'[z][c] # NoSchema
             PROVE  Reached(n, c)'
  BY DEF WillKnow
<1> USE DEF ReachInv
<1>1. TypeOK /\ TypeOK' /\ n \in Node /\ drops' = 0 /\ Sound(c)
  BY StepTypeOK, SoundBefore DEF IInv, Up, Sound
<1>2. CASE n \notin Up
  <2>1. Start(n)
    BY <1>1, <1>2, StepStarts
  <2>2. /\ UNCHANGED <<dirs, bucket, creations>> /\ cache'[n] = bucket[n]
        /\ toAsk'[n] = Peers(n)
        /\ \A p \in Node : p # n => status'[p] = status[p]
    BY <1>1, <2>1 DEF Start, TypeOK, tasks
  <2>3. Root(c)
    BY <1>1, <2>2 DEF Mentioned, Rooted
  <2>4. PICK p \in Node : bucket[p][c] # NoSchema \/ CreatingAtStore(p, c)
    BY <2>3 DEF Root
  <2>5. CASE CreatingAtStore(p, c)
    <3>1. dirs[p][c] # NoSchema
      BY <1>1, <2>5, TaskTypes
         DEF CreatingAtStore, IInv, StoreReady, MayCommit
    <3> QED
      BY <2>2, <2>5, <3>1 DEF CreatingAtStore, Creating, Reached, WillTell
  <2>6. CASE bucket[p][c] # NoSchema /\ p = n
    BY <2>2, <2>6 DEF Reached, Known
  <2>7. CASE bucket[p][c] # NoSchema /\ p # n
    <3>1. CASE p \in Up
      BY <2>2, <2>7, <3>1 DEF Reached, WillTell, Peers
    <3>2. CASE p \notin Up
      BY <2>2, <2>7, <3>2 DEF Reached, WillTell, Up
    <3> QED
      BY <3>1, <3>2
  <2> QED
    BY <2>4, <2>5, <2>6, <2>7
<1>3. CASE n \in Up /\ \E p \in Node : dirs[p][c] # NoSchema
  <2>1. Reached(n, c)
    BY <1>1, <1>3 DEF WillKnow
  <2>2. CASE c \in Known(n)
    BY <1>3, <2>2, StepKnown DEF Reached
  <2>3. CASE Coming(n, c)
    BY <1>1, <1>3, <2>3, StepComing, CrashTells DEF Reached
  <2>4. ASSUME NEW p \in Node, WillTell(p, n, c) PROVE Reached(n, c)'
    BY <1>3, <2>4, StepWillTell
  <2> QED
    BY <2>1, <2>2, <2>3, <2>4 DEF Reached
<1>4. CASE n \in Up /\ \A p \in Node : dirs[p][c] = NoSchema
  <2>1. ASSUME NEW h \in creations, CreateIndex(h) PROVE Reached(n, c)'
    <3>1. /\ Further(h)
          /\ OnePlace(dirs, dirs', h.node, h.mapping.collection,
                      h.mapping.fields)
      BY <2>1, CreationDoes
    <3>2. h.node \in Node
      BY <1>1 DEF TypeOK, Creation
    <3>3. h.node = z /\ h.mapping.collection = c
      BY <1>4, <3>1, <3>2 DEF OnePlace
    <3>4. Creating(z, c)'
      BY <3>1, <3>3 DEF Further, Creating
    <3> QED
      BY <3>4 DEF Reached, WillTell
  <2>2. ASSUME NEW m \in merges, MergeCreateIndex(m) PROVE FALSE
    <3>1. \E x \in m.creating : x.collection = c
      <4>1. PICK x \in m.creating :
               OnePlace(dirs, dirs', m.node, x.collection, x.fields)
        BY <2>2, MergeDoes
      <4> QED
        BY <1>4, <4>1 DEF OnePlace
    <3>2. Root(c)
      BY <1>1, <3>1 DEF Mentioned, Rooted
    <3>3. PICK p \in Node : bucket[p][c] # NoSchema \/ CreatingAtStore(p, c)
      BY <3>2 DEF Root
    <3> QED
      BY <1>1, <1>4, <3>3, TaskTypes
         DEF IInv, SchemaIsIndexed, CreatingAtStore, StoreReady, MayCommit
  <2> QED
    BY <1>4, <2>1, <2>2, Sources
<1> QED
  BY <1>2, <1>3, <1>4

\* A database without collections, and nothing on its way.
LEMMA InitReachInv == Init => ReachInv /\ Found
<1> SUFFICES ASSUME Init PROVE ReachInv /\ Found
  OBVIOUS
<1>1. IInv
  BY InitIInv
<1>2. Alive
  <2>1. /\ creations = {} /\ merges = {} /\ asks = {} /\ reverses = {}
        /\ blocks = {} /\ indexing = {} /\ \A n \in Node : toAsk[n] = {}
    BY DEF Init
  <2> QED
    BY <2>1 DEF Alive
<1>7. InTurn
  BY DEF Init, InTurn
<1>3. CachedFirst /\ Found
  BY DEF Init, CachedFirst, Found
<1>4. Wanted /\ Opened /\ HasIndex
  <2>1. /\ creations = {} /\ merges = {}
        /\ \A n \in Node, c \in Collection :
              /\ cache[n][c] = NoSchema /\ dirs[n][c] = NoSchema
              /\ bucket[n][c] = NoSchema
    BY DEF Init
  <2>2. Wanted
    BY <2>1 DEF Wanted
  <2>3. Opened
    BY <2>1 DEF Opened, Up
  <2>4. HasIndex
    BY <2>1 DEF HasIndex, Known, Up
  <2> QED
    BY <2>2, <2>3, <2>4
<1>5. Rooted
  BY DEF Init, Rooted, Mentioned, Known
<1>6. WillKnow
  BY DEF Init, WillKnow
<1> QED
  BY <1>1, <1>2, <1>3, <1>4, <1>5, <1>6, <1>7 DEF ReachInv

LEMMA StepReachInv == ReachInv /\ [Next]_vars => ReachInv'
  BY StepIInv, StepAlive, StepInTurn, StepWanted, StepOpened,
     StepCachedFirst, StepHasIndex, StepRooted, StepWillKnow DEF ReachInv

LEMMA ReachInvariant == Spec => []ReachInv
<1>1. Init => ReachInv
  BY InitReachInv
<1> QED
  BY <1>1, StepReachInv, PTL DEF Spec

\* A directory without a cut-off creation is committed or is about to be.
LEMMA DirectoryIs ==
    ASSUME NEW n \in Node, NEW c \in Collection, Sound(c),
           dirs[n][c] # NoSchema
    PROVE  \/ bucket[n][c] # NoSchema
           \/ CreatingAtStore(n, c) \/ MergingAtStore(n, c)
  BY CutOffIs DEF Sound

\* When nothing is on its way, a collection that was only ever asked for
\* with one valid schema is the same at every node, in all four places,
\* whoever was down in between, unless its creation was cut off somewhere.
THEOREM CollectionReachesAll == Spec => []ReachesAll
<1>1. ASSUME ReachInv PROVE ReachesAll
  <2> SUFFICES ASSUME Idle, drops = 0, NEW c \in Collection,
                      \A q \in Node : ~CutOff(q, c),
                      NEW s \in Schema \ Invalid, requested[c] = {s},
                      NEW n \in Node, NEW p \in Node
               PROVE  /\ bucket[n][c] = bucket[p][c]
                      /\ cache[n][c] = bucket[n][c]
                      /\ (c \in open[n]) = (bucket[n][c] # NoSchema)
    BY DEF ReachesAll
  <2> USE <1>1 DEF ReachInv
  <2>1. Sound(c) /\ TypeOK
    BY DEF Sound, IInv
  <2>2. /\ creations = {} /\ merges = {} /\ asks = {} /\ reverses = {}
        /\ \A q \in Node : status[q] = "serving" /\ q \in Up /\ toAsk[q] = {}
    BY DEF Idle, Up, Alive
  <2>3. \A q \in Node : dirs[q][c] # NoSchema => bucket[q][c] # NoSchema
    BY <2>1, <2>2, DirectoryIs DEF CreatingAtStore, MergingAtStore
  <2>4. \A q \in Node : c \in Known(q) => dirs[q][c] # NoSchema
    BY <2>1, <2>2 DEF HasIndex, Making
  <2>5. \A q \in Node : \A o \in Node :
           dirs[o][c] # NoSchema => c \in Known(q)
    <3>1. \A q \in Node, o \in Node : ~WillTell(o, q, c) /\ ~Coming(q, c)
      BY <2>2 DEF WillTell, Creating, Coming
    <3> QED
      BY <2>1, <2>2, <3>1 DEF WillKnow, Reached
  <2>6. \A q \in Node :
           /\ bucket[q][c] # NoSchema => dirs[q][c] = bucket[q][c]
           /\ c \in open[q] => dirs[q][c] # NoSchema
           /\ bucket[q][c] # NoSchema => c \in open[q]
    BY <2>2 DEF IInv, SchemaIsIndexed, Opened
  <2>7. \A q \in Node : /\ dirs[q][c] # NoSchema => dirs[q][c] = s
                        /\ cache[q][c] # NoSchema => cache[q][c] = s
    BY DEF Wanted
  <2>8. \A q \in Node : c \in Known(q) <=> cache[q][c] # NoSchema
    BY DEF Known
  <2>9. CASE \E o \in Node : dirs[o][c] # NoSchema
    <3>1. \A q \in Node : /\ cache[q][c] = s /\ bucket[q][c] = s
                          /\ c \in open[q] /\ bucket[q][c] # NoSchema
      BY <2>3, <2>4, <2>5, <2>6, <2>7, <2>8, <2>9
    <3> QED
      BY <3>1
  <2>10. CASE \A o \in Node : dirs[o][c] = NoSchema
    <3>1. \A q \in Node : /\ cache[q][c] = NoSchema /\ bucket[q][c] = NoSchema
                          /\ c \notin open[q]
      BY <2>4, <2>6, <2>8, <2>10
    <3> QED
      BY <3>1
  <2> QED
    BY <2>9, <2>10
<1>2. ReachInv => ReachesAll
  BY <1>1
<1> QED
  BY <1>2, ReachInvariant, PTL

\* A node that gets a block with a document has the index of its collection,
\* or a mapping of it is on its way, or it still asks.
LEMMA IndexOrOnItsWay ==
    ASSUME ReachInv, NEW n \in Up, NEW d \in Document, OwnerHasSchema(d),
           Sound(d.collection), toAsk[n] = {}
    PROVE  d.collection \in open[n] \cup OnItsWay(n)
<1> DEFINE c == d.collection
<1> USE DEF ReachInv
<1>1. n \in Node /\ c \in Collection /\ d.owner \in Node /\ d.fits # NoSchema
  BY ConstantsAssumption DEF Document, Up
<1>2. dirs[d.owner][c] # NoSchema
  BY <1>1 DEF OwnerHasSchema, IInv, SchemaIsIndexed
<1>3. Reached(n, c)
  BY <1>1, <1>2 DEF WillKnow
<1> HIDE DEF c
<1>4. CASE c \in Known(n)
  <2>1. CASE Making(n, c)
    BY <1>1, <2>1 DEF Making, OnItsWay, c
  <2>2. CASE dirs[n][c] # NoSchema
    <3>1. CASE bucket[n][c] # NoSchema
      BY <1>1, <3>1 DEF Opened, c
    <3>2. CASE CreatingAtStore(n, c) \/ MergingAtStore(n, c)
      BY <1>1, <3>2 DEF CreatingAtStore, MergingAtStore, OnItsWay, c
    <3> QED
      BY <1>1, <2>2, <3>1, <3>2, DirectoryIs DEF c
  <2> QED
    BY <1>4, <2>1, <2>2 DEF HasIndex, c
<1>5. CASE Coming(n, c)
  BY <1>1, <1>5 DEF Coming, OnItsWay, c
<1>6. ASSUME NEW p \in Node, WillTell(p, n, c)
      PROVE  c \in OnItsWay(n)
  <2>1. CASE Creating(p, c)
    BY <1>1, <2>1 DEF Creating, OnItsWay
  <2>2. ASSUME bucket[p][c] # NoSchema, status[p] # "serving"
        PROVE  c \in OnItsWay(n)
    BY <1>1, <2>2 DEF OnItsWay
  <2>3. n \in toAsk[p] => status[p] = "starting"
    BY DEF Alive
  <2>4. \A q \in asks : q.from = p /\ q.by = "main" => status[p] = "starting"
    BY DEF Alive
  <2>5. ASSUME NEW q \in asks, q.from = n, c \notin q.known
        PROVE  c \in OnItsWay(n)
    BY <1>1, <2>5 DEF OnItsWay
  <2>6. ASSUME NEW r \in reverses, r.node = n, c \in r.known
        PROVE  c \in OnItsWay(n)
    BY <1>1, <2>6 DEF OnItsWay
  <2> QED
    BY <1>6, <2>1, <2>2, <2>3, <2>4, <2>5, <2>6 DEF WillTell
<1> QED
  BY <1>3, <1>4, <1>5, <1>6 DEF Reached, c

\* IndexBlock indexes a document or counts it as overtaken.
LEMMA IndexBlockFinds ==
    ASSUME ReachInv, NEW i \in indexing, IndexBlock(i),
           Sound(i.document.collection)
    PROVE  i.document \in indexed'[i.node] \cup overtaken'[i.node]
<1> DEFINE n == i.node
           d == i.document
           c == d.collection
<1>1. TypeOK /\ n \in Node /\ n \in Up /\ d \in Document /\ c \in Collection
  BY DEF ReachInv, IInv, TypeOK, Indexing, Document, Alive
<1>2. OwnerHasSchema(d)
  BY DEF ReachInv, IInv, AllConform
<1>3. c \in open[n] \cup Expected(i)
  <2>1. CASE i.by = "monitor"
    BY <2>1 DEF ReachInv, InTurn
  <2>2. CASE i.by = "worker" /\ toAsk[n] # {}
    BY <1>1, <2>2 DEF Expected
  <2>3. CASE i.by # "monitor" /\ toAsk[n] = {}
    BY <1>1, <1>2, <2>3, IndexOrOnItsWay DEF Expected
  <2>4. i.by \in {"monitor", "main", "worker"}
    BY <1>1 DEF TypeOK, Indexing
  <2> QED
    BY <2>1, <2>2, <2>3, <2>4 DEF ReachInv, InTurn
<1>4. \/ indexed' = [indexed EXCEPT ![n] = @ \cup {d}]
      \/ overtaken' = [overtaken EXCEPT ![n] = @ \cup {d}]
  BY <1>3 DEF IndexBlock
<1>5. /\ indexed \in [Node -> SUBSET Document]
      /\ overtaken \in [Node -> SUBSET Document]
  BY <1>1 DEF TypeOK
<1> HIDE DEF n, d, c
<1>6. d \in indexed'[n] \cup overtaken'[n]
  BY <1>1, <1>4, <1>5
<1> QED
  BY <1>6 DEF n, d

LEMMA StepFound == ReachInv /\ Found /\ [Next]_vars => Found'
<1> SUFFICES ASSUME ReachInv, Found, [Next]_vars PROVE Found'
  OBVIOUS
<1> USE DEF ReachInv
<1> DEFINE Before(p, d) ==
             \/ d \in indexed[p] \cup overtaken[p] \cup cutShort[p]
             \/ \E i \in indexing : i.node = p /\ i.document = d
           At(p, d) ==
             \/ d \in indexed'[p] \cup overtaken'[p] \cup cutShort'[p]
             \/ \E i \in indexing' : i.node = p /\ i.document = d
           Finds == \A p \in Node : \A d \in stored'[p] :
                       Sound(d.collection) => At(p, d)
<1>1. TypeOK /\ TypeOK'
  BY StepTypeOK DEF IInv
<1>2. ASSUME Finds PROVE Found'
  <2>1. \A p \in Node : \A d \in stored'[p] : d.collection \in Collection
    BY <1>1 DEF TypeOK, Document
  <2>2. \A c \in Collection : Sound(c)' => Sound(c)
    BY SoundBefore
  <2> QED
    BY <1>2, <2>1, <2>2 DEF Found, BeingIndexed
<1>3. \A p \in Node : \A d \in stored[p] : Sound(d.collection) => Before(p, d)
  BY DEF Found, BeingIndexed
<1>4. ASSUME NEW n \in Node, NEW d \in Document, NEW by, Persist(n, d, by)
      PROVE  Finds
  <2>1. \A p \in Node : stored'[p] = IF p = n THEN stored[p] \cup {d}
                                             ELSE stored[p]
    BY <1>1, <1>4 DEF Persist, TypeOK
  <2>2. At(n, d)
    <3> DEFINE i == [node |-> n, document |-> d, by |-> by]
    <3>1. i \in indexing' /\ i.node = n /\ i.document = d
      BY <1>4 DEF Persist
    <3> HIDE DEF i
    <3> QED
      BY <3>1
  <2>3. \A p \in Node : \A e \in Document : Before(p, e) => At(p, e)
    BY <1>4 DEF Persist
  <2>4. \A p \in Node : stored[p] \subseteq Document
    BY <1>1 DEF TypeOK
  <2> HIDE DEF At, Before
  <2> QED
    BY <1>3, <2>1, <2>2, <2>3, <2>4
<1>5. ASSUME NEW n \in Node, NEW c \in Collection, HandleTransaction(n, c)
      PROVE  Finds
  <2>1. PICK s \in Schema :
           Persist(n, [owner |-> n, collection |-> c, fits |-> s], "monitor")
    BY <1>5 DEF HandleTransaction
  <2> DEFINE d == [owner |-> n, collection |-> c, fits |-> s]
  <2>2. d \in Document
    BY DEF Document
  <2> HIDE DEF d
  <2>3. Persist(n, d, "monitor")
    BY <2>1 DEF d
  <2> QED
    BY <1>4, <2>2, <2>3
<1>6. ASSUME UNCHANGED documents PROVE Finds
  BY <1>3, <1>6 DEF documents
<1>7. ASSUME NEW b \in blocks, ReceiveBlock(b) PROVE Finds
  <2>1. b.to \in Node /\ b.document \in Document
    BY <1>1 DEF TypeOK, BlockMessage
  <2> QED
    BY <1>4, <1>6, <1>7, <2>1 DEF ReceiveBlock
<1>8. ASSUME NEW i \in indexing, IndexBlock(i) PROVE Finds
  <2>1. /\ stored' = stored /\ cutShort' = cutShort
        /\ indexing' = indexing \ {i}
    BY <1>8 DEF IndexBlock
  <2>2. \A p \in Node : /\ indexed[p] \subseteq indexed'[p]
                        /\ overtaken[p] \subseteq overtaken'[p]
    <3>1. /\ \/ indexed' = indexed
             \/ indexed' = [indexed EXCEPT ![i.node] = @ \cup {i.document}]
          /\ \/ overtaken' = overtaken
             \/ overtaken' = [overtaken EXCEPT ![i.node] = @ \cup {i.document}]
      BY <1>8 DEF IndexBlock
    <3>2. /\ indexed \in [Node -> SUBSET Document]
          /\ overtaken \in [Node -> SUBSET Document]
      BY <1>1 DEF TypeOK
    <3>3. \A p \in Node : indexed[p] \subseteq indexed'[p]
      BY <3>1, <3>2
    <3>4. \A p \in Node : overtaken[p] \subseteq overtaken'[p]
      BY <3>1, <3>2
    <3> QED
      BY <3>3, <3>4
  <2>3. ASSUME NEW p \in Node, NEW d, Before(p, d)
        PROVE  At(p, d) \/ (i.node = p /\ i.document = d)
    <3>1. CASE d \in indexed[p] \cup overtaken[p] \cup cutShort[p]
      BY <2>1, <2>2, <3>1
    <3>2. CASE \E j \in indexing : j.node = p /\ j.document = d
      BY <2>1, <3>2
    <3> QED
      BY <2>3, <3>1, <3>2
  <2>4. Sound(i.document.collection) => At(i.node, i.document)
    BY <1>8, IndexBlockFinds
  <2> HIDE DEF At, Before
  <2> QED
    BY <1>3, <2>1, <2>3, <2>4
<1>9. ASSUME NEW n \in Node, Crash(n) PROVE Finds
  <2>1. UNCHANGED <<stored, indexed, overtaken>>
    BY <1>9 DEF Crash
  <2>2. \A i \in indexing : i.node # n => i \in indexing'
    BY <1>9 DEF Crash
  <2>3. /\ \A p \in Node : cutShort[p] \subseteq cutShort'[p]
        /\ \A i \in indexing : i.node = n => i.document \in cutShort'[n]
    BY <1>1, <1>9 DEF Crash, TypeOK, Indexing
  <2>4. \A p \in Node : \A d \in stored[p] : Before(p, d) => At(p, d)
    BY <2>1, <2>2, <2>3
  <2> HIDE DEF At, Before
  <2> QED
    BY <1>3, <2>1, <2>4
<1>10. \/ UNCHANGED documents
       \/ \E n \in Node, c \in Collection : HandleTransaction(n, c)
       \/ \E b \in blocks : ReceiveBlock(b)
       \/ \E i \in indexing : IndexBlock(i)
       \/ \E n \in Node : Crash(n)
  BY ZenonT(60)
     DEF Next, vars, Request, Work, Fault, CollectionMappingCreation,
         CreateIndex, Store, StoreFails, BroadcastObject, AskNextPeer,
         AnswerAsk, AskFails, MappingsRequestReverse, MergeIntoCache,
         MergeCreateIndex, MergeStore, MergeStoreFails, Lose, SyncBlocks,
         Serve, Start
<1> HIDE DEF Finds
<1> QED
  BY <1>2, <1>5, <1>6, <1>7, <1>8, <1>9, <1>10

\* Every document that a node stores is in its index or about to be, unless
\* the node crashed between the commit of the block and the end of its
\* IndexBlock, or the block came before a mapping that was on its way to the
\* node: a start asks for the mappings before it copies blocks, and a
\* broadcast reaches whoever runs.
THEOREM DocumentsAreFound == Spec => []DocumentsFound
<1>1. Found => DocumentsFound
  BY DEF Found, BeingIndexed, Sound, DocumentsFound
<1>2. Init => ReachInv /\ Found
  BY InitReachInv
<1>3. ReachInv /\ Found /\ [Next]_vars => (ReachInv /\ Found)'
  BY StepReachInv, StepFound
<1> QED
  BY <1>1, <1>2, <1>3, PTL DEF Spec

=============================================================================
