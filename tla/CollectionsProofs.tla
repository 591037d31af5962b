------------------------- MODULE CollectionsProofs --------------------------
(***************************************************************************)
(* Theorems about Collections for any number of nodes, collections,        *)
(* schemas, requests and faults.                                           *)
(*                                                                         *)
(* SchemaKept and SchemaIsIndexed follow from IInv, which adds that a      *)
(* goroutine between NewUsing and the commit made the directory itself,    *)
(* for the schema it is about to commit, that nothing is committed yet,    *)
(* and that it is the only one for its collection: a directory, once made, *)
(* stays, and a second NewUsing refuses it.  DocumentsConform is           *)
(* strengthened to the documents on their way and in every node's forest.  *)
(***************************************************************************)
EXTENDS Collections, TLAPS

\* One place of a store of schemas is set.
LEMMA PlaceType ==
    ASSUME NEW f \in [Node -> [Collection -> SchemaOrNone]],
           NEW n \in Node, NEW c \in Collection, NEW s \in SchemaOrNone
    PROVE  /\ Place(f, n, c, s) \in [Node -> [Collection -> SchemaOrNone]]
           /\ Place(f, n, c, s)[n][c] = s
           /\ \A p \in Node, d \in Collection :
                 p # n \/ d # c => Place(f, n, c, s)[p][d] = f[p][d]
  BY DEF Place

\* What is left of the loop of a message is such a loop.
LEMMA RestType ==
    ASSUME NEW m \in Merge
    PROVE  Rest(m) \subseteq {m}
  BY DEF Rest

LEMMA NextRoundType ==
    ASSUME NEW m \in Merge
    PROVE  /\ NextRound(m) \subseteq Merge
           /\ \A o \in NextRound(m) : o.at = "next" /\ o.creating = {}
  BY DEF NextRound, Rest, Merge

\* A document is added to those of one node.
LEMMA AddedType ==
    ASSUME NEW f \in [Node -> SUBSET Document], NEW n \in Node,
           NEW d \in Document
    PROVE  [f EXCEPT ![n] = @ \cup {d}] \in [Node -> SUBSET Document]
  OBVIOUS

\* A commit keeps the types of the documents.
LEMMA PersistType ==
    ASSUME TypeOK, NEW n \in Node, NEW d \in Document,
           NEW by \in {"monitor", "main", "worker"}, Persist(n, d, by)
    PROVE  /\ stored' \in [Node -> SUBSET Document]
           /\ indexing' \subseteq Indexing
           /\ indexed' = indexed /\ overtaken' = overtaken
           /\ cutShort' = cutShort
  BY DEF TypeOK, Persist, Indexing

\* The databases are empty at first.
LEMMA InitTypeOK == Init => TypeOK
  BY DEF Init, TypeOK, SchemaOrNone

\* The types of the state, one step per action.
LEMMA StepTypeOK == TypeOK /\ [Next]_vars => TypeOK'
<1> SUFFICES ASSUME TypeOK, [Next]_vars PROVE TypeOK'
  OBVIOUS
<1> USE DEF TypeOK, nodes, collections, tasks, documents, counts, history
<1>1. CASE UNCHANGED vars
  BY <1>1 DEF vars
<1>2. ASSUME NEW n \in Node, NEW c \in Collection,
             CollectionMappingCreation(n, c)
      PROVE  TypeOK'
  BY <1>2 DEF CollectionMappingCreation, Creation, Mapping
<1>3. ASSUME NEW n \in Node, NEW c \in Collection, HandleTransaction(n, c)
      PROVE  TypeOK'
  <2>1. PICK s \in Schema :
          Persist(n, [owner |-> n, collection |-> c, fits |-> s], "monitor")
    BY <1>3 DEF HandleTransaction
  <2> DEFINE d == [owner |-> n, collection |-> c, fits |-> s]
  <2>2. d \in Document
    BY DEF Document
  <2> HIDE DEF d
  <2>3. Persist(n, d, "monitor")
    BY <2>1 DEF d
  <2>4. /\ stored' \in [Node -> SUBSET Document]
        /\ indexing' \subseteq Indexing
        /\ indexed' = indexed /\ overtaken' = overtaken
        /\ cutShort' = cutShort
    BY <2>2, <2>3, PersistType
  <2> QED
    BY <1>3, <2>4 DEF HandleTransaction
<1>4. ASSUME NEW h \in creations, CreateIndex(h) PROVE TypeOK'
  <2>1. h \in Creation /\ h.node \in Node /\ h.mapping \in Mapping
    BY DEF Creation
  <2>2. dirs' \in [Node -> [Collection -> SchemaOrNone]]
    BY <1>4, <2>1, PlaceType DEF CreateIndex, NewUsing, Mapping, SchemaOrNone
  <2>3. creations' \subseteq Creation
    <3>1. /\ [h EXCEPT !.at = "store"] \in Creation
          /\ [h EXCEPT !.at = "announce"] \in Creation
      BY <2>1 DEF Creation
    <3>2. CASE MayCreate(h.node, h.mapping)
      BY <1>4, <3>1, <3>2 DEF CreateIndex
    <3>3. CASE ~MayCreate(h.node, h.mapping)
      BY <1>4, <3>1, <3>3 DEF CreateIndex
    <3> QED
      BY <3>2, <3>3
  <2> QED
    BY <1>4, <2>2, <2>3 DEF CreateIndex
<1>5. ASSUME NEW h \in creations, Store(h) PROVE TypeOK'
  <2>1. h \in Creation /\ h.node \in Node /\ h.mapping \in Mapping
    BY DEF Creation
  <2>2. bucket' \in [Node -> [Collection -> SchemaOrNone]]
    BY <1>5, <2>1, PlaceType DEF Store, StoreMapping, Mapping, SchemaOrNone
  <2>3. creations' \subseteq Creation
    <3>1. /\ [h EXCEPT !.at = "announce"] \in Creation
          /\ creations' = (creations \ {h}) \cup {[h EXCEPT !.at = "announce"]}
      BY <1>5, <2>1 DEF Creation, Store
    <3> QED
      BY <3>1
  <2>4. open' \in [Node -> SUBSET Collection]
    BY <1>5, <2>1 DEF Store, StoreMapping, Mapping
  <2> QED
    BY <1>5, <2>2, <2>3, <2>4 DEF Store
<1>6. ASSUME NEW h \in creations, StoreFails(h) PROVE TypeOK'
  <2>1. creations' \subseteq Creation
    BY <1>6 DEF StoreFails, Creation
  <2> QED
    BY <1>6, <2>1 DEF StoreFails
<1>7. ASSUME NEW h \in creations, BroadcastObject(h) PROVE TypeOK'
  <2>1. h \in Creation /\ h.node \in Node /\ h.mapping \in Mapping
    BY DEF Creation
  <2>2. cache' \in [Node -> [Collection -> SchemaOrNone]]
    BY <1>7, <2>1, PlaceType DEF BroadcastObject, Mapping, SchemaOrNone
  <2>3. merges' \subseteq Merge
    BY <1>7, <2>1 DEF BroadcastObject, Merge, Peers, Up
  <2> QED
    BY <1>7, <2>2, <2>3 DEF BroadcastObject
<1>8. ASSUME NEW n \in Node, AskNextPeer(n) PROVE TypeOK'
  <2>1. \A p \in Node : AskFor(n, p, "main") \in Ask
    BY DEF AskFor, Ask, Known
  <2> QED
    BY <1>8, <2>1 DEF AskNextPeer
<1>9. ASSUME NEW q \in asks, AnswerAsk(q) PROVE TypeOK'
  <2>1. /\ q.from \in Node /\ q.to \in Node /\ q.known \in SUBSET Collection
        /\ q.by \in {"main", "worker"}
    BY DEF Ask
  <2> DEFINE new == {[collection |-> c, fields |-> cache[q.to][c]] :
                                             c \in Known(q.to) \ q.known}
             m == [node |-> q.from, from |-> q.to, by |-> q.by,
                   todo |-> new, creating |-> {}, at |-> "next"]
  <2>2. new \in SUBSET Mapping
    BY <2>1 DEF Known, Mapping, SchemaOrNone
  <2>3. m \in Merge
    BY <2>1, <2>2 DEF Merge
  <2>4. merges' \subseteq Merge
    BY <1>9, <2>3, RestType DEF AnswerAsk
  <2>5. reverses' \subseteq Reverse
    BY <1>9, <2>1 DEF AnswerAsk, Reverse
  <2> QED
    BY <1>9, <2>4, <2>5 DEF AnswerAsk
<1>10. ASSUME NEW q \in asks, AskFails(q) PROVE TypeOK'
  BY <1>10 DEF AskFails
<1>11. ASSUME NEW r \in reverses, MappingsRequestReverse(r) PROVE TypeOK'
  <2>1. AskFor(r.node, r.peer, "worker") \in Ask
    BY DEF AskFor, Ask, Known, Reverse
  <2> QED
    BY <1>11, <2>1 DEF MappingsRequestReverse
<1>12. ASSUME NEW m \in merges, MergeIntoCache(m) PROVE TypeOK'
  <2>1. PICK x \in m.todo :
          LET rest == [m EXCEPT !.todo = @ \ {x}]
              new == cache[m.node][x.collection] = NoSchema
          IN  /\ cache' = IF new
                          THEN Place(cache, m.node, x.collection, x.fields)
                          ELSE cache
              /\ merges' = (merges \ {m}) \cup
                   IF new /\ x.fields \notin Invalid
                   THEN {[rest EXCEPT !.creating = {x}, !.at = "newIndex"]}
                   ELSE Rest(rest)
    BY <1>12 DEF MergeIntoCache
  <2>2. m.node \in Node /\ x \in Mapping
    BY DEF Merge
  <2>3. cache' \in [Node -> [Collection -> SchemaOrNone]]
    BY <2>1, <2>2, PlaceType DEF Mapping, SchemaOrNone
  <2> DEFINE rest == [m EXCEPT !.todo = @ \ {x}]
             into == [rest EXCEPT !.creating = {x}, !.at = "newIndex"]
  <2>4. rest \in Merge /\ into \in Merge
    <3>1. m \in Merge /\ m.todo \ {x} \in SUBSET Mapping
      BY DEF Merge
    <3>2. rest \in Merge
      BY <3>1 DEF Merge
    <3> HIDE DEF rest
    <3>3. [rest EXCEPT !.creating = {x}] \in Merge
      BY <2>2, <3>2 DEF Merge
    <3> QED
      BY <3>2, <3>3 DEF Merge
  <2> HIDE DEF rest
  <2>5. merges' \subseteq Merge
    BY <2>1, <2>4, RestType DEF rest
  <2> QED
    BY <1>12, <2>3, <2>5 DEF MergeIntoCache
<1>13. ASSUME NEW m \in merges, MergeCreateIndex(m) PROVE TypeOK'
  <2>1. PICK x \in m.creating :
          /\ NewUsing(m.node, x)
          /\ merges' = (merges \ {m}) \cup
               IF MayCreate(m.node, x) THEN {[m EXCEPT !.at = "store"]}
                                       ELSE NextRound(m)
    BY <1>13 DEF MergeCreateIndex
  <2>2. m.node \in Node /\ x \in Mapping /\ [m EXCEPT !.at = "store"] \in Merge
    <3>1. m \in Merge
      OBVIOUS
    <3> QED
      BY <3>1 DEF Merge
  <2>3. dirs' \in [Node -> [Collection -> SchemaOrNone]]
    BY <2>1, <2>2, PlaceType DEF NewUsing, Mapping, SchemaOrNone
  <2>4. merges' \subseteq Merge
    BY <2>1, <2>2, NextRoundType
  <2> QED
    BY <1>13, <2>3, <2>4 DEF MergeCreateIndex
<1>14. ASSUME NEW m \in merges, MergeStore(m) PROVE TypeOK'
  <2>1. PICK x \in m.creating : StoreMapping(m.node, x)
    BY <1>14 DEF MergeStore
  <2>2. m.node \in Node /\ x \in Mapping
    BY DEF Merge
  <2>3. bucket' \in [Node -> [Collection -> SchemaOrNone]]
    BY <2>1, <2>2, PlaceType DEF StoreMapping, Mapping, SchemaOrNone
  <2>4. open' \in [Node -> SUBSET Collection]
    BY <2>1, <2>2 DEF StoreMapping, Mapping
  <2>5. merges' \subseteq Merge
    BY <1>14, NextRoundType DEF MergeStore
  <2> QED
    BY <1>14, <2>3, <2>4, <2>5 DEF MergeStore
<1>15. ASSUME NEW m \in merges, MergeStoreFails(m) PROVE TypeOK'
  <2>1. merges' \subseteq Merge
    BY <1>15, NextRoundType DEF MergeStoreFails
  <2> QED
    BY <1>15, <2>1 DEF MergeStoreFails
<1>16. ASSUME Lose PROVE TypeOK'
  BY <1>16 DEF Lose
<1>17. ASSUME NEW b \in blocks, ReceiveBlock(b) PROVE TypeOK'
  <2>1. /\ b.to \in Node /\ b.document \in Document
        /\ b.by \in {"monitor", "main", "worker"}
    BY DEF BlockMessage
  <2>2. CASE UNCHANGED documents
    BY <1>17, <2>2 DEF ReceiveBlock
  <2>3. CASE Persist(b.to, b.document, b.by)
    <3>1. /\ stored' \in [Node -> SUBSET Document]
          /\ indexing' \subseteq Indexing
          /\ indexed' = indexed /\ overtaken' = overtaken
          /\ cutShort' = cutShort
      BY <2>1, <2>3, PersistType
    <3> QED
      BY <1>17, <3>1 DEF ReceiveBlock
  <2> QED
    BY <1>17, <2>2, <2>3 DEF ReceiveBlock
<1>18. ASSUME NEW n \in Node, SyncBlocks(n) PROVE TypeOK'
  <2>1. PICK p \in toSync[n] \cap Up :
          /\ toSync' = [toSync EXCEPT ![n] = @ \ {p}]
          /\ blocks' = blocks \cup Walks(n, p)
    BY <1>18 DEF SyncBlocks
  <2>2. /\ p \in Node
        /\ Chain(p) \subseteq Document /\ Chain(n) \subseteq Document
    BY DEF Chain, Up
  <2>3. Walks(n, p) \subseteq BlockMessage
    BY <2>2 DEF Walks, BlockMessage
  <2> QED
    BY <1>18, <2>1, <2>3 DEF SyncBlocks
<1>19. ASSUME NEW n \in Node, Serve(n) PROVE TypeOK'
  BY <1>19 DEF Serve
<1>20. ASSUME NEW n \in Node, Start(n) PROVE TypeOK'
  BY <1>20 DEF Start, Peers, Up
<1>21. ASSUME NEW n \in Node, Crash(n) PROVE TypeOK'
  <2>1. merges' \subseteq merges /\ blocks' \subseteq blocks
    BY <1>21 DEF Crash
  <2>2. cache' \in [Node -> [Collection -> SchemaOrNone]]
    BY <1>21 DEF Crash, SchemaOrNone
  <2>3. cutShort' \in [Node -> SUBSET Document]
    BY <1>21 DEF Crash
  <2> QED
    BY <1>21, <2>1, <2>2, <2>3 DEF Crash
<1>22. ASSUME NEW i \in indexing, IndexBlock(i) PROVE TypeOK'
  <2>1. i.node \in Node /\ i.document \in Document
    BY DEF Indexing
  <2>2. /\ indexed' \in [Node -> SUBSET Document]
        /\ overtaken' \in [Node -> SUBSET Document]
    <3>1. /\ \/ indexed' = indexed
             \/ indexed' = [indexed EXCEPT ![i.node] = @ \cup {i.document}]
          /\ \/ overtaken' = overtaken
             \/ overtaken' = [overtaken EXCEPT ![i.node] = @ \cup {i.document}]
      BY <1>22 DEF IndexBlock
    <3> DEFINE n == i.node
               d == i.document
    <3>2. n \in Node /\ d \in Document
      BY <2>1
    <3> HIDE DEF n, d
    <3>3. /\ [indexed EXCEPT ![n] = @ \cup {d}] \in [Node -> SUBSET Document]
          /\ [overtaken EXCEPT ![n] = @ \cup {d}] \in [Node -> SUBSET Document]
      BY <3>2, AddedType
    <3> QED
      BY <3>1, <3>3 DEF n, d
  <2>3. blocks' \subseteq BlockMessage
    BY <1>22, <2>1 DEF IndexBlock, BlockMessage, Peers, Up
  <2> QED
    BY <1>22, <2>2, <2>3 DEF IndexBlock
<1> QED
  BY <1>1, <1>2, <1>3, <1>4, <1>5, <1>6, <1>7, <1>8, <1>9, <1>10, <1>11,
     <1>12, <1>13, <1>14, <1>15, <1>16, <1>17, <1>18, <1>19, <1>20, <1>21,
     <1>22
     DEF Next, Request, Work, Fault

\* The types of Collections hold for any number of nodes and collections.
THEOREM TypeCorrect == Spec => []TypeOK
  BY InitTypeOK, StepTypeOK, PTL DEF Spec

-----------------------------------------------------------------------------
(* The invariant behind the properties.                                    *)

\* A creation or a merge that is about to commit made the directory itself,
\* and nothing has been committed for the collection.
MayCommit(n, m) ==
    /\ dirs[n][m.collection] = m.fields
    /\ bucket[n][m.collection] = NoSchema

StoreReady ==
    /\ \A h \in creations : h.at = "store" => MayCommit(h.node, h.mapping)
    /\ \A m \in merges : \A x \in m.creating :
          m.at = "store" => MayCommit(m.node, x)

\* No two goroutines of a node are about to commit the same collection.
Same(n, x, p, y) == n = p /\ x.collection = y.collection

OneCreator ==
    /\ \A h, g \in creations :
          /\ h.at = "store" /\ g.at = "store"
          /\ Same(h.node, h.mapping, g.node, g.mapping)
          => h = g
    /\ \A h \in creations, m \in merges : \A x \in m.creating :
          h.at = "store" /\ m.at = "store" =>
              ~Same(h.node, h.mapping, m.node, x)
    /\ \A m, o \in merges : \A x \in m.creating, y \in o.creating :
          m.at = "store" /\ o.at = "store" /\ Same(m.node, x, o.node, y) =>
              m = o
    /\ \A m \in merges : \A x, y \in m.creating : x = y

\* Wherever a document is, on a disk or on its way, its owner has the schema.
OwnerHasSchema(d) == bucket[d.owner][d.collection] = d.fits

AllConform ==
    /\ \A n \in Node : \A d \in stored[n] : OwnerHasSchema(d)
    /\ \A b \in blocks : OwnerHasSchema(b.document)
    /\ \A i \in indexing : OwnerHasSchema(i.document)

IInv ==
    /\ TypeOK
    /\ SchemaIsIndexed
    /\ StoreReady /\ OneCreator /\ AllConform

\* What one step may do to the schemas, as SchemaKept has it.
Kept ==
    \A n \in Node, c \in Collection :
        bucket[n][c] # NoSchema => bucket'[n][c] = bucket[n][c]

\* The parts of the invariant that are about schemas.
SchemaInv == SchemaIsIndexed /\ StoreReady /\ OneCreator

\* The types of a creation and of a merge.
LEMMA TaskTypes ==
    ASSUME TypeOK
    PROVE  /\ \A h \in creations : /\ h.node \in Node
                                   /\ h.mapping.collection \in Collection
                                   /\ h.mapping.fields \in Schema
           /\ \A m \in merges : \A x \in m.creating :
                 /\ m.node \in Node /\ x.collection \in Collection
                 /\ x.fields \in Schema
           /\ NoSchema \notin Schema
  BY ConstantsAssumption DEF TypeOK, Creation, Merge, Mapping

\* A step that makes no directory and commits nothing, and after which no
\* other goroutine is about to commit.
LEMMA QuietSchemas ==
    ASSUME SchemaInv, UNCHANGED <<dirs, bucket>>,
           \A h \in creations' : h.at = "store" => h \in creations,
           \A m \in merges' : \/ m \in merges
                              \/ m.at # "store" /\ \A x, y \in m.creating : x = y,
           \A n \in Node : \A c \in open'[n] \cap Collection :
              c \in open[n] \/ dirs[n][c] # NoSchema
    PROVE  SchemaInv' /\ Kept
<1>1. SchemaIsIndexed'
  BY DEF SchemaInv, SchemaIsIndexed
<1>2. StoreReady'
  BY DEF SchemaInv, StoreReady, MayCommit
<1>3. OneCreator'
  BY DEF SchemaInv, OneCreator, Same
<1> QED
  BY <1>1, <1>2, <1>3 DEF SchemaInv, Kept

\* CreateIndex: the directory is new, so nothing is committed for the
\* collection and nobody else is about to commit it.
LEMMA CreateIndexSchemas ==
    ASSUME TypeOK, SchemaInv, NEW h \in creations, CreateIndex(h)
    PROVE  SchemaInv' /\ Kept
<1> DEFINE n == h.node
           c == h.mapping.collection
<1>1. h.node \in Node /\ n \in Node /\ c \in Collection /\ h.mapping.fields \in Schema
  BY TaskTypes
<1>2. UNCHANGED <<bucket, open, merges>>
  BY DEF CreateIndex
<1>3. CASE ~MayCreate(h.node, h.mapping)
  <2>1. dirs' = dirs
    BY <1>3 DEF CreateIndex, NewUsing, MayCreate
  <2>2. creations' = (creations \ {h}) \cup {[h EXCEPT !.at = "announce"]}
    BY <1>3 DEF CreateIndex
  <2>3. \A g \in creations' : g.at = "store" => g \in creations
    BY <2>2 DEF TypeOK, Creation
  <2> QED
    BY <1>2, <2>1, <2>3, QuietSchemas
<1>4. CASE MayCreate(h.node, h.mapping)
  <2> DEFINE made == [h EXCEPT !.at = "store"]
  <2>1. dirs[n][c] = NoSchema
    BY <1>4 DEF MayCreate
  <2>2. dirs' = Place(dirs, n, c, h.mapping.fields)
    BY <1>4 DEF CreateIndex, NewUsing, MayCreate
  <2>3. creations' = (creations \ {h}) \cup {made}
    BY <1>4 DEF CreateIndex
  <2>4. made.node = n /\ made.mapping = h.mapping /\ made.at = "store"
    BY DEF TypeOK, Creation
  <2>5. /\ dirs'[n][c] = h.mapping.fields
        /\ \A p \in Node, d \in Collection :
              p # n \/ d # c => dirs'[p][d] = dirs[p][d]
    <3>1. /\ dirs \in [Node -> [Collection -> SchemaOrNone]]
          /\ h.mapping.fields \in SchemaOrNone
      BY <1>1 DEF TypeOK, SchemaOrNone
    <3> HIDE DEF n, c
    <3> QED
      BY <1>1, <2>2, <3>1, PlaceType
  <2>6. bucket[n][c] = NoSchema /\ c \notin open[n]
    BY <1>1, <2>1 DEF SchemaInv, SchemaIsIndexed
  <2>7. /\ \A g \in creations :
              g.at = "store" => ~Same(g.node, g.mapping, n, h.mapping)
        /\ \A m \in merges : \A x \in m.creating :
              m.at = "store" => ~Same(m.node, x, n, h.mapping)
    BY <2>1, TaskTypes DEF SchemaInv, StoreReady, MayCommit, Same
  <2> HIDE DEF made, n, c
  <2>8. SchemaIsIndexed'
    BY <1>1, <1>2, <2>5, <2>6, TaskTypes DEF SchemaInv, SchemaIsIndexed
  <2>9. StoreReady'
    <3>1. ASSUME NEW g \in creations', g.at = "store"
          PROVE  MayCommit(g.node, g.mapping)'
      <4>1. CASE g = made
        BY <4>1, <1>2, <2>4, <2>5, <2>6 DEF MayCommit, n, c
      <4>2. CASE g # made
        <5>1. g \in creations /\ g.node \in Node /\ g.mapping.collection \in Collection
          BY <4>2, <2>3, TaskTypes
        <5>2. MayCommit(g.node, g.mapping) /\ ~Same(g.node, g.mapping, n, h.mapping)
          BY <5>1, <3>1, <2>7 DEF SchemaInv, StoreReady
        <5> QED
          BY <5>1, <5>2, <1>2, <2>5 DEF MayCommit, Same, c
      <4> QED
        BY <4>1, <4>2
    <3>2. ASSUME NEW m \in merges', NEW x \in m.creating, m.at = "store"
          PROVE  MayCommit(m.node, x)'
      <4>1. m \in merges /\ m.node \in Node /\ x.collection \in Collection
        BY <1>2, TaskTypes
      <4>2. MayCommit(m.node, x) /\ ~Same(m.node, x, n, h.mapping)
        BY <4>1, <3>2, <2>7 DEF SchemaInv, StoreReady
      <4> QED
        BY <4>1, <4>2, <1>2, <2>5 DEF MayCommit, Same, c
    <3> QED
      BY <3>1, <3>2 DEF StoreReady
  <2>10. OneCreator'
    BY <1>2, <2>3, <2>4, <2>7 DEF SchemaInv, OneCreator, Same, n
  <2>11. Kept
    BY <1>2 DEF Kept
  <2> QED
    BY <2>8, <2>9, <2>10, <2>11 DEF SchemaInv
<1> QED
  BY <1>3, <1>4

\* A commit: the goroutine was the only one about to make it, and nothing is
\* committed for the collection before.
LEMMA CommitSchemas ==
    ASSUME TypeOK, SchemaInv,
           NEW n \in Node, NEW m \in Mapping, MayCommit(n, m),
           StoreMapping(n, m), UNCHANGED dirs,
           \A h \in creations' : h.at = "store" =>
              h \in creations /\ ~Same(h.node, h.mapping, n, m),
           \A o \in merges' :
              \/ /\ o \in merges
                 /\ \A x \in o.creating :
                       o.at = "store" => ~Same(o.node, x, n, m)
              \/ o.at # "store" /\ \A x, y \in o.creating : x = y
    PROVE  SchemaInv' /\ Kept
<1> DEFINE c == m.collection
<1>1. n \in Node /\ c \in Collection /\ m.fields \in Schema
  BY DEF Mapping
<1>2. dirs[n][c] = m.fields /\ bucket[n][c] = NoSchema
  BY DEF MayCommit
<1>3. bucket' = Place(bucket, n, c, m.fields)
  BY DEF StoreMapping
<1>4. \A p \in Node : open'[p] = IF p = n THEN open[p] \cup {c} ELSE open[p]
  BY DEF StoreMapping, TypeOK
<1>5. bucket \in [Node -> [Collection -> SchemaOrNone]] /\ m.fields \in SchemaOrNone
  BY <1>1 DEF TypeOK, SchemaOrNone
<1> HIDE DEF c
<1>6. /\ bucket'[n][c] = m.fields
      /\ \A p \in Node, d \in Collection :
            p # n \/ d # c => bucket'[p][d] = bucket[p][d]
  BY <1>1, <1>3, <1>5, PlaceType, SMTT(30)
<1>7. Kept
  BY <1>2, <1>6 DEF Kept
<1>8. m.fields # NoSchema
  BY <1>1, ConstantsAssumption
<1>9. SchemaIsIndexed'
  <2> SUFFICES ASSUME NEW p \in Node, NEW d \in Collection
               PROVE  /\ bucket'[p][d] # NoSchema => dirs[p][d] = bucket'[p][d]
                      /\ d \in open'[p] => dirs[p][d] # NoSchema
    BY DEF SchemaIsIndexed
  <2>1. CASE p = n /\ d = c
    BY <2>1, <1>2, <1>6, <1>8
  <2>2. CASE p # n \/ d # c
    <3>1. bucket'[p][d] = bucket[p][d]
      BY <2>2, <1>6
    <3>2. d \in open'[p] => d \in open[p]
      BY <2>2, <1>4
    <3> QED
      BY <3>1, <3>2 DEF SchemaInv, SchemaIsIndexed
  <2> QED
    BY <2>1, <2>2
<1>10. StoreReady'
  <2>1. ASSUME NEW h \in creations', h.at = "store"
        PROVE  MayCommit(h.node, h.mapping)'
    <3>1. h \in creations /\ ~Same(h.node, h.mapping, n, m)
      BY <2>1
    <3>2. h.node \in Node /\ h.mapping.collection \in Collection
      BY <3>1, TaskTypes
    <3>3. MayCommit(h.node, h.mapping)
      BY <3>1, <2>1 DEF SchemaInv, StoreReady
    <3> QED
      BY <3>1, <3>2, <3>3, <1>6 DEF MayCommit, Same, c
  <2>2. ASSUME NEW o \in merges', NEW x \in o.creating, o.at = "store"
        PROVE  MayCommit(o.node, x)'
    <3>1. o \in merges /\ ~Same(o.node, x, n, m)
      BY <2>2
    <3>2. o.node \in Node /\ x.collection \in Collection
      BY <3>1, TaskTypes
    <3>3. MayCommit(o.node, x)
      BY <3>1, <2>2 DEF SchemaInv, StoreReady
    <3> QED
      BY <3>1, <3>2, <3>3, <1>6 DEF MayCommit, Same, c
  <2> QED
    BY <2>1, <2>2 DEF StoreReady
<1>11. OneCreator'
  BY DEF SchemaInv, OneCreator, Same
<1> QED
  BY <1>7, <1>9, <1>10, <1>11 DEF SchemaInv

\* The commit of a creation over HTTP.
LEMMA StoreSchemas ==
    ASSUME TypeOK, SchemaInv, NEW h \in creations, Store(h)
    PROVE  SchemaInv' /\ Kept
<1>1. h.node \in Node /\ h.mapping \in Mapping /\ h.at = "store"
  BY DEF TypeOK, Creation, Store
<1>2. creations' = (creations \ {h}) \cup {[h EXCEPT !.at = "announce"]}
  BY DEF Store
<1>3. [h EXCEPT !.at = "announce"].at = "announce"
  BY DEF TypeOK, Creation
<1>4. \A g \in creations' : g.at = "store" =>
         g \in creations /\ ~Same(g.node, g.mapping, h.node, h.mapping)
  BY <1>1, <1>2, <1>3 DEF SchemaInv, OneCreator
<1>5. \A o \in merges : \A x \in o.creating :
         o.at = "store" => ~Same(o.node, x, h.node, h.mapping)
  BY <1>1 DEF SchemaInv, OneCreator, Same
<1>6. MayCommit(h.node, h.mapping)
  BY <1>1 DEF SchemaInv, StoreReady
<1>7. StoreMapping(h.node, h.mapping) /\ dirs' = dirs /\ merges' = merges
  BY DEF Store
<1> QED
  BY <1>1, <1>4, <1>5, <1>6, <1>7, CommitSchemas

\* The commit of a merge.
LEMMA MergeStoreSchemas ==
    ASSUME TypeOK, SchemaInv, NEW m \in merges, MergeStore(m)
    PROVE  SchemaInv' /\ Kept
<1>1. PICK x \in m.creating : StoreMapping(m.node, x)
  BY DEF MergeStore
<1>2. m \in Merge /\ m.node \in Node /\ x \in Mapping /\ m.at = "store"
  BY DEF TypeOK, Merge, MergeStore
<1>3. /\ merges' = (merges \ {m}) \cup NextRound(m)
      /\ dirs' = dirs /\ creations' = creations
  BY DEF MergeStore
<1>4. \A o \in NextRound(m) : o.at = "next" /\ o.creating = {}
  BY <1>2, NextRoundType
<1>5. \A h \in creations : h.at = "store" => ~Same(h.node, h.mapping, m.node, x)
  BY <1>2 DEF SchemaInv, OneCreator
<1>6. \A o \in merges \ {m} : \A y \in o.creating :
         o.at = "store" => ~Same(o.node, y, m.node, x)
  BY <1>2 DEF SchemaInv, OneCreator
<1>7. \A o \in merges' :
         \/ /\ o \in merges
            /\ \A y \in o.creating : o.at = "store" => ~Same(o.node, y, m.node, x)
         \/ o.at # "store" /\ \A y, z \in o.creating : y = z
  BY <1>3, <1>4, <1>6
<1>8. MayCommit(m.node, x)
  BY <1>2 DEF SchemaInv, StoreReady
<1> QED
  BY <1>1, <1>2, <1>3, <1>5, <1>7, <1>8, CommitSchemas

\* MergeCreateIndex: as CreateIndex.
LEMMA MergeCreateSchemas ==
    ASSUME TypeOK, SchemaInv, NEW m \in merges, MergeCreateIndex(m)
    PROVE  SchemaInv' /\ Kept
<1>1. PICK x \in m.creating :
        /\ NewUsing(m.node, x)
        /\ merges' = (merges \ {m}) \cup
             IF MayCreate(m.node, x) THEN {[m EXCEPT !.at = "store"]}
                                     ELSE NextRound(m)
  BY DEF MergeCreateIndex
<1> DEFINE n == m.node
           c == x.collection
<1>2. m \in Merge /\ n \in Node /\ c \in Collection /\ x.fields \in Schema
  BY TaskTypes DEF TypeOK
<1>3. UNCHANGED <<bucket, open, creations>>
  BY DEF MergeCreateIndex
<1>4. CASE ~MayCreate(n, x)
  <2>1. dirs' = dirs
    BY <1>1, <1>4 DEF NewUsing, MayCreate
  <2>2. merges' = (merges \ {m}) \cup NextRound(m)
    BY <1>1, <1>4
  <2>3. \A o \in merges' : \/ o \in merges
                           \/ o.at # "store" /\ \A y, z \in o.creating : y = z
    BY <1>2, <2>2, NextRoundType
  <2> QED
    BY <1>3, <2>1, <2>3, QuietSchemas
<1>5. CASE MayCreate(n, x)
  <2> DEFINE made == [m EXCEPT !.at = "store"]
  <2>1. dirs[n][c] = NoSchema
    BY <1>5 DEF MayCreate
  <2>2. dirs' = Place(dirs, n, c, x.fields)
    BY <1>1, <1>5 DEF NewUsing, MayCreate
  <2>3. merges' = (merges \ {m}) \cup {made}
    BY <1>1, <1>5
  <2>4. /\ made.node = n /\ made.creating = m.creating /\ made.at = "store"
        /\ \A y \in m.creating : y = x
    BY <1>2 DEF Merge, SchemaInv, OneCreator
  <2>5. /\ dirs'[n][c] = x.fields
        /\ \A p \in Node, d \in Collection :
              p # n \/ d # c => dirs'[p][d] = dirs[p][d]
    <3>1. /\ dirs \in [Node -> [Collection -> SchemaOrNone]]
          /\ x.fields \in SchemaOrNone
      BY <1>2 DEF TypeOK, SchemaOrNone
    <3> HIDE DEF n, c
    <3> QED
      BY <1>2, <2>2, <3>1, PlaceType
  <2>6. bucket[n][c] = NoSchema /\ c \notin open[n]
    BY <1>2, <2>1 DEF SchemaInv, SchemaIsIndexed
  <2>7. /\ \A h \in creations : h.at = "store" => ~Same(h.node, h.mapping, n, x)
        /\ \A o \in merges : \A y \in o.creating :
              o.at = "store" => ~Same(o.node, y, n, x)
    BY <2>1, TaskTypes DEF SchemaInv, StoreReady, MayCommit, Same
  <2> HIDE DEF made, n, c
  <2>8. SchemaIsIndexed'
    BY <1>2, <1>3, <2>5, <2>6, TaskTypes DEF SchemaInv, SchemaIsIndexed
  <2>9. StoreReady'
    <3>1. ASSUME NEW g \in creations', g.at = "store"
          PROVE  MayCommit(g.node, g.mapping)'
      <4>1. g \in creations /\ g.node \in Node /\ g.mapping.collection \in Collection
        BY <1>3, TaskTypes
      <4>2. MayCommit(g.node, g.mapping) /\ ~Same(g.node, g.mapping, n, x)
        BY <4>1, <3>1, <2>7 DEF SchemaInv, StoreReady
      <4> QED
        BY <4>1, <4>2, <1>3, <2>5 DEF MayCommit, Same, c
    <3>2. ASSUME NEW o \in merges', NEW y \in o.creating, o.at = "store"
          PROVE  MayCommit(o.node, y)'
      <4>1. CASE o = made
        BY <4>1, <1>3, <2>4, <2>5, <2>6 DEF MayCommit, c
      <4>2. CASE o # made
        <5>1. o \in merges /\ o.node \in Node /\ y.collection \in Collection
          BY <4>2, <2>3, TaskTypes
        <5>2. MayCommit(o.node, y) /\ ~Same(o.node, y, n, x)
          BY <5>1, <3>2, <2>7 DEF SchemaInv, StoreReady
        <5> QED
          BY <5>1, <5>2, <1>3, <2>5 DEF MayCommit, Same, c
      <4> QED
        BY <4>1, <4>2
    <3> QED
      BY <3>1, <3>2 DEF StoreReady
  <2>10. OneCreator'
    BY <1>3, <2>3, <2>4, <2>7 DEF SchemaInv, OneCreator, Same
  <2>11. Kept
    BY <1>3 DEF Kept
  <2> QED
    BY <2>8, <2>9, <2>10, <2>11 DEF SchemaInv
<1> QED
  BY <1>4, <1>5

\* No step breaks what is said of the schemas, and none replaces one.
LEMMA StepSchemas ==
    TypeOK /\ SchemaInv /\ [Next]_vars => SchemaInv' /\ Kept
<1> SUFFICES ASSUME TypeOK, SchemaInv, [Next]_vars PROVE SchemaInv' /\ Kept
  OBVIOUS
<1> DEFINE Quiet ==
             /\ UNCHANGED <<dirs, bucket>>
             /\ \A h \in creations' : h.at = "store" => h \in creations
             /\ \A m \in merges' :
                  \/ m \in merges
                  \/ m.at # "store" /\ \A x, y \in m.creating : x = y
             /\ \A n \in Node : \A c \in open'[n] \cap Collection :
                  c \in open[n] \/ dirs[n][c] # NoSchema
<1>1. Quiet => SchemaInv' /\ Kept
  BY QuietSchemas
<1> USE DEF nodes, collections, tasks, documents, counts, history
<1>2. CASE UNCHANGED vars
  BY <1>1, <1>2 DEF vars
<1>3. ASSUME NEW n \in Node, NEW c \in Collection,
             CollectionMappingCreation(n, c)
      PROVE  Quiet
  BY <1>3 DEF CollectionMappingCreation
<1>4. ASSUME NEW n \in Node, NEW c \in Collection, HandleTransaction(n, c)
      PROVE  Quiet
  BY <1>4 DEF HandleTransaction
<1>5. ASSUME NEW h \in creations, StoreFails(h) PROVE Quiet
  <2>1. [h EXCEPT !.at = "announce"].at = "announce"
    BY DEF TypeOK, Creation
  <2> QED
    BY <1>5, <2>1 DEF StoreFails
<1>6. ASSUME NEW h \in creations, BroadcastObject(h) PROVE Quiet
  BY <1>6 DEF BroadcastObject
<1>7. ASSUME NEW n \in Node, AskNextPeer(n) \/ SyncBlocks(n) \/ Serve(n)
      PROVE  Quiet
  BY <1>7 DEF AskNextPeer, SyncBlocks, Serve
<1>8. ASSUME NEW q \in asks, AnswerAsk(q) PROVE Quiet
  <2> DEFINE new == {[collection |-> c, fields |-> cache[q.to][c]] :
                                             c \in Known(q.to) \ q.known}
             o == [node |-> q.from, from |-> q.to, by |-> q.by,
                   todo |-> new, creating |-> {}, at |-> "next"]
  <2>1. merges' = merges \cup Rest(o)
    BY <1>8 DEF AnswerAsk
  <2>2. Rest(o) \subseteq {o} /\ o.at = "next" /\ o.creating = {}
    BY DEF Rest
  <2> HIDE DEF o
  <2> QED
    BY <1>8, <2>1, <2>2 DEF AnswerAsk
<1>9. ASSUME NEW q \in asks, AskFails(q) PROVE Quiet
  BY <1>9 DEF AskFails
<1>10. ASSUME NEW r \in reverses, MappingsRequestReverse(r) PROVE Quiet
  BY <1>10 DEF MappingsRequestReverse
<1>11. ASSUME NEW m \in merges, MergeIntoCache(m) PROVE Quiet
  <2>1. PICK x \in m.todo :
          LET rest == [m EXCEPT !.todo = @ \ {x}]
              new == cache[m.node][x.collection] = NoSchema
          IN  merges' = (merges \ {m}) \cup
                IF new /\ x.fields \notin Invalid
                THEN {[rest EXCEPT !.creating = {x}, !.at = "newIndex"]}
                ELSE Rest(rest)
    BY <1>11 DEF MergeIntoCache
  <2> DEFINE rest == [m EXCEPT !.todo = @ \ {x}]
             into == [rest EXCEPT !.creating = {x}, !.at = "newIndex"]
  <2>2. m.at = "next" /\ m \in Merge
    BY <1>11 DEF MergeIntoCache, TypeOK
  <2>3. rest.at = "next" /\ rest.creating = m.creating
    BY <2>2 DEF Merge
  <2>4. into.at = "newIndex" /\ into.creating = {x}
    BY <2>2 DEF Merge
  <2>5. \A y, z \in m.creating : y = z
    BY DEF SchemaInv, OneCreator
  <2>6. Rest(rest) \subseteq {rest}
    BY DEF Rest
  <2>7. merges' \subseteq merges \cup {into} \cup {rest}
    BY <2>1, <2>6
  <2> HIDE DEF rest, into
  <2>8. \A o \in merges' : \/ o \in merges
                           \/ o.at # "store" /\ \A y, z \in o.creating : y = z
    BY <2>3, <2>4, <2>5, <2>7
  <2> QED
    BY <1>11, <2>8 DEF MergeIntoCache
<1>12. ASSUME NEW m \in merges, MergeStoreFails(m) PROVE Quiet
  <2>1. \A o \in NextRound(m) : o.at = "next" /\ o.creating = {}
    BY NextRoundType DEF TypeOK
  <2> QED
    BY <1>12, <2>1 DEF MergeStoreFails
<1>13. ASSUME Lose PROVE Quiet
  BY <1>13 DEF Lose
<1>14. ASSUME \/ \E b \in blocks : ReceiveBlock(b)
              \/ \E i \in indexing : IndexBlock(i)
       PROVE  Quiet
  BY <1>14 DEF ReceiveBlock, IndexBlock
<1>15. ASSUME NEW n \in Node, Start(n) PROVE Quiet
  <2>1. \A p \in Node : open'[p] = IF p = n
                             THEN {c \in Collection : dirs[n][c] # NoSchema}
                             ELSE open[p]
    BY <1>15 DEF Start, TypeOK
  <2> QED
    BY <1>15, <2>1 DEF Start
<1>16. ASSUME NEW n \in Node, Crash(n) PROVE Quiet
  <2>1. \A p \in Node : open'[p] \subseteq open[p]
    BY <1>16 DEF Crash, TypeOK
  <2>2. merges' \subseteq merges /\ creations' \subseteq creations
    BY <1>16 DEF Crash
  <2> QED
    BY <1>16, <2>1, <2>2 DEF Crash
<1> HIDE DEF Quiet
<1> QED
  BY <1>1, <1>2, <1>3, <1>4, <1>5, <1>6, <1>7, <1>8, <1>9, <1>10, <1>11,
     <1>12, <1>13, <1>14, <1>15, <1>16, CreateIndexSchemas, StoreSchemas,
     MergeCreateSchemas, MergeStoreSchemas DEF Next, Request, Work, Fault

\* A block that is stored and indexed conforms if it did before.
LEMMA PersistConforms ==
    ASSUME TypeOK, AllConform, NEW n \in Node, NEW d \in Document, NEW by,
           Persist(n, d, by), OwnerHasSchema(d)
    PROVE  /\ \A p \in Node : \A e \in stored'[p] : OwnerHasSchema(e)
           /\ \A i \in indexing' : OwnerHasSchema(i.document)
<1>1. \A p \in Node : stored'[p] \subseteq stored[p] \cup {d}
  BY DEF Persist, TypeOK
<1>2. \A i \in indexing' : i \in indexing \/ i.document = d
  BY DEF Persist
<1> QED
  BY <1>1, <1>2 DEF AllConform

\* HandleTransaction checks the schema of its own node, and whoever stores
\* the document later takes it from there; no schema changes after that.
LEMMA StepConforms ==
    TypeOK /\ SchemaInv /\ AllConform /\ [Next]_vars => AllConform'
<1> SUFFICES ASSUME TypeOK, SchemaInv, AllConform, [Next]_vars
             PROVE  AllConform'
  OBVIOUS
<1> DEFINE Stays ==
             /\ \A n \in Node : \A d \in stored'[n] : OwnerHasSchema(d)
             /\ \A b \in blocks' : OwnerHasSchema(b.document)
             /\ \A i \in indexing' : OwnerHasSchema(i.document)
<1>1. TypeOK' /\ Kept
  BY StepTypeOK, StepSchemas
<1>2. ASSUME Stays PROVE AllConform'
  <2>1. \A d \in Document : OwnerHasSchema(d) => OwnerHasSchema(d)'
    BY <1>1, ConstantsAssumption DEF Kept, OwnerHasSchema, Document
  <2>2. /\ \A n \in Node : stored'[n] \subseteq Document
        /\ \A b \in blocks' : b.document \in Document
        /\ \A i \in indexing' : i.document \in Document
    BY <1>1 DEF TypeOK, BlockMessage, Indexing
  <2> QED
    BY <1>2, <2>1, <2>2 DEF AllConform
<1> USE DEF nodes, collections, tasks, documents, counts, history
<1>3. ASSUME UNCHANGED <<stored, blocks, indexing>> PROVE Stays
  BY <1>3 DEF AllConform
<1>4. ASSUME NEW n \in Node, NEW c \in Collection, HandleTransaction(n, c)
      PROVE  Stays
  <2>1. PICK s \in Schema :
          LET d == [owner |-> n, collection |-> c, fits |-> s]
          IN  CheckMapping(n, c, s) /\ Persist(n, d, "monitor")
    BY <1>4 DEF HandleTransaction
  <2> DEFINE d == [owner |-> n, collection |-> c, fits |-> s]
  <2>2. d \in Document /\ OwnerHasSchema(d)
    BY <2>1 DEF Document, OwnerHasSchema, CheckMapping
  <2> HIDE DEF d
  <2>3. Persist(n, d, "monitor") /\ blocks' = blocks
    BY <1>4, <2>1 DEF d, HandleTransaction
  <2> QED
    BY <2>2, <2>3, PersistConforms DEF AllConform
<1>5. ASSUME NEW b \in blocks, ReceiveBlock(b) PROVE Stays
  <2>1. b.to \in Node /\ b.document \in Document /\ OwnerHasSchema(b.document)
    BY DEF TypeOK, BlockMessage, AllConform
  <2>2. blocks' \subseteq blocks
    BY <1>5 DEF ReceiveBlock
  <2>3. CASE UNCHANGED documents
    BY <2>2, <2>3 DEF AllConform
  <2>4. CASE Persist(b.to, b.document, b.by)
    <3>1. /\ \A p \in Node : \A e \in stored'[p] : OwnerHasSchema(e)
          /\ \A i \in indexing' : OwnerHasSchema(i.document)
      BY <2>1, <2>4, PersistConforms
    <3> QED
      BY <2>2, <3>1 DEF AllConform
  <2> QED
    BY <1>5, <2>3, <2>4 DEF ReceiveBlock
<1>6. ASSUME NEW n \in Node, SyncBlocks(n) PROVE Stays
  <2>1. PICK p \in toSync[n] \cap Up : blocks' = blocks \cup Walks(n, p)
    BY <1>6 DEF SyncBlocks
  <2>2. \A b \in Walks(n, p) : b.document \in stored[p] \cup stored[n]
    BY DEF Walks, Chain
  <2>3. p \in Node /\ UNCHANGED <<stored, indexing>>
    BY <1>6 DEF Up, SyncBlocks
  <2> QED
    BY <2>1, <2>2, <2>3 DEF AllConform
<1>7. ASSUME Lose \/ \E n \in Node : Crash(n) PROVE Stays
  <2>1. /\ stored' = stored
        /\ blocks' \subseteq blocks /\ indexing' \subseteq indexing
    BY <1>7 DEF Lose, Crash
  <2> QED
    BY <2>1 DEF AllConform
<1>8. ASSUME NEW i \in indexing, IndexBlock(i) PROVE Stays
  <2>1. indexing' \subseteq indexing /\ stored' = stored
    BY <1>8 DEF IndexBlock
  <2>2. \A b \in blocks' : b \in blocks \/ b.document = i.document
    BY <1>8 DEF IndexBlock
  <2> QED
    BY <2>1, <2>2 DEF AllConform
<1> HIDE DEF Stays
<1> QED
  BY <1>2, <1>3, <1>4, <1>5, <1>6, <1>7, <1>8
     DEF Next, vars, Request, Work, Fault, CollectionMappingCreation,
         CreateIndex, Store, StoreFails, BroadcastObject, AskNextPeer, Serve,
         AnswerAsk, AskFails, MappingsRequestReverse, MergeIntoCache,
         MergeCreateIndex, MergeStore, MergeStoreFails, Start

\* Before the first request there is nothing to break.
LEMMA InitIInv == Init => IInv
<1> SUFFICES ASSUME Init PROVE IInv
  OBVIOUS
<1>1. SchemaIsIndexed
  BY DEF Init, SchemaIsIndexed
<1>2. StoreReady /\ OneCreator
  BY DEF Init, StoreReady, OneCreator
<1>3. AllConform
  BY DEF Init, AllConform
<1> QED
  BY <1>1, <1>2, <1>3, InitTypeOK DEF IInv

LEMMA StepIInv == IInv /\ [Next]_vars => IInv'
  BY StepTypeOK, StepSchemas, StepConforms DEF IInv, SchemaInv

LEMMA Invariant == Spec => []IInv
  BY InitIInv, StepIInv, PTL DEF Spec

\* The schema in the bucket is the one that the index was made with, and an
\* open index is the collection's own, whichever two goroutines created it
\* (NewUsing refuses the second directory).
THEOREM IndexHasSchema == Spec => []SchemaIsIndexed
<1>1. IInv => SchemaIsIndexed
  BY DEF IInv
<1> QED
  BY <1>1, Invariant, PTL

\* Nothing replaces a committed schema: a creation or a message that passed
\* the test in CreateMappingByJson or in the cache too late fails in NewUsing.
THEOREM SchemaStays == Spec => SchemaKept
<1>1. IInv /\ [Next]_vars => Kept
  BY StepSchemas DEF IInv, SchemaInv
<1>2. IInv /\ [Next]_vars =>
        [\A n \in Node, c \in Collection :
            bucket[n][c] # NoSchema => bucket'[n][c] = bucket[n][c]]_vars
  BY <1>1 DEF Kept
<1> QED
  BY <1>2, Invariant, PTL DEF Spec, SchemaKept

\* Every document of a chain conforms to the schema its collection has there
\* today: checkMapping reads the bucket, and the bucket keeps the schema.
THEOREM ChainConforms == Spec => []DocumentsConform
<1>1. IInv => DocumentsConform
  BY DEF IInv, AllConform, OwnerHasSchema, DocumentsConform
<1> QED
  BY <1>1, Invariant, PTL

=============================================================================
