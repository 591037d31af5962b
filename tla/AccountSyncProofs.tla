------------------------- MODULE AccountSyncProofs --------------------------
(***************************************************************************)
(* Theorems about AccountSync for any number of nodes, addresses, requests *)
(* and faults.                                                             *)
(*                                                                         *)
(* Of AnsweredKept, PermissionsGranted and NeverBackwards only the second  *)
(* is close to inductive.  The other two need IInv: on each node at most   *)
(* one goroutine has a given uncontested account half stored (OneWriter),  *)
(* the version it has in hand is newer than the one that it replaces       *)
(* (HandlerNewer, MergeNewer), and the bucket differs from the cache only  *)
(* while such a goroutine is on its way (BucketBehind).  An account leaves *)
(* these four for good in the step that makes it contested.                *)
(*                                                                         *)
(* AgreeWhenQuiet needs AgreeInv on top: whatever version a bucket has, a  *)
(* running node that lacks it will get it from a node whose bucket has it  *)
(* (WillAgree), by one of the eight ways that Brings lists.  A step may    *)
(* end one of them only by beginning the next.                             *)
(***************************************************************************)
EXTENDS AccountSync, TLAPS

LEMMA StoredVersion ==
    ASSUME NEW v \in AccountOrNone
    PROVE  /\ v.lastModified \in Time \cup {0}
           /\ v # NoAccount => v \in Account
           /\ v.lastModified > 0 => v \in Account
  BY DEF AccountOrNone, NoAccount, Account, Time

LEMMA InitTypeOK == Init => TypeOK
  BY DEF Init, TypeOK, AccountOrNone

LEMMA KnownType ==
    ASSUME TypeOK, NEW n \in Node
    PROVE  Known(n) \in [Address -> Time \cup {0}]
  BY StoredVersion DEF Known, TypeOK

LEMMA NewerThanType ==
    ASSUME TypeOK, NEW n \in Node, NEW known \in [Address -> Time \cup {0}]
    PROVE  NewerThan(n, known) \in SUBSET Entry
<1>1. ASSUME NEW a \in Address, cache[n][a].lastModified > known[a]
      PROVE  Version(a, cache[n][a]) \in Entry
  <2>1. cache[n][a] \in AccountOrNone /\ known[a] \in Nat
    BY DEF TypeOK, Time
  <2>2. cache[n][a].lastModified > 0
    BY <2>1, <1>1, StoredVersion DEF Time
  <2> QED
    BY <2>1, <2>2, StoredVersion DEF Version, Entry
<1> QED
  BY <1>1 DEF NewerThan

LEMMA BroadcastType ==
    ASSUME NEW n \in Node, NEW e \in Entry
    PROVE  Broadcast(n, e) \subseteq Merge
  BY DEF Broadcast, Merge, Peers, Up

\* The types of the state, one step per action.
LEMMA StepTypeOK == TypeOK /\ [Next]_vars => TypeOK'
<1> SUFFICES ASSUME TypeOK, [Next]_vars PROVE TypeOK'
  OBVIOUS
<1> USE DEF TypeOK, nodes, stores, tasks, history, counts
<1>1. CASE UNCHANGED vars
  BY <1>1 DEF vars
<1>2. ASSUME NEW n \in Node, NEW a \in Address, NEW v \in Account,
             NEW grant \in BOOLEAN, Begin(n, a, v, grant)
      PROVE  handlers' \subseteq Handler
  BY <1>2 DEF Begin, Handler
<1>3. ASSUME NEW n \in Node, NEW a \in Address, AccountRegistration(n, a)
      PROVE  TypeOK'
  <2>1. PICK time \in Time :
          /\ Begin(n, a, [lastModified |-> time, writes |-> FALSE], FALSE)
          /\ Contest(a, Racing(n, a) \/ SameTime(n, a, time))
    BY <1>3 DEF AccountRegistration
  <2>2. handlers' \subseteq Handler
    BY <2>1, <1>2 DEF Account
  <2> QED
    BY <1>3, <2>1, <2>2 DEF AccountRegistration, Begin, Contest
<1>4. ASSUME NEW n \in Node, NEW a \in Address, AccountUpdate(n, a)
      PROVE  TypeOK'
  <2>1. PICK time \in Time :
          /\ Begin(n, a, [disk[n][a] EXCEPT !.lastModified = time], FALSE)
          /\ Contest(a, Racing(n, a) \/ SameTime(n, a, time))
    BY <1>4 DEF AccountUpdate
  <2>2. disk[n][a] \in Account
    BY <1>4, StoredVersion DEF AccountUpdate
  <2>3. [disk[n][a] EXCEPT !.lastModified = time] \in Account
    BY <2>2 DEF Account
  <2>4. handlers' \subseteq Handler
    BY <2>1, <2>3, <1>2
  <2> QED
    BY <1>4, <2>1, <2>4 DEF AccountUpdate, Begin, Contest
<1>5. ASSUME NEW n \in Node, NEW a \in Address, SetAccountReadWrite(n, a)
      PROVE  TypeOK'
  <2>1. PICK w \in BOOLEAN :
          /\ Begin(n, a, [disk[n][a] EXCEPT !.writes = w], TRUE)
          /\ granted' = IF w THEN granted \cup {a} ELSE granted
    BY <1>5 DEF SetAccountReadWrite
  <2>2. disk[n][a] \in Account
    BY <1>5, StoredVersion DEF SetAccountReadWrite
  <2>3. [disk[n][a] EXCEPT !.writes = w] \in Account
    BY <2>2 DEF Account
  <2>4. handlers' \subseteq Handler
    BY <2>1, <2>3, <1>2
  <2> QED
    BY <1>5, <2>1, <2>4 DEF SetAccountReadWrite, Begin, Contest
<1>6. ASSUME NEW h \in handlers, StoreWrite(h) PROVE TypeOK'
  <2>1. h \in Handler
    OBVIOUS
  <2>2. [h EXCEPT !.at = "announce"] \in Handler /\ h.node \in Node
        /\ h.address \in Address /\ h.account \in AccountOrNone
    BY <2>1 DEF Handler, AccountOrNone
  <2> QED
    BY <1>6, <2>1, <2>2 DEF StoreWrite
<1>7. ASSUME NEW h \in handlers, BroadcastObject(h) PROVE TypeOK'
  <2>1. /\ h.node \in Node /\ h.address \in Address /\ h.account \in Account
        /\ h.account \in AccountOrNone /\ h.account.lastModified \in Time
    BY DEF Handler, AccountOrNone, Account
  <2>2. Version(h.address, h.account) \in Entry
    BY <2>1 DEF Version, Entry
  <2> QED
    BY <1>7, <2>1, <2>2, BroadcastType DEF BroadcastObject
<1>8. ASSUME NEW n \in Node, AskNextPeer(n) PROVE TypeOK'
  <2>1. \A p \in Node : AskFor(n, p, "main") \in Ask
    BY KnownType DEF AskFor, Ask
  <2> QED
    BY <1>8, <2>1 DEF AskNextPeer
<1>9. ASSUME NEW n \in Node, Serve(n) PROVE TypeOK'
  BY <1>9 DEF Serve
<1>10. ASSUME NEW q \in asks, AnswerAsk(q) PROVE TypeOK'
  <2>1. /\ q.from \in Node /\ q.to \in Node /\ q.by \in {"main", "worker"}
        /\ q.known \in [Address -> Time \cup {0}]
    BY DEF Ask
  <2>2. NewerThan(q.to, q.known) \in SUBSET Entry
    BY <2>1, NewerThanType
  <2>3. [node |-> q.from, from |-> q.to, by |-> q.by,
         todo |-> NewerThan(q.to, q.known), storing |-> {}] \in Merge
    BY <2>1, <2>2 DEF Merge
  <2>4. [node |-> q.to, peer |-> q.from, known |-> q.known] \in Reverse
    BY <2>1 DEF Reverse
  <2> QED
    BY <1>10, <2>3, <2>4 DEF AnswerAsk, Rest
<1>11. ASSUME NEW r \in reverses, AccountsRequestReverse(r) PROVE TypeOK'
  <2>1. AskFor(r.node, r.peer, "worker") \in Ask
    BY KnownType DEF AskFor, Ask, Reverse
  <2> QED
    BY <1>11, <2>1 DEF AccountsRequestReverse
<1>12. ASSUME NEW m \in merges, MergeIntoCache(m) PROVE TypeOK'
  <2>1. m \in Merge
    OBVIOUS
  <2>2. PICK e \in m.todo :
          /\ merges' = (merges \ {m}) \cup
               Rest(IF Accept(m.node, e)
                    THEN [[m EXCEPT !.todo = @ \ {e}] EXCEPT !.storing = {e}]
                    ELSE [m EXCEPT !.todo = @ \ {e}])
          /\ cache' = (IF Accept(m.node, e)
                       THEN [cache EXCEPT ![m.node][e.address] = e.account]
                       ELSE cache)
          /\ Contest(e.address, Racing(m.node, e.address))
    BY <1>12 DEF MergeIntoCache
  <2>3. /\ m.node \in Node /\ e.address \in Address
        /\ e.account \in AccountOrNone /\ e \in Entry
    BY <2>1 DEF Merge, Entry, AccountOrNone
  <2>4. /\ [m EXCEPT !.todo = @ \ {e}] \in Merge
        /\ [[m EXCEPT !.todo = @ \ {e}] EXCEPT !.storing = {e}] \in Merge
    BY <2>1, <2>3 DEF Merge
  <2>5. merges' \subseteq Merge
    BY <2>2, <2>4 DEF Rest
  <2>6. cache' \in [Node -> [Address -> AccountOrNone]]
    BY <2>2, <2>3
  <2> QED
    BY <1>12, <2>2, <2>3, <2>5, <2>6 DEF MergeIntoCache, Contest
<1>13. ASSUME NEW m \in merges, MergeIntoBucket(m) PROVE TypeOK'
  <2>1. m \in Merge
    OBVIOUS
  <2>2. PICK e \in m.storing :
          /\ merges' = (merges \ {m}) \cup Rest([m EXCEPT !.storing = {}])
          /\ disk' = [disk EXCEPT ![m.node][e.address] = e.account]
    BY <1>13 DEF MergeIntoBucket
  <2>3. /\ m.node \in Node /\ e.address \in Address
        /\ e.account \in AccountOrNone
    BY <2>1 DEF Merge, Entry, AccountOrNone
  <2>4. [m EXCEPT !.storing = {}] \in Merge
    BY <2>1 DEF Merge
  <2> QED
    BY <1>13, <2>2, <2>3, <2>4 DEF MergeIntoBucket, Rest
<1>14. ASSUME NEW h \in handlers, StoreWriteFails(h) PROVE TypeOK'
  BY <1>14 DEF StoreWriteFails
<1>15. ASSUME NEW q \in asks, AskFails(q) PROVE TypeOK'
  BY <1>15 DEF AskFails
<1>16. ASSUME NEW m \in merges, MergeIntoBucketFails(m) PROVE TypeOK'
  <2>1. [m EXCEPT !.storing = {}] \in Merge
    BY DEF Merge
  <2>2. merges' \subseteq Merge
    BY <1>16, <2>1 DEF MergeIntoBucketFails, Rest
  <2>3. /\ diskErrors' = diskErrors + 1
        /\ UNCHANGED <<nodes, stores, handlers, asks, reverses, history,
                       writes, grants, crashes, drops>>
    BY <1>16 DEF MergeIntoBucketFails
  <2> QED
    BY <2>2, <2>3
<1>17. ASSUME NEW m \in merges, Lose(m) PROVE TypeOK'
  BY <1>17 DEF Lose
<1>18. ASSUME NEW n \in Node, Crash(n) PROVE TypeOK'
  <2>1. /\ merges' \subseteq merges /\ asks' \subseteq asks
        /\ reverses' \subseteq reverses /\ handlers' \subseteq handlers
    BY <1>18 DEF Crash
  <2> QED
    BY <1>18, <2>1 DEF Crash
<1>19. ASSUME NEW n \in Node, Start(n) PROVE TypeOK'
  BY <1>19 DEF Start, Peers, Up
<1> QED
  BY <1>1, <1>3, <1>4, <1>5, <1>6, <1>7, <1>8, <1>9, <1>10, <1>11, <1>12,
     <1>13, <1>14, <1>15, <1>16, <1>17, <1>18, <1>19
     DEF Next, Write, Work, Fault

\* The types of AccountSync hold for any number of nodes and addresses.
THEOREM TypeCorrect == Spec => []TypeOK
  BY InitTypeOK, StepTypeOK, PTL DEF Spec

-----------------------------------------------------------------------------
(* The invariant behind the properties. *)

\* What a goroutine does, it does on a node that runs.
Running ==
    /\ \A h \in handlers : status[h.node] # "down"
    /\ \A q \in asks : status[q.from] # "down" /\ status[q.to] # "down"
    /\ \A r \in reverses : status[r.node] # "down"
    /\ \A m \in merges : status[m.node] # "down"

\* At most one goroutine of a node has an uncontested account half stored.
OneWriter ==
    /\ \A h, g \in handlers :
          h.node = g.node /\ h.address = g.address =>
              h = g \/ h.address \in contested
    /\ \A h \in handlers, m \in merges : \A e \in m.storing :
          h.node = m.node /\ h.address = e.address => h.address \in contested
    /\ \A m, o \in merges : \A e \in m.storing, f \in o.storing :
          m.node = o.node /\ e.address = f.address =>
              m = o \/ e.address \in contested
    /\ \A m \in merges : \A e, f \in m.storing : e = f

\* LastModified in the bucket and in the cache.
Stored(n, a) == disk[n][a].lastModified
Told(n, a) == cache[n][a].lastModified

\* What an HTTP handler has in its hands, if nobody contests it, is newer
\* than what it will replace.
HandlerNewer ==
    \A h \in handlers :
        /\ h.at = "announce" => disk[h.node][h.address] # NoAccount
        /\ h.at = "announce" => ~h.grant
        /\ h.address \notin contested =>
             /\ h.at = "store" =>
                  /\ Stored(h.node, h.address) <= Told(h.node, h.address)
                  /\ h.grant =>
                       h.account.lastModified = Stored(h.node, h.address)
                  /\ ~h.grant =>
                       Told(h.node, h.address) < h.account.lastModified
             /\ h.at = "announce" =>
                  /\ h.account.lastModified = Stored(h.node, h.address)
                  /\ Told(h.node, h.address) < h.account.lastModified

\* So is what a merge has put into the cache and not yet into the bucket.
MergeNewer ==
    \A m \in merges : \A e \in m.storing : e.address \notin contested =>
        /\ e.account.lastModified = Told(m.node, e.address)
        /\ Stored(m.node, e.address) <= e.account.lastModified

Announcing(n, a) ==
    \E h \in handlers : h.node = n /\ h.address = a /\ h.at = "announce"

\* The bucket is behind the cache, except while a handler is about to set it.
BucketBehind ==
    \A n \in Node, a \in Address \ contested :
        status[n] # "down" /\ ~Announcing(n, a) => Stored(n, a) <= Told(n, a)

IInv ==
    /\ TypeOK /\ Running /\ OneWriter
    /\ HandlerNewer /\ MergeNewer /\ BucketBehind
    /\ AnsweredKept /\ PermissionsGranted

WriterInv == OneWriter /\ HandlerNewer /\ MergeNewer /\ BucketBehind

LEMMA Versions ==
    ASSUME TypeOK
    PROVE  /\ \A n \in Node, a \in Address :
                 Stored(n, a) \in Nat /\ Told(n, a) \in Nat
           /\ \A h \in handlers : /\ h.node \in Node /\ h.address \in Address
                                  /\ h.account \in Account
                                  /\ h.account.lastModified \in Nat
                                  /\ h.account # NoAccount
                                  /\ h.at \in {"store", "announce"}
           /\ \A m \in merges : \A e \in m.todo \cup m.storing :
                 /\ m.node \in Node /\ e.address \in Address
                 /\ e.account \in Account
                 /\ e.account.lastModified \in Nat /\ e.account # NoAccount
<1>1. \A v \in AccountOrNone : v.lastModified \in Nat
  BY StoredVersion DEF Time
<1>2. \A v \in Account : v.lastModified \in Nat /\ v # NoAccount
  BY DEF Account, NoAccount, Time
<1>3. \A h \in handlers : /\ h.node \in Node /\ h.address \in Address
                          /\ h.account \in Account
                          /\ h.at \in {"store", "announce"}
  BY DEF TypeOK, Handler
<1>4. \A m \in merges : \A e \in m.todo \cup m.storing :
        /\ m.node \in Node /\ e.address \in Address /\ e.account \in Account
  BY DEF TypeOK, Merge, Entry
<1> QED
  BY <1>1, <1>2, <1>3, <1>4 DEF Stored, Told, TypeOK

\* The beginning of a handler.
LEMMA BeginWriter ==
    ASSUME TypeOK, WriterInv,
           NEW n \in Node, NEW a \in Address, NEW v \in Account,
           NEW grant \in BOOLEAN, NEW unclear \in BOOLEAN,
           Begin(n, a, v, grant), Contest(a, unclear),
           Racing(n, a) => unclear,
           ~unclear => IF grant THEN v.lastModified = Stored(n, a)
                                ELSE Told(n, a) < v.lastModified,
           status[n] # "down"
    PROVE  WriterInv'
<1> DEFINE new == [node |-> n, address |-> a, account |-> v,
                   grant |-> grant, at |-> "store"]
<1>1. /\ handlers' = handlers \cup {new}
      /\ UNCHANGED <<status, cache, disk, merges>>
  BY DEF Begin, nodes, stores
<1>2. contested' = IF unclear THEN contested \cup {a} ELSE contested
  BY DEF Contest
<1>3. /\ new.node = n /\ new.address = a /\ new.account = v
      /\ new.grant = grant /\ new.at = "store"
  OBVIOUS
<1> HIDE DEF new
<1>4. a \notin contested' =>
        /\ ~unclear
        /\ \A h \in handlers : ~(h.node = n /\ h.address = a)
        /\ \A m \in merges : \A e \in m.storing :
              ~(m.node = n /\ e.address = a)
  BY <1>2 DEF Racing
<1>5. contested \subseteq contested' /\ contested' \subseteq Address
  BY <1>2 DEF TypeOK
<1>6. \A k \in Node, b \in Address :
        Stored(k, b)' = Stored(k, b) /\ Told(k, b)' = Told(k, b)
  BY <1>1 DEF Stored, Told
<1>7. OneWriter'
  BY <1>1, <1>3, <1>4, <1>5 DEF WriterInv, OneWriter
<1>8. a \notin contested' => Stored(n, a) <= Told(n, a)
  BY <1>4, <1>5 DEF WriterInv, BucketBehind, Announcing
<1>9. HandlerNewer'
  <2>1. \A h \in handlers : h.node \in Node /\ h.address \in Address
    BY Versions
  <2> QED
    BY <1>1, <1>3, <1>4, <1>5, <1>6, <1>8, <2>1 DEF WriterInv, HandlerNewer
<1>10. MergeNewer'
  <2>1. \A m \in merges : \A e \in m.storing :
          m.node \in Node /\ e.address \in Address
    BY Versions
  <2> QED
    BY <1>1, <1>5, <1>6, <2>1 DEF WriterInv, MergeNewer
<1>11. BucketBehind'
  <2>1. ASSUME NEW k \in Node, NEW b \in Address, Announcing(k, b)
        PROVE  Announcing(k, b)'
    BY <1>1, <2>1 DEF Announcing
  <2> QED
    BY <1>1, <1>5, <1>6, <2>1 DEF WriterInv, BucketBehind
<1> QED
  BY <1>7, <1>9, <1>10, <1>11 DEF WriterInv

\* AccountRegistration, AccountUpdate and SetAccountReadWrite.
LEMMA WriteWriter ==
    ASSUME TypeOK, WriterInv, NEW n \in Node, NEW a \in Address,
           \/ AccountRegistration(n, a)
           \/ AccountUpdate(n, a)
           \/ SetAccountReadWrite(n, a)
    PROVE  WriterInv'
<1>1. status[n] # "down"
  BY DEF AccountRegistration, AccountUpdate, SetAccountReadWrite
<1>2. ASSUME NEW time \in Time, ~(Racing(n, a) \/ SameTime(n, a, time))
      PROVE  Told(n, a) < time
  <2>1. ~(cache[n][a].lastModified >= time)
    BY <1>2 DEF SameTime
  <2> QED
    BY <2>1, Versions DEF Told, Time
<1>3. \A x, y : (Racing(n, a) \in BOOLEAN)
                   /\ ((Racing(n, a) \/ SameTime(n, a, x)) \in BOOLEAN)
  BY DEF Racing, SameTime
<1>4. CASE AccountRegistration(n, a)
  <2>1. PICK time \in Time :
          /\ Begin(n, a, [lastModified |-> time, writes |-> FALSE], FALSE)
          /\ Contest(a, Racing(n, a) \/ SameTime(n, a, time))
    BY <1>4 DEF AccountRegistration
  <2>2. [lastModified |-> time, writes |-> FALSE] \in Account
    BY DEF Account
  <2> QED
    BY <1>1, <1>2, <1>3, <2>1, <2>2, BeginWriter
<1>5. CASE AccountUpdate(n, a)
  <2>1. PICK time \in Time :
          /\ Begin(n, a, [disk[n][a] EXCEPT !.lastModified = time], FALSE)
          /\ Contest(a, Racing(n, a) \/ SameTime(n, a, time))
    BY <1>5 DEF AccountUpdate
  <2>2. disk[n][a] \in Account
    BY <1>5, StoredVersion DEF AccountUpdate, TypeOK
  <2>3. /\ [disk[n][a] EXCEPT !.lastModified = time] \in Account
        /\ [disk[n][a] EXCEPT !.lastModified = time].lastModified = time
    BY <2>2 DEF Account
  <2> QED
    BY <1>1, <1>2, <1>3, <2>1, <2>3, BeginWriter
<1>6. CASE SetAccountReadWrite(n, a)
  <2>1. PICK w \in BOOLEAN :
          /\ Begin(n, a, [disk[n][a] EXCEPT !.writes = w], TRUE)
          /\ Contest(a, Racing(n, a))
    BY <1>6 DEF SetAccountReadWrite
  <2>2. disk[n][a] \in Account
    BY <1>6, StoredVersion DEF SetAccountReadWrite, TypeOK
  <2>3. /\ [disk[n][a] EXCEPT !.writes = w] \in Account
        /\ [disk[n][a] EXCEPT !.writes = w].lastModified = Stored(n, a)
    BY <2>2 DEF Account, Stored
  <2> QED
    BY <1>1, <1>3, <2>1, <2>3, BeginWriter
<1> QED
  BY <1>4, <1>5, <1>6

\* The commit of a handler.
LEMMA StoreWriteWriter ==
    ASSUME TypeOK, WriterInv, NEW h \in handlers, StoreWrite(h)
    PROVE  WriterInv'
<1> DEFINE n == h.node
           a == h.address
           next == [h EXCEPT !.at = "announce"]
<1>1. /\ n \in Node /\ a \in Address /\ h \in Handler
      /\ h.account.lastModified \in Nat /\ h.account # NoAccount
      /\ h.grant \in BOOLEAN /\ h.at = "store"
  BY Versions DEF TypeOK, Handler, StoreWrite
<1>2. /\ next.node = n /\ next.address = a /\ next.account = h.account
      /\ next.grant = h.grant /\ next.at = "announce"
  BY <1>1 DEF Handler
<1>3. /\ handlers' = (handlers \ {h}) \cup (IF h.grant THEN {} ELSE {next})
      /\ disk' = [disk EXCEPT ![n][a] = h.account]
      /\ UNCHANGED <<status, cache, merges, contested>>
  BY DEF StoreWrite, nodes, history
<1> HIDE DEF next
<1>4. \A k \in Node, b \in Address :
        /\ Told(k, b)' = Told(k, b)
        /\ ~(k = n /\ b = a) => Stored(k, b)' = Stored(k, b)
        /\ ~(k = n /\ b = a) => disk'[k][b] = disk[k][b]
  BY <1>1, <1>3 DEF Stored, Told, TypeOK
<1>5. Stored(n, a)' = h.account.lastModified /\ disk'[n][a] = h.account
  BY <1>1, <1>3 DEF Stored, TypeOK
<1>6. \A g \in handlers : g.node = n /\ g.address = a /\ g # h =>
        a \in contested
  BY DEF WriterInv, OneWriter
<1>7. a \notin contested =>
        /\ Stored(n, a) <= Told(n, a)
        /\ h.grant => h.account.lastModified = Stored(n, a)
        /\ ~h.grant => Told(n, a) < h.account.lastModified
  BY <1>1 DEF WriterInv, HandlerNewer
<1>8. OneWriter'
  BY <1>2, <1>3 DEF WriterInv, OneWriter
<1>9. HandlerNewer'
  <2>1. \A g \in handlers : g.node \in Node /\ g.address \in Address
    BY Versions
  <2>2. ASSUME NEW g \in handlers, g # h
        PROVE  /\ g.at = "announce" => disk'[g.node][g.address] # NoAccount
               /\ g.address \notin contested => ~(g.node = n /\ g.address = a)
    BY <1>1, <1>4, <1>5, <1>6, <2>1, <2>2 DEF WriterInv, HandlerNewer
  <2> QED
    BY <1>1, <1>2, <1>3, <1>4, <1>5, <1>7, <2>1, <2>2
       DEF WriterInv, HandlerNewer
<1>10. MergeNewer'
  <2>1. \A m \in merges : \A e \in m.storing :
          /\ m.node \in Node /\ e.address \in Address
          /\ m.node = n /\ e.address = a => a \in contested
    BY Versions DEF WriterInv, OneWriter
  <2> QED
    BY <1>3, <1>4, <2>1 DEF WriterInv, MergeNewer
<1>11. BucketBehind'
  <2>1. ASSUME NEW k \in Node, NEW b \in Address, Announcing(k, b)
        PROVE  Announcing(k, b)'
    BY <1>1, <1>2, <1>3, <2>1 DEF Announcing
  <2>2. ~h.grant => Announcing(n, a)'
    BY <1>2, <1>3 DEF Announcing
  <2>3. ASSUME a \notin contested, h.grant
        PROVE  Stored(n, a)' <= Told(n, a)'
    BY <1>1, <1>4, <1>5, <1>7, <2>3
  <2> QED
    BY <1>3, <1>4, <2>1, <2>2, <2>3 DEF WriterInv, BucketBehind
<1> QED
  BY <1>8, <1>9, <1>10, <1>11 DEF WriterInv

\* The cache is set, and the handler is done.
LEMMA BroadcastWriter ==
    ASSUME TypeOK, WriterInv, NEW h \in handlers, BroadcastObject(h)
    PROVE  WriterInv'
<1> DEFINE n == h.node
           a == h.address
<1>1. /\ n \in Node /\ a \in Address /\ h.at = "announce"
      /\ h.account.lastModified \in Nat
  BY Versions DEF BroadcastObject
<1>2. /\ handlers' = handlers \ {h}
      /\ cache' = [cache EXCEPT ![n][a] = h.account]
      /\ UNCHANGED <<status, disk, contested>>
  BY DEF BroadcastObject, nodes
<1>3. \A m \in merges' : m \in merges \/ m.storing = {}
  BY DEF BroadcastObject, Broadcast
<1>4. \A k \in Node, b \in Address :
        /\ Stored(k, b)' = Stored(k, b)
        /\ ~(k = n /\ b = a) => Told(k, b)' = Told(k, b)
  BY <1>1, <1>2 DEF Stored, Told, TypeOK
<1>5. Told(n, a)' = h.account.lastModified
  BY <1>1, <1>2 DEF Told, TypeOK
<1>6. OneWriter'
  <2>1. ASSUME NEW m \in merges', NEW o \in merges', NEW e \in m.storing
        PROVE  m \in merges
    BY <1>3, <2>1
  <2> QED
    BY <1>2, <2>1 DEF WriterInv, OneWriter
<1>7. HandlerNewer'
  <2>1. \A g \in handlers : /\ g.node \in Node /\ g.address \in Address
                            /\ g # h /\ g.node = n /\ g.address = a =>
                                 a \in contested
    BY Versions DEF WriterInv, OneWriter
  <2> QED
    BY <1>2, <1>4, <2>1 DEF WriterInv, HandlerNewer
<1>8. MergeNewer'
  <2>1. \A m \in merges : \A e \in m.storing :
          /\ m.node \in Node /\ e.address \in Address
          /\ m.node = n /\ e.address = a => a \in contested
    BY Versions DEF WriterInv, OneWriter
  <2>2. ASSUME NEW m \in merges', NEW e \in m.storing
        PROVE  m \in merges
    BY <1>3, <2>2
  <2> QED
    BY <1>2, <1>4, <2>1, <2>2 DEF WriterInv, MergeNewer
<1>9. BucketBehind'
  <2>1. ASSUME NEW k \in Node, NEW b \in Address, Announcing(k, b),
               ~(k = n /\ b = a)
        PROVE  Announcing(k, b)'
    BY <1>2, <2>1 DEF Announcing
  <2>2. a \notin contested => Stored(n, a)' <= Told(n, a)'
    <3>1. a \notin contested => h.account.lastModified = Stored(n, a)
      BY <1>1 DEF WriterInv, HandlerNewer
    <3> QED
      BY <1>1, <1>4, <1>5, <3>1
  <2> QED
    BY <1>2, <1>4, <2>1, <2>2 DEF WriterInv, BucketBehind
<1> QED
  BY <1>6, <1>7, <1>8, <1>9 DEF WriterInv

\* One round of a merge, and its other half.
LEMMA MergeCacheWriter ==
    ASSUME TypeOK, WriterInv, NEW m \in merges, MergeIntoCache(m),
           status[m.node] # "down"
    PROVE  WriterInv'
<1>1. PICK e \in m.todo :
        /\ merges' = (merges \ {m}) \cup
             Rest(IF Accept(m.node, e)
                  THEN [[m EXCEPT !.todo = @ \ {e}] EXCEPT !.storing = {e}]
                  ELSE [m EXCEPT !.todo = @ \ {e}])
        /\ cache' = (IF Accept(m.node, e)
                     THEN [cache EXCEPT ![m.node][e.address] = e.account]
                     ELSE cache)
        /\ Contest(e.address, Racing(m.node, e.address))
  BY DEF MergeIntoCache
<1> DEFINE n == m.node
           a == e.address
           rest == [m EXCEPT !.todo = @ \ {e}]
           full == [[m EXCEPT !.todo = @ \ {e}] EXCEPT !.storing = {e}]
<1>2. /\ m \in Merge /\ m.storing = {}
      /\ UNCHANGED <<status, disk, handlers>>
      /\ contested' = IF Racing(n, a) THEN contested \cup {a} ELSE contested
  BY <1>1 DEF MergeIntoCache, nodes, Contest, TypeOK
<1>3. /\ n \in Node /\ a \in Address /\ e.account.lastModified \in Nat
  BY Versions
<1>4. /\ rest.storing = {} /\ rest.node = n
      /\ full.storing = {e} /\ full.node = n
  BY <1>2 DEF Merge
<1> HIDE DEF rest, full
<1>5. \A o \in merges' : \/ o \in merges
                         \/ o.storing = {}
                         \/ Accept(n, e) /\ o = full
  BY <1>1, <1>4 DEF Rest, rest, full
<1>6. a \notin contested' =>
        /\ a \notin contested
        /\ \A h \in handlers : ~(h.node = n /\ h.address = a)
        /\ \A o \in merges : \A f \in o.storing :
              ~(o.node = n /\ f.address = a)
        /\ ~Announcing(n, a)
  BY <1>2 DEF Racing, Announcing
<1>7. contested \subseteq contested'
  BY <1>2
<1>8. \A k \in Node, b \in Address :
        /\ Stored(k, b)' = Stored(k, b)
        /\ ~(k = n /\ b = a) => Told(k, b)' = Told(k, b)
        /\ ~Accept(n, e) => Told(k, b)' = Told(k, b)
  BY <1>1, <1>2, <1>3 DEF Stored, Told, TypeOK
<1>9. Accept(n, e) => /\ Told(n, a)' = e.account.lastModified
                      /\ Told(n, a) < e.account.lastModified
  BY <1>1, <1>3 DEF Told, TypeOK, Accept
<1>10. OneWriter'
  <2>1. \A h, g \in handlers' :
          h.node = g.node /\ h.address = g.address =>
              h = g \/ h.address \in contested'
    BY <1>2, <1>7 DEF WriterInv, OneWriter
  <2>2. ASSUME NEW o \in merges', NEW f \in o.storing
        PROVE  \/ o \in merges
               \/ o = full /\ f = e
    BY <1>4, <1>5, <2>2
  <2>3. \A h \in handlers', o \in merges' : \A f \in o.storing :
          h.node = o.node /\ h.address = f.address =>
              h.address \in contested'
    BY <1>2, <1>4, <1>6, <1>7, <2>2 DEF WriterInv, OneWriter
  <2>4. \A o, p \in merges' : \A f \in o.storing, g \in p.storing :
          o.node = p.node /\ f.address = g.address =>
              o = p \/ f.address \in contested'
    BY <1>2, <1>4, <1>6, <1>7, <2>2 DEF WriterInv, OneWriter
  <2>5. \A o \in merges' : \A f, g \in o.storing : f = g
    BY <1>4, <1>5 DEF WriterInv, OneWriter
  <2> QED
    BY <2>1, <2>3, <2>4, <2>5 DEF OneWriter
<1>11. HandlerNewer'
  <2>1. \A h \in handlers : h.node \in Node /\ h.address \in Address
    BY Versions
  <2>2. \A h \in handlers : h.address \notin contested' =>
          /\ h.address \notin contested
          /\ ~(h.node = n /\ h.address = a)
    BY <1>6, <1>7
  <2> QED
    BY <1>2, <1>8, <2>1, <2>2 DEF WriterInv, HandlerNewer
<1>12. MergeNewer'
  <2>1. ASSUME NEW o \in merges, NEW f \in o.storing,
               f.address \notin contested'
        PROVE  /\ o.node \in Node /\ f.address \in Address
               /\ f.address \notin contested
               /\ ~(o.node = n /\ f.address = a)
    BY <1>6, <1>7, <2>1, Versions
  <2>2. ASSUME a \notin contested', Accept(n, e)
        PROVE  /\ e.account.lastModified = Told(n, a)'
               /\ Stored(n, a)' <= e.account.lastModified
    <3>1. Stored(n, a) <= Told(n, a)
      BY <1>3, <1>6, <2>2 DEF WriterInv, BucketBehind
    <3> QED
      BY <1>3, <1>8, <1>9, <2>2, <3>1, Versions
  <2>3. ASSUME NEW o \in merges', NEW f \in o.storing
        PROVE  \/ o \in merges
               \/ o = full /\ f = e /\ Accept(n, e)
    BY <1>4, <1>5, <2>3
  <2> QED
    BY <1>4, <1>8, <2>1, <2>2, <2>3 DEF WriterInv, MergeNewer
<1>13. BucketBehind'
  <2>1. \A k \in Node, b \in Address : Announcing(k, b)' = Announcing(k, b)
    BY <1>2 DEF Announcing
  <2>2. ASSUME NEW k \in Node, NEW b \in Address, Stored(k, b) <= Told(k, b)
        PROVE  Stored(k, b)' <= Told(k, b)'
    <3>1. /\ Stored(k, b)' = Stored(k, b)
          /\ Stored(k, b) \in Nat /\ Told(k, b) \in Nat
      BY <1>8, Versions
    <3>2. CASE Told(k, b)' = Told(k, b)
      BY <2>2, <3>1, <3>2
    <3>3. CASE Accept(n, e) /\ k = n /\ b = a
      BY <1>3, <1>9, <2>2, <3>1, <3>3
    <3> QED
      BY <1>8, <3>2, <3>3
  <2> QED
    BY <1>2, <1>7, <2>1, <2>2 DEF WriterInv, BucketBehind
<1> QED
  BY <1>10, <1>11, <1>12, <1>13 DEF WriterInv

LEMMA MergeBucketWriter ==
    ASSUME TypeOK, WriterInv, NEW m \in merges, MergeIntoBucket(m)
    PROVE  WriterInv'
<1>1. PICK e \in m.storing :
        /\ merges' = (merges \ {m}) \cup Rest([m EXCEPT !.storing = {}])
        /\ disk' = [disk EXCEPT ![m.node][e.address] = e.account]
  BY DEF MergeIntoBucket
<1> DEFINE n == m.node
           a == e.address
<1>2. /\ m \in Merge
      /\ UNCHANGED <<status, cache, handlers, contested>>
  BY DEF MergeIntoBucket, nodes, history, TypeOK
<1>3. /\ n \in Node /\ a \in Address /\ e.account.lastModified \in Nat
      /\ e.account # NoAccount
  BY Versions
<1>4. [m EXCEPT !.storing = {}].storing = {}
  BY <1>2 DEF Merge
<1>5. \A o \in merges' : (o \in merges /\ o # m) \/ o.storing = {}
  BY <1>1, <1>4 DEF Rest
<1>6. a \notin contested =>
        /\ \A h \in handlers : ~(h.node = n /\ h.address = a)
        /\ \A o \in merges : \A f \in o.storing :
              o.node = n /\ f.address = a => o = m
        /\ e.account.lastModified = Told(n, a)
        /\ Stored(n, a) <= e.account.lastModified
  BY DEF WriterInv, OneWriter, MergeNewer
<1>7. \A k \in Node, b \in Address :
        /\ Told(k, b)' = Told(k, b)
        /\ ~(k = n /\ b = a) => Stored(k, b)' = Stored(k, b)
        /\ disk'[k][b] # NoAccount \/ disk'[k][b] = disk[k][b]
  BY <1>1, <1>2, <1>3 DEF Stored, Told, TypeOK
<1>8. Stored(n, a)' = e.account.lastModified
  BY <1>1, <1>3 DEF Stored, TypeOK
<1>9. OneWriter'
  <2>1. ASSUME NEW o \in merges', NEW f \in o.storing
        PROVE  o \in merges
    BY <1>5, <2>1
  <2> QED
    BY <1>2, <2>1 DEF WriterInv, OneWriter
<1>10. HandlerNewer'
  <2>1. \A h \in handlers : h.node \in Node /\ h.address \in Address
    BY Versions
  <2> QED
    BY <1>2, <1>6, <1>7, <2>1 DEF WriterInv, HandlerNewer
<1>11. MergeNewer'
  <2>1. ASSUME NEW o \in merges', NEW f \in o.storing
        PROVE  /\ o \in merges /\ o.node \in Node /\ f.address \in Address
               /\ f.address \notin contested => ~(o.node = n /\ f.address = a)
    BY <1>5, <1>6, <2>1, Versions
  <2> QED
    BY <1>2, <1>7, <2>1 DEF WriterInv, MergeNewer
<1>12. BucketBehind'
  <2>1. \A k \in Node, b \in Address : Announcing(k, b)' = Announcing(k, b)
    BY <1>2 DEF Announcing
  <2>2. a \notin contested => Stored(n, a)' <= Told(n, a)'
    BY <1>3, <1>6, <1>7, <1>8
  <2> QED
    BY <1>2, <1>7, <2>1, <2>2 DEF WriterInv, BucketBehind
<1> QED
  BY <1>9, <1>10, <1>11, <1>12 DEF WriterInv

\* Steps that begin nothing new on a node that runs and store nothing.
LEMMA QuietWriter ==
    ASSUME TypeOK, WriterInv,
           handlers' \subseteq handlers,
           \A m \in merges' : m \in merges \/ m.storing = {},
           UNCHANGED <<cache, disk, contested>>,
           \A n \in Node : \/ status'[n] = "down"
                           \/ /\ status[n] # "down"
                              /\ \A h \in handlers \ handlers' :
                                    h.node = n => h.at # "announce"
    PROVE  WriterInv'
<1>1. \A k \in Node, b \in Address :
        Told(k, b)' = Told(k, b) /\ Stored(k, b)' = Stored(k, b)
  BY DEF Stored, Told
<1>2. ASSUME NEW m \in merges', NEW e \in m.storing
      PROVE  m \in merges
  BY <1>2
<1>3. OneWriter'
  BY <1>2 DEF WriterInv, OneWriter
<1>4. HandlerNewer'
  <2>1. \A h \in handlers : h.node \in Node /\ h.address \in Address
    BY Versions
  <2> QED
    BY <1>1, <2>1 DEF WriterInv, HandlerNewer
<1>5. MergeNewer'
  <2>1. \A m \in merges : \A e \in m.storing :
          m.node \in Node /\ e.address \in Address
    BY Versions
  <2> QED
    BY <1>1, <1>2, <2>1 DEF WriterInv, MergeNewer
<1>6. BucketBehind'
  <2>1. ASSUME NEW n \in Node, NEW a \in Address, status'[n] # "down",
               Announcing(n, a)
        PROVE  Announcing(n, a)'
    BY <2>1 DEF Announcing
  <2> QED
    BY <1>1, <2>1 DEF WriterInv, BucketBehind
<1> QED
  BY <1>3, <1>4, <1>5, <1>6 DEF WriterInv

\* A node that starts reads its bucket: it has no task yet.
LEMMA StartWriter ==
    ASSUME TypeOK, WriterInv, Running, NEW n \in Node, Start(n)
    PROVE  WriterInv'
<1>1. /\ status[n] = "down"
      /\ cache' = [cache EXCEPT ![n] = disk[n]]
      /\ status' = [status EXCEPT ![n] = "starting"]
      /\ UNCHANGED <<disk, handlers, merges, contested>>
  BY DEF Start, tasks, history
<1>2. /\ \A h \in handlers : h.node \in Node \ {n} /\ h.address \in Address
      /\ \A m \in merges : \A e \in m.storing :
            m.node \in Node \ {n} /\ e.address \in Address
  BY <1>1, Versions DEF Running
<1>3. \A k \in Node, b \in Address :
        /\ Stored(k, b)' = Stored(k, b)
        /\ Told(k, b)' = IF k = n THEN Stored(k, b) ELSE Told(k, b)
  BY <1>1 DEF Stored, Told, TypeOK
<1>4. OneWriter'
  BY <1>1 DEF WriterInv, OneWriter
<1>5. HandlerNewer'
  BY <1>1, <1>2, <1>3 DEF WriterInv, HandlerNewer
<1>6. MergeNewer'
  BY <1>1, <1>2, <1>3 DEF WriterInv, MergeNewer
<1>7. BucketBehind'
  <2>1. \A k \in Node, b \in Address : Announcing(k, b)' = Announcing(k, b)
    BY <1>1 DEF Announcing
  <2>2. \A k \in Node, b \in Address : Stored(k, b) <= Stored(k, b)
    BY Versions
  <2> QED
    BY <1>1, <1>3, <2>1, <2>2 DEF WriterInv, BucketBehind, TypeOK
<1> QED
  BY <1>4, <1>5, <1>6, <1>7 DEF WriterInv

LEMMA StepRunning == TypeOK /\ Running /\ [Next]_vars => Running'
<1> SUFFICES ASSUME TypeOK, Running, [Next]_vars PROVE Running'
  OBVIOUS
<1> USE DEF Running, nodes, tasks
<1>1. CASE UNCHANGED vars
  BY <1>1 DEF vars
<1>2. ASSUME NEW n \in Node, NEW a \in Address,
             \/ AccountRegistration(n, a) \/ AccountUpdate(n, a)
             \/ SetAccountReadWrite(n, a)
      PROVE  Running'
  <2>1. /\ status[n] # "down" /\ UNCHANGED <<status, asks, reverses, merges>>
        /\ \A h \in handlers' : h \in handlers \/ h.node = n
    BY <1>2 DEF AccountRegistration, AccountUpdate, SetAccountReadWrite, Begin
  <2> QED
    BY <2>1
<1>3. ASSUME NEW h \in handlers, StoreWrite(h) PROVE Running'
  <2>1. [h EXCEPT !.at = "announce"].node = h.node
    BY DEF TypeOK, Handler
  <2>2. /\ UNCHANGED <<status, asks, reverses, merges>>
        /\ \A g \in handlers' : g \in handlers \/ g.node = h.node
    BY <1>3, <2>1 DEF StoreWrite
  <2> QED
    BY <2>2
<1>4. ASSUME NEW h \in handlers, BroadcastObject(h) PROVE Running'
  <2>1. /\ UNCHANGED <<status, asks, reverses>> /\ handlers' \subseteq handlers
        /\ \A m \in merges' : m \in merges \/ status[m.node] # "down"
    BY <1>4 DEF BroadcastObject, Broadcast, Peers, Up
  <2> QED
    BY <2>1
<1>5. ASSUME NEW n \in Node, AskNextPeer(n) PROVE Running'
  <2>1. /\ UNCHANGED <<status, handlers, reverses, merges>>
        /\ status[n] # "down"
        /\ \A q \in asks' : q \in asks \/ (q.from = n /\ status[q.to] # "down")
    BY <1>5 DEF AskNextPeer, AskFor, Up
  <2> QED
    BY <2>1
<1>6. ASSUME NEW n \in Node, Serve(n) PROVE Running'
  BY <1>6 DEF Serve, TypeOK
<1>7. ASSUME NEW q \in asks, AnswerAsk(q) PROVE Running'
  <2>1. /\ UNCHANGED <<status, handlers>> /\ asks' \subseteq asks
        /\ \A m \in merges' : m \in merges \/ m.node = q.from
        /\ \A r \in reverses' : r \in reverses \/ r.node = q.to
    BY <1>7 DEF AnswerAsk, Rest
  <2> QED
    BY <1>7, <2>1
<1>8. ASSUME NEW r \in reverses, AccountsRequestReverse(r) PROVE Running'
  <2>1. /\ UNCHANGED <<status, handlers, merges>>
        /\ reverses' \subseteq reverses
        /\ \A q \in asks' :
              q \in asks \/ (q.from = r.node /\ status[q.to] # "down")
    BY <1>8 DEF AccountsRequestReverse, AskFor, Up
  <2> QED
    BY <2>1
<1>9. ASSUME NEW m \in merges,
             \/ MergeIntoCache(m) \/ MergeIntoBucket(m)
             \/ MergeIntoBucketFails(m) \/ Lose(m)
      PROVE  Running'
  <2>1. m \in Merge
    BY DEF TypeOK
  <2>2. [m EXCEPT !.storing = {}].node = m.node
    BY <2>1 DEF Merge
  <2>3. \A o \in merges' : o \in merges \/ o.node = m.node
    <3>1. CASE MergeIntoCache(m)
      <4>1. PICK e \in m.todo :
              merges' = (merges \ {m}) \cup
                Rest(IF Accept(m.node, e)
                     THEN [[m EXCEPT !.todo = @ \ {e}] EXCEPT !.storing = {e}]
                     ELSE [m EXCEPT !.todo = @ \ {e}])
        BY <3>1 DEF MergeIntoCache
      <4>2. /\ [m EXCEPT !.todo = @ \ {e}].node = m.node
            /\ [[m EXCEPT !.todo = @ \ {e}] EXCEPT !.storing = {e}].node
                  = m.node
        BY <2>1 DEF Merge
      <4> QED
        BY <4>1, <4>2 DEF Rest
    <3>2. CASE MergeIntoBucket(m)
      BY <3>2, <2>2 DEF MergeIntoBucket, Rest
    <3>3. CASE MergeIntoBucketFails(m)
      BY <3>3, <2>2 DEF MergeIntoBucketFails, Rest
    <3>4. CASE Lose(m)
      BY <3>4 DEF Lose
    <3> QED
      BY <1>9, <3>1, <3>2, <3>3, <3>4
  <2>4. UNCHANGED <<status, handlers, asks, reverses>>
    BY <1>9 DEF MergeIntoCache, MergeIntoBucket, MergeIntoBucketFails, Lose
  <2> QED
    BY <2>3, <2>4
<1>10. ASSUME NEW h \in handlers, StoreWriteFails(h) PROVE Running'
  BY <1>10 DEF StoreWriteFails
<1>11. ASSUME NEW q \in asks, AskFails(q) PROVE Running'
  BY <1>11 DEF AskFails
<1>12. ASSUME NEW n \in Node, Crash(n) PROVE Running'
  <2>1. /\ status' = [status EXCEPT ![n] = "down"]
        /\ \A h \in handlers' : h \in handlers /\ h.node # n
        /\ \A q \in asks' : q \in asks /\ q.from # n /\ q.to # n
        /\ \A r \in reverses' : r \in reverses /\ r.node # n
        /\ \A m \in merges' : m \in merges /\ m.node # n
    BY <1>12 DEF Crash
  <2> QED
    BY <2>1 DEF TypeOK
<1>13. ASSUME NEW n \in Node, Start(n) PROVE Running'
  BY <1>13 DEF Start, TypeOK
<1> QED
  BY <1>1, <1>2, <1>3, <1>4, <1>5, <1>6, <1>7, <1>8, <1>9, <1>10, <1>11,
     <1>12, <1>13 DEF Next, Write, Work, Fault

LEMMA StepWriter == TypeOK /\ Running /\ WriterInv /\ [Next]_vars => WriterInv'
<1> SUFFICES ASSUME TypeOK, Running, WriterInv, [Next]_vars PROVE WriterInv'
  OBVIOUS
<1> USE DEF nodes, stores, tasks, history
<1>1. CASE UNCHANGED vars
  BY <1>1, QuietWriter DEF vars, WriterInv, OneWriter, HandlerNewer,
     MergeNewer, BucketBehind, Stored, Told, Announcing
<1>2. ASSUME NEW n \in Node, NEW a \in Address,
             \/ AccountRegistration(n, a) \/ AccountUpdate(n, a)
             \/ SetAccountReadWrite(n, a)
      PROVE  WriterInv'
  BY <1>2, WriteWriter
<1>3. ASSUME NEW h \in handlers, StoreWrite(h) PROVE WriterInv'
  BY <1>3, StoreWriteWriter
<1>4. ASSUME NEW h \in handlers, BroadcastObject(h) PROVE WriterInv'
  BY <1>4, BroadcastWriter
<1>5. ASSUME NEW m \in merges, MergeIntoCache(m) PROVE WriterInv'
  BY <1>5, MergeCacheWriter DEF Running
<1>6. ASSUME NEW m \in merges, MergeIntoBucket(m) PROVE WriterInv'
  BY <1>6, MergeBucketWriter
<1>7. ASSUME NEW n \in Node, Start(n) PROVE WriterInv'
  BY <1>7, StartWriter
<1>8. ASSUME UNCHANGED <<status, cache, disk, handlers, contested>>,
             \A m \in merges' : m \in merges \/ m.storing = {}
      PROVE  WriterInv'
  BY <1>8, QuietWriter
<1>9. ASSUME NEW n \in Node, AskNextPeer(n) \/ Serve(n) PROVE WriterInv'
  <2>1. CASE AskNextPeer(n)
    BY <2>1, <1>8 DEF AskNextPeer
  <2>2. CASE Serve(n)
    <3>1. \A k \in Node : status'[k] = "down" \/ status[k] # "down"
      BY <2>2 DEF Serve, TypeOK
    <3> QED
      BY <2>2, <3>1, QuietWriter DEF Serve
  <2> QED
    BY <1>9, <2>1, <2>2
<1>10. ASSUME NEW q \in asks, AnswerAsk(q) PROVE WriterInv'
  BY <1>10, <1>8 DEF AnswerAsk, Rest
<1>11. ASSUME NEW r \in reverses, AccountsRequestReverse(r) PROVE WriterInv'
  BY <1>11, <1>8 DEF AccountsRequestReverse
<1>12. ASSUME NEW h \in handlers, StoreWriteFails(h) PROVE WriterInv'
  <2>1. \A n \in Node : \/ status'[n] = "down"
                        \/ /\ status[n] # "down"
                           /\ \A g \in handlers \ handlers' :
                                 g.node = n => g.at # "announce"
    BY <1>12 DEF StoreWriteFails
  <2> QED
    BY <1>12, <2>1, QuietWriter DEF StoreWriteFails
<1>13. ASSUME NEW q \in asks, AskFails(q) PROVE WriterInv'
  BY <1>13, <1>8 DEF AskFails
<1>14. ASSUME NEW m \in merges, MergeIntoBucketFails(m) PROVE WriterInv'
  <2>1. [m EXCEPT !.storing = {}].storing = {}
    BY DEF TypeOK, Merge
  <2> QED
    BY <1>14, <2>1, <1>8 DEF MergeIntoBucketFails, Rest
<1>15. ASSUME NEW m \in merges, Lose(m) PROVE WriterInv'
  BY <1>15, <1>8 DEF Lose
<1>16. ASSUME NEW n \in Node, Crash(n) PROVE WriterInv'
  <2>1. /\ status' = [status EXCEPT ![n] = "down"]
        /\ handlers' = {h \in handlers : h.node # n}
        /\ merges' \subseteq merges
        /\ UNCHANGED <<cache, disk, contested>>
    BY <1>16 DEF Crash
  <2>2. \A k \in Node : \/ status'[k] = "down"
                        \/ /\ status[k] # "down"
                           /\ \A g \in handlers \ handlers' : g.node # k
    BY <2>1 DEF TypeOK
  <2> QED
    BY <2>1, <2>2, QuietWriter
<1> QED
  BY <1>1, <1>2, <1>3, <1>4, <1>5, <1>6, <1>7, <1>9, <1>10, <1>11, <1>12,
     <1>13, <1>14, <1>15, <1>16 DEF Next, Write, Work, Fault

-----------------------------------------------------------------------------
(* The properties. *)

\* What one step may do to the versions of an account nobody contests.
Forward ==
    \A n \in Node, a \in Address \ contested' :
        /\ Stored(n, a)' >= Stored(n, a)
        /\ status[n] # "down" => Told(n, a)' >= Told(n, a)

LEMMA StepForward ==
    ASSUME TypeOK, WriterInv, [Next]_vars
    PROVE  Forward
<1> USE DEF nodes, stores, tasks, history
<1>1. ASSUME NEW n \in Node, NEW a \in Address,
             Stored(n, a)' = Stored(n, a), Told(n, a)' = Told(n, a)
      PROVE  Stored(n, a)' >= Stored(n, a) /\ Told(n, a)' >= Told(n, a)
  BY <1>1, Versions
<1>2. ASSUME UNCHANGED <<cache, disk>> PROVE Forward
  BY <1>1, <1>2 DEF Forward, Stored, Told
<1>3. ASSUME NEW h \in handlers, StoreWrite(h) PROVE Forward
  <2>1. /\ h.node \in Node /\ h.address \in Address
        /\ h.account.lastModified \in Nat
    BY Versions
  <2>2. /\ disk' = [disk EXCEPT ![h.node][h.address] = h.account]
        /\ UNCHANGED <<cache, contested>>
    BY <1>3 DEF StoreWrite
  <2>3. \A n \in Node, a \in Address :
          /\ Told(n, a)' = Told(n, a)
          /\ ~(n = h.node /\ a = h.address) => Stored(n, a)' = Stored(n, a)
    BY <2>1, <2>2 DEF Stored, Told, TypeOK
  <2>4. Stored(h.node, h.address)' = h.account.lastModified
    BY <2>1, <2>2 DEF Stored, TypeOK
  <2>5. h.address \notin contested =>
          h.account.lastModified >= Stored(h.node, h.address)
    <3>1. h.at = "store" /\ h.grant \in BOOLEAN
      BY <1>3 DEF StoreWrite, TypeOK, Handler
    <3> QED
      BY <2>1, <3>1, Versions DEF WriterInv, HandlerNewer
  <2> QED
    BY <1>1, <2>1, <2>2, <2>3, <2>4, <2>5, Versions DEF Forward
<1>4. ASSUME NEW h \in handlers, BroadcastObject(h) PROVE Forward
  <2>1. /\ h.node \in Node /\ h.address \in Address
        /\ h.account.lastModified \in Nat
    BY Versions
  <2>2. /\ cache' = [cache EXCEPT ![h.node][h.address] = h.account]
        /\ UNCHANGED <<disk, contested>> /\ h.at = "announce"
    BY <1>4 DEF BroadcastObject
  <2>3. \A n \in Node, a \in Address :
          /\ Stored(n, a)' = Stored(n, a)
          /\ ~(n = h.node /\ a = h.address) => Told(n, a)' = Told(n, a)
    BY <2>1, <2>2 DEF Stored, Told, TypeOK
  <2>4. Told(h.node, h.address)' = h.account.lastModified
    BY <2>1, <2>2 DEF Told, TypeOK
  <2>5. h.address \notin contested =>
          h.account.lastModified >= Told(h.node, h.address)
    BY <2>1, <2>2, Versions DEF WriterInv, HandlerNewer
  <2> QED
    BY <1>1, <2>1, <2>2, <2>3, <2>4, <2>5, Versions DEF Forward
<1>5. ASSUME NEW m \in merges, MergeIntoCache(m) PROVE Forward
  <2>1. PICK e \in m.todo :
          cache' = (IF Accept(m.node, e)
                    THEN [cache EXCEPT ![m.node][e.address] = e.account]
                    ELSE cache)
    BY <1>5 DEF MergeIntoCache
  <2>2. UNCHANGED disk
    BY <1>5 DEF MergeIntoCache
  <2>3. CASE Accept(m.node, e)
    <3>1. /\ m.node \in Node /\ e.address \in Address
          /\ e.account.lastModified \in Nat
      BY Versions
    <3>2. \A n \in Node, a \in Address :
            /\ Stored(n, a)' = Stored(n, a)
            /\ ~(n = m.node /\ a = e.address) => Told(n, a)' = Told(n, a)
      BY <2>1, <2>2, <2>3, <3>1 DEF Stored, Told, TypeOK
    <3>3. /\ Told(m.node, e.address)' = e.account.lastModified
          /\ Told(m.node, e.address) < e.account.lastModified
      BY <2>1, <2>3, <3>1 DEF Told, TypeOK, Accept
    <3> QED
      BY <1>1, <3>1, <3>2, <3>3, Versions DEF Forward
  <2> QED
    BY <1>2, <2>1, <2>2, <2>3
<1>6. ASSUME NEW m \in merges, MergeIntoBucket(m) PROVE Forward
  <2>1. PICK e \in m.storing :
          disk' = [disk EXCEPT ![m.node][e.address] = e.account]
    BY <1>6 DEF MergeIntoBucket
  <2>2. UNCHANGED <<cache, contested>>
    BY <1>6 DEF MergeIntoBucket
  <2>3. /\ m.node \in Node /\ e.address \in Address
        /\ e.account.lastModified \in Nat
    BY Versions
  <2>4. \A n \in Node, a \in Address :
          /\ Told(n, a)' = Told(n, a)
          /\ ~(n = m.node /\ a = e.address) => Stored(n, a)' = Stored(n, a)
    BY <2>1, <2>2, <2>3 DEF Stored, Told, TypeOK
  <2>5. Stored(m.node, e.address)' = e.account.lastModified
    BY <2>1, <2>3 DEF Stored, TypeOK
  <2>6. e.address \notin contested =>
          e.account.lastModified >= Stored(m.node, e.address)
    BY <2>3, Versions DEF WriterInv, MergeNewer
  <2> QED
    BY <1>1, <2>2, <2>3, <2>4, <2>5, <2>6, Versions DEF Forward
<1>7. ASSUME NEW n \in Node, Start(n) PROVE Forward
  <2>1. /\ UNCHANGED disk /\ status[n] = "down"
        /\ cache' = [cache EXCEPT ![n] = disk[n]]
    BY <1>7 DEF Start
  <2>2. \A k \in Node, a \in Address :
          /\ Stored(k, a)' = Stored(k, a)
          /\ k # n => Told(k, a)' = Told(k, a)
    BY <2>1 DEF Stored, Told, TypeOK
  <2> QED
    BY <1>1, <2>1, <2>2, Versions DEF Forward
<1>8. ASSUME NEW n \in Node, NEW a \in Address,
             \/ AccountRegistration(n, a) \/ AccountUpdate(n, a)
             \/ SetAccountReadWrite(n, a)
      PROVE  Forward
  BY <1>2, <1>8 DEF AccountRegistration, AccountUpdate, SetAccountReadWrite,
                    Begin
<1>9. CASE UNCHANGED vars
  BY <1>2, <1>9 DEF vars
<1>10. ASSUME NEW n \in Node, AskNextPeer(n) \/ Serve(n) \/ Crash(n)
       PROVE  Forward
  BY <1>2, <1>10 DEF AskNextPeer, Serve, Crash
<1>11. ASSUME NEW q \in asks, AnswerAsk(q) \/ AskFails(q) PROVE Forward
  BY <1>2, <1>11 DEF AnswerAsk, AskFails
<1>12. ASSUME NEW r \in reverses, AccountsRequestReverse(r) PROVE Forward
  BY <1>2, <1>12 DEF AccountsRequestReverse
<1>13. ASSUME NEW h \in handlers, StoreWriteFails(h) PROVE Forward
  BY <1>2, <1>13 DEF StoreWriteFails
<1>14. ASSUME NEW m \in merges, MergeIntoBucketFails(m) \/ Lose(m)
       PROVE  Forward
  BY <1>2, <1>14 DEF MergeIntoBucketFails, Lose
<1> QED
  BY <1>3, <1>4, <1>5, <1>6, <1>7, <1>8, <1>9, <1>10, <1>11, <1>12, <1>13,
     <1>14 DEF Next, Write, Work, Fault

LEMMA StepAnswered ==
    TypeOK /\ WriterInv /\ AnsweredKept /\ [Next]_vars => AnsweredKept'
<1> SUFFICES ASSUME TypeOK, WriterInv, AnsweredKept, [Next]_vars
             PROVE  AnsweredKept'
  OBVIOUS
<1> USE DEF nodes, stores, tasks, history
<1>1. Forward
  BY StepForward
<1>2. contested \subseteq contested' /\ contested' \subseteq Address
  <2>1. contested' \subseteq Address
    BY StepTypeOK DEF TypeOK
  <2>2. contested \subseteq contested'
    BY DEF Next, Write, Work, Fault, vars, AccountRegistration, AccountUpdate,
           SetAccountReadWrite, Contest, StoreWrite, StoreWriteFails,
           BroadcastObject, AskNextPeer, Serve, AnswerAsk, AskFails,
           AccountsRequestReverse, MergeIntoCache, MergeIntoBucket,
           MergeIntoBucketFails, Lose, Crash, Start
  <2> QED
    BY <2>1, <2>2
<1>3. \A n \in Node, a \in Address :
        disk'[n][a] # NoAccount \/ disk'[n][a] = disk[n][a]
  <2>1. CASE UNCHANGED disk
    BY <2>1
  <2>2. ASSUME NEW h \in handlers, StoreWrite(h)
        PROVE  \A n \in Node, a \in Address :
                  disk'[n][a] # NoAccount \/ disk'[n][a] = disk[n][a]
    BY <2>2, Versions DEF StoreWrite, TypeOK
  <2>3. ASSUME NEW m \in merges, MergeIntoBucket(m)
        PROVE  \A n \in Node, a \in Address :
                  disk'[n][a] # NoAccount \/ disk'[n][a] = disk[n][a]
    BY <2>3, Versions DEF MergeIntoBucket, TypeOK
  <2> QED
    BY <2>1, <2>2, <2>3, ZenonT(60)
       DEF Next, Write, Work, Fault, vars, AccountRegistration, AccountUpdate,
           SetAccountReadWrite, Begin, StoreWriteFails,
           BroadcastObject, AskNextPeer, Serve, AnswerAsk, AskFails,
           AccountsRequestReverse, MergeIntoCache,
           MergeIntoBucketFails, Lose, Crash, Start
<1>4. ASSUME UNCHANGED answered PROVE AnsweredKept'
  <2>1. ASSUME NEW n \in Node, NEW a \in Address, answered[n][a] > 0
        PROVE  /\ disk'[n][a] # NoAccount
               /\ a \notin contested' =>
                    disk'[n][a].lastModified >= answered[n][a]
    <3>1. /\ disk[n][a] # NoAccount
          /\ a \notin contested => Stored(n, a) >= answered[n][a]
      BY <2>1 DEF AnsweredKept, Stored
    <3>2. disk'[n][a] # NoAccount
      BY <1>3, <3>1
    <3>3. ASSUME a \notin contested'
          PROVE  Stored(n, a)' >= answered[n][a]
      <4>1. Stored(n, a)' \in Nat /\ Stored(n, a) \in Nat
        BY StepTypeOK, Versions, StoredVersion DEF Stored, TypeOK, Time
      <4>2. answered[n][a] \in Nat
        BY DEF TypeOK, Time
      <4>3. Stored(n, a)' >= Stored(n, a) /\ Stored(n, a) >= answered[n][a]
        BY <1>1, <1>2, <3>1, <3>3 DEF Forward
      <4> QED
        BY <4>1, <4>2, <4>3
    <3> QED
      BY <3>2, <3>3 DEF Stored
  <2> QED
    BY <1>4, <2>1 DEF AnsweredKept
<1>5. ASSUME NEW h \in handlers, BroadcastObject(h) PROVE AnsweredKept'
  <2>1. /\ h.at = "announce" /\ UNCHANGED <<disk, contested>>
        /\ answered' = [answered EXCEPT ![h.node][h.address] =
                                          h.account.lastModified]
    BY <1>5 DEF BroadcastObject
  <2>2. /\ h.node \in Node /\ h.address \in Address
        /\ h.account.lastModified \in Nat
    BY Versions
  <2>3. /\ disk[h.node][h.address] # NoAccount
        /\ h.address \notin contested =>
             h.account.lastModified = Stored(h.node, h.address)
    BY <2>1 DEF WriterInv, HandlerNewer
  <2>4. \A n \in Node, a \in Address :
          answered'[n][a] = IF n = h.node /\ a = h.address
                            THEN h.account.lastModified ELSE answered[n][a]
    BY <2>1, <2>2 DEF TypeOK
  <2> QED
    BY <2>1, <2>2, <2>3, <2>4 DEF AnsweredKept, Stored
<1> QED
  BY <1>4, <1>5, ZenonT(60)
     DEF Next, Write, Work, Fault, vars, AccountRegistration, AccountUpdate,
         SetAccountReadWrite, Begin, StoreWrite, StoreWriteFails,
         AskNextPeer, Serve, AnswerAsk, AskFails,
         AccountsRequestReverse, MergeIntoCache, MergeIntoBucket,
         MergeIntoBucketFails, Lose, Crash, Start

LEMMA StepPermissions ==
    TypeOK /\ PermissionsGranted /\ [Next]_vars => PermissionsGranted'
<1> SUFFICES ASSUME TypeOK, PermissionsGranted, [Next]_vars,
                    NEW a \in Address \ granted'
             PROVE  /\ \A n \in Node : /\ ~disk'[n][a].writes
                                       /\ ~cache'[n][a].writes
                    /\ \A h \in handlers' : h.address = a => ~h.account.writes
                    /\ \A m \in merges' : \A e \in m.todo \cup m.storing :
                          e.address = a => ~e.account.writes
  BY DEF PermissionsGranted
<1> DEFINE Clear == /\ \A n \in Node : /\ ~disk'[n][a].writes
                                       /\ ~cache'[n][a].writes
                    /\ \A h \in handlers' : h.address = a => ~h.account.writes
                    /\ \A m \in merges' : \A e \in m.todo \cup m.storing :
                          e.address = a => ~e.account.writes
<1> USE DEF nodes, stores, tasks, history
<1>1. granted \subseteq granted'
  BY DEF Next, Write, Work, Fault, vars, AccountRegistration, AccountUpdate,
         SetAccountReadWrite, StoreWrite, StoreWriteFails,
         BroadcastObject, AskNextPeer, Serve, AnswerAsk, AskFails,
         AccountsRequestReverse, MergeIntoCache, MergeIntoBucket,
         MergeIntoBucketFails, Lose, Crash, Start
<1>2. /\ \A n \in Node : ~disk[n][a].writes /\ ~cache[n][a].writes
      /\ \A h \in handlers : h.address = a => ~h.account.writes
      /\ \A m \in merges : \A e \in m.todo \cup m.storing :
            e.address = a => ~e.account.writes
  BY <1>1 DEF PermissionsGranted
<1>3. ASSUME NEW n \in Node, NEW b \in Address, NEW v, NEW grant,
             Begin(n, b, v, grant), b = a => ~v.writes
      PROVE  Clear
  <2>1. /\ UNCHANGED <<disk, cache, merges>>
        /\ handlers' = handlers \cup
             {[node |-> n, address |-> b, account |-> v, grant |-> grant,
               at |-> "store"]}
    BY <1>3 DEF Begin
  <2> QED
    BY <1>2, <1>3, <2>1
<1>4. ASSUME NEW n \in Node, NEW b \in Address, AccountRegistration(n, b)
      PROVE  Clear
  <2>1. PICK time \in Time :
          Begin(n, b, [lastModified |-> time, writes |-> FALSE], FALSE)
    BY <1>4 DEF AccountRegistration
  <2> QED
    BY <1>3, <2>1
<1>5. ASSUME NEW n \in Node, NEW b \in Address, AccountUpdate(n, b)
      PROVE  Clear
  <2>1. PICK time \in Time :
          Begin(n, b, [disk[n][b] EXCEPT !.lastModified = time], FALSE)
    BY <1>5 DEF AccountUpdate
  <2>2. disk[n][b] \in Account
    BY <1>5, StoredVersion DEF AccountUpdate, TypeOK
  <2>3. [disk[n][b] EXCEPT !.lastModified = time].writes = disk[n][b].writes
    BY <2>2 DEF Account
  <2> QED
    BY <1>2, <1>3, <2>1, <2>3
<1>6. ASSUME NEW n \in Node, NEW b \in Address, SetAccountReadWrite(n, b)
      PROVE  Clear
  <2>1. PICK w \in BOOLEAN :
          /\ Begin(n, b, [disk[n][b] EXCEPT !.writes = w], TRUE)
          /\ granted' = IF w THEN granted \cup {b} ELSE granted
    BY <1>6 DEF SetAccountReadWrite
  <2>2. disk[n][b] \in Account
    BY <1>6, StoredVersion DEF SetAccountReadWrite, TypeOK
  <2>3. [disk[n][b] EXCEPT !.writes = w].writes = w
    BY <2>2 DEF Account
  <2>4. b = a => ~w
    BY <2>1
  <2> QED
    BY <1>3, <2>1, <2>3, <2>4
<1>7. ASSUME NEW h \in handlers, StoreWrite(h) PROVE Clear
  <2>1. /\ h.node \in Node /\ h.address \in Address
        /\ [h EXCEPT !.at = "announce"].address = h.address
        /\ [h EXCEPT !.at = "announce"].account = h.account
    BY DEF TypeOK, Handler
  <2>2. /\ disk' = [disk EXCEPT ![h.node][h.address] = h.account]
        /\ \A g \in handlers' :
              g \in handlers \/ g = [h EXCEPT !.at = "announce"]
        /\ UNCHANGED <<cache, merges>>
    BY <1>7 DEF StoreWrite
  <2>3. \A n \in Node : ~disk'[n][a].writes
    BY <1>2, <2>1, <2>2 DEF TypeOK
  <2> QED
    BY <1>2, <2>1, <2>2, <2>3
<1>8. ASSUME NEW h \in handlers, BroadcastObject(h) PROVE Clear
  <2>1. h.node \in Node /\ h.address \in Address
    BY Versions
  <2>2. /\ cache' = [cache EXCEPT ![h.node][h.address] = h.account]
        /\ UNCHANGED disk /\ handlers' \subseteq handlers
        /\ \A m \in merges' :
              \/ m \in merges
              \/ m.todo = {Version(h.address, h.account)} /\ m.storing = {}
    BY <1>8 DEF BroadcastObject, Broadcast
  <2>3. \A n \in Node : ~cache'[n][a].writes
    BY <1>2, <2>1, <2>2 DEF TypeOK
  <2>4. \A m \in merges' : \A e \in m.todo \cup m.storing :
          e.address = a => ~e.account.writes
    BY <1>2, <2>2 DEF Version
  <2> QED
    BY <1>2, <2>2, <2>3, <2>4
<1>9. ASSUME NEW q \in asks, AnswerAsk(q) PROVE Clear
  <2>1. q.to \in Node
    BY DEF TypeOK, Ask
  <2>2. /\ UNCHANGED <<disk, cache, handlers>>
        /\ \A m \in merges' :
              \/ m \in merges
              \/ m.todo = NewerThan(q.to, q.known) /\ m.storing = {}
    BY <1>9 DEF AnswerAsk, Rest
  <2>3. \A e \in NewerThan(q.to, q.known) :
          e.address = a => ~e.account.writes
    BY <1>2, <2>1 DEF NewerThan, Version
  <2> QED
    BY <1>2, <2>2, <2>3
<1>10. ASSUME NEW m \in merges, MergeIntoCache(m) PROVE Clear
  <2>1. PICK e \in m.todo :
          /\ merges' = (merges \ {m}) \cup
               Rest(IF Accept(m.node, e)
                    THEN [[m EXCEPT !.todo = @ \ {e}] EXCEPT !.storing = {e}]
                    ELSE [m EXCEPT !.todo = @ \ {e}])
          /\ cache' = (IF Accept(m.node, e)
                       THEN [cache EXCEPT ![m.node][e.address] = e.account]
                       ELSE cache)
    BY <1>10 DEF MergeIntoCache
  <2> DEFINE rest == [m EXCEPT !.todo = @ \ {e}]
             full == [[m EXCEPT !.todo = @ \ {e}] EXCEPT !.storing = {e}]
  <2>2. /\ m.node \in Node /\ e.address \in Address
        /\ m.storing = {} /\ UNCHANGED <<disk, handlers>>
    BY <1>10, Versions DEF MergeIntoCache
  <2>3. /\ rest.todo \subseteq m.todo /\ rest.storing = m.storing
        /\ full.todo \subseteq m.todo /\ full.storing = {e}
    BY DEF TypeOK, Merge
  <2> HIDE DEF rest, full
  <2>4. \A o \in merges' : o \in merges \/ o = rest \/ o = full
    BY <2>1 DEF Rest, rest, full
  <2>5. \A o \in merges' : \A f \in o.todo \cup o.storing :
          f.address = a => ~f.account.writes
    BY <1>2, <2>3, <2>4
  <2>6. \A n \in Node : ~cache'[n][a].writes
    BY <1>2, <2>1, <2>2 DEF TypeOK
  <2> QED
    BY <1>2, <2>2, <2>5, <2>6
<1>11. ASSUME NEW m \in merges,
              MergeIntoBucket(m) \/ MergeIntoBucketFails(m)
       PROVE  Clear
  <2>1. /\ [m EXCEPT !.storing = {}].todo = m.todo
        /\ [m EXCEPT !.storing = {}].storing = {}
    BY DEF TypeOK, Merge
  <2>2. /\ UNCHANGED <<cache, handlers>>
        /\ \A o \in merges' : o \in merges \/ o = [m EXCEPT !.storing = {}]
    BY <1>11 DEF MergeIntoBucket, MergeIntoBucketFails, Rest
  <2>3. \A n \in Node : ~disk'[n][a].writes
    <3>1. CASE UNCHANGED disk
      BY <1>2, <3>1
    <3>2. CASE MergeIntoBucket(m)
      BY <1>2, <3>2, Versions DEF MergeIntoBucket, TypeOK
    <3> QED
      BY <1>11, <3>1, <3>2 DEF MergeIntoBucketFails
  <2> QED
    BY <1>2, <2>1, <2>2, <2>3
<1>12. ASSUME NEW n \in Node, Start(n) PROVE Clear
  BY <1>2, <1>12 DEF Start, TypeOK
<1>13. ASSUME UNCHANGED <<cache, disk>>, handlers' \subseteq handlers,
              merges' \subseteq merges
       PROVE  Clear
  BY <1>2, <1>13
<1> HIDE DEF Clear
<1>14. Clear
  BY <1>4, <1>5, <1>6, <1>7, <1>8, <1>9, <1>10, <1>11, <1>12, <1>13
     DEF Next, Write, Work, Fault, vars, StoreWriteFails, AskNextPeer, Serve,
         AskFails, AccountsRequestReverse, Lose, Crash
<1> QED
  BY <1>14 DEF Clear

LEMMA InitIInv == Init => IInv
<1> SUFFICES ASSUME Init PROVE IInv
  OBVIOUS
<1>1. TypeOK
  BY InitTypeOK
<1>2. Running /\ OneWriter /\ HandlerNewer /\ MergeNewer
  BY DEF Init, Running, OneWriter, HandlerNewer, MergeNewer
<1>3. BucketBehind
  BY DEF Init, BucketBehind, Stored, Told, NoAccount
<1>4. AnsweredKept
  BY DEF Init, AnsweredKept
<1>5. PermissionsGranted
  BY DEF Init, PermissionsGranted, NoAccount
<1> QED
  BY <1>1, <1>2, <1>3, <1>4, <1>5 DEF IInv

LEMMA StepIInv == IInv /\ [Next]_vars => IInv'
  BY StepTypeOK, StepRunning, StepWriter, StepAnswered, StepPermissions
     DEF IInv, WriterInv

LEMMA Invariant == Spec => []IInv
  BY InitIInv, StepIInv, PTL DEF Spec

\* A write that was answered with 200 is never lost to a crash or a peer,
\* nor to an older version: BroadcastObject answers only after the commit of
\* RegisterAccount, and what replaces an uncontested account is newer.
THEOREM AnsweredStays == Spec => []AnsweredKept
<1>1. IInv => AnsweredKept
  BY DEF IInv
<1> QED
  BY <1>1, Invariant, PTL

\* No bucket, cache or message of any node has a permission that no one
\* granted (AccountRegistration, AccountUpdate and the exchange).
THEOREM PermissionsComeFromGrants == Spec => []PermissionsGranted
<1>1. IInv => PermissionsGranted
  BY DEF IInv
<1> QED
  BY <1>1, Invariant, PTL

\* Versions nobody contested never go back, in the bucket at all and in the
\* cache while the node runs (the comparison in the message handlers, and
\* the handlers of HTTP that do not compare).
THEOREM VersionsAdvance == Spec => NeverBackwards
<1>1. IInv /\ [Next]_vars => Forward
  BY StepForward DEF IInv, WriterInv
<1>2. Forward <=> \A n \in Node, a \in Address \ contested' :
                    /\ disk'[n][a].lastModified >= disk[n][a].lastModified
                    /\ status[n] # "down" =>
                         cache'[n][a].lastModified >= cache[n][a].lastModified
  BY DEF Forward, Stored, Told
<1>3. IInv /\ [Next]_vars =>
        [\A n \in Node, a \in Address \ contested' :
            /\ disk'[n][a].lastModified >= disk[n][a].lastModified
            /\ status[n] # "down" =>
                 cache'[n][a].lastModified >= cache[n][a].lastModified]_vars
  BY <1>1, <1>2
<1> QED
  BY <1>3, Invariant, PTL DEF Spec, NeverBackwards

-----------------------------------------------------------------------------
(* All nodes agree when the exchange has come to rest. *)

\* A node that does not start has nobody left to ask.
AskedBeforeServing ==
    \A n \in Node : status[n] # "starting" => toAsk[n] = {}

\* What an ask names, the node that asks still has.
AsksAreTrue ==
    \A x \in asks, a \in Address \ contested : x.known[a] <= Told(x.from, a)

\* A broadcast carries one account.
BroadcastsAreSingle ==
    \A m \in merges : m.by = "broadcast" =>
        /\ \A e, f \in m.todo : e = f
        /\ m.storing # {} => m.todo = {}

InSomeBucket(a, t) == \E k \in Node : Stored(k, a) >= t

\* A version that a running node tells or that a message carries is in some
\* bucket, or a newer one is.
ToldIsStored ==
    /\ \A a \in Address \ contested : \A n \in Up : InSomeBucket(a, Told(n, a))
    /\ \A m \in merges : \A e \in m.todo :
          e.address \notin contested =>
              InSomeBucket(e.address, e.account.lastModified)

\* Version t of the account a, or a newer one, is on its way from q to p.
Telling(q, p, a, t) ==
    \E x \in asks : x.from = q /\ x.to = p /\ x.known[a] >= t
Reversing(q, p, a, t) ==
    \E r \in reverses : r.node = p /\ r.peer = q /\ r.known[a] >= t
Fetching(q, p) == \E x \in asks : x.from = p /\ x.to = q
Merging(q, p, a, t) ==
    \E m \in merges :
        /\ m.node = p
        /\ m.by = "broadcast" => m.from = q
        /\ \E e \in m.todo : e.address = a /\ e.account.lastModified >= t
ToAnnounce(q, a, t) ==
    \E h \in handlers : /\ h.node = q /\ h.address = a /\ h.at = "announce"
                        /\ h.account.lastModified >= t

Brings(q, p, a, t) ==
    \/ status[q] = "down"
    \/ q \in toAsk[p] \/ p \in toAsk[q]
    \/ Telling(q, p, a, t) \/ Reversing(q, p, a, t) \/ Fetching(q, p)
    \/ Merging(q, p, a, t) \/ ToAnnounce(q, a, t)

\* Whatever version a bucket has, a running node has it too, or a node whose
\* bucket has it will bring it.
WillAgree ==
    drops = 0 =>
        \A a \in Address \ contested, p \in Up, n \in Node :
            Told(p, a) < Stored(n, a) =>
                \E q \in Node : /\ Stored(q, a) >= Stored(n, a)
                                /\ Brings(q, p, a, Stored(n, a))

\* A cache is ahead of its bucket only while a merge stores the account.
AheadIsStoring ==
    diskErrors = 0 =>
        \A n \in Up, a \in Address \ contested : Stored(n, a) < Told(n, a) =>
            \E m \in merges : /\ m.node = n
                              /\ \E e \in m.storing : e.address = a

AgreeInv ==
    /\ AskedBeforeServing /\ AsksAreTrue /\ BroadcastsAreSingle
    /\ ToldIsStored /\ WillAgree /\ AheadIsStoring

LEMMA BringsKept ==
    ASSUME NEW q \in Node, NEW p \in Node, NEW a \in Address, NEW t \in Nat,
           Brings(q, p, a, t),
           status[q] = "down" => status'[q] = "down",
           toAsk[p] \subseteq toAsk'[p], toAsk[q] \subseteq toAsk'[q],
           asks \subseteq asks', reverses \subseteq reverses',
           merges \subseteq merges',
           \A h \in handlers : h.at = "announce" => h \in handlers'
    PROVE  Brings(q, p, a, t)'
<1>1. Telling(q, p, a, t) => Telling(q, p, a, t)'
  BY DEF Telling
<1>2. Reversing(q, p, a, t) => Reversing(q, p, a, t)'
  BY DEF Reversing
<1>3. Fetching(q, p) => Fetching(q, p)'
  BY DEF Fetching
<1>4. Merging(q, p, a, t) => Merging(q, p, a, t)'
  BY DEF Merging
<1>5. ToAnnounce(q, a, t) => ToAnnounce(q, a, t)'
  BY DEF ToAnnounce
<1> QED
  BY <1>1, <1>2, <1>3, <1>4, <1>5 DEF Brings

\* What a node tells is at least what its bucket has, unless it is about to
\* announce that.
LEMMA TellsOrAnnounces ==
    ASSUME TypeOK, WriterInv, NEW q \in Up, NEW a \in Address \ contested,
           NEW t \in Nat, Stored(q, a) >= t
    PROVE  Told(q, a) >= t \/ ToAnnounce(q, a, t)
<1>0. q \in Node /\ Stored(q, a) \in Nat /\ Told(q, a) \in Nat
  BY Versions DEF Up
<1>1. CASE Announcing(q, a)
  <2>1. PICK h \in handlers :
          h.node = q /\ h.address = a /\ h.at = "announce"
    BY <1>1 DEF Announcing
  <2>2. h.account.lastModified = Stored(q, a)
    BY <2>1 DEF WriterInv, HandlerNewer
  <2> QED
    BY <2>1, <2>2 DEF ToAnnounce
<1>2. CASE ~Announcing(q, a)
  <2>1. Stored(q, a) <= Told(q, a)
    BY <1>0, <1>2 DEF WriterInv, BucketBehind, Up
  <2> QED
    BY <1>0, <2>1
<1> QED
  BY <1>1, <1>2

\* A broadcast takes the place of the announcement.
LEMMA BroadcastBrings ==
    ASSUME TypeOK, NEW h \in handlers, BroadcastObject(h),
           NEW q \in Node, NEW p \in Up, NEW a \in Address, NEW t \in Nat,
           Brings(q, p, a, t), Told(p, a)' < t
    PROVE  Brings(q, p, a, t)'
<1>1. /\ handlers' = handlers \ {h}
      /\ cache' = [cache EXCEPT ![h.node][h.address] = h.account]
      /\ merges' = merges \cup Broadcast(h.node, Version(h.address, h.account))
      /\ UNCHANGED <<status, toAsk, asks, reverses>>
  BY DEF BroadcastObject, nodes
<1>2. /\ h.node \in Node /\ h.address \in Address
      /\ h.account.lastModified \in Nat /\ p \in Node
  BY Versions DEF Up
<1>3. CASE h.node = q /\ h.address = a /\ h.account.lastModified >= t
  <2>1. p # q
    <3>1. p = q => Told(p, a)' = h.account.lastModified
      BY <1>1, <1>2, <1>3 DEF Told, TypeOK
    <3> QED
      BY <1>2, <1>3, <3>1
  <2> DEFINE e == Version(h.address, h.account)
             m == [node |-> p, from |-> q, by |-> "broadcast", todo |-> {e},
                   storing |-> {}]
  <2>2. m \in merges'
    BY <1>1, <1>3, <2>1 DEF Broadcast, Peers
  <2>3. e.address = a /\ e.account.lastModified >= t
    BY <1>3 DEF Version
  <2>4. m.node = p /\ m.from = q /\ m.todo = {e}
    OBVIOUS
  <2> HIDE DEF e, m
  <2>5. Merging(q, p, a, t)'
    BY <2>2, <2>3, <2>4 DEF Merging
  <2> QED
    BY <2>5 DEF Brings
<1>4. CASE ~(h.node = q /\ h.address = a /\ h.account.lastModified >= t)
  <2>1. ToAnnounce(q, a, t) => ToAnnounce(q, a, t)'
    BY <1>1, <1>4 DEF ToAnnounce
  <2>2. Merging(q, p, a, t) => Merging(q, p, a, t)'
    BY <1>1 DEF Merging
  <2> QED
    BY <1>1, <2>1, <2>2 DEF Brings, Telling, Reversing, Fetching
<1> QED
  BY <1>3, <1>4

\* A peer that SyncAccountsFromPeers takes from its list is asked, or down.
LEMMA AskNextBrings ==
    ASSUME TypeOK, WriterInv, NEW n \in Node, AskNextPeer(n),
           NEW q \in Node, NEW p \in Up, NEW a \in Address \ contested,
           NEW t \in Nat, Stored(q, a) >= t, Brings(q, p, a, t)
    PROVE  Brings(q, p, a, t)'
<1>1. PICK k \in toAsk[n] :
        /\ toAsk' = [toAsk EXCEPT ![n] = @ \ {k}]
        /\ asks' = IF k \in Up THEN asks \cup {AskFor(n, k, "main")}
                               ELSE asks
  BY DEF AskNextPeer
<1>2. /\ status[n] = "starting" /\ n \in Up
      /\ UNCHANGED <<status, handlers, reverses, merges>>
  BY DEF AskNextPeer, Up
<1>3. p \in Node
  BY DEF Up
<1>4. asks \subseteq asks'
  BY <1>1
<1>5. CASE toAsk[p] \subseteq toAsk'[p] /\ toAsk[q] \subseteq toAsk'[q]
  BY <1>2, <1>3, <1>4, <1>5, BringsKept
<1>6. CASE \/ status[q] = "down"
           \/ Telling(q, p, a, t) \/ Reversing(q, p, a, t) \/ Fetching(q, p)
           \/ Merging(q, p, a, t) \/ ToAnnounce(q, a, t)
  BY <1>2, <1>4, <1>6
     DEF Brings, Telling, Reversing, Fetching, Merging, ToAnnounce
<1>7. CASE q \in toAsk[p] \/ p \in toAsk[q]
  <2>1. CASE n = p /\ k = q
    <3>1. CASE q \in Up
      <4>1. AskFor(p, q, "main") \in asks'
        BY <1>1, <2>1, <3>1
      <4>2. AskFor(p, q, "main").from = p /\ AskFor(p, q, "main").to = q
        BY DEF AskFor
      <4> QED
        BY <4>1, <4>2 DEF Brings, Fetching
    <3>2. CASE q \notin Up
      BY <1>2, <3>2 DEF Up, Brings
    <3> QED
      BY <3>1, <3>2
  <2>2. CASE n = q /\ k = p
    <3>1. CASE Told(q, a) >= t
      <4>1. AskFor(q, p, "main") \in asks'
        BY <1>1, <2>2
      <4>2. /\ AskFor(q, p, "main").from = q /\ AskFor(q, p, "main").to = p
            /\ AskFor(q, p, "main").known[a] = Told(q, a)
        BY DEF AskFor, Known, Told
      <4>3. Telling(q, p, a, t)'
        BY <3>1, <4>1, <4>2 DEF Telling
      <4> QED
        BY <4>3 DEF Brings
    <3>2. CASE ToAnnounce(q, a, t)
      BY <1>2, <3>2 DEF Brings, ToAnnounce
    <3> QED
      BY <1>2, <2>2, <3>1, <3>2, TellsOrAnnounces
  <2>3. CASE ~(n = p /\ k = q) /\ ~(n = q /\ k = p)
    <3>1. /\ q \in toAsk[p] => q \in toAsk'[p]
          /\ p \in toAsk[q] => p \in toAsk'[q]
      BY <1>1, <1>3, <2>3 DEF TypeOK
    <3> QED
      BY <1>7, <3>1 DEF Brings
  <2> QED
    BY <2>1, <2>2, <2>3
<1> QED
  BY <1>6, <1>7 DEF Brings

\* An answer brings what the peer has, and the reverse request follows.
LEMMA AnswerBrings ==
    ASSUME TypeOK, Running, WriterInv, AsksAreTrue,
           NEW x \in asks, AnswerAsk(x),
           NEW q \in Node, NEW p \in Up, NEW a \in Address \ contested,
           NEW t \in Nat, Stored(q, a) >= t, Brings(q, p, a, t),
           Told(p, a) < t
    PROVE  Brings(q, p, a, t)'
<1> DEFINE m == [node |-> x.from, from |-> x.to, by |-> x.by,
                 todo |-> NewerThan(x.to, x.known), storing |-> {}]
           r == [node |-> x.to, peer |-> x.from, known |-> x.known]
<1>1. /\ asks' = asks \ {x}
      /\ merges' = merges \cup Rest(m)
      /\ reverses' = reverses \cup {r}
      /\ UNCHANGED <<status, toAsk, cache, disk, handlers>>
  BY DEF AnswerAsk, nodes, stores
<1>2. /\ m.node = x.from /\ m.from = x.to /\ m.by = x.by
      /\ m.todo = NewerThan(x.to, x.known)
      /\ r.node = x.to /\ r.peer = x.from /\ r.known = x.known
  OBVIOUS
<1> HIDE DEF m, r
<1>3. p \in Node /\ Told(p, a) \in Nat /\ x.by # "broadcast"
      /\ x.known[a] \in Nat
  <2>1. x.by \in {"main", "worker"} /\ x.known \in [Address -> Time \cup {0}]
    BY DEF TypeOK, Ask
  <2>2. p \in Node
    BY DEF Up
  <2> QED
    BY <2>1, <2>2, Versions DEF Time
<1>4. CASE x.from = q /\ x.to = p /\ x.known[a] >= t
  <2>1. Reversing(q, p, a, t)'
    BY <1>1, <1>2, <1>4 DEF Reversing
  <2> QED
    BY <2>1 DEF Brings
<1>5. CASE x.from = p /\ x.to = q
  <2>1. q \in Up
    BY <1>5 DEF Running, Up
  <2>2. CASE ToAnnounce(q, a, t)
    BY <1>1, <2>2 DEF ToAnnounce, Brings
  <2>3. CASE Told(q, a) >= t
    <3>1. x.known[a] <= Told(p, a)
      BY <1>5 DEF AsksAreTrue
    <3>2. Told(q, a) \in Nat
      BY Versions
    <3>3. cache[q][a].lastModified > x.known[a]
      BY <1>3, <2>3, <3>1, <3>2 DEF Told
    <3> DEFINE e == Version(a, cache[q][a])
    <3>4. e \in m.todo
      BY <1>2, <1>5, <3>3 DEF NewerThan
    <3>5. e.address = a /\ e.account.lastModified = Told(q, a)
      BY DEF Version, Told
    <3> HIDE DEF e
    <3>6. m \in merges'
      BY <1>1, <3>4 DEF Rest
    <3>7. Merging(q, p, a, t)'
      BY <1>2, <1>3, <1>5, <2>3, <3>4, <3>5, <3>6 DEF Merging
    <3> QED
      BY <3>7 DEF Brings
  <2> QED
    BY <2>1, <2>2, <2>3, TellsOrAnnounces
<1>6. CASE /\ ~(x.from = q /\ x.to = p /\ x.known[a] >= t)
           /\ ~(x.from = p /\ x.to = q)
  <2>1. Telling(q, p, a, t) => Telling(q, p, a, t)'
    BY <1>1, <1>6 DEF Telling
  <2>2. Fetching(q, p) => Fetching(q, p)'
    BY <1>1, <1>6 DEF Fetching
  <2>3. Reversing(q, p, a, t) => Reversing(q, p, a, t)'
    BY <1>1 DEF Reversing
  <2>4. Merging(q, p, a, t) => Merging(q, p, a, t)'
    BY <1>1 DEF Merging
  <2> QED
    BY <1>1, <2>1, <2>2, <2>3, <2>4 DEF Brings, ToAnnounce
<1> QED
  BY <1>4, <1>5, <1>6

\* A node that knows less asks back.
LEMMA ReverseBrings ==
    ASSUME TypeOK, NEW r \in reverses, AccountsRequestReverse(r),
           NEW q \in Node, NEW p \in Up, NEW a \in Address, NEW t \in Nat,
           Brings(q, p, a, t), Told(p, a) < t
    PROVE  Brings(q, p, a, t)'
<1>1. /\ reverses' = reverses \ {r}
      /\ asks' = IF KnowsMore(r.node, r.known) /\ r.peer \in Up
                 THEN asks \cup {AskFor(r.node, r.peer, "worker")} ELSE asks
      /\ UNCHANGED <<status, toAsk, handlers, merges>>
  BY DEF AccountsRequestReverse, nodes
<1>2. asks \subseteq asks'
  BY <1>1
<1>3. CASE r.node = p /\ r.peer = q /\ r.known[a] >= t
  <2>1. Told(p, a) \in Nat /\ r.known[a] \in Nat
    BY Versions DEF Up, TypeOK, Reverse, Time
  <2>2. KnowsMore(r.node, r.known)
    BY <1>3, <2>1 DEF KnowsMore, Told
  <2>3. CASE q \in Up
    <3>1. AskFor(p, q, "worker") \in asks'
      BY <1>1, <1>3, <2>2, <2>3
    <3>2. AskFor(p, q, "worker").from = p /\ AskFor(p, q, "worker").to = q
      BY DEF AskFor
    <3> QED
      BY <3>1, <3>2 DEF Brings, Fetching
  <2>4. CASE q \notin Up
    BY <1>1, <2>4 DEF Up, Brings
  <2> QED
    BY <2>3, <2>4
<1>4. CASE ~(r.node = p /\ r.peer = q /\ r.known[a] >= t)
  <2>1. Reversing(q, p, a, t) => Reversing(q, p, a, t)'
    BY <1>1, <1>4 DEF Reversing
  <2>2. Telling(q, p, a, t) => Telling(q, p, a, t)'
    BY <1>2 DEF Telling
  <2>3. Fetching(q, p) => Fetching(q, p)'
    BY <1>2 DEF Fetching
  <2> QED
    BY <1>1, <2>1, <2>2, <2>3 DEF Brings, Merging, ToAnnounce
<1> QED
  BY <1>3, <1>4

\* A version leaves the message for the cache only if it is not older.
LEMMA MergeBrings ==
    ASSUME TypeOK, NEW m \in merges, MergeIntoCache(m),
           NEW q \in Node, NEW p \in Up, NEW a \in Address, NEW t \in Nat,
           Brings(q, p, a, t), Told(p, a) < t, Told(p, a)' < t
    PROVE  Brings(q, p, a, t)'
<1>1. PICK e \in m.todo :
        /\ merges' = (merges \ {m}) \cup
             Rest(IF Accept(m.node, e)
                  THEN [[m EXCEPT !.todo = @ \ {e}] EXCEPT !.storing = {e}]
                  ELSE [m EXCEPT !.todo = @ \ {e}])
        /\ cache' = (IF Accept(m.node, e)
                     THEN [cache EXCEPT ![m.node][e.address] = e.account]
                     ELSE cache)
  BY DEF MergeIntoCache
<1>2. UNCHANGED <<status, toAsk, handlers, asks, reverses>>
  BY DEF MergeIntoCache, nodes
<1> DEFINE next == IF Accept(m.node, e)
                   THEN [[m EXCEPT !.todo = @ \ {e}] EXCEPT !.storing = {e}]
                   ELSE [m EXCEPT !.todo = @ \ {e}]
<1>3. /\ next.node = m.node /\ next.from = m.from /\ next.by = m.by
      /\ next.todo = m.todo \ {e}
  BY DEF TypeOK, Merge
<1>4. merges' = (merges \ {m}) \cup Rest(next)
  BY <1>1
<1> HIDE DEF next
<1>5. ASSUME Merging(q, p, a, t) PROVE Merging(q, p, a, t)'
  <2>1. PICK o \in merges :
          /\ o.node = p
          /\ o.by = "broadcast" => o.from = q
          /\ \E f \in o.todo : f.address = a /\ f.account.lastModified >= t
    BY <1>5 DEF Merging
  <2>2. PICK f \in o.todo : f.address = a /\ f.account.lastModified >= t
    BY <2>1
  <2>3. CASE o # m
    <3>1. o \in merges'
      BY <1>4, <2>3
    <3> QED
      BY <2>1, <3>1 DEF Merging
  <2>4. CASE o = m
    <3>0. /\ p \in Node /\ e.account.lastModified \in Nat
          /\ Told(p, a) \in Nat
      BY Versions DEF Up
    <3>1. f # e
      <4>1. CASE Accept(m.node, e)
        <5>1. f = e => Told(p, a)' = e.account.lastModified
          BY <1>1, <2>1, <2>2, <2>4, <3>0, <4>1 DEF Told, TypeOK
        <5> QED
          BY <2>2, <3>0, <5>1
      <4>2. CASE ~Accept(m.node, e)
        <5>1. f = e => ~(Told(p, a) < e.account.lastModified)
          BY <2>1, <2>2, <2>4, <4>2 DEF Accept, Told
        <5> QED
          BY <2>2, <3>0, <5>1
      <4> QED
        BY <4>1, <4>2
    <3>2. f \in next.todo
      BY <1>3, <2>4, <3>1
    <3>3. next \in merges'
      BY <1>4, <3>2 DEF Rest
    <3> QED
      BY <1>3, <2>1, <2>2, <2>4, <3>2, <3>3 DEF Merging
  <2> QED
    BY <2>3, <2>4
<1> QED
  BY <1>2, <1>5 DEF Brings, Telling, Reversing, Fetching, ToAnnounce

\* The commit of a merge, also when it fails, leaves the rest of the message.
LEMMA BucketBrings ==
    ASSUME TypeOK, BroadcastsAreSingle,
           NEW m \in merges, MergeIntoBucket(m) \/ MergeIntoBucketFails(m),
           NEW q \in Node, NEW p \in Up, NEW a \in Address, NEW t \in Nat,
           Brings(q, p, a, t)
    PROVE  Brings(q, p, a, t)'
<1> DEFINE next == [m EXCEPT !.storing = {}]
<1>1. /\ UNCHANGED <<status, toAsk, handlers, asks, reverses>>
      /\ m.storing # {}
      /\ \/ merges' = (merges \ {m}) \cup Rest(next)
         \/ merges' = merges \ {m} /\ m.by = "broadcast"
  BY DEF MergeIntoBucket, MergeIntoBucketFails, nodes
<1>2. /\ next.node = m.node /\ next.from = m.from /\ next.by = m.by
      /\ next.todo = m.todo
  BY DEF TypeOK, Merge
<1> HIDE DEF next
<1>3. ASSUME Merging(q, p, a, t) PROVE Merging(q, p, a, t)'
  <2>1. PICK o \in merges :
          /\ o.node = p
          /\ o.by = "broadcast" => o.from = q
          /\ \E f \in o.todo : f.address = a /\ f.account.lastModified >= t
    BY <1>3 DEF Merging
  <2>2. CASE o # m
    <3>1. o \in merges'
      BY <1>1, <2>2
    <3> QED
      BY <2>1, <3>1 DEF Merging
  <2>3. CASE o = m
    <3>1. m.by # "broadcast"
      BY <1>1, <2>1, <2>3 DEF BroadcastsAreSingle
    <3>2. next \in merges'
      BY <1>1, <1>2, <2>1, <2>3, <3>1 DEF Rest
    <3> QED
      BY <1>2, <2>1, <2>3, <3>2 DEF Merging
  <2> QED
    BY <2>2, <2>3
<1> QED
  BY <1>1, <1>3 DEF Brings, Telling, Reversing, Fetching, ToAnnounce

\* A crash takes what came from the node, and nothing else.
LEMMA CrashBrings ==
    ASSUME TypeOK, NEW n \in Node, Crash(n),
           NEW q \in Node, NEW p \in Node, p # n,
           NEW a \in Address, NEW t \in Nat, Brings(q, p, a, t)
    PROVE  Brings(q, p, a, t)'
<1>1. PICK lost \in SUBSET {m \in merges : /\ m.from = n /\ m.todo # {}
                                           /\ m.by = "broadcast"} :
        merges' = {m \in merges : m.node # n} \ lost
  BY DEF Crash
<1>2. /\ status' = [status EXCEPT ![n] = "down"]
      /\ toAsk' = [toAsk EXCEPT ![n] = {}]
      /\ handlers' = {h \in handlers : h.node # n}
      /\ asks' = {x \in asks : x.from # n /\ x.to # n}
      /\ reverses' = {r \in reverses : r.node # n}
  BY DEF Crash
<1>3. CASE q = n
  BY <1>2, <1>3 DEF Brings, TypeOK
<1>4. CASE q # n
  <2>1. /\ status'[q] = status[q]
        /\ toAsk'[p] = toAsk[p] /\ toAsk'[q] = toAsk[q]
    BY <1>2, <1>4 DEF TypeOK
  <2>2. Telling(q, p, a, t) => Telling(q, p, a, t)'
    BY <1>2, <1>4 DEF Telling
  <2>3. Reversing(q, p, a, t) => Reversing(q, p, a, t)'
    BY <1>2, <1>4 DEF Reversing
  <2>4. Fetching(q, p) => Fetching(q, p)'
    BY <1>2, <1>4 DEF Fetching
  <2>5. Merging(q, p, a, t) => Merging(q, p, a, t)'
    <3>1. \A m \in merges :
            /\ m.node = p
            /\ m.by = "broadcast" => m.from = q
            => m \in merges'
      BY <1>1, <1>4
    <3> QED
      BY <3>1 DEF Merging
  <2>6. ToAnnounce(q, a, t) => ToAnnounce(q, a, t)'
    BY <1>2, <1>4 DEF ToAnnounce
  <2> QED
    BY <2>1, <2>2, <2>3, <2>4, <2>5, <2>6 DEF Brings
<1> QED
  BY <1>3, <1>4

\* A node that starts asks whoever runs.
LEMMA StartBrings ==
    ASSUME TypeOK, NEW n \in Node, Start(n),
           NEW q \in Node, NEW p \in Up, NEW a \in Address, NEW t \in Nat,
           Brings(q, p, a, t)
    PROVE  Brings(q, p, a, t)'
<1>1. /\ status[n] = "down"
      /\ status' = [status EXCEPT ![n] = "starting"]
      /\ toAsk' = [toAsk EXCEPT ![n] = Peers(n)]
      /\ UNCHANGED <<handlers, asks, reverses, merges>>
  BY DEF Start, tasks
<1>2. p \in Node /\ p # n /\ status[p] # "down"
  BY <1>1 DEF Up
<1>3. CASE q = n
  <2>1. p \in toAsk'[q]
    BY <1>1, <1>2, <1>3 DEF Peers, TypeOK
  <2> QED
    BY <2>1 DEF Brings
<1>4. CASE q # n
  <2>1. /\ status'[q] = status[q]
        /\ toAsk'[p] = toAsk[p] /\ toAsk'[q] = toAsk[q]
    BY <1>1, <1>2, <1>4 DEF TypeOK
  <2> QED
    BY <1>1, <1>2, <2>1, BringsKept
<1> QED
  BY <1>3, <1>4

LEMMA InitAgree == Init => AgreeInv
<1> SUFFICES ASSUME Init PROVE AgreeInv
  OBVIOUS
<1>1. \A n \in Node, a \in Address : Stored(n, a) = 0 /\ Told(n, a) = 0
  BY DEF Init, Stored, Told, NoAccount
<1>2. ToldIsStored
  BY <1>1 DEF Init, ToldIsStored, InSomeBucket, Up
<1>3. WillAgree
  BY <1>1 DEF WillAgree, Up
<1>4. AheadIsStoring
  BY <1>1 DEF AheadIsStoring, Up
<1>5. AskedBeforeServing /\ AsksAreTrue /\ BroadcastsAreSingle
  BY DEF Init, AskedBeforeServing, AsksAreTrue, BroadcastsAreSingle
<1> QED
  BY <1>2, <1>3, <1>4, <1>5 DEF AgreeInv

LEMMA ContestedGrows ==
    ASSUME TypeOK, [Next]_vars
    PROVE  contested \subseteq contested' /\ contested' \subseteq Address
<1>1. contested' \subseteq Address
  BY StepTypeOK DEF TypeOK
<1>2. contested \subseteq contested'
  BY ZenonT(60)
     DEF Next, Write, Work, Fault, vars, history, AccountRegistration,
         AccountUpdate, SetAccountReadWrite, Contest, StoreWrite,
         StoreWriteFails, BroadcastObject, AskNextPeer, Serve, AnswerAsk,
         AskFails, AccountsRequestReverse, MergeIntoCache, MergeIntoBucket,
         MergeIntoBucketFails, Lose, Crash, Start
<1> QED
  BY <1>1, <1>2

LEMMA FaultsAreCounted ==
    ASSUME TypeOK, [Next]_vars
    PROVE  /\ drops' = 0 => drops = 0
           /\ diskErrors' = 0 => diskErrors = 0
<1>1. /\ drops' = drops \/ drops' = drops + 1
      /\ diskErrors' = diskErrors \/ diskErrors' = diskErrors + 1
  BY ZenonT(60)
     DEF Next, Write, Work, Fault, vars, counts, AccountRegistration,
         AccountUpdate, SetAccountReadWrite, Begin, StoreWrite,
         StoreWriteFails, BroadcastObject, AskNextPeer, Serve, AnswerAsk,
         AskFails, AccountsRequestReverse, MergeIntoCache, MergeIntoBucket,
         MergeIntoBucketFails, Lose, Crash, Start
<1> QED
  BY <1>1 DEF TypeOK

LEMMA StepAsked ==
    TypeOK /\ AskedBeforeServing /\ [Next]_vars => AskedBeforeServing'
<1> SUFFICES ASSUME TypeOK, AskedBeforeServing, [Next]_vars
             PROVE  AskedBeforeServing'
  OBVIOUS
<1> USE DEF AskedBeforeServing
<1>1. ASSUME UNCHANGED nodes PROVE AskedBeforeServing'
  BY <1>1 DEF nodes
<1>2. ASSUME NEW n \in Node, AskNextPeer(n) PROVE AskedBeforeServing'
  BY <1>2 DEF AskNextPeer, TypeOK
<1>3. ASSUME NEW n \in Node, Serve(n) PROVE AskedBeforeServing'
  BY <1>3 DEF Serve, TypeOK
<1>4. ASSUME NEW n \in Node, Crash(n) PROVE AskedBeforeServing'
  BY <1>4 DEF Crash, TypeOK
<1>5. ASSUME NEW n \in Node, Start(n) PROVE AskedBeforeServing'
  BY <1>5 DEF Start, TypeOK
<1> QED
  BY <1>1, <1>2, <1>3, <1>4, <1>5, ZenonT(60)
     DEF Next, Write, Work, Fault, vars, AccountRegistration, AccountUpdate,
         SetAccountReadWrite, Begin, StoreWrite, StoreWriteFails,
         BroadcastObject, AnswerAsk, AskFails, AccountsRequestReverse,
         MergeIntoCache, MergeIntoBucket, MergeIntoBucketFails, Lose

\* An ask is sent with what the cache has, and the cache of a node that runs
\* only moves forward.
LEMMA StepAsks ==
    ASSUME TypeOK, Running, WriterInv, AsksAreTrue, [Next]_vars
    PROVE  AsksAreTrue'
<1>1. Forward /\ contested \subseteq contested'
  BY StepForward, ContestedGrows
<1>2. ASSUME NEW x \in asks, NEW a \in Address \ contested'
      PROVE  x.known[a] <= Told(x.from, a)'
  <2>1. x.known[a] \in Nat /\ x.from \in Node /\ status[x.from] # "down"
    BY DEF TypeOK, Ask, Time, Running
  <2>2. Told(x.from, a) \in Nat /\ Told(x.from, a)' \in Nat
    BY <2>1, StepTypeOK, StoredVersion, Versions DEF Told, TypeOK, Time
  <2>3. x.known[a] <= Told(x.from, a)
    BY <1>1 DEF AsksAreTrue
  <2>4. Told(x.from, a)' >= Told(x.from, a)
    BY <1>1, <2>1 DEF Forward
  <2> QED
    BY <2>1, <2>2, <2>3, <2>4
<1>3. ASSUME asks' \subseteq asks PROVE AsksAreTrue'
  BY <1>2, <1>3 DEF AsksAreTrue
<1>4. ASSUME NEW n \in Node, NEW k \in Node, NEW by, UNCHANGED cache,
             \A x \in asks' : x \in asks \/ x = AskFor(n, k, by)
      PROVE  AsksAreTrue'
  <2>1. /\ AskFor(n, k, by).from = n
        /\ \A a \in Address : AskFor(n, k, by).known[a] <= Told(n, a)'
    BY <1>4, Versions DEF AskFor, Known, Told
  <2>2. contested' \subseteq Address
    BY ContestedGrows
  <2>3. ASSUME NEW x \in asks', NEW a \in Address \ contested'
        PROVE  x.known[a] <= Told(x.from, a)'
    <3>1. CASE x \in asks
      BY <1>2, <3>1
    <3>2. CASE x = AskFor(n, k, by)
      BY <2>1, <2>2, <3>2
    <3> QED
      BY <1>4, <3>1, <3>2
  <2> QED
    BY <2>3 DEF AsksAreTrue
<1>5. ASSUME NEW n \in Node, AskNextPeer(n) PROVE AsksAreTrue'
  <2>1. PICK k \in toAsk[n] :
          asks' = IF k \in Up THEN asks \cup {AskFor(n, k, "main")} ELSE asks
    BY <1>5 DEF AskNextPeer
  <2>2. k \in Node /\ UNCHANGED cache
    BY <1>5 DEF AskNextPeer, TypeOK, stores
  <2> QED
    BY <1>4, <2>1, <2>2
<1>6. ASSUME NEW r \in reverses, AccountsRequestReverse(r) PROVE AsksAreTrue'
  BY <1>4, <1>6 DEF AccountsRequestReverse, TypeOK, stores, Reverse
<1> QED
  BY <1>3, <1>5, <1>6, ZenonT(60)
     DEF Next, Write, Work, Fault, vars, tasks, AccountRegistration,
         AccountUpdate, SetAccountReadWrite, Begin, StoreWrite,
         StoreWriteFails, BroadcastObject, Serve, AnswerAsk, AskFails,
         MergeIntoCache, MergeIntoBucket, MergeIntoBucketFails, Lose, Crash,
         Start

LEMMA StepSingle ==
    TypeOK /\ BroadcastsAreSingle /\ [Next]_vars => BroadcastsAreSingle'
<1> SUFFICES ASSUME TypeOK, BroadcastsAreSingle, [Next]_vars
             PROVE  BroadcastsAreSingle'
  OBVIOUS
<1> USE DEF BroadcastsAreSingle
<1>1. ASSUME merges' \subseteq merges PROVE BroadcastsAreSingle'
  BY <1>1
<1>2. ASSUME NEW h \in handlers, BroadcastObject(h) PROVE BroadcastsAreSingle'
  BY <1>2 DEF BroadcastObject, Broadcast
<1>3. ASSUME NEW x \in asks, AnswerAsk(x) PROVE BroadcastsAreSingle'
  <2>1. x.by # "broadcast"
    BY DEF TypeOK, Ask
  <2>2. \A m \in merges' : m \in merges \/ m.by = x.by
    BY <1>3 DEF AnswerAsk, Rest
  <2> QED
    BY <2>1, <2>2
<1>4. ASSUME NEW m \in merges, MergeIntoCache(m) PROVE BroadcastsAreSingle'
  <2>1. PICK e \in m.todo :
          merges' = (merges \ {m}) \cup
            Rest(IF Accept(m.node, e)
                 THEN [[m EXCEPT !.todo = @ \ {e}] EXCEPT !.storing = {e}]
                 ELSE [m EXCEPT !.todo = @ \ {e}])
    BY <1>4 DEF MergeIntoCache
  <2>2. m.by = "broadcast" => m.todo \ {e} = {}
    BY <2>1
  <2>3. /\ [m EXCEPT !.todo = @ \ {e}].todo = m.todo \ {e}
        /\ [m EXCEPT !.todo = @ \ {e}].by = m.by
        /\ [[m EXCEPT !.todo = @ \ {e}] EXCEPT !.storing = {e}].todo
             = m.todo \ {e}
        /\ [[m EXCEPT !.todo = @ \ {e}] EXCEPT !.storing = {e}].by = m.by
    BY DEF TypeOK, Merge
  <2>4. \A o \in merges' :
          o \in merges \/ (o.todo = m.todo \ {e} /\ o.by = m.by)
    BY <2>1, <2>3 DEF Rest
  <2> QED
    BY <2>2, <2>4
<1>5. ASSUME NEW m \in merges, MergeIntoBucket(m) \/ MergeIntoBucketFails(m)
      PROVE  BroadcastsAreSingle'
  <2>1. /\ [m EXCEPT !.storing = {}].storing = {}
        /\ [m EXCEPT !.storing = {}].todo = m.todo
        /\ [m EXCEPT !.storing = {}].by = m.by
    BY DEF TypeOK, Merge
  <2>2. \A o \in merges' : o \in merges \/ o = [m EXCEPT !.storing = {}]
    BY <1>5 DEF MergeIntoBucket, MergeIntoBucketFails, Rest
  <2> QED
    BY <2>1, <2>2
<1> QED
  BY <1>1, <1>2, <1>3, <1>4, <1>5, ZenonT(60)
     DEF Next, Write, Work, Fault, vars, tasks, AccountRegistration,
         AccountUpdate, SetAccountReadWrite, Begin, StoreWrite,
         StoreWriteFails, AskNextPeer, Serve, AskFails,
         AccountsRequestReverse, Lose, Crash, Start

\* Nothing is told or sent that is not in a bucket before.
LEMMA StepTold ==
    ASSUME TypeOK, Running, WriterInv, ToldIsStored, [Next]_vars
    PROVE  ToldIsStored'
<1>1. Forward /\ contested \subseteq contested' /\ TypeOK'
  BY StepForward, ContestedGrows, StepTypeOK
<1>2. ASSUME NEW a \in Address \ contested', NEW t \in Nat, InSomeBucket(a, t)
      PROVE  InSomeBucket(a, t)'
  <2>1. PICK k \in Node : Stored(k, a) >= t
    BY <1>2 DEF InSomeBucket
  <2>2. Stored(k, a)' >= Stored(k, a)
    BY <1>1 DEF Forward
  <2>3. Stored(k, a) \in Nat /\ Stored(k, a)' \in Nat
    BY <1>1, Versions, StoredVersion DEF Stored, TypeOK, Time
  <2>4. Stored(k, a)' >= t
    BY <2>1, <2>2, <2>3
  <2> QED
    BY <2>4 DEF InSomeBucket
<1>3. ASSUME \A n \in Up', a \in Address \ contested' :
                \/ n \in Up /\ Told(n, a)' = Told(n, a)
                \/ Told(n, a)' \in Nat /\ InSomeBucket(a, Told(n, a)'),
             \A m \in merges' : \A e \in m.todo :
                \/ \E o \in merges : e \in o.todo
                \/ e.address \notin contested' =>
                     /\ e \in Entry
                     /\ InSomeBucket(e.address, e.account.lastModified)
      PROVE  ToldIsStored'
  <2>1. \A n \in Up', a \in Address \ contested' : InSomeBucket(a, Told(n, a))'
    BY <1>1, <1>2, <1>3, Versions DEF ToldIsStored, Up
  <2>2. \A m \in merges' : \A e \in m.todo :
          e.address \notin contested' =>
             InSomeBucket(e.address, e.account.lastModified)'
    BY <1>1, <1>2, <1>3, Versions DEF ToldIsStored, Entry, Account, Time
  <2> QED
    BY <2>1, <2>2 DEF ToldIsStored
<1>4. ASSUME UNCHANGED cache, Up' \subseteq Up,
             \A m \in merges' : \A e \in m.todo :
                \E o \in merges : e \in o.todo
      PROVE  ToldIsStored'
  BY <1>3, <1>4 DEF Told
<1>5. ASSUME NEW h \in handlers, BroadcastObject(h) PROVE ToldIsStored'
  <2>1. /\ cache' = [cache EXCEPT ![h.node][h.address] = h.account]
        /\ merges' = merges \cup
             Broadcast(h.node, Version(h.address, h.account))
        /\ UNCHANGED <<status, disk, contested>> /\ h.at = "announce"
    BY <1>5 DEF BroadcastObject, nodes
  <2>2. /\ h.node \in Node /\ h.address \in Address /\ h.account \in Account
        /\ h.account.lastModified \in Nat
    BY Versions
  <2>3. h.address \notin contested =>
          InSomeBucket(h.address, h.account.lastModified)
    <3>1. h.address \notin contested =>
            h.account.lastModified = Stored(h.node, h.address)
      BY <2>1 DEF WriterInv, HandlerNewer
    <3> QED
      BY <2>2, <3>1 DEF InSomeBucket
  <2>4. \A n \in Node, a \in Address :
          Told(n, a)' = IF n = h.node /\ a = h.address
                        THEN h.account.lastModified ELSE Told(n, a)
    BY <2>1, <2>2 DEF Told, TypeOK
  <2>5. \A m \in merges' : \A e \in m.todo :
          \/ m \in merges
          \/ e = Version(h.address, h.account)
    BY <2>1 DEF Broadcast
  <2>6. Version(h.address, h.account) \in Entry
    BY <2>2 DEF Version, Entry
  <2>7. /\ Version(h.address, h.account).address = h.address
        /\ Version(h.address, h.account).account = h.account
    BY DEF Version
  <2>8. Up' = Up /\ Up \subseteq Node
    BY <2>1 DEF Up
  <2>9. \A n \in Up', a \in Address \ contested' :
           \/ n \in Up /\ Told(n, a)' = Told(n, a)
           \/ Told(n, a)' \in Nat /\ InSomeBucket(a, Told(n, a)')
    BY <2>1, <2>2, <2>3, <2>4, <2>8
  <2>10. \A m \in merges' : \A e \in m.todo :
            \/ \E o \in merges : e \in o.todo
            \/ e.address \notin contested' =>
                 /\ e \in Entry
                 /\ InSomeBucket(e.address, e.account.lastModified)
    BY <2>1, <2>3, <2>5, <2>6, <2>7
  <2> QED
    BY <1>3, <2>9, <2>10
<1>6. ASSUME NEW x \in asks, AnswerAsk(x) PROVE ToldIsStored'
  <2>1. x.to \in Up /\ x.to \in Node /\ x.known \in [Address -> Time \cup {0}]
    BY DEF TypeOK, Ask, Running, Up
  <2>2. UNCHANGED <<status, cache, disk, contested>>
    BY <1>6 DEF AnswerAsk, nodes, stores, history
  <2>3. \A m \in merges' : \A e \in m.todo :
          m \in merges \/ e \in NewerThan(x.to, x.known)
    BY <1>6 DEF AnswerAsk, Rest
  <2>4. \A e \in NewerThan(x.to, x.known) :
          /\ e \in Entry
          /\ e.account.lastModified = Told(x.to, e.address)
          /\ e.address \in Address
    BY <2>1, NewerThanType DEF NewerThan, Version, Told
  <2>5. \A e \in NewerThan(x.to, x.known) : e.address \notin contested =>
          InSomeBucket(e.address, e.account.lastModified)
    BY <2>1, <2>4 DEF ToldIsStored
  <2>6. \A n \in Up' : n \in Up /\ \A a \in Address : Told(n, a)' = Told(n, a)
    BY <2>2 DEF Up, Told
  <2> QED
    BY <1>3, <2>2, <2>3, <2>4, <2>5, <2>6
<1>7. ASSUME NEW m \in merges, MergeIntoCache(m) PROVE ToldIsStored'
  <2>1. PICK e \in m.todo :
          /\ merges' = (merges \ {m}) \cup
               Rest(IF Accept(m.node, e)
                    THEN [[m EXCEPT !.todo = @ \ {e}] EXCEPT !.storing = {e}]
                    ELSE [m EXCEPT !.todo = @ \ {e}])
          /\ cache' = (IF Accept(m.node, e)
                       THEN [cache EXCEPT ![m.node][e.address] = e.account]
                       ELSE cache)
    BY <1>7 DEF MergeIntoCache
  <2>2. UNCHANGED status
    BY <1>7 DEF MergeIntoCache, nodes
  <2>3. /\ m.node \in Node /\ e.address \in Address
        /\ e.account.lastModified \in Nat
    BY Versions
  <2>4. /\ [m EXCEPT !.todo = @ \ {e}].todo \subseteq m.todo
        /\ [[m EXCEPT !.todo = @ \ {e}] EXCEPT !.storing = {e}].todo
             \subseteq m.todo
    BY DEF TypeOK, Merge
  <2>5. \A o \in merges' : \A f \in o.todo : \E k \in merges : f \in k.todo
    BY <2>1, <2>4 DEF Rest
  <2>6. \A n \in Node, a \in Address :
          \/ Told(n, a)' = Told(n, a)
          \/ a = e.address /\ Told(n, a)' = e.account.lastModified
    BY <2>1, <2>3 DEF Told, TypeOK
  <2>7. e.address \notin contested' =>
          InSomeBucket(e.address, e.account.lastModified)
    BY <1>1 DEF ToldIsStored
  <2>8. Up' = Up /\ Up \subseteq Node
    BY <2>2 DEF Up
  <2>9. \A n \in Up', a \in Address \ contested' :
           \/ n \in Up /\ Told(n, a)' = Told(n, a)
           \/ Told(n, a)' \in Nat /\ InSomeBucket(a, Told(n, a)')
    BY <2>3, <2>6, <2>7, <2>8
  <2> QED
    BY <1>3, <2>5, <2>9
<1>8. ASSUME NEW m \in merges, MergeIntoBucket(m) \/ MergeIntoBucketFails(m)
      PROVE  ToldIsStored'
  <2>1. [m EXCEPT !.storing = {}].todo = m.todo
    BY DEF TypeOK, Merge
  <2>2. \A o \in merges' : o \in merges \/ o.todo = m.todo
    BY <1>8, <2>1 DEF MergeIntoBucket, MergeIntoBucketFails, Rest
  <2>3. UNCHANGED <<cache, status>>
    BY <1>8 DEF MergeIntoBucket, MergeIntoBucketFails, nodes, stores
  <2> QED
    BY <1>4, <2>2, <2>3 DEF Up
<1>9. ASSUME NEW n \in Node, Start(n) PROVE ToldIsStored'
  <2>1. /\ cache' = [cache EXCEPT ![n] = disk[n]]
        /\ status' = [status EXCEPT ![n] = "starting"]
        /\ UNCHANGED <<disk, merges, contested>>
    BY <1>9 DEF Start, tasks, history
  <2>2. \A k \in Node, a \in Address :
          Told(k, a)' = IF k = n THEN Stored(n, a) ELSE Told(k, a)
    BY <2>1 DEF Told, Stored, TypeOK
  <2>3. Up' \subseteq Node /\ \A k \in Up' : k = n \/ k \in Up
    BY <2>1 DEF Up, TypeOK
  <2>4. \A a \in Address :
          Stored(n, a) \in Nat /\ InSomeBucket(a, Stored(n, a))
    BY Versions DEF InSomeBucket
  <2>5. \A k \in Up', a \in Address \ contested' :
           \/ k \in Up /\ Told(k, a)' = Told(k, a)
           \/ Told(k, a)' \in Nat /\ InSomeBucket(a, Told(k, a)')
    BY <2>2, <2>3, <2>4
  <2> QED
    BY <1>3, <2>1, <2>5
<1>10. ASSUME NEW n \in Node, Crash(n) PROVE ToldIsStored'
  <2>1. /\ UNCHANGED cache /\ merges' \subseteq merges
        /\ status' = [status EXCEPT ![n] = "down"]
    BY <1>10 DEF Crash, stores
  <2>2. Up' \subseteq Up
    BY <2>1 DEF Up, TypeOK
  <2> QED
    BY <1>4, <2>1, <2>2
<1>11. ASSUME NEW n \in Node, Serve(n) PROVE ToldIsStored'
  <2>1. Up' \subseteq Up
    BY <1>11 DEF Serve, Up, TypeOK
  <2> QED
    BY <1>4, <1>11, <2>1 DEF Serve, stores, tasks
<1>12. ASSUME UNCHANGED <<status, cache>>, merges' \subseteq merges
       PROVE  ToldIsStored'
  BY <1>4, <1>12 DEF Up
<1> QED
  BY <1>5, <1>6, <1>7, <1>8, <1>9, <1>10, <1>11, <1>12, ZenonT(60)
     DEF Next, Write, Work, Fault, vars, nodes, stores, tasks,
         AccountRegistration, AccountUpdate, SetAccountReadWrite, Begin,
         StoreWrite, StoreWriteFails, AskNextPeer, AskFails,
         AccountsRequestReverse, Lose

LEMMA StepAhead ==
    ASSUME TypeOK, WriterInv, BroadcastsAreSingle, AheadIsStoring,
           [Next]_vars
    PROVE  AheadIsStoring'
<1> DEFINE Storing(n, a) == \E m \in merges : /\ m.node = n
                                              /\ \E e \in m.storing :
                                                    e.address = a
           Kept(n, a) == \E m \in merges' : /\ m.node = n
                                            /\ \E e \in m.storing :
                                                  e.address = a
<1>1. contested \subseteq contested'
  BY ContestedGrows
<1>2. diskErrors' = 0 => diskErrors = 0
  BY FaultsAreCounted
<1>3. ASSUME \A n \in Up', a \in Address \ contested' :
                Stored(n, a)' < Told(n, a)' /\ diskErrors' = 0 =>
                    \/ Kept(n, a)
                    \/ /\ n \in Up /\ Stored(n, a) < Told(n, a)
                       /\ Storing(n, a) => Kept(n, a)
      PROVE  AheadIsStoring'
  BY <1>1, <1>2, <1>3 DEF AheadIsStoring
<1>4. ASSUME UNCHANGED <<cache, disk>>, Up' \subseteq Up,
             \A n \in Up', a \in Address : Storing(n, a) => Kept(n, a)
      PROVE  AheadIsStoring'
  BY <1>3, <1>4 DEF Stored, Told
<1>5. ASSUME UNCHANGED <<status, cache, disk>>, merges \subseteq merges'
      PROVE  AheadIsStoring'
  BY <1>4, <1>5 DEF Up
<1>6. ASSUME NEW h \in handlers, StoreWrite(h) PROVE AheadIsStoring'
  <2>1. /\ h.node \in Node /\ h.address \in Address /\ h.at = "store"
        /\ h.account.lastModified \in Nat /\ h.grant \in BOOLEAN
    BY <1>6, Versions DEF StoreWrite, TypeOK, Handler
  <2>2. /\ disk' = [disk EXCEPT ![h.node][h.address] = h.account]
        /\ UNCHANGED <<status, cache, merges, contested>>
    BY <1>6 DEF StoreWrite, nodes, history
  <2>3. \A n \in Node, a \in Address :
          /\ Told(n, a)' = Told(n, a)
          /\ Stored(n, a)' = IF n = h.node /\ a = h.address
                             THEN h.account.lastModified ELSE Stored(n, a)
    BY <2>1, <2>2 DEF Stored, Told, TypeOK
  <2>4. h.address \notin contested =>
          h.account.lastModified >= Stored(h.node, h.address)
    BY <2>1, Versions DEF WriterInv, HandlerNewer
  <2>5. ASSUME NEW n \in Up', NEW a \in Address \ contested',
               Stored(n, a)' < Told(n, a)'
        PROVE  n \in Up /\ Stored(n, a) < Told(n, a)
    BY <2>1, <2>2, <2>3, <2>4, <2>5, Versions DEF Up
  <2> QED
    BY <1>3, <2>2, <2>5
<1>7. ASSUME NEW h \in handlers, BroadcastObject(h) PROVE AheadIsStoring'
  <2>1. /\ h.node \in Node /\ h.address \in Address /\ h.at = "announce"
        /\ h.account.lastModified \in Nat
    BY <1>7, Versions DEF BroadcastObject
  <2>2. /\ cache' = [cache EXCEPT ![h.node][h.address] = h.account]
        /\ merges \subseteq merges'
        /\ UNCHANGED <<status, disk, contested>>
    BY <1>7 DEF BroadcastObject, nodes
  <2>3. \A n \in Node, a \in Address :
          /\ Stored(n, a)' = Stored(n, a)
          /\ Told(n, a)' = IF n = h.node /\ a = h.address
                           THEN h.account.lastModified ELSE Told(n, a)
    BY <2>1, <2>2 DEF Stored, Told, TypeOK
  <2>4. h.address \notin contested =>
          h.account.lastModified = Stored(h.node, h.address)
    BY <2>1 DEF WriterInv, HandlerNewer
  <2>5. ASSUME NEW n \in Up', NEW a \in Address \ contested',
               Stored(n, a)' < Told(n, a)'
        PROVE  n \in Up /\ Stored(n, a) < Told(n, a)
    BY <2>1, <2>2, <2>3, <2>4, <2>5, Versions DEF Up
  <2> QED
    BY <1>3, <2>2, <2>5
<1>8. ASSUME NEW m \in merges, MergeIntoCache(m) PROVE AheadIsStoring'
  <2>1. PICK e \in m.todo :
          /\ merges' = (merges \ {m}) \cup
               Rest(IF Accept(m.node, e)
                    THEN [[m EXCEPT !.todo = @ \ {e}] EXCEPT !.storing = {e}]
                    ELSE [m EXCEPT !.todo = @ \ {e}])
          /\ cache' = (IF Accept(m.node, e)
                       THEN [cache EXCEPT ![m.node][e.address] = e.account]
                       ELSE cache)
    BY <1>8 DEF MergeIntoCache
  <2>2. UNCHANGED <<status, disk>> /\ m.storing = {}
    BY <1>8 DEF MergeIntoCache, nodes
  <2>3. m.node \in Node /\ e.address \in Address
    BY Versions
  <2>4. \A n \in Node, a \in Address : Storing(n, a) => Kept(n, a)
    BY <2>1, <2>2
  <2>5. CASE ~Accept(m.node, e)
    BY <1>4, <2>1, <2>2, <2>4, <2>5 DEF Up
  <2>6. CASE Accept(m.node, e)
    <3> DEFINE full == [[m EXCEPT !.todo = @ \ {e}] EXCEPT !.storing = {e}]
    <3>1. full.storing = {e} /\ full.node = m.node
      BY DEF TypeOK, Merge
    <3>2. full \in merges'
      BY <2>1, <2>6, <3>1 DEF Rest
    <3>3. Kept(m.node, e.address)
      BY <3>1, <3>2
    <3>4. \A n \in Node, a \in Address :
            \/ n = m.node /\ a = e.address
            \/ Stored(n, a)' = Stored(n, a) /\ Told(n, a)' = Told(n, a)
      BY <2>1, <2>2, <2>3, <2>6 DEF Stored, Told, TypeOK
    <3> QED
      BY <1>3, <2>2, <2>4, <3>3, <3>4 DEF Up
  <2> QED
    BY <2>5, <2>6
<1>9. ASSUME NEW m \in merges, MergeIntoBucket(m) PROVE AheadIsStoring'
  <2>1. PICK e \in m.storing :
          /\ merges' = (merges \ {m}) \cup Rest([m EXCEPT !.storing = {}])
          /\ disk' = [disk EXCEPT ![m.node][e.address] = e.account]
    BY <1>9 DEF MergeIntoBucket
  <2>2. UNCHANGED <<status, cache, contested>>
    BY <1>9 DEF MergeIntoBucket, nodes, history
  <2>3. /\ m.node \in Node /\ e.address \in Address
        /\ e.account.lastModified \in Nat
    BY Versions
  <2>4. /\ \A f \in m.storing : f = e
        /\ e.address \notin contested =>
             e.account.lastModified = Told(m.node, e.address)
    BY DEF WriterInv, OneWriter, MergeNewer
  <2>5. \A n \in Node, a \in Address :
          \/ n = m.node /\ a = e.address /\ Told(n, a)' = Told(n, a)
             /\ Stored(n, a)' = e.account.lastModified
          \/ /\ ~(n = m.node /\ a = e.address)
             /\ Stored(n, a)' = Stored(n, a) /\ Told(n, a)' = Told(n, a)
    BY <2>1, <2>2, <2>3 DEF Stored, Told, TypeOK
  <2>6. \A n \in Node, a \in Address :
          ~(n = m.node /\ a = e.address) /\ Storing(n, a) => Kept(n, a)
    BY <2>1, <2>4
  <2>7. ASSUME NEW n \in Up', NEW a \in Address \ contested',
               Stored(n, a)' < Told(n, a)'
        PROVE  /\ n \in Up /\ Stored(n, a) < Told(n, a)
               /\ ~(n = m.node /\ a = e.address)
    BY <2>2, <2>3, <2>4, <2>5, <2>7 DEF Up
  <2>8. Up' \subseteq Node
    BY <2>2 DEF Up
  <2> QED
    BY <1>3, <2>6, <2>7, <2>8
<1>10. ASSUME NEW n \in Node, Start(n) PROVE AheadIsStoring'
  <2>1. /\ cache' = [cache EXCEPT ![n] = disk[n]]
        /\ status' = [status EXCEPT ![n] = "starting"]
        /\ UNCHANGED <<disk, merges>>
    BY <1>10 DEF Start, tasks
  <2>2. \A k \in Node, a \in Address :
          /\ Stored(k, a)' = Stored(k, a)
          /\ Told(k, a)' = IF k = n THEN Stored(n, a) ELSE Told(k, a)
    BY <2>1 DEF Told, Stored, TypeOK
  <2>3. Up' \subseteq Node /\ \A k \in Up' : k = n \/ k \in Up
    BY <2>1 DEF Up, TypeOK
  <2>4. \A a \in Address : ~(Stored(n, a) < Stored(n, a))
    BY Versions
  <2> QED
    BY <1>3, <2>1, <2>2, <2>3, <2>4
<1>11. ASSUME NEW n \in Node, Crash(n) PROVE AheadIsStoring'
  <2>1. PICK lost \in SUBSET {m \in merges : /\ m.from = n /\ m.todo # {}
                                             /\ m.by = "broadcast"} :
          merges' = {m \in merges : m.node # n} \ lost
    BY <1>11 DEF Crash
  <2>2. /\ UNCHANGED <<cache, disk>>
        /\ status' = [status EXCEPT ![n] = "down"]
    BY <1>11 DEF Crash, stores
  <2>3. Up' \subseteq Up /\ n \notin Up'
    BY <2>2 DEF Up, TypeOK
  <2>4. \A m \in merges : m.storing # {} /\ m.node # n => m \in merges'
    BY <2>1 DEF BroadcastsAreSingle
  <2> QED
    BY <1>4, <2>2, <2>3, <2>4
<1>12. ASSUME NEW n \in Node, Serve(n) PROVE AheadIsStoring'
  <2>1. Up' \subseteq Up
    BY <1>12 DEF Serve, Up, TypeOK
  <2> QED
    BY <1>4, <1>12, <2>1 DEF Serve, stores, tasks
<1>13. ASSUME NEW m \in merges, Lose(m) PROVE AheadIsStoring'
  <2>1. /\ merges' = merges \ {m} /\ UNCHANGED <<status, cache, disk>>
        /\ m.storing = {}
    BY <1>13 DEF Lose, nodes, stores, BroadcastsAreSingle
  <2> QED
    BY <1>4, <2>1 DEF Up
<1>14. ASSUME diskErrors' = diskErrors + 1 PROVE AheadIsStoring'
  BY <1>14 DEF AheadIsStoring, TypeOK
<1>15. ASSUME NEW x \in asks, AnswerAsk(x) PROVE AheadIsStoring'
  BY <1>5, <1>15 DEF AnswerAsk, nodes, stores
<1> QED
  BY <1>5, <1>6, <1>7, <1>8, <1>9, <1>10, <1>11, <1>12, <1>13, <1>14, <1>15,
     ZenonT(60)
     DEF Next, Write, Work, Fault, vars, nodes, stores, tasks,
         AccountRegistration, AccountUpdate, SetAccountReadWrite, Begin,
         StoreWriteFails, AskNextPeer, AskFails, AccountsRequestReverse,
         MergeIntoBucketFails

\* Whatever a step does, short of losing a message, brings go on.
LEMMA StepBrings ==
    ASSUME IInv, AsksAreTrue, BroadcastsAreSingle, [Next]_vars, drops' = 0,
           NEW q \in Node, NEW p \in Up, p \in Up',
           NEW a \in Address \ contested', NEW t \in Nat,
           Stored(q, a) >= t, Brings(q, p, a, t),
           Told(p, a) < t, Told(p, a)' < t
    PROVE  Brings(q, p, a, t)'
<1> USE DEF IInv, WriterInv
<1>1. a \in Address \ contested
  BY ContestedGrows
<1>2. p \in Node
  BY DEF Up
<1>3. ASSUME UNCHANGED <<status, toAsk, asks, reverses, merges>>,
             \A h \in handlers : h.at = "announce" => h \in handlers'
      PROVE  Brings(q, p, a, t)'
  BY <1>2, <1>3, BringsKept
<1>4. ASSUME NEW n \in Node, NEW b \in Address,
             \/ AccountRegistration(n, b) \/ AccountUpdate(n, b)
             \/ SetAccountReadWrite(n, b)
      PROVE  Brings(q, p, a, t)'
  BY <1>3, <1>4 DEF AccountRegistration, AccountUpdate, SetAccountReadWrite,
                    Begin, nodes
<1>5. ASSUME NEW h \in handlers, StoreWrite(h) \/ StoreWriteFails(h)
      PROVE  Brings(q, p, a, t)'
  BY <1>3, <1>5 DEF StoreWrite, StoreWriteFails, nodes
<1>6. ASSUME NEW n \in Node, Serve(n) PROVE Brings(q, p, a, t)'
  BY <1>2, <1>6, BringsKept DEF Serve, tasks, TypeOK
<1>7. ASSUME drops' = drops + 1 PROVE FALSE
  BY <1>7 DEF TypeOK
<1>8. ASSUME UNCHANGED vars PROVE Brings(q, p, a, t)'
  BY <1>3, <1>8 DEF vars, nodes, tasks
<1>9. ASSUME NEW h \in handlers, BroadcastObject(h) PROVE Brings(q, p, a, t)'
  BY <1>9, BroadcastBrings
<1>10. ASSUME NEW n \in Node, AskNextPeer(n) PROVE Brings(q, p, a, t)'
  BY <1>1, <1>10, AskNextBrings
<1>11. ASSUME NEW x \in asks, AnswerAsk(x) PROVE Brings(q, p, a, t)'
  BY <1>1, <1>11, AnswerBrings
<1>12. ASSUME NEW r \in reverses, AccountsRequestReverse(r)
       PROVE  Brings(q, p, a, t)'
  BY <1>12, ReverseBrings
<1>13. ASSUME NEW m \in merges, MergeIntoCache(m) PROVE Brings(q, p, a, t)'
  BY <1>13, MergeBrings
<1>14. ASSUME NEW m \in merges, MergeIntoBucket(m) \/ MergeIntoBucketFails(m)
       PROVE  Brings(q, p, a, t)'
  BY <1>14, BucketBrings
<1>15. ASSUME NEW n \in Node, Crash(n) PROVE Brings(q, p, a, t)'
  <2>1. p # n
    BY <1>15 DEF Crash, Up, TypeOK
  <2> QED
    BY <1>2, <1>15, <2>1, CrashBrings
<1>16. ASSUME NEW n \in Node, Start(n) PROVE Brings(q, p, a, t)'
  BY <1>16, StartBrings
<1>17. ASSUME NEW x \in asks, AskFails(x) PROVE FALSE
  BY <1>7, <1>17 DEF AskFails
<1>18. ASSUME NEW m \in merges, Lose(m) PROVE FALSE
  BY <1>7, <1>18 DEF Lose
<1> QED
  BY <1>4, <1>5, <1>6, <1>8, <1>9, <1>10, <1>11, <1>12, <1>13, <1>14, <1>15,
     <1>16, <1>17, <1>18, ZenonT(60) DEF Next, Write, Work, Fault

\* A new version in a bucket is one that the handler will announce, or one
\* that came from another node and is in a bucket already.
LEMMA NewInBucket ==
    ASSUME IInv, ToldIsStored, [Next]_vars,
           NEW n \in Node, NEW a \in Address \ contested',
           Stored(n, a)' # Stored(n, a)
    PROVE  \/ ToAnnounce(n, a, Stored(n, a))'
           \/ \E k \in Node : Stored(k, a) >= Stored(n, a)'
<1> USE DEF IInv
<1>1. a \in Address \ contested
  BY ContestedGrows
<1>2. disk' # disk
  BY DEF Stored
<1>3. ASSUME NEW h \in handlers, StoreWrite(h)
      PROVE  ToAnnounce(n, a, Stored(n, a))'
  <2>1. /\ h \in Handler /\ h.node \in Node /\ h.address \in Address
        /\ h.account.lastModified \in Nat /\ h.grant \in BOOLEAN
    BY Versions DEF TypeOK, Handler
  <2>2. /\ disk' = [disk EXCEPT ![h.node][h.address] = h.account]
        /\ handlers' = (handlers \ {h}) \cup
              (IF h.grant THEN {} ELSE {[h EXCEPT !.at = "announce"]})
        /\ h.at = "store"
    BY <1>3 DEF StoreWrite
  <2>3. n = h.node /\ a = h.address
    BY <2>1, <2>2 DEF Stored, TypeOK
  <2>4. Stored(n, a)' = h.account.lastModified
    BY <2>1, <2>2, <2>3 DEF Stored, TypeOK
  <2>5. ~h.grant
    BY <1>1, <2>2, <2>3, <2>4 DEF HandlerNewer
  <2> DEFINE g == [h EXCEPT !.at = "announce"]
  <2>6. /\ g.node = n /\ g.address = a /\ g.at = "announce"
        /\ g.account = h.account
    BY <2>1, <2>3 DEF Handler
  <2>7. g \in handlers'
    BY <2>2, <2>5
  <2> HIDE DEF g
  <2>8. g.account.lastModified >= h.account.lastModified
    BY <2>1, <2>6
  <2> QED
    BY <2>4, <2>6, <2>7, <2>8 DEF ToAnnounce
<1>4. ASSUME NEW m \in merges, MergeIntoBucket(m)
      PROVE  \E k \in Node : Stored(k, a) >= Stored(n, a)'
  <2>1. PICK e \in m.storing :
          disk' = [disk EXCEPT ![m.node][e.address] = e.account]
    BY <1>4 DEF MergeIntoBucket
  <2>2. m.node \in Node /\ e.address \in Address
    BY Versions
  <2>3. n = m.node /\ a = e.address
    BY <2>1, <2>2 DEF Stored, TypeOK
  <2>4. Stored(n, a)' = e.account.lastModified
    BY <2>1, <2>2, <2>3 DEF Stored, TypeOK
  <2>5. e.account.lastModified = Told(n, a)
    BY <1>1, <2>3 DEF MergeNewer
  <2>6. n \in Up
    BY <2>3 DEF Running, Up
  <2> QED
    BY <1>1, <2>4, <2>5, <2>6 DEF ToldIsStored, InSomeBucket
<1> QED
  BY <1>2, <1>3, <1>4, ZenonT(60)
     DEF Next, Write, Work, Fault, vars, stores, AccountRegistration,
         AccountUpdate, SetAccountReadWrite, Begin, StoreWriteFails,
         BroadcastObject, AskNextPeer, Serve, AnswerAsk, AskFails,
         AccountsRequestReverse, MergeIntoCache, MergeIntoBucketFails,
         Lose, Crash, Start

LEMMA StepWillAgree ==
    ASSUME IInv, AgreeInv, [Next]_vars
    PROVE  WillAgree'
<1> USE DEF IInv, AgreeInv
<1> SUFFICES ASSUME drops' = 0, NEW a \in Address \ contested',
                    NEW p \in Up', NEW n \in Node,
                    Told(p, a)' < Stored(n, a)'
             PROVE  \E q \in Node : /\ Stored(q, a)' >= Stored(n, a)'
                                    /\ Brings(q, p, a, Stored(n, a))'
  BY DEF WillAgree
<1>1. TypeOK' /\ Forward /\ a \in Address \ contested
  BY StepTypeOK, StepForward, ContestedGrows DEF WriterInv
<1>2. p \in Node
  BY DEF Up
<1>3. /\ \A k \in Node : Stored(k, a) \in Nat /\ Stored(k, a)' \in Nat
      /\ Told(p, a) \in Nat /\ Told(p, a)' \in Nat
  <2>1. \A k \in Node : Stored(k, a) \in Nat /\ Told(k, a) \in Nat
    BY Versions
  <2>2. \A k \in Node : disk'[k][a] \in AccountOrNone
                        /\ cache'[k][a] \in AccountOrNone
    BY <1>1 DEF TypeOK
  <2>3. \A k \in Node : Stored(k, a)' \in Nat /\ Told(k, a)' \in Nat
    BY <2>2, StoredVersion DEF Stored, Told, Time
  <2> QED
    BY <1>2, <2>1, <2>3
<1>4. PICK t \in Nat : t = Stored(n, a)'
  BY <1>3
<1>5. drops = 0
  BY FaultsAreCounted
<1>6. ASSUME NEW q \in Node, Stored(q, a)' >= t, Brings(q, p, a, t)'
      PROVE  \E k \in Node : /\ Stored(k, a)' >= Stored(n, a)'
                             /\ Brings(k, p, a, Stored(n, a))'
  BY <1>4, <1>6 DEF Brings, Telling, Reversing, Merging, ToAnnounce
\* p runs already: someone brought it.
<1>7. ASSUME p \in Up, NEW k \in Node, Stored(k, a) >= t
      PROVE  \E q \in Node : Stored(q, a)' >= t /\ Brings(q, p, a, t)'
  <2>1. Told(p, a)' >= Told(p, a)
    BY <1>1, <1>2, <1>7 DEF Forward, Up
  <2>2. Told(p, a) < t /\ Told(p, a)' < t
    BY <1>3, <1>4, <2>1
  <2>3. Told(p, a) < Stored(k, a)
    BY <1>3, <1>4, <1>7, <2>2
  <2>4. PICK q \in Node : /\ Stored(q, a) >= Stored(k, a)
                          /\ Brings(q, p, a, Stored(k, a))
    BY <1>1, <1>5, <1>7, <2>3 DEF WillAgree
  <2>5. Stored(q, a) >= t
    BY <1>3, <1>4, <1>7, <2>4
  <2>6. Brings(q, p, a, t)
    <3>1. \A v \in Nat : v >= Stored(k, a) => v >= t
      BY <1>3, <1>4, <1>7
    <3>2. /\ \A x \in asks : x.known[a] \in Nat
          /\ \A r \in reverses : r.known[a] \in Nat
      <4>1. \A x \in asks : x.known \in [Address -> Time \cup {0}]
        BY DEF TypeOK, Ask
      <4>2. \A r \in reverses : r.known \in [Address -> Time \cup {0}]
        BY DEF TypeOK, Reverse
      <4> QED
        BY <1>1, <4>1, <4>2 DEF Time
    <3>3. /\ Telling(q, p, a, Stored(k, a)) => Telling(q, p, a, t)
          /\ Reversing(q, p, a, Stored(k, a)) => Reversing(q, p, a, t)
      BY <3>1, <3>2 DEF Telling, Reversing
    <3>4. Merging(q, p, a, Stored(k, a)) => Merging(q, p, a, t)
      BY <3>1, Versions DEF Merging
    <3>5. ToAnnounce(q, a, Stored(k, a)) => ToAnnounce(q, a, t)
      BY <3>1, Versions DEF ToAnnounce
    <3> QED
      BY <2>4, <3>3, <3>4, <3>5 DEF Brings
  <2>7. Brings(q, p, a, t)'
    BY <1>4, <1>7, <2>2, <2>5, <2>6, StepBrings
  <2>8. Stored(q, a)' >= t
    <3>1. Stored(q, a)' >= Stored(q, a)
      BY <1>1 DEF Forward
    <3> QED
      BY <1>3, <1>4, <2>5, <3>1
  <2> QED
    BY <2>7, <2>8
<1>8. CASE p \in Up /\ Stored(n, a)' = Stored(n, a)
  <2>1. Stored(n, a) >= t
    BY <1>3, <1>4, <1>8
  <2> QED
    BY <1>6, <1>7, <1>8, <2>1
<1>9. CASE p \in Up /\ Stored(n, a)' # Stored(n, a)
  <2>1. CASE ToAnnounce(n, a, Stored(n, a))'
    <3>1. Brings(n, p, a, Stored(n, a))'
      BY <2>1 DEF Brings
    <3> QED
      BY <1>3, <3>1
  <2>2. CASE \E k \in Node : Stored(k, a) >= Stored(n, a)'
    BY <1>4, <1>6, <1>7, <1>9, <2>2
  <2> QED
    BY <1>9, <2>1, <2>2, NewInBucket
\* p starts: whoever has it is asked, or down.
<1>10. CASE p \notin Up
  <2>1. Start(p)
    <3>1. status[p] = "down" /\ status'[p] # "down"
      BY <1>2, <1>10 DEF Up
    <3>2. ASSUME NEW k \in Node, Serve(k) PROVE FALSE
      BY <1>2, <3>1, <3>2 DEF Serve, TypeOK
    <3>3. ASSUME NEW k \in Node, Crash(k) PROVE FALSE
      BY <1>2, <3>1, <3>3 DEF Crash, TypeOK
    <3>4. ASSUME NEW k \in Node, Start(k) PROVE k = p
      BY <1>2, <3>1, <3>4 DEF Start, TypeOK
    <3>5. ~UNCHANGED status
      BY <3>1
    <3> QED
      BY <3>2, <3>3, <3>4, <3>5, ZenonT(60)
         DEF Next, Write, Work, Fault, vars, nodes, AccountRegistration,
             AccountUpdate, SetAccountReadWrite, Begin, StoreWrite,
             StoreWriteFails, BroadcastObject, AskNextPeer, AnswerAsk,
             AskFails, AccountsRequestReverse, MergeIntoCache,
             MergeIntoBucket, MergeIntoBucketFails, Lose
  <2>2. /\ status' = [status EXCEPT ![p] = "starting"]
        /\ toAsk' = [toAsk EXCEPT ![p] = Peers(p)]
        /\ cache' = [cache EXCEPT ![p] = disk[p]]
        /\ UNCHANGED disk
    BY <2>1 DEF Start
  <2>3. Told(p, a)' = Stored(p, a) /\ Stored(n, a)' = Stored(n, a)
    BY <1>1, <1>2, <2>2 DEF Told, Stored, TypeOK
  <2>4. n # p
    BY <1>3, <2>3
  <2>5. CASE n \in Up
    <3>1. n \in toAsk'[p]
      BY <1>2, <2>2, <2>4, <2>5 DEF Peers, TypeOK
    <3> QED
      BY <1>3, <3>1 DEF Brings
  <2>6. CASE n \notin Up
    <3>1. status'[n] = "down"
      BY <1>2, <2>2, <2>4, <2>6 DEF Up, TypeOK
    <3> QED
      BY <1>3, <3>1 DEF Brings
  <2> QED
    BY <2>5, <2>6
<1> QED
  BY <1>8, <1>9, <1>10

LEMMA AgreeInvariant == Spec => [](IInv /\ AgreeInv)
<1>1. Init => IInv /\ AgreeInv
  BY InitIInv, InitAgree
<1>2. IInv /\ AgreeInv /\ [Next]_vars => IInv' /\ AgreeInv'
  <2> SUFFICES ASSUME IInv, AgreeInv, [Next]_vars PROVE IInv' /\ AgreeInv'
    OBVIOUS
  <2>1. TypeOK /\ Running /\ WriterInv
    BY DEF IInv, WriterInv
  <2>2. /\ AskedBeforeServing /\ AsksAreTrue /\ BroadcastsAreSingle
        /\ ToldIsStored /\ AheadIsStoring
    BY DEF AgreeInv
  <2>3. IInv' /\ WillAgree'
    BY StepIInv, StepWillAgree
  <2>4. AskedBeforeServing' /\ BroadcastsAreSingle'
    BY <2>1, <2>2, StepAsked, StepSingle
  <2>5. AsksAreTrue'
    BY <2>1, <2>2, StepAsks
  <2>6. ToldIsStored'
    BY <2>1, <2>2, StepTold
  <2>7. AheadIsStoring'
    BY <2>1, <2>2, StepAhead
  <2> QED
    BY <2>3, <2>4, <2>5, <2>6, <2>7 DEF AgreeInv
<1> QED
  BY <1>1, <1>2, PTL DEF Spec

\* The exchange of accounts brings every node to the same version of what
\* nobody contested, in the cache and, if no commit failed, in the bucket,
\* whichever nodes were down or crashed while it was written: a broadcast,
\* the requests of a start and the reverse requests cover for each other.
THEOREM NodesAgree == Spec => []AgreeWhenQuiet
<1>1. IInv /\ AgreeInv => AgreeWhenQuiet
  <2> SUFFICES ASSUME IInv, AgreeInv, Quiet, drops = 0,
                      \A n \in Node : status[n] = "serving"
               PROVE  \A a \in Address \ contested, n, p \in Node :
                         /\ Told(n, a) = Told(p, a)
                         /\ diskErrors = 0 => Stored(n, a) = Stored(p, a)
    BY DEF AgreeWhenQuiet, Stored, Told
  <2> USE DEF IInv, AgreeInv
  <2> TAKE a \in Address \ contested
  <2>1. \A n \in Node : n \in Up /\ Stored(n, a) \in Nat /\ Told(n, a) \in Nat
    BY Versions DEF Up
  <2>2. \A q, p \in Node : ~Brings(q, p, a, Stored(q, a))
    BY DEF Brings, Telling, Reversing, Fetching, Merging, ToAnnounce, Quiet,
           AskedBeforeServing
  <2>3. ASSUME NEW n \in Node, NEW p \in Node
        PROVE  Stored(n, a) <= Told(p, a)
    <3>1. \A q \in Node : ~Brings(q, p, a, Stored(n, a))
      BY DEF Brings, Telling, Reversing, Fetching, Merging, ToAnnounce,
             Quiet, AskedBeforeServing
    <3> QED
      BY <2>1, <3>1 DEF WillAgree
  <2>4. ASSUME NEW n \in Node, NEW p \in Node
        PROVE  Told(n, a) <= Told(p, a)
    <3>1. PICK k \in Node : Stored(k, a) >= Told(n, a)
      BY <2>1 DEF ToldIsStored, InSomeBucket
    <3> QED
      BY <2>1, <2>3, <3>1
  <2>5. ASSUME NEW n \in Node, diskErrors = 0
        PROVE  Stored(n, a) = Told(n, a)
    <3>1. ~(Stored(n, a) < Told(n, a))
      BY <2>1, <2>5 DEF AheadIsStoring, Quiet
    <3> QED
      BY <2>1, <2>3, <3>1
  <2>6. \A n, p \in Node : Told(n, a) = Told(p, a)
    BY <2>1, <2>4
  <2> QED
    BY <2>5, <2>6
<1> QED
  BY <1>1, AgreeInvariant, PTL
=============================================================================
