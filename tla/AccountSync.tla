---------------------------- MODULE AccountSync ----------------------------
(***************************************************************************)
(* The accounts of several nodes: the HTTP handlers that register, update  *)
(* and grant (webapi/http.go), and the exchange between peers (the account *)
(* messages of p2p/p2p.go).                                                *)
(*                                                                         *)
(* A node keeps every account twice: in the accounts bucket (disk) and in  *)
(* the map Accounts (cache), which decides what it tells its peers.  The   *)
(* HTTP handlers read the bucket, write the bucket, then set the cache and *)
(* broadcast; a message sets the cache, then writes the bucket.  A node    *)
(* that starts asks every peer, and a peer that sees in such a request     *)
(* that the other knows more asks back.  The larger LastModified wins.     *)
(*                                                                         *)
(* A goroutine in the middle of its work is a record in one of four sets;  *)
(* two of them that are equal count once.  Accounts with the role "admin"  *)
(* belong to one node and are left out.  A broadcast that has not arrived  *)
(* is a merge that has not begun.                                          *)
(***************************************************************************)
EXTENDS Integers, FiniteSets

CONSTANTS
    Node, Address,
    MaxTime,        \* bound on the clock: LastModified is in 1..MaxTime
    MaxWrites,      \* bound on the HTTP requests of a behaviour
    MaxGrants,      \* how many of them may be SetAccountReadWrite
    MaxCrashes,     \* bound on the crashes of a behaviour
    MaxDrops,       \* bound on the messages lost without a crash
    MaxDiskErrors   \* bound on the failed commits of a behaviour

ASSUME ConstantsAssumption ==
    /\ MaxTime \in Nat /\ MaxWrites \in Nat /\ MaxGrants \in Nat
    /\ MaxCrashes \in Nat /\ MaxDrops \in Nat /\ MaxDiskErrors \in Nat

Time == 1..MaxTime
\* What the properties need of an Account: LastModified, and whether its role
\* lists collections to write.  No account is what IsEmpty accepts.
Account == [lastModified : Time, writes : BOOLEAN]
NoAccount == [lastModified |-> 0, writes |-> FALSE]
AccountOrNone == Account \cup {NoAccount}
Entry == [address : Address, account : Account]

\* HTTP handlers between their View and their answer.
Handler == [node : Node, address : Address, account : Account,
            grant : BOOLEAN, at : {"store", "announce"}]
\* sendAccountsRequest, waiting for the answer; by is "main" in the start.
Ask == [from : Node, to : Node, by : {"main", "worker"},
        known : [Address -> Time \cup {0}]]
\* accountsRequestReverse, after the answer has been sent.
Reverse == [node : Node, peer : Node, known : [Address -> Time \cup {0}]]
\* The loop over the accounts of a message: those not yet looked at, and the
\* one that is in the cache and not in the bucket yet (none or one).
Merge == [node : Node, from : Node, by : {"main", "worker", "broadcast"},
          todo : SUBSET Entry, storing : SUBSET Entry]

VARIABLES
    status,      \* "down", "starting" (it listens, no HTTP yet) or "serving"
    toAsk,       \* SyncAccountsFromPeers: the peers it has still to ask
    cache,       \* P2P.Accounts of each node
    disk,        \* the accounts bucket of each node
    handlers, asks, reverses, merges,
    answered,    \* history: LastModified of the last write answered with 200
    granted,     \* history: the addresses that were ever granted to write
    contested,   \* history: see Contest
    writes, grants, crashes, drops, diskErrors   \* history: how many so far

tasks == <<handlers, asks, reverses, merges>>
nodes == <<status, toAsk>>
stores == <<cache, disk>>
history == <<answered, granted, contested>>
counts == <<writes, grants, crashes, drops, diskErrors>>
vars == <<nodes, stores, tasks, history, counts>>

Up == {n \in Node : status[n] # "down"}
Peers(n) == Up \ {n}
Known(n) == [a \in Address |-> cache[n][a].lastModified]
Version(a, v) == [address |-> a, account |-> v]

-----------------------------------------------------------------------------

\* Databases that keygen or a first start has made; any node may be down.
Init ==
    /\ status \in [Node -> {"down", "serving"}]
    /\ toAsk = [n \in Node |-> {}]
    /\ cache = [n \in Node |-> [a \in Address |-> NoAccount]]
    /\ disk = cache
    /\ handlers = {} /\ asks = {} /\ reverses = {} /\ merges = {}
    /\ answered = [n \in Node |-> [a \in Address |-> 0]]
    /\ granted = {} /\ contested = {}
    /\ writes = 0 /\ grants = 0 /\ crashes = 0 /\ drops = 0 /\ diskErrors = 0

-----------------------------------------------------------------------------
(* The HTTP handlers.                                                      *)

\* Another goroutine of the node has the account half stored.
Racing(n, a) ==
    \/ \E h \in handlers : h.node = n /\ h.address = a
    \/ \E m \in merges : /\ m.node = n
                         /\ \E e \in m.storing : e.address = a

\* The clocks are no help: the time is not ahead of the node's own version,
\* or another version has the same.
SameTime(n, a, time) ==
    \/ cache[n][a].lastModified >= time \/ disk[n][a].lastModified >= time
    \/ \E p \in Node : time \in {cache[p][a].lastModified,
                               disk[p][a].lastModified}
    \/ \E h \in handlers : h.address = a /\ h.account.lastModified = time
    \/ \E m \in merges : \E e \in m.todo \cup m.storing :
           e.address = a /\ e.account.lastModified = time

\* Which version stays is nobody's promise once two goroutines of a node
\* have stored an account at the same time, or its clock was of no help.
Contest(a, unclear) == contested' = IF unclear THEN contested \cup {a}
                                               ELSE contested

Begin(n, a, account, grant) ==
    /\ writes < MaxWrites /\ writes' = writes + 1
    /\ handlers' = handlers \cup
                     {[node |-> n, address |-> a, account |-> account,
                       grant |-> grant, at |-> "store"]}
    /\ UNCHANGED <<nodes, stores, asks, reverses, merges, answered,
                   crashes, drops, diskErrors>>

\* Mutant: the permissions of the request are not cleared.
AccountRegistration_KeepsRole(n, a) ==
    /\ status[n] = "serving" /\ disk[n][a] = NoAccount
    /\ \E time \in Time, w \in BOOLEAN :
         /\ Begin(n, a, [lastModified |-> time, writes |-> w], FALSE)
         /\ Contest(a, Racing(n, a) \/ SameTime(n, a, time))
    /\ UNCHANGED <<granted, grants>>

\* AccountRegistration up to its View: the address must be free, and the
\* role comes without permissions.
AccountRegistration(n, a) ==
    /\ status[n] = "serving" /\ disk[n][a] = NoAccount
    /\ \E time \in Time :
         /\ Begin(n, a, [lastModified |-> time, writes |-> FALSE], FALSE)
         /\ Contest(a, Racing(n, a) \/ SameTime(n, a, time))
    /\ UNCHANGED <<granted, grants>>

\* AccountUpdate up to its View: the role of the bucket is kept.
AccountUpdate(n, a) ==
    /\ status[n] = "serving" /\ disk[n][a] # NoAccount
    /\ \E time \in Time :
         /\ Begin(n, a, [disk[n][a] EXCEPT !.lastModified = time], FALSE)
         /\ Contest(a, Racing(n, a) \/ SameTime(n, a, time))
    /\ UNCHANGED <<granted, grants>>

\* SetAccountReadWrite up to its View: a new role, LastModified is kept.
SetAccountReadWrite(n, a) ==
    /\ status[n] = "serving" /\ disk[n][a] # NoAccount
    /\ grants < MaxGrants /\ grants' = grants + 1
    /\ \E w \in BOOLEAN :
         /\ Begin(n, a, [disk[n][a] EXCEPT !.writes = w], TRUE)
         /\ granted' = (IF w THEN granted \cup {a} ELSE granted)
    /\ Contest(a, Racing(n, a))

\* RegisterAccount commits.  SetAccountReadWrite answers here: it neither
\* sets the cache nor tells the peers.
StoreWrite(h) ==
    /\ h.at = "store"
    /\ disk' = [disk EXCEPT ![h.node][h.address] = h.account]
    /\ handlers' = (handlers \ {h}) \cup
                     (IF h.grant THEN {} ELSE {[h EXCEPT !.at = "announce"]})
    /\ UNCHANGED <<nodes, cache, asks, reverses, merges, history, counts>>

\* RegisterAccount fails: 400, and no broadcast.
StoreWriteFails(h) ==
    /\ h.at = "store"
    /\ diskErrors < MaxDiskErrors /\ diskErrors' = diskErrors + 1
    /\ handlers' = handlers \ {h}
    /\ UNCHANGED <<nodes, stores, asks, reverses, merges, history,
                   writes, grants, crashes, drops>>

Broadcast(n, e) ==
    {[node |-> p, from |-> n, by |-> "broadcast", todo |-> {e},
      storing |-> {}] : p \in Peers(n)}

\* Mutant: the account is answered and kept, and not put into the cache.
BroadcastObject_NoCache(h) ==
    /\ h.at = "announce"
    /\ merges' = merges \cup Broadcast(h.node, Version(h.address, h.account))
    /\ answered' = [answered EXCEPT ![h.node][h.address] =
                                      h.account.lastModified]
    /\ handlers' = handlers \ {h}
    /\ UNCHANGED <<nodes, stores, asks, reverses, granted, contested, counts>>

\* BroadcastObject: the cache is set whatever it holds, every peer in the
\* table gets a message; then the answer, 200.
BroadcastObject(h) ==
    /\ h.at = "announce"
    /\ cache' = [cache EXCEPT ![h.node][h.address] = h.account]
    /\ merges' = merges \cup Broadcast(h.node, Version(h.address, h.account))
    /\ answered' = [answered EXCEPT ![h.node][h.address] =
                                      h.account.lastModified]
    /\ handlers' = handlers \ {h}
    /\ UNCHANGED <<nodes, disk, asks, reverses, granted, contested, counts>>

-----------------------------------------------------------------------------
(* The exchange between peers.                                             *)

AskFor(n, peer, by) ==
    [from |-> n, to |-> peer, by |-> by, known |-> Known(n)]

MainIsWaiting(n) ==
    \/ \E q \in asks : q.from = n /\ q.by = "main"
    \/ \E m \in merges : m.node = n /\ m.by = "main"

\* SyncAccountsFromPeers, one peer after the other.
AskNextPeer(n) ==
    /\ status[n] = "starting" /\ ~MainIsWaiting(n)
    /\ \E p \in toAsk[n] :
         /\ toAsk' = [toAsk EXCEPT ![n] = @ \ {p}]
         /\ asks' = (IF p \in Up THEN asks \cup {AskFor(n, p, "main")}
                                 ELSE asks)
    /\ UNCHANGED <<status, stores, handlers, reverses, merges, history,
                   counts>>

\* The syncs are done: server begins to serve HTTP.
Serve(n) ==
    /\ status[n] = "starting" /\ toAsk[n] = {} /\ ~MainIsWaiting(n)
    /\ status' = [status EXCEPT ![n] = "serving"]
    /\ UNCHANGED <<toAsk, stores, tasks, history, counts>>

\* Mutant: only the accounts that the peer lacks, not those it has older.
NewerThan_OnlyMissing(n, known) ==
    {Version(a, cache[n][a]) : a \in {x \in Address :
        cache[n][x].lastModified > 0 /\ known[x] = 0}}

\* handleAccountsRequest: the accounts that the peer lacks or has older.
NewerThan(n, known) ==
    {Version(a, cache[n][a]) : a \in {x \in Address :
        cache[n][x].lastModified > known[x]}}

\* A loop over the accounts of a message, unless it is over.
Rest(m) == {x \in {m} : x.todo # {} \/ x.storing # {}}

\* The handler over there sends its answer; ours loops over the accounts.
AnswerAsk(q) ==
    /\ asks' = asks \ {q}
    /\ merges' = merges \cup Rest([node |-> q.from, from |-> q.to, by |-> q.by,
                                   todo |-> NewerThan(q.to, q.known),
                                   storing |-> {}])
    /\ reverses' = reverses \cup {[node |-> q.to, peer |-> q.from,
                                   known |-> q.known]}
    /\ UNCHANGED <<nodes, stores, handlers, history, counts>>

\* RequestMessage times out: nothing is merged and nothing is asked again.
AskFails(q) ==
    /\ drops < MaxDrops /\ drops' = drops + 1
    /\ asks' = asks \ {q}
    /\ UNCHANGED <<nodes, stores, handlers, reverses, merges, history,
                   writes, grants, crashes, diskErrors>>

\* Mutant: the peer is asked back whatever it knows.
KnowsMore_Always(n, known) == TRUE

\* The test of accountsRequestReverse.
KnowsMore(n, known) ==
    \E a \in Address : known[a] > cache[n][a].lastModified

\* accountsRequestReverse: ask back when the peer knows more.
AccountsRequestReverse(r) ==
    /\ reverses' = reverses \ {r}
    /\ asks' = (IF KnowsMore(r.node, r.known) /\ r.peer \in Up
                THEN asks \cup {AskFor(r.node, r.peer, "worker")} ELSE asks)
    /\ UNCHANGED <<nodes, stores, handlers, merges, history, counts>>

\* Mutant: the version of the message replaces any other.
Accept_Any(n, e) == cache[n][e.address] # e.account

\* Is the account of the message new here, by the cache?
Accept(n, e) == cache[n][e.address].lastModified < e.account.lastModified

\* One round of the loop: skip the account, or put it into the cache.
MergeIntoCache(m) ==
    /\ m.storing = {}
    /\ \E e \in m.todo :
         LET rest == [m EXCEPT !.todo = @ \ {e}]
             next == IF Accept(m.node, e)
                     THEN [rest EXCEPT !.storing = {e}] ELSE rest
         IN  /\ merges' = (merges \ {m}) \cup Rest(next)
             /\ cache' = (IF Accept(m.node, e)
                          THEN [cache EXCEPT ![m.node][e.address] = e.account]
                          ELSE cache)
             /\ Contest(e.address, Racing(m.node, e.address))
    /\ UNCHANGED <<nodes, disk, handlers, asks, reverses, answered, granted,
                   counts>>

\* The other half of the round: RegisterAccount.
MergeIntoBucket(m) ==
    /\ \E e \in m.storing :
         /\ merges' = (merges \ {m}) \cup Rest([m EXCEPT !.storing = {}])
         /\ disk' = [disk EXCEPT ![m.node][e.address] = e.account]
    /\ UNCHANGED <<nodes, cache, handlers, asks, reverses, history, counts>>

\* RegisterAccount fails: the handler of a broadcast returns, the loop of
\* sendAccountsRequest goes on.
MergeIntoBucketFails(m) ==
    /\ m.storing # {}
    /\ diskErrors < MaxDiskErrors /\ diskErrors' = diskErrors + 1
    /\ merges' = (merges \ {m}) \cup
                   (IF m.by = "broadcast" THEN {}
                    ELSE Rest([m EXCEPT !.storing = {}]))
    /\ UNCHANGED <<nodes, stores, handlers, asks, reverses, history,
                   writes, grants, crashes, drops>>

\* A broadcast is lost: SendMessage fails, or the peer is not in the table.
Lose(m) ==
    /\ m.by = "broadcast" /\ m.todo # {}
    /\ drops < MaxDrops /\ drops' = drops + 1
    /\ merges' = merges \ {m}
    /\ UNCHANGED <<nodes, stores, handlers, asks, reverses, history,
                   writes, grants, crashes, diskErrors>>

-----------------------------------------------------------------------------
(* Faults and restarts.                                                    *)

\* The process ends: what it did is gone, and so is any part of what it had
\* sent (a broadcast reaches the peers one after the other).
Crash(n) ==
    /\ status[n] # "down" /\ crashes < MaxCrashes
    /\ crashes' = crashes + 1
    /\ status' = [status EXCEPT ![n] = "down"]
    /\ toAsk' = [toAsk EXCEPT ![n] = {}]
    /\ handlers' = {h \in handlers : h.node # n}
    /\ asks' = {q \in asks : q.from # n /\ q.to # n}
    /\ reverses' = {r \in reverses : r.node # n}
    /\ \E lost \in SUBSET {m \in merges : /\ m.from = n /\ m.todo # {}
                                          /\ m.by = "broadcast"} :
         merges' = {m \in merges : m.node # n} \ lost
    /\ UNCHANGED <<stores, history, writes, grants, drops, diskErrors>>

\* NewP2P: initializeAccounts, listen, bootstrap.  The peers that run are in
\* the table from here on.
Start(n) ==
    /\ status[n] = "down"
    /\ status' = [status EXCEPT ![n] = "starting"]
    /\ toAsk' = [toAsk EXCEPT ![n] = Peers(n)]
    /\ cache' = [cache EXCEPT ![n] = disk[n]]
    /\ UNCHANGED <<disk, tasks, history, counts>>

-----------------------------------------------------------------------------

Write ==
    \E n \in Node, a \in Address :
        \/ AccountRegistration(n, a)
        \/ AccountUpdate(n, a)
        \/ SetAccountReadWrite(n, a)

Work ==
    \/ \E h \in handlers : StoreWrite(h) \/ BroadcastObject(h)
    \/ \E n \in Node : AskNextPeer(n) \/ Serve(n)
    \/ \E q \in asks : AnswerAsk(q)
    \/ \E r \in reverses : AccountsRequestReverse(r)
    \/ \E m \in merges : MergeIntoCache(m) \/ MergeIntoBucket(m)

Fault ==
    \/ \E h \in handlers : StoreWriteFails(h)
    \/ \E q \in asks : AskFails(q)
    \/ \E m \in merges : MergeIntoBucketFails(m) \/ Lose(m)
    \/ \E n \in Node : Crash(n)

Next == Write \/ Work \/ Fault \/ \E n \in Node : Start(n)

Spec == Init /\ [][Next]_vars

\* A goroutine that can go on does, and a request is answered while both
\* nodes run; nobody has to write, to start a node or to break one.  What
\* is asked here of all goroutines of a node together follows from the same
\* for each of them.
Fairness ==
    \A n \in Node :
        /\ WF_vars(\E h \in handlers : h.node = n /\ StoreWrite(h))
        /\ WF_vars(\E h \in handlers : h.node = n /\ BroadcastObject(h))
        /\ WF_vars(AskNextPeer(n) \/ Serve(n))
        /\ WF_vars(\E q \in asks : q.to = n /\ AnswerAsk(q))
        /\ WF_vars(\E r \in reverses : r.node = n /\ AccountsRequestReverse(r))
        /\ WF_vars(\E m \in merges : m.node = n /\ MergeIntoCache(m))
        /\ WF_vars(\E m \in merges : m.node = n /\ MergeIntoBucket(m))

FairSpec == Spec /\ Fairness

-----------------------------------------------------------------------------
(* Properties.                                                             *)

TypeOK ==
    /\ status \in [Node -> {"down", "starting", "serving"}]
    /\ toAsk \in [Node -> SUBSET Node]
    /\ cache \in [Node -> [Address -> AccountOrNone]]
    /\ disk \in [Node -> [Address -> AccountOrNone]]
    /\ handlers \subseteq Handler
    /\ asks \subseteq Ask
    /\ reverses \subseteq Reverse
    /\ merges \subseteq Merge
    /\ answered \in [Node -> [Address -> Time \cup {0}]]
    /\ granted \subseteq Address
    /\ contested \subseteq Address
    /\ writes \in Nat /\ grants \in Nat /\ crashes \in Nat
    /\ drops \in Nat /\ diskErrors \in Nat

Quiet == handlers = {} /\ asks = {} /\ reverses = {} /\ merges = {}

\* When every node serves and nothing is on its way, all nodes have the same
\* version of an account that no two writes contested, whatever was down
\* while it was written: the exchange in both directions makes up for it.
\* The buckets agree too if no commit failed.
AgreeWhenQuiet ==
    Quiet /\ drops = 0 /\ (\A n \in Node : status[n] = "serving") =>
        \A a \in Address \ contested, n, p \in Node :
            /\ cache[n][a].lastModified = cache[p][a].lastModified
            /\ diskErrors = 0 =>
                 disk[n][a].lastModified = disk[p][a].lastModified

\* A write that was answered with 200 is in the bucket of that node for
\* good: no crash and no message of a peer takes the account away, and none
\* puts an older version into its place if nobody contested the write.
AnsweredKept ==
    \A n \in Node, a \in Address : answered[n][a] > 0 =>
        /\ disk[n][a] # NoAccount
        /\ a \notin contested => disk[n][a].lastModified >= answered[n][a]

\* An account that may write, in any bucket, cache, handler or message of
\* any node, is one that SetAccountReadWrite granted it to: registration
\* clears the role and the exchange never makes one up (http.go:505, 639).
PermissionsGranted ==
    \A a \in Address \ granted :
        /\ \A n \in Node : ~disk[n][a].writes /\ ~cache[n][a].writes
        /\ \A h \in handlers : h.address = a => ~h.account.writes
        /\ \A m \in merges : \A e \in m.todo \cup m.storing :
               e.address = a => ~e.account.writes

\* While a node runs, what it tells its peers of an account that nobody
\* contested never goes back to an older version, and neither does its
\* bucket, over restarts too.
NeverBackwards ==
    [][\A n \in Node, a \in Address \ contested' :
        /\ disk'[n][a].lastModified >= disk[n][a].lastModified
        /\ status[n] # "down" =>
             cache'[n][a].lastModified >= cache[n][a].lastModified]_vars

\* Peers that ask each other back stop doing so: in the end nothing is on
\* its way (accountsRequestReverse is called in the handler of a request
\* that may be such a reverse request itself).
ExchangeEnds == <>[]Quiet
=============================================================================
