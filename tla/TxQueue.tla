------------------------------ MODULE TxQueue ------------------------------
(***************************************************************************)
(* The transaction queue (pool/queue.go): a ring buffer of identifiers     *)
(* with a map from identifiers to elements, a mutex, a condition variable  *)
(* and a channel that tells subscribers that there is something to pop.    *)
(*                                                                         *)
(* A method holds the mutex from its first line to its return, except that *)
(* Pop gives it up while it waits.  The methods that do not wait are one   *)
(* step each; Pop is a step per identifier it takes out of the ring.       *)
(*                                                                         *)
(* minQueueLen (32) and the length below which resize quadruples (2 << 18) *)
(* are constants, to be scaled down.  newId draws random identifiers until *)
(* one is not in use; here it takes one that is neither in use nor left in *)
(* the ring by Remove (63 random bits do not repeat).                      *)
(***************************************************************************)
EXTENDS Integers, Sequences, FiniteSets

CONSTANTS
    Elem,           \* what callers put into the queue
    Nothing,        \* nil
    Consumer,       \* goroutines that call Pop
    minQueueLen,
    smallCount,     \* 2 << 18 in resize
    MaxCount,       \* bound on the identifiers in the ring
    Duplicates,     \* BOOLEAN: may an element be in the queue twice?
    CallsClean      \* BOOLEAN: does anyone call Clean?

ASSUME ConstantsAssumption ==
    /\ Nothing \notin Elem
    /\ minQueueLen \in Nat \ {0}
    /\ smallCount \in Nat /\ MaxCount \in Nat
    /\ Duplicates \in BOOLEAN /\ CallsClean \in BOOLEAN

VARIABLES
    items,        \* identifiers to elements
    ids,          \* elements to identifiers
    buf,          \* the ring; 0 is an empty slot
    head, tail,   \* indices into the ring, from 0
    count,
    NotEmpty,     \* the channel of capacity one holds a signal
    pc,           \* where each consumer is: "idle", "subscribe" (waits for
                  \* NotEmpty), "lock", "pop" (holds the mutex), "wait"
    signalled,    \* consumers that took a signal and have not popped yet
    taken,        \* what the last Pop of each consumer returned
    panicked      \* an index was out of range

ring == <<buf, head, tail, count>>
maps == <<items, ids>>
consumers == <<pc, signalled, taken>>
vars == <<items, ids, buf, head, tail, count, NotEmpty, pc, signalled, taken,
          panicked>>

Wrap(i, n) == i % n       \* the bitwise modulus: n is a power of two

With(f, k, v) == [x \in DOMAIN f \cup {k} |-> IF x = k THEN v ELSE f[x]]
Without(f, k) == [x \in DOMAIN f \ {k} |-> f[x]]
EmptyMap == [x \in {} |-> Nothing]
EmptyRing == [i \in 1..minQueueLen |-> 0]

\* No consumer holds the mutex, and the program is alive.
Free == ~panicked /\ \A c \in Consumer : pc[c] # "pop"

Id == 1..(MaxCount + 1)
Used == DOMAIN items \cup {buf[i] : i \in 1..Len(buf)}
newId == CHOOSE id \in Id \ Used : TRUE

\* Mutants: resize copies only one stretch of the ring; or the two in the
\* wrong order.
Contents_OneStretch(b, h, t) == SubSeq(b, h + 1, t)
Contents_WrongOrder(b, h, t) ==
    IF t > h THEN SubSeq(b, h + 1, t)
    ELSE SubSeq(b, 1, t) \o SubSeq(b, h + 1, Len(b))

\* The identifiers that resize copies, and the buffer it makes of them.
Contents(b, h, t) ==
    IF t > h THEN SubSeq(b, h + 1, t)
    ELSE SubSeq(b, h + 1, Len(b)) \o SubSeq(b, 1, t)

NewCount(c) == IF c < smallCount THEN 8 * c ELSE 2 * c

Resized(b, h, t, c) ==
    [i \in 1..NewCount(c) |->
        IF i <= Len(Contents(b, h, t)) THEN Contents(b, h, t)[i] ELSE 0]

\* The slices of resize are out of range.
BadSlice(b, h, t) == h > Len(b) \/ t > Len(b)

\* notify, in the state after the call that ends with it.
Notify == NotEmpty' = (NotEmpty \/ DOMAIN items' # {})

\* Mutants: the test comes before count++; or one waiting goroutine is woken.
WakeAll_TestsEarly ==
    pc' = IF count = 1
          THEN [c \in Consumer |-> IF pc[c] = "wait" THEN "lock" ELSE pc[c]]
          ELSE pc
WakeAll_WakesOne ==
    LET waiting == {c \in Consumer : pc[c] = "wait"}
    IN  IF count' = 1 /\ waiting # {}
        THEN \E c \in waiting : pc' = [pc EXCEPT ![c] = "lock"]
        ELSE pc' = pc

\* Broadcast when the first element has come.
WakeAll ==
    pc' = IF count' = 1
          THEN [c \in Consumer |-> IF pc[c] = "wait" THEN "lock" ELSE pc[c]]
          ELSE pc

-----------------------------------------------------------------------------

Init ==
    /\ items = EmptyMap /\ ids = EmptyMap
    /\ buf = EmptyRing /\ head = 0 /\ tail = 0 /\ count = 0
    /\ NotEmpty = FALSE
    /\ pc = [c \in Consumer |-> "idle"] /\ signalled = {}
    /\ taken = [c \in Consumer |-> Nothing]
    /\ panicked = FALSE

\* The caller of Append or Prepend: the bound, and pointers put only once.
MayPut(e) ==
    /\ Free /\ count < MaxCount
    /\ Duplicates \/ \A id \in DOMAIN items : items[id] # e

\* An index out of range ends the behaviour.
Panic == panicked' = TRUE /\ UNCHANGED <<ring, maps, NotEmpty, consumers>>

\* resize, if the ring is full, comes before the new identifier.
Full == count = Len(buf)
Room == IF Full THEN Resized(buf, head, tail, count) ELSE buf
RoomHead == IF Full THEN 0 ELSE head
RoomTail == IF Full THEN count ELSE tail

Store(e, id) == items' = With(items, id, e) /\ ids' = With(ids, e, id)

\* Append.
PutBack(e) ==
    /\ MayPut(e)
    /\ IF (Full /\ BadSlice(buf, head, tail)) \/ RoomTail >= Len(Room)
       THEN Panic
       ELSE /\ Store(e, newId)
            /\ buf' = [Room EXCEPT ![RoomTail + 1] = newId]
            /\ head' = RoomHead
            /\ tail' = Wrap(RoomTail + 1, Len(Room))
            /\ count' = count + 1
            /\ Notify /\ WakeAll
            /\ UNCHANGED <<signalled, taken, panicked>>

\* Prepend.
PutFront(e) ==
    /\ MayPut(e)
    /\ IF Full /\ BadSlice(buf, head, tail)
       THEN Panic
       ELSE /\ Store(e, newId)
            /\ head' = Wrap(RoomHead - 1, Len(Room))
            /\ buf' = [Room EXCEPT ![head' + 1] = newId]
            /\ tail' = RoomTail
            /\ count' = count + 1
            /\ Notify /\ WakeAll
            /\ UNCHANGED <<signalled, taken, panicked>>

\* Remove leaves the identifier in the ring; without one it does nothing.
Remove(e) ==
    /\ Free
    /\ e \in DOMAIN ids
    /\ items' = Without(items, ids[e])
    /\ ids' = Without(ids, e)
    /\ UNCHANGED <<ring, NotEmpty, consumers, panicked>>

\* Clean leaves head, tail, count and the channel as they are.
Clean ==
    /\ CallsClean /\ Free
    /\ items' = EmptyMap /\ ids' = EmptyMap /\ buf' = EmptyRing
    /\ UNCHANGED <<head, tail, count, NotEmpty, consumers, panicked>>

-----------------------------------------------------------------------------

Goto(c, step) == pc' = [pc EXCEPT ![c] = step]

\* A caller of Pop, which may wait for NotEmpty first.
Call(c) ==
    /\ ~panicked /\ pc[c] = "idle"
    /\ \E step \in {"subscribe", "lock"} : Goto(c, step)
    /\ UNCHANGED <<ring, maps, NotEmpty, signalled, taken, panicked>>

Receive(c) ==
    /\ ~panicked /\ pc[c] = "subscribe" /\ NotEmpty
    /\ NotEmpty' = FALSE
    /\ signalled' = signalled \cup {c}
    /\ Goto(c, "lock")
    /\ UNCHANGED <<ring, maps, taken, panicked>>

\* The mutex, at the start of Pop or when Wait returns.
Lock(c) ==
    /\ Free /\ pc[c] = "lock"
    /\ Goto(c, "pop")
    /\ UNCHANGED <<ring, maps, NotEmpty, signalled, taken, panicked>>

\* pop finds nothing and waits.
Wait(c) ==
    /\ ~panicked /\ pc[c] = "pop" /\ count = 0
    /\ Goto(c, "wait")
    /\ UNCHANGED <<ring, maps, NotEmpty, signalled, taken, panicked>>

\* Mutant: Pop does not notify.
Deliver_Silent(c, id) ==
    IF id \in DOMAIN items
    THEN /\ taken' = [taken EXCEPT ![c] = items[id]]
         /\ items' = Without(items, id)
         /\ ids' = Without(ids, items[id])
         /\ signalled' = signalled \ {c}
         /\ Goto(c, "idle")
         /\ UNCHANGED NotEmpty
    ELSE UNCHANGED <<maps, NotEmpty, consumers>>

\* Pop returns items[id] if it is there, and goes on with the next if not.
Deliver(c, id) ==
    IF id \in DOMAIN items
    THEN /\ taken' = [taken EXCEPT ![c] = items[id]]
         /\ items' = Without(items, id)
         /\ ids' = Without(ids, items[id])
         /\ Notify
         /\ signalled' = signalled \ {c}
         /\ Goto(c, "idle")
    ELSE UNCHANGED <<maps, NotEmpty, consumers>>

\* The loop of pop is left.
MayTake(c) == ~panicked /\ pc[c] = "pop" /\ count > 0

\* pop resizes when the ring is half full, unless it is the smallest.
HalfFull == Len(buf) > minQueueLen /\ 2 * (count - 1) = Len(buf)

TakeOut(c) ==
    /\ MayTake(c)
    /\ LET emptied == [buf EXCEPT ![head + 1] = 0]
           next == Wrap(head + 1, Len(buf))
       IN  IF head >= Len(buf) \/ (HalfFull /\ BadSlice(buf, next, tail))
           THEN Panic
           ELSE /\ count' = count - 1
                /\ IF HalfFull
                   THEN /\ buf' = Resized(emptied, next, tail, count - 1)
                        /\ head' = 0 /\ tail' = count - 1
                   ELSE buf' = emptied /\ head' = next /\ UNCHANGED tail
                /\ Deliver(c, buf[head + 1])
                /\ UNCHANGED panicked

Next ==
    \/ \E e \in Elem : PutBack(e) \/ PutFront(e) \/ Remove(e)
    \/ Clean
    \/ \E c \in Consumer : \/ Call(c) \/ Receive(c) \/ Lock(c)
                           \/ Wait(c) \/ TakeOut(c)

Spec == Init /\ [][Next]_vars

(***************************************************************************)
(* Goroutines are scheduled, and sync.Mutex hands itself to a goroutine    *)
(* that has waited for long.                                               *)
(***************************************************************************)
FairSpec ==
    /\ Spec
    /\ \A c \in Consumer : /\ SF_vars(Lock(c)) /\ SF_vars(Receive(c))
                           /\ WF_vars(Wait(c)) /\ WF_vars(TakeOut(c))

-----------------------------------------------------------------------------

TypeOK ==
    /\ DOMAIN items \subseteq Id /\ items \in [DOMAIN items -> Elem]
    /\ DOMAIN ids \subseteq Elem /\ ids \in [DOMAIN ids -> Id]
    /\ Len(buf) > 0 /\ buf \in [1..Len(buf) -> Id \cup {0}]
    /\ head \in 0..(Len(buf) - 1) /\ tail \in 0..(Len(buf) - 1)
    /\ count \in 0..Len(buf)
    /\ NotEmpty \in BOOLEAN /\ panicked \in BOOLEAN
    /\ pc \in [Consumer -> {"idle", "subscribe", "lock", "pop", "wait"}]
    /\ signalled \subseteq Consumer
    /\ taken \in [Consumer -> Elem \cup {Nothing}]

InRing(i) == \E k \in 0..(count - 1) : i = Wrap(head + k, Len(buf))

(***************************************************************************)
(* The ring survives growing, wrapping and resizing: the tail is count     *)
(* slots after the head, exactly the slots between them hold identifiers,  *)
(* each once, and every element can be reached from one of them (Append,   *)
(* Prepend, pop, resize).                                                  *)
(***************************************************************************)
RingIntact ==
    /\ tail = Wrap(head + count, Len(buf))
    /\ \A i \in 0..(Len(buf) - 1) : InRing(i) <=> buf[i + 1] # 0
    /\ \A i, j \in 1..Len(buf) : buf[i] # 0 /\ buf[i] = buf[j] => i = j
    /\ \A id \in DOMAIN items : \E i \in 1..Len(buf) : buf[i] = id

(***************************************************************************)
(* While elements are distinct, ids is the inverse of items, so that       *)
(* Remove always finds the identifier of its element (Remove, Pop).        *)
(***************************************************************************)
IdsMatch ==
    /\ DOMAIN ids = {items[id] : id \in DOMAIN items}
    /\ \A e \in DOMAIN ids : ids[e] \in DOMAIN items /\ items[ids[e]] = e

(***************************************************************************)
(* No wake-up is lost: a consumer waits only while the ring is empty,      *)
(* although Append and Prepend broadcast only for the first element.       *)
(***************************************************************************)
NoLostWakeUp == (\E c \in Consumer : pc[c] = "wait") => count = 0

(***************************************************************************)
(* A subscriber is told: while there is an element, the channel holds a    *)
(* signal or a consumer that took one has yet to pop ("subscribe to this   *)
(* channel to know whether queue is not empty").                           *)
(***************************************************************************)
SignalNotLost == DOMAIN items # {} => NotEmpty \/ signalled # {}

(***************************************************************************)
(* Whatever Clean leaves behind, count is never negative: the doubt in the *)
(* comment of pop, "sometimes it's less than 0", is unfounded.             *)
(***************************************************************************)
CountNeverNegative == count >= 0

(***************************************************************************)
(* A consumer that subscribes or calls Pop while there is an element       *)
(* returns with one, unless the others empty the queue on the way, or a    *)
(* call after Clean panics.                                                *)
(***************************************************************************)
PopReturns ==
    \A c \in Consumer :
        pc[c] # "idle" /\ DOMAIN items # {} ~>
            (pc[c] = "idle" \/ DOMAIN items = {} \/ panicked)

\* No method has indexed out of range.
NoIndexPanic == ~panicked

(***************************************************************************)
(* The queue is sound whatever sequence of calls came before, while nobody *)
(* calls Clean (which leaves head, tail and count of a ring it has thrown  *)
(* away): ring and maps fit together at every length at which resize       *)
(* copies, and no index is out of range.                                   *)
(***************************************************************************)
RingSound == TypeOK /\ RingIntact /\ IdsMatch /\ NoIndexPanic

-----------------------------------------------------------------------------

\* The values of a function of integers, in the order of its arguments.
Rank(P, k) == Cardinality({j \in P : j <= k})
InOrder(v) ==
    LET P == DOMAIN v
    IN  [r \in 1..Cardinality(P) |-> v[CHOOSE k \in P : Rank(P, k) = r]]

\* The elements in the order of the ring, those that Remove took out left out.
IdAt(k) == buf[Wrap(head + k, Len(buf)) + 1]
LiveAt == [k \in {j \in 0..(count - 1) : IdAt(j) \in DOMAIN items} |->
              items[IdAt(k)]]
Live == InOrder(LiveAt)

Deque == INSTANCE TxDeque WITH elems <- Live

\* The queue keeps the promises of TxDeque.
DequeSpec == Deque!Spec

=============================================================================
