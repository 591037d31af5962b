--------------------------- MODULE TxQueueProofs ---------------------------
(***************************************************************************)
(* Proofs about pool/queue.go.  What its waiting side guarantees, for any  *)
(* number of elements and consumers, whether or not Clean is called; and   *)
(* that the ring and the maps fit together while elements are distinct and *)
(* nobody calls Clean, for rings of any length.                            *)
(*                                                                         *)
(* The second part looks at the ring from its head: IsRing says what is    *)
(* found k slots further on, and one lemma for each of Append, Prepend,    *)
(* pop and resize says how that changes.                                   *)
(*                                                                         *)
(* The third part shows that callers see a double-ended queue: Live lists  *)
(* what the ring holds by the rank of its slot, and the lemmas on Rank and *)
(* InOrder say what happens to such a list when its first, its last or any *)
(* argument goes, and when all of them move by one.                        *)
(***************************************************************************)
EXTENDS TxQueue, FiniteSetTheorems, TLAPS

\* NoLostWakeUp needs to know that count is a natural number, and that every
\* consumer is somewhere.
Places == {"idle", "subscribe", "lock", "pop", "wait"}
WakeInv == count \in Nat /\ pc \in [Consumer -> Places] /\ NoLostWakeUp

-----------------------------------------------------------------------------

\* An insertion wakes everyone who waits if it is the first; if it is not,
\* nobody waits.
LEMMA InsertionWakes ==
    ASSUME WakeInv, count' = count + 1, WakeAll
    PROVE  WakeInv'
<1>1. count' \in Nat /\ pc' \in [Consumer -> Places]
    BY DEF WakeInv, WakeAll, Places
<1>2. CASE count' = 1
    <2>1. \A c \in Consumer : pc'[c] # "wait"
        BY <1>2 DEF WakeAll
    <2> QED BY <1>1, <2>1 DEF WakeInv, NoLostWakeUp
<1>3. CASE count' # 1
    <2>1. count # 0 /\ pc' = pc
        BY <1>3 DEF WakeAll, WakeInv
    <2>2. \A c \in Consumer : pc[c] # "wait"
        BY <2>1 DEF WakeInv, NoLostWakeUp
    <2> QED BY <1>1, <2>1, <2>2 DEF WakeInv, NoLostWakeUp
<1> QED BY <1>2, <1>3

LEMMA WakeInit == Init => WakeInv
BY DEF Init, WakeInv, NoLostWakeUp, Places

LEMMA WakeStep == WakeInv /\ [Next]_vars => WakeInv'
<1> SUFFICES ASSUME WakeInv, [Next]_vars PROVE WakeInv'
    OBVIOUS
<1>a. ASSUME Panic PROVE WakeInv'
    BY <1>a DEF Panic, ring, consumers, WakeInv, NoLostWakeUp
<1>1. ASSUME NEW e \in Elem, PutBack(e) PROVE WakeInv'
    BY <1>1, <1>a, InsertionWakes DEF PutBack
<1>2. ASSUME NEW e \in Elem, PutFront(e) PROVE WakeInv'
    BY <1>2, <1>a, InsertionWakes DEF PutFront
<1>3. ASSUME NEW e \in Elem, Remove(e) PROVE WakeInv'
    BY <1>3 DEF Remove, ring, consumers, WakeInv, NoLostWakeUp
<1>4. CASE Clean
    BY <1>4 DEF Clean, consumers, WakeInv, NoLostWakeUp
<1>5. ASSUME NEW c \in Consumer,
             Call(c) \/ Receive(c) \/ Lock(c)
      PROVE  WakeInv'
    <2>1. count' = count
        BY <1>5 DEF Call, Receive, Lock, ring
    <2>2. PICK step \in Places \ {"wait"} : pc' = [pc EXCEPT ![c] = step]
        BY <1>5 DEF Call, Receive, Lock, Goto, Places
    <2>3. /\ pc' \in [Consumer -> Places]
          /\ \A d \in Consumer : pc'[d] = "wait" => pc[d] = "wait"
        BY <2>2 DEF WakeInv
    <2> QED BY <2>1, <2>3 DEF WakeInv, NoLostWakeUp
<1>6. ASSUME NEW c \in Consumer, Wait(c) PROVE WakeInv'
    BY <1>6 DEF Wait, Goto, Places, ring, WakeInv, NoLostWakeUp
<1>7. ASSUME NEW c \in Consumer, TakeOut(c) PROVE WakeInv'
    <2>1. count > 0 /\ \A d \in Consumer : pc[d] # "wait"
        BY <1>7 DEF TakeOut, MayTake, WakeInv, NoLostWakeUp
    <2>2. \/ Panic
          \/ count' = count - 1 /\ Deliver(c, buf[head + 1])
        BY <1>7 DEF TakeOut
    <2>3. CASE count' = count - 1 /\ Deliver(c, buf[head + 1])
        <3>1. pc' = pc \/ pc' = [pc EXCEPT ![c] = "idle"]
            BY <2>3 DEF Deliver, Goto, consumers
        <3>2. /\ pc' \in [Consumer -> Places]
              /\ \A d \in Consumer : pc'[d] # "wait"
            BY <2>1, <3>1 DEF WakeInv, Places
        <3> QED BY <2>1, <2>3, <3>2 DEF WakeInv, NoLostWakeUp
    <2> QED BY <1>a, <2>2, <2>3
<1>8. CASE UNCHANGED vars
    BY <1>8 DEF vars, WakeInv, NoLostWakeUp
<1> QED BY <1>1, <1>2, <1>3, <1>4, <1>5, <1>6, <1>7, <1>8 DEF Next

(***************************************************************************)
(* count is never negative, Clean or not: Wait is always followed by       *)
(* another look at it (pop).                                               *)
(***************************************************************************)
THEOREM CountStaysNatural == Spec => []CountNeverNegative
<1>1. WakeInv => CountNeverNegative
    BY DEF WakeInv, CountNeverNegative
<1> QED BY <1>1, WakeInit, WakeStep, PTL DEF Spec

(***************************************************************************)
(* Nobody waits while the ring holds an identifier, although Append and    *)
(* Prepend broadcast only for the first.                                   *)
(***************************************************************************)
THEOREM WakeUpsArrive == Spec => []NoLostWakeUp
<1>1. WakeInv => NoLostWakeUp
    BY DEF WakeInv
<1> QED BY <1>1, WakeInit, WakeStep, PTL DEF Spec

-----------------------------------------------------------------------------

LEMMA SignalInit == Init => SignalNotLost
BY DEF Init, SignalNotLost, EmptyMap

LEMMA SignalStep == SignalNotLost /\ [Next]_vars => SignalNotLost'
<1> SUFFICES ASSUME SignalNotLost, [Next]_vars PROVE SignalNotLost'
    OBVIOUS
<1>a. ASSUME Panic PROVE SignalNotLost'
    BY <1>a DEF Panic, maps, consumers, SignalNotLost
<1>b. ASSUME Notify PROVE SignalNotLost'
    BY <1>b DEF Notify, SignalNotLost
<1>1. ASSUME NEW e \in Elem, PutBack(e) PROVE SignalNotLost'
    BY <1>1, <1>a, <1>b DEF PutBack
<1>2. ASSUME NEW e \in Elem, PutFront(e) PROVE SignalNotLost'
    BY <1>2, <1>a, <1>b DEF PutFront
<1>3. ASSUME NEW e \in Elem, Remove(e) PROVE SignalNotLost'
    <2>1. DOMAIN items' \subseteq DOMAIN items
        BY <1>3 DEF Remove, Without
    <2> QED BY <1>3, <2>1 DEF Remove, consumers, SignalNotLost
<1>4. CASE Clean
    BY <1>4 DEF Clean, EmptyMap, SignalNotLost
<1>5. ASSUME NEW c \in Consumer, Receive(c) PROVE SignalNotLost'
    <2>1. c \in signalled'
        BY <1>5 DEF Receive
    <2> QED BY <2>1 DEF SignalNotLost
<1>6. ASSUME NEW c \in Consumer, Call(c) \/ Lock(c) \/ Wait(c)
      PROVE  SignalNotLost'
    BY <1>6 DEF Call, Lock, Wait, maps, SignalNotLost
<1>7. ASSUME NEW c \in Consumer, TakeOut(c) PROVE SignalNotLost'
    <2>1. Panic \/ Deliver(c, buf[head + 1])
        BY <1>7 DEF TakeOut
    <2>2. CASE Deliver(c, buf[head + 1])
        BY <1>b, <2>2 DEF Deliver, maps, consumers, SignalNotLost
    <2> QED BY <1>a, <2>1, <2>2
<1>8. CASE UNCHANGED vars
    BY <1>8 DEF vars, SignalNotLost
<1> QED BY <1>1, <1>2, <1>3, <1>4, <1>5, <1>6, <1>7, <1>8 DEF Next

(***************************************************************************)
(* A subscriber never misses an element: the channel of capacity one and   *)
(* the signals taken from it cover the queue at every moment (notify).     *)
(***************************************************************************)
THEOREM SubscribersAreTold == Spec => []SignalNotLost
BY SignalInit, SignalStep, PTL DEF Spec

-----------------------------------------------------------------------------

\* The slot k places after h in the ring b, and what is there.
Slot(b, h, k) == IF h + k < Len(b) THEN h + k ELSE h + k - Len(b)
At(b, h, k) == b[Slot(b, h, k) + 1]

\* c different identifiers lie in the ring from h to t, and zeros elsewhere.
IsRing(b, h, t, c) ==
    /\ b \in Seq(Id \cup {0}) /\ Len(b) > 0
    /\ h \in 0..(Len(b) - 1) /\ c \in 0..Len(b)
    /\ t = Slot(b, h, c)
    /\ \A k \in 0..(Len(b) - 1) : At(b, h, k) # 0 <=> k < c
    /\ \A k, l \in 0..(c - 1) : At(b, h, k) = At(b, h, l) => k = l

\* b with id in slot i.
Written(b, i, id) == [b EXCEPT ![i + 1] = id]

InSlots(b, h, c) == {At(b, h, k) : k \in 0..(c - 1)}

-----------------------------------------------------------------------------

\* Wrap, without the remainder.
LEMMA WrapIs ==
    ASSUME NEW n \in Nat \ {0}, NEW i \in (0 - 1)..(2 * n - 1)
    PROVE  Wrap(i, n) = IF i < 0 THEN i + n ELSE IF i < n THEN i ELSE i - n
  BY DEF Wrap

\* A ring has no identifier but those in its slots, and 0 is none.
LEMMA RingFacts ==
    ASSUME NEW b, NEW h, NEW t, NEW c, IsRing(b, h, t, c)
    PROVE  /\ Len(b) \in Nat \ {0} /\ t \in 0..(Len(b) - 1)
           /\ InSlots(b, h, c) \subseteq Id
           /\ \A i \in 1..Len(b) : b[i] # 0 => b[i] \in InSlots(b, h, c)
<1>1. Len(b) \in Nat \ {0} /\ t \in 0..(Len(b) - 1)
  BY DEF IsRing, Slot
<1>2. \A k \in 0..(Len(b) - 1) : Slot(b, h, k) + 1 \in 1..Len(b)
  BY <1>1 DEF IsRing, Slot
<1>3. InSlots(b, h, c) \subseteq Id
  <2> SUFFICES ASSUME NEW k \in 0..(c - 1) PROVE At(b, h, k) \in Id
    BY DEF InSlots
  <2>1. k \in 0..(Len(b) - 1) /\ k < c
    BY <1>1 DEF IsRing
  <2>2. At(b, h, k) # 0 /\ At(b, h, k) \in Id \cup {0}
    BY <1>2, <2>1 DEF IsRing, At
  <2> QED
    BY <2>2
<1>4. ASSUME NEW i \in 1..Len(b), b[i] # 0 PROVE b[i] \in InSlots(b, h, c)
  <2> DEFINE k == IF i > h THEN i - 1 - h ELSE i - 1 - h + Len(b)
  <2>1. k \in 0..(Len(b) - 1) /\ Slot(b, h, k) + 1 = i
    BY <1>1 DEF IsRing, Slot
  <2> HIDE DEF k
  <2>2. k < c
    BY <1>4, <2>1 DEF IsRing, At
  <2> QED
    BY <1>1, <2>1, <2>2 DEF InSlots, At, IsRing
<1> QED
  BY <1>1, <1>3, <1>4

LEMMA PutAt ==
    ASSUME NEW S, NEW b \in Seq(S), NEW i \in 1..Len(b), NEW x \in S
    PROVE  /\ [b EXCEPT ![i] = x] \in Seq(S)
           /\ Len([b EXCEPT ![i] = x]) = Len(b)
           /\ \A j \in 1..Len(b) :
                 [b EXCEPT ![i] = x][j] = IF j = i THEN x ELSE b[j]
  OBVIOUS

\* Append's part of the ring.
LEMMA PushBack ==
    ASSUME NEW b, NEW h, NEW t, NEW c, IsRing(b, h, t, c), c < Len(b),
           NEW id \in Id, id \notin InSlots(b, h, c)
    PROVE  /\ IsRing(Written(b, t, id), h, Wrap(t + 1, Len(b)), c + 1)
           /\ InSlots(Written(b, t, id), h, c + 1) = InSlots(b, h, c) \cup {id}
           /\ At(Written(b, t, id), h, c) = id
           /\ \A k \in 0..(c - 1) : At(Written(b, t, id), h, k) = At(b, h, k)
<1> DEFINE new == Written(b, t, id)
<1>1. Len(b) \in Nat \ {0} /\ t \in 0..(Len(b) - 1)
  BY RingFacts
<1>2. /\ h \in 0..(Len(b) - 1) /\ c \in 0..(Len(b) - 1) /\ id # 0
      /\ t = Slot(b, h, c)
  BY <1>1 DEF IsRing, Id
<1>3. /\ new \in Seq(Id \cup {0}) /\ Len(new) = Len(b)
      /\ \A j \in 1..Len(b) : new[j] = IF j = t + 1 THEN id ELSE b[j]
  <2>1. t + 1 \in 1..Len(b) /\ b \in Seq(Id \cup {0})
    BY <1>1 DEF IsRing
  <2> QED
    BY <2>1, PutAt DEF Written
<1> HIDE DEF new
<1>4. Wrap(t + 1, Len(b)) = Slot(new, h, c + 1)
  BY <1>1, <1>2, <1>3, WrapIs DEF IsRing, Slot
<1>5. \A k \in 0..(Len(b) - 1) :
         At(new, h, k) = IF k = c THEN id ELSE At(b, h, k)
  <2> SUFFICES ASSUME NEW k \in 0..(Len(b) - 1)
               PROVE  At(new, h, k) = IF k = c THEN id ELSE At(b, h, k)
    OBVIOUS
  <2>1. Slot(new, h, k) = Slot(b, h, k)
    BY <1>3 DEF Slot
  <2>2. Slot(b, h, k) \in 0..(Len(b) - 1) /\ (Slot(b, h, k) = t <=> k = c)
    BY <1>1, <1>2 DEF Slot
  <2> QED
    BY <1>1, <1>3, <2>1, <2>2 DEF At
<1>6. \A k \in 0..(c - 1) : At(new, h, k) = At(b, h, k) /\ At(b, h, k) # id
  <2>1. \A k \in 0..(c - 1) : k \in 0..(Len(b) - 1) /\ k # c
    BY <1>1, <1>2
  <2> QED
    BY <1>5, <2>1 DEF InSlots
<1>7. IsRing(new, h, Wrap(t + 1, Len(b)), c + 1)
  <2>1. \A k \in 0..(Len(new) - 1) : At(new, h, k) # 0 <=> k < c + 1
    BY <1>2, <1>3, <1>5 DEF IsRing
  <2>2. \A k, l \in 0..((c + 1) - 1) : At(new, h, k) = At(new, h, l) => k = l
    BY <1>2, <1>5, <1>6 DEF IsRing
  <2> QED
    BY <1>1, <1>2, <1>3, <1>4, <2>1, <2>2 DEF IsRing
<1>8. InSlots(new, h, c + 1) = InSlots(b, h, c) \cup {id}
  <2>1. 0..((c + 1) - 1) = (0..(c - 1)) \cup {c}
    BY <1>2
  <2> QED
    BY <1>2, <1>5, <1>6, <2>1 DEF InSlots
<1>9. At(new, h, c) = id
  BY <1>2, <1>5
<1> QED
  BY <1>6, <1>7, <1>8, <1>9 DEF new

\* Prepend's.
LEMMA PushFront ==
    ASSUME NEW b, NEW h, NEW t, NEW c, IsRing(b, h, t, c), c < Len(b),
           NEW id \in Id, id \notin InSlots(b, h, c)
    PROVE  LET first == Wrap(h - 1, Len(b))
           IN  /\ IsRing(Written(b, first, id), first, t, c + 1)
               /\ InSlots(Written(b, first, id), first, c + 1)
                    = InSlots(b, h, c) \cup {id}
               /\ At(Written(b, first, id), first, 0) = id
               /\ \A k \in 0..(c - 1) :
                     At(Written(b, first, id), first, k + 1) = At(b, h, k)
<1> DEFINE first == Wrap(h - 1, Len(b))
           new == Written(b, first, id)
<1>1. Len(b) \in Nat \ {0} /\ t \in 0..(Len(b) - 1)
  BY RingFacts
<1>2. h \in 0..(Len(b) - 1) /\ c \in 0..(Len(b) - 1) /\ id # 0
  BY <1>1 DEF IsRing, Id
<1>3. /\ h = 0 => first = Len(b) - 1
      /\ h # 0 => first = h - 1
      /\ first \in 0..(Len(b) - 1)
  BY <1>1, <1>2, WrapIs
<1>4. /\ new \in Seq(Id \cup {0}) /\ Len(new) = Len(b)
      /\ \A j \in 1..Len(b) : new[j] = IF j = first + 1 THEN id ELSE b[j]
  <2> HIDE DEF first
  <2>1. first + 1 \in 1..Len(b) /\ b \in Seq(Id \cup {0})
    BY <1>1, <1>3 DEF IsRing
  <2> QED
    BY <2>1, PutAt DEF Written
<1> HIDE DEF first, new
<1>5. t = Slot(new, first, c + 1)
  <2>1. t = Slot(b, h, c) /\ Len(new) = Len(b)
    BY <1>4 DEF IsRing
  <2> QED
    BY <1>1, <1>2, <1>3, <2>1 DEF Slot
<1>6. \A k \in 0..(Len(b) - 1) :
         At(new, first, k) = IF k = 0 THEN id ELSE At(b, h, k - 1)
  <2> SUFFICES ASSUME NEW k \in 0..(Len(b) - 1)
               PROVE  At(new, first, k) = IF k = 0 THEN id ELSE At(b, h, k - 1)
    OBVIOUS
  <2>1. CASE k = 0
    <3>1. Slot(new, first, k) = first /\ first + 1 \in 1..Len(b)
      BY <1>1, <1>3, <1>4, <2>1 DEF Slot
    <3> QED
      BY <1>4, <2>1, <3>1 DEF At
  <2>2. CASE k # 0
    <3>1. Slot(new, first, k) = IF first + k < Len(b) THEN first + k
                                ELSE first + k - Len(b)
      BY <1>4 DEF Slot
    <3>2. Slot(new, first, k) \in (0..(Len(b) - 1)) \ {first}
      BY <1>1, <1>3, <2>2, <3>1
    <3>3. Slot(new, first, k) = Slot(b, h, k - 1)
      BY <1>1, <1>2, <1>3, <2>2, <3>1 DEF Slot
    <3>4. new[Slot(new, first, k) + 1] = b[Slot(new, first, k) + 1]
      BY <1>1, <1>3, <1>4, <3>2
    <3> QED
      BY <2>2, <3>3, <3>4 DEF At
  <2> QED
    BY <2>1, <2>2
<1>7. \A k \in 0..(c - 1) : At(b, h, k) # id
  BY DEF InSlots
<1>8. IsRing(new, first, t, c + 1)
  <2>1. \A k \in 0..(Len(new) - 1) : At(new, first, k) # 0 <=> k < c + 1
    BY <1>1, <1>2, <1>4, <1>6 DEF IsRing
  <2>2. \A k, l \in 0..((c + 1) - 1) :
           At(new, first, k) = At(new, first, l) => k = l
    <3> SUFFICES ASSUME NEW k \in 0..c, NEW l \in 0..c,
                        At(new, first, k) = At(new, first, l)
                 PROVE  k = l
      BY <1>2
    <3>1. /\ k # 0 => /\ k - 1 \in 0..(c - 1)
                       /\ At(new, first, k) = At(b, h, k - 1)
          /\ l # 0 => /\ l - 1 \in 0..(c - 1)
                       /\ At(new, first, l) = At(b, h, l - 1)
          /\ k = 0 => At(new, first, k) = id
          /\ l = 0 => At(new, first, l) = id
      BY <1>1, <1>2, <1>6
    <3>2. k = 0 <=> l = 0
      BY <1>7, <3>1
    <3>3. k # 0 /\ l # 0 => k - 1 = l - 1
      BY <3>1 DEF IsRing
    <3> QED
      BY <1>2, <3>2, <3>3
  <2> QED
    BY <1>1, <1>2, <1>3, <1>4, <1>5, <2>1, <2>2 DEF IsRing
<1>9. InSlots(new, first, c + 1) = InSlots(b, h, c) \cup {id}
  <2>1. ASSUME NEW k \in 0..((c + 1) - 1)
        PROVE  At(new, first, k) \in InSlots(b, h, c) \cup {id}
    <3>1. k \in 0..(Len(b) - 1) /\ (k # 0 => k - 1 \in 0..(c - 1))
      BY <1>1, <1>2
    <3>2. At(new, first, k) = IF k = 0 THEN id ELSE At(b, h, k - 1)
      BY <1>6, <3>1
    <3> QED
      BY <3>1, <3>2 DEF InSlots
  <2>2. ASSUME NEW k \in 0..(c - 1)
        PROVE  At(b, h, k) \in InSlots(new, first, c + 1)
    <3>1. k + 1 \in 0..((c + 1) - 1) /\ At(new, first, k + 1) = At(b, h, k)
      BY <1>1, <1>2, <1>6
    <3> QED
      BY <3>1 DEF InSlots
  <2>3. id \in InSlots(new, first, c + 1)
    <3>1. 0 \in 0..((c + 1) - 1) /\ At(new, first, 0) = id
      BY <1>1, <1>2, <1>6
    <3> QED
      BY <3>1 DEF InSlots
  <2> QED
    BY <2>1, <2>2, <2>3 DEF InSlots
<1>10. At(new, first, 0) = id
  BY <1>1, <1>6
<1>11. ASSUME NEW k \in 0..(c - 1) PROVE At(new, first, k + 1) = At(b, h, k)
  <2>1. k + 1 \in 0..(Len(b) - 1) /\ k + 1 # 0 /\ (k + 1) - 1 = k
    BY <1>1, <1>2
  <2> QED
    BY <1>6, <2>1
<1> QED
  BY <1>8, <1>9, <1>10, <1>11 DEF first, new

\* What pop takes out is the first identifier.
LEMMA PopFront ==
    ASSUME NEW b, NEW h, NEW t, NEW c, IsRing(b, h, t, c), c > 0
    PROVE  LET new == Written(b, h, 0)
               next == Wrap(h + 1, Len(b))
           IN  /\ IsRing(new, next, t, c - 1)
               /\ InSlots(b, h, c) = InSlots(new, next, c - 1) \cup {b[h + 1]}
               /\ Len(new) = Len(b) /\ At(b, h, 0) = b[h + 1]
               /\ \A k \in 0..(c - 2) : At(new, next, k) = At(b, h, k + 1)
<1> DEFINE new == Written(b, h, 0)
           next == Wrap(h + 1, Len(b))
<1>1. Len(b) \in Nat \ {0} /\ t \in 0..(Len(b) - 1)
  BY RingFacts
<1>2. h \in 0..(Len(b) - 1) /\ c \in 1..Len(b) /\ t = Slot(b, h, c)
  BY <1>1 DEF IsRing
<1>3. /\ h = Len(b) - 1 => next = 0
      /\ h # Len(b) - 1 => next = h + 1
      /\ next \in 0..(Len(b) - 1)
  BY <1>1, <1>2, WrapIs
<1>4. /\ new \in Seq(Id \cup {0}) /\ Len(new) = Len(b)
      /\ \A j \in 1..Len(b) : new[j] = IF j = h + 1 THEN 0 ELSE b[j]
  <2>1. h + 1 \in 1..Len(b) /\ b \in Seq(Id \cup {0})
    BY <1>1, <1>2 DEF IsRing
  <2> QED
    BY <2>1, PutAt DEF Written
<1> HIDE DEF next, new
<1>5. t = Slot(new, next, c - 1)
  <2>1. Slot(new, next, c - 1) = IF next + (c - 1) < Len(b) THEN next + (c - 1)
                                 ELSE next + (c - 1) - Len(b)
    BY <1>4 DEF Slot
  <2> QED
    BY <1>1, <1>2, <1>3, <2>1 DEF Slot
<1>6. \A k \in 0..(Len(b) - 1) :
         At(new, next, k) = IF k = Len(b) - 1 THEN 0 ELSE At(b, h, k + 1)
  <2> SUFFICES ASSUME NEW k \in 0..(Len(b) - 1)
               PROVE  At(new, next, k) = IF k = Len(b) - 1 THEN 0
                                         ELSE At(b, h, k + 1)
    OBVIOUS
  <2>1. Slot(new, next, k) = IF next + k < Len(b) THEN next + k
                             ELSE next + k - Len(b)
    BY <1>4 DEF Slot
  <2>2. CASE k = Len(b) - 1
    <3>1. Slot(new, next, k) = h /\ h + 1 \in 1..Len(b)
      BY <1>1, <1>2, <1>3, <2>1, <2>2
    <3> QED
      BY <1>4, <2>2, <3>1 DEF At
  <2>3. CASE k # Len(b) - 1
    <3>1. Slot(b, h, k + 1) = IF h + (k + 1) < Len(b) THEN h + (k + 1)
                              ELSE h + (k + 1) - Len(b)
      BY DEF Slot
    <3>2. ASSUME h = Len(b) - 1
          PROVE  /\ Slot(new, next, k) \in (0..(Len(b) - 1)) \ {h}
                 /\ Slot(new, next, k) = Slot(b, h, k + 1)
      <4>1. Slot(new, next, k) = k
        BY <1>1, <1>3, <2>1, <3>2
      <4>2. Slot(b, h, k + 1) = k
        BY <1>1, <3>1, <3>2
      <4> QED
        BY <1>1, <2>3, <3>2, <4>1, <4>2
    <3>3. ASSUME h # Len(b) - 1
          PROVE  /\ Slot(new, next, k) \in (0..(Len(b) - 1)) \ {h}
                 /\ Slot(new, next, k) = Slot(b, h, k + 1)
      <4>1. next = h + 1
        BY <1>3, <3>3
      <4>2. Slot(new, next, k) = Slot(b, h, k + 1)
        BY <1>1, <1>2, <2>1, <3>1, <4>1
      <4>3. Slot(new, next, k) # h /\ Slot(new, next, k) \in 0..(Len(b) - 1)
        BY <1>1, <1>2, <2>1, <2>3, <4>1
      <4> QED
        BY <4>2, <4>3
    <3>4. Slot(new, next, k) \in (0..(Len(b) - 1)) \ {h}
      BY <3>2, <3>3
    <3>5. Slot(new, next, k) = Slot(b, h, k + 1)
      BY <3>2, <3>3
    <3>6. new[Slot(new, next, k) + 1] = b[Slot(new, next, k) + 1]
      BY <1>1, <1>2, <1>4, <3>4
    <3> QED
      BY <2>3, <3>5, <3>6 DEF At
  <2> QED
    BY <2>2, <2>3
<1>7. At(b, h, 0) = b[h + 1]
  BY <1>1, <1>2 DEF At, Slot
<1>8. IsRing(new, next, t, c - 1)
  <2>1. \A k \in 0..(Len(new) - 1) : At(new, next, k) # 0 <=> k < c - 1
    BY <1>1, <1>2, <1>4, <1>6 DEF IsRing
  <2>2. \A k, l \in 0..((c - 1) - 1) :
           At(new, next, k) = At(new, next, l) => k = l
    <3> SUFFICES ASSUME NEW k \in 0..((c - 1) - 1), NEW l \in 0..((c - 1) - 1),
                        At(new, next, k) = At(new, next, l)
                 PROVE  k = l
      OBVIOUS
    <3>1. At(b, h, k + 1) = At(b, h, l + 1)
      BY <1>1, <1>2, <1>6
    <3> QED
      BY <1>2, <3>1 DEF IsRing
  <2> QED
    BY <1>1, <1>2, <1>3, <1>4, <1>5, <2>1, <2>2 DEF IsRing
<1>9. InSlots(b, h, c) = InSlots(new, next, c - 1) \cup {b[h + 1]}
  <2>1. ASSUME NEW k \in 0..(c - 1)
        PROVE  At(b, h, k) \in InSlots(new, next, c - 1) \cup {b[h + 1]}
    <3>1. CASE k = 0
      BY <1>7, <3>1
    <3>2. CASE k # 0
      <4>1. k - 1 \in 0..((c - 1) - 1) /\ At(new, next, k - 1) = At(b, h, k)
        BY <1>1, <1>2, <1>6, <3>2
      <4> QED
        BY <4>1 DEF InSlots
    <3> QED
      BY <3>1, <3>2
  <2>2. ASSUME NEW k \in 0..((c - 1) - 1)
        PROVE  At(new, next, k) \in InSlots(b, h, c)
    <3>1. k + 1 \in 0..(c - 1) /\ At(new, next, k) = At(b, h, k + 1)
      BY <1>1, <1>2, <1>6
    <3> QED
      BY <3>1 DEF InSlots
  <2>3. b[h + 1] \in InSlots(b, h, c)
    <3>1. 0 \in 0..(c - 1)
      BY <1>2
    <3> QED
      BY <1>7, <3>1 DEF InSlots
  <2> QED
    BY <2>1, <2>2, <2>3 DEF InSlots
<1>10. ASSUME NEW k \in 0..(c - 2) PROVE At(new, next, k) = At(b, h, k + 1)
  <2>1. k \in 0..(Len(b) - 1) /\ k # Len(b) - 1
    BY <1>1, <1>2
  <2> QED
    BY <1>6, <2>1
<1> QED
  BY <1>4, <1>7, <1>8, <1>9, <1>10 DEF next, new

LEMMA ConcatAt ==
    ASSUME NEW S, NEW r \in Seq(S), NEW s \in Seq(S)
    PROVE  /\ r \o s \in Seq(S) /\ Len(r \o s) = Len(r) + Len(s)
           /\ \A i \in 1..Len(r) : (r \o s)[i] = r[i]
           /\ \A i \in 1..Len(s) : (r \o s)[Len(r) + i] = s[i]
  OBVIOUS

LEMMA ContentsOfRing ==
    ASSUME NEW b, NEW h, NEW t, NEW c, IsRing(b, h, t, c), c > 0
    PROVE  /\ Len(Contents(b, h, t)) = c
           /\ \A i \in 1..c : Contents(b, h, t)[i] = At(b, h, i - 1)
<1>1. Len(b) \in Nat \ {0} /\ t \in 0..(Len(b) - 1)
  BY RingFacts
<1>2. /\ h \in 0..(Len(b) - 1) /\ c \in 1..Len(b) /\ t = Slot(b, h, c)
      /\ b \in Seq(Id \cup {0})
  BY <1>1 DEF IsRing
<1>3. CASE h + c < Len(b)
  <2>1. t = h + c /\ Contents(b, h, t) = SubSeq(b, h + 1, h + c)
    BY <1>1, <1>2, <1>3 DEF Contents, Slot
  <2>2. \A i \in 1..c : At(b, h, i - 1) = b[h + i]
    BY <1>1, <1>2, <1>3 DEF Slot, At
  <2> QED
    BY <1>1, <1>2, <1>3, <2>1, <2>2
<1>4. CASE ~(h + c < Len(b))
  <2> DEFINE low == SubSeq(b, h + 1, Len(b))
             high == SubSeq(b, 1, t)
  <2>1. t = h + c - Len(b) /\ Contents(b, h, t) = low \o high
    BY <1>1, <1>2, <1>4 DEF Contents, Slot
  <2>2. /\ low \in Seq(Id \cup {0}) /\ Len(low) = Len(b) - h
        /\ \A i \in 1..(Len(b) - h) : low[i] = b[h + i]
    BY <1>1, <1>2
  <2>3. /\ high \in Seq(Id \cup {0}) /\ Len(high) = t
        /\ \A i \in 1..t : high[i] = b[i]
    BY <1>1, <1>2
  <2> HIDE DEF low, high
  <2>4. /\ Len(low \o high) = Len(low) + Len(high)
        /\ \A i \in 1..Len(low) : (low \o high)[i] = low[i]
        /\ \A i \in 1..Len(high) : (low \o high)[Len(low) + i] = high[i]
    <3>1. low \in Seq(Id \cup {0}) /\ high \in Seq(Id \cup {0})
      BY <2>2, <2>3
    <3> QED
      BY <3>1, ConcatAt
  <2>5. ASSUME NEW i \in 1..c PROVE (low \o high)[i] = At(b, h, i - 1)
    <3>1. CASE i <= Len(b) - h
      <4>1. (low \o high)[i] = b[h + i]
        BY <1>1, <1>2, <2>2, <2>4, <3>1
      <4>2. Slot(b, h, i - 1) + 1 = h + i
        BY <1>1, <1>2, <3>1 DEF Slot
      <4> QED
        BY <4>1, <4>2 DEF At
    <3>2. CASE ~(i <= Len(b) - h)
      <4>1. /\ i - (Len(b) - h) \in 1..t
            /\ (Len(b) - h) + (i - (Len(b) - h)) = i
        BY <1>1, <1>2, <2>1, <3>2
      <4>2. (low \o high)[i] = high[i - (Len(b) - h)]
        BY <2>2, <2>3, <2>4, <4>1
      <4>3. high[i - (Len(b) - h)] = b[i - (Len(b) - h)]
        BY <2>3, <4>1
      <4>4. Slot(b, h, i - 1) + 1 = i - (Len(b) - h)
        BY <1>1, <1>2, <3>2 DEF Slot
      <4> QED
        BY <4>2, <4>3, <4>4 DEF At
    <3> QED
      BY <3>1, <3>2
  <2>6. Len(low \o high) = c
    BY <1>1, <1>2, <2>1, <2>2, <2>3, <2>4
  <2> QED
    BY <2>1, <2>5, <2>6
<1> QED
  BY <1>3, <1>4

\* resize makes a ring of the same identifiers, with room for more.
LEMMA ResizeRing ==
    ASSUME NEW b, NEW h, NEW t, NEW c, IsRing(b, h, t, c), c > 0
    PROVE  /\ IsRing(Resized(b, h, t, c), 0, c, c)
           /\ InSlots(Resized(b, h, t, c), 0, c) = InSlots(b, h, c)
           /\ c < Len(Resized(b, h, t, c))
           /\ \A k \in 0..(c - 1) : At(Resized(b, h, t, c), 0, k) = At(b, h, k)
<1> DEFINE new == Resized(b, h, t, c)
<1>1. Len(b) \in Nat \ {0} /\ c \in 1..Len(b)
  BY RingFacts DEF IsRing
<1>2. NewCount(c) \in Nat /\ c < NewCount(c)
  BY <1>1, ConstantsAssumption DEF NewCount
<1>3. /\ Len(Contents(b, h, t)) = c
      /\ \A i \in 1..c : Contents(b, h, t)[i] = At(b, h, i - 1)
  BY ContentsOfRing
<1>4. \A i \in 1..NewCount(c) :
         new[i] = IF i <= c THEN At(b, h, i - 1) ELSE 0
  BY <1>1, <1>2, <1>3 DEF Resized
<1>5. \A i \in 1..c : At(b, h, i - 1) \in Id /\ At(b, h, i - 1) # 0
  <2> SUFFICES ASSUME NEW i \in 1..c
               PROVE  At(b, h, i - 1) \in Id /\ At(b, h, i - 1) # 0
    OBVIOUS
  <2>1. i - 1 \in 0..(c - 1) /\ i - 1 \in 0..(Len(b) - 1) /\ i - 1 < c
    BY <1>1
  <2>2. At(b, h, i - 1) \in InSlots(b, h, c)
    BY <2>1 DEF InSlots
  <2>3. InSlots(b, h, c) \subseteq Id
    BY RingFacts
  <2>4. At(b, h, i - 1) # 0
    BY <2>1 DEF IsRing
  <2> QED
    BY <2>2, <2>3, <2>4
<1>6. new \in Seq(Id \cup {0}) /\ Len(new) = NewCount(c)
  <2>1. \A i \in 1..NewCount(c) : new[i] \in Id \cup {0}
    BY <1>1, <1>2, <1>4, <1>5
  <2> QED
    BY <1>2, <2>1 DEF Resized
<1> HIDE DEF new
<1>7. \A k \in 0..(Len(new) - 1) :
         At(new, 0, k) = IF k < c THEN At(b, h, k) ELSE 0
  <2> SUFFICES ASSUME NEW k \in 0..(Len(new) - 1)
               PROVE  At(new, 0, k) = IF k < c THEN At(b, h, k) ELSE 0
    OBVIOUS
  <2>1. At(new, 0, k) = new[k + 1] /\ k + 1 \in 1..NewCount(c)
    BY <1>2, <1>6 DEF At, Slot
  <2> QED
    BY <1>1, <1>4, <2>1
<1>8. \A k \in 0..(c - 1) : k \in 0..(Len(new) - 1) /\ k < c
  BY <1>1, <1>2, <1>6
<1>9. IsRing(new, 0, c, c)
  <2>1. \A k \in 0..(Len(new) - 1) : At(new, 0, k) # 0 <=> k < c
    <3>1. ASSUME NEW k \in 0..(Len(new) - 1), k < c PROVE At(b, h, k) # 0
      <4>1. k + 1 \in 1..c /\ (k + 1) - 1 = k
        BY <1>1, <1>2, <1>6, <3>1
      <4> QED
        BY <1>5, <4>1
    <3> QED
      BY <1>7, <3>1
  <2>2. \A k, l \in 0..(c - 1) : At(new, 0, k) = At(new, 0, l) => k = l
    BY <1>7, <1>8 DEF IsRing
  <2>3. Slot(new, 0, c) = c
    BY <1>1, <1>2, <1>6 DEF Slot
  <2> QED
    BY <1>1, <1>2, <1>6, <2>1, <2>2, <2>3 DEF IsRing
<1>10. InSlots(new, 0, c) = InSlots(b, h, c)
  BY <1>7, <1>8 DEF InSlots
<1> QED
  BY <1>2, <1>6, <1>7, <1>8, <1>9, <1>10 DEF new

-----------------------------------------------------------------------------

\* The two maps are inverse of each other.
MapsMatch ==
    /\ items \in [DOMAIN items -> Elem]
    /\ DOMAIN ids \subseteq Elem /\ ids \in [DOMAIN ids -> Id]
    /\ \A x, y \in DOMAIN items : items[x] = items[y] => x = y
    /\ IdsMatch

CallsTyped ==
    /\ NotEmpty \in BOOLEAN
    /\ pc \in [Consumer -> {"idle", "subscribe", "lock", "pop", "wait"}]
    /\ signalled \subseteq Consumer
    /\ taken \in [Consumer -> Elem \cup {Nothing}]

\* The whole queue, while no index is out of range: every identifier of the
\* map is in the ring.
Stocked ==
    /\ IsRing(buf, head, tail, count)
    /\ DOMAIN items \subseteq InSlots(buf, head, count)
    /\ MapsMatch

SoundInv == Stocked /\ CallsTyped /\ panicked = FALSE

-----------------------------------------------------------------------------

\* There is an identifier for newId to choose.
LEMMA NewIdIsNew ==
    ASSUME Stocked, count < MaxCount
    PROVE  newId \in Id /\ newId \notin InSlots(buf, head, count)
<1> DEFINE here == InSlots(buf, head, count)
<1>1. count \in Nat /\ MaxCount \in Nat /\ Len(buf) \in Nat \ {0}
  BY RingFacts, ConstantsAssumption DEF Stocked, IsRing
<1>2. IsFiniteSet(here) /\ Cardinality(here) <= count
  <2> DEFINE at == [k \in 0..(count - 1) |-> At(buf, head, k)]
  <2>1. IsFiniteSet(0..(count - 1)) /\ Cardinality(0..(count - 1)) = count
    <3>1. count - 1 \in Int
      BY <1>1
    <3>2. /\ IsFiniteSet(0..(count - 1))
          /\ Cardinality(0..(count - 1)) =
                IF 0 > count - 1 THEN 0 ELSE (count - 1) - 0 + 1
      BY <3>1, FS_Interval
    <3> QED
      BY <1>1, <3>2
  <2>2. at \in Surjection(0..(count - 1), here)
    BY DEF Surjection, InSlots
  <2> HIDE DEF at, here
  <2> QED
    BY <2>1, <2>2, FS_Surjection
<1>3. Cardinality(Id) = MaxCount + 1
  BY <1>1, FS_Interval DEF Id
<1>4. ~(Id \subseteq here)
  <2> HIDE DEF here
  <2>1. ASSUME Id \in SUBSET here PROVE FALSE
    <3>1. Cardinality(Id) <= Cardinality(here)
      BY <1>2, <2>1, FS_Subset
    <3>2. Cardinality(here) \in Nat
      BY <1>2, FS_CardinalityType
    <3> QED
      BY <1>1, <1>2, <1>3, <3>1, <3>2
  <2> QED
    BY <2>1
<1>5. Used \cap Id \subseteq here
  <2>1. DOMAIN items \subseteq here
    BY DEF Stocked
  <2>2. \A i \in 1..Len(buf) : buf[i] # 0 => buf[i] \in here
    BY RingFacts DEF Stocked
  <2>3. 0 \notin Id
    BY DEF Id
  <2> QED
    BY <2>1, <2>2, <2>3 DEF Used
<1>6. here \subseteq Used
  <2> SUFFICES ASSUME NEW k \in 0..(count - 1) PROVE At(buf, head, k) \in Used
    BY DEF InSlots
  <2>1. Slot(buf, head, k) + 1 \in 1..Len(buf)
    BY <1>1 DEF Stocked, IsRing, Slot
  <2> QED
    BY <2>1 DEF At, Used
<1>7. newId \in Id \ Used
  <2>1. Id \ Used # {}
    BY <1>4, <1>5
  <2> QED
    BY <2>1 DEF newId
<1> QED
  BY <1>6, <1>7

\* After resize, if there is one, the ring has room.
LEMMA RoomIsThere ==
    ASSUME Stocked
    PROVE  /\ IsRing(Room, RoomHead, RoomTail, count)
           /\ InSlots(Room, RoomHead, count) = InSlots(buf, head, count)
           /\ count < Len(Room)
           /\ ~BadSlice(buf, head, tail) /\ ~(RoomTail >= Len(Room))
           /\ \A k \in 0..(count - 1) :
                 At(Room, RoomHead, k) = At(buf, head, k)
<1>1. /\ Len(buf) \in Nat \ {0} /\ tail \in 0..(Len(buf) - 1)
      /\ head \in 0..(Len(buf) - 1) /\ count \in 0..Len(buf)
  BY RingFacts DEF Stocked, IsRing
<1>2. CASE Full
  <2>1. count > 0
    BY <1>1, <1>2 DEF Full
  <2>2. /\ IsRing(Room, RoomHead, RoomTail, count)
        /\ InSlots(Room, RoomHead, count) = InSlots(buf, head, count)
        /\ count < Len(Room)
        /\ \A k \in 0..(count - 1) :
              At(Room, RoomHead, k) = At(buf, head, k)
    BY <1>2, <2>1, ResizeRing DEF Stocked, Room, RoomHead, RoomTail
  <2>3. RoomTail \in 0..(Len(Room) - 1) /\ Len(Room) \in Nat
    BY <2>2, RingFacts
  <2> QED
    BY <1>1, <2>2, <2>3 DEF BadSlice
<1>3. CASE ~Full
  BY <1>1, <1>3 DEF Full, Stocked, Room, RoomHead, RoomTail, BadSlice
<1> QED
  BY <1>2, <1>3

LEMMA StoreKeepsMaps ==
    ASSUME MapsMatch, NEW e \in Elem, NEW id \in Id, id \notin DOMAIN items,
           \A x \in DOMAIN items : items[x] # e, Store(e, id)
    PROVE  MapsMatch' /\ DOMAIN items' = DOMAIN items \cup {id}
<1>1. /\ DOMAIN items' = DOMAIN items \cup {id} /\ items'[id] = e
      /\ \A x \in DOMAIN items : items'[x] = items[x]
      /\ items' \in [DOMAIN items' -> Elem]
  BY DEF Store, With, MapsMatch
<1>2. /\ DOMAIN ids' = DOMAIN ids \cup {e} /\ ids'[e] = id
      /\ \A d \in DOMAIN ids \ {e} : ids'[d] = ids[d]
      /\ DOMAIN ids' \subseteq Elem /\ ids' \in [DOMAIN ids' -> Id]
  BY DEF Store, With, MapsMatch
<1>3. \A x, y \in DOMAIN items' : items'[x] = items'[y] => x = y
  BY <1>1 DEF MapsMatch
<1>4. IdsMatch'
  <2>1. DOMAIN ids' = {items'[x] : x \in DOMAIN items'}
    BY <1>1, <1>2 DEF MapsMatch, IdsMatch
  <2>2. e \notin DOMAIN ids
    BY DEF MapsMatch, IdsMatch
  <2>3. \A d \in DOMAIN ids' : ids'[d] \in DOMAIN items' /\ items'[ids'[d]] = d
    BY <1>1, <1>2, <2>2 DEF MapsMatch, IdsMatch
  <2> QED
    BY <2>1, <2>3 DEF IdsMatch
<1> QED
  BY <1>1, <1>2, <1>3, <1>4 DEF MapsMatch

LEMMA WithoutKeepsMaps ==
    ASSUME MapsMatch, NEW id \in DOMAIN items,
           items' = Without(items, id), ids' = Without(ids, items[id])
    PROVE  MapsMatch' /\ DOMAIN items' = DOMAIN items \ {id}
<1>1. /\ DOMAIN items' = DOMAIN items \ {id}
      /\ \A x \in DOMAIN items' : items'[x] = items[x]
      /\ items' \in [DOMAIN items' -> Elem]
  BY DEF Without, MapsMatch
<1>2. /\ DOMAIN ids' = DOMAIN ids \ {items[id]}
      /\ \A d \in DOMAIN ids' : ids'[d] = ids[d]
      /\ DOMAIN ids' \subseteq Elem /\ ids' \in [DOMAIN ids' -> Id]
  BY DEF Without, MapsMatch
<1>3. \A x, y \in DOMAIN items' : items'[x] = items'[y] => x = y
  BY <1>1 DEF MapsMatch
<1>4. IdsMatch'
  <2>1. DOMAIN ids' = {items'[x] : x \in DOMAIN items'}
    BY <1>1, <1>2 DEF MapsMatch, IdsMatch
  <2>2. \A d \in DOMAIN ids' : ids'[d] \in DOMAIN items' /\ items'[ids'[d]] = d
    BY <1>1, <1>2 DEF MapsMatch, IdsMatch
  <2> QED
    BY <2>1, <2>2 DEF IdsMatch
<1> QED
  BY <1>1, <1>2, <1>3, <1>4 DEF MapsMatch

-----------------------------------------------------------------------------

LEMMA SoundInit ==
    ASSUME Init
    PROVE  SoundInv
<1>1. minQueueLen \in Nat \ {0}
  BY ConstantsAssumption
<1>2. /\ buf = [i \in 1..minQueueLen |-> 0]
      /\ head = 0 /\ tail = 0 /\ count = 0
      /\ items = EmptyMap /\ ids = EmptyMap
  BY DEF Init, EmptyRing
<1>3. buf \in Seq(Id \cup {0}) /\ Len(buf) = minQueueLen
  BY <1>1, <1>2
<1>4. IsRing(buf, head, tail, count)
  <2>1. \A k \in 0..(Len(buf) - 1) : At(buf, head, k) = 0
    BY <1>1, <1>2, <1>3 DEF At, Slot
  <2>2. tail = Slot(buf, head, count)
    BY <1>1, <1>2, <1>3 DEF Slot
  <2> QED
    BY <1>1, <1>2, <1>3, <2>1, <2>2 DEF IsRing
<1>5. DOMAIN items = {} /\ MapsMatch
  BY <1>2 DEF EmptyMap, MapsMatch, IdsMatch
<1>6. CallsTyped /\ panicked = FALSE
  BY DEF Init, CallsTyped
<1> QED
  BY <1>4, <1>5, <1>6 DEF SoundInv, Stocked

\* The end of Append and Prepend.
LEMMA PutSound ==
    ASSUME SoundInv, ~Duplicates, NEW e \in Elem, MayPut(e),
           Store(e, newId), Notify, WakeAll,
           UNCHANGED <<signalled, taken, panicked>>,
           IsRing(buf', head', tail', count'),
           InSlots(buf', head', count')
             = InSlots(buf, head, count) \cup {newId}
    PROVE  SoundInv'
<1>1. count < MaxCount /\ \A x \in DOMAIN items : items[x] # e
  BY DEF MayPut
<1>2. newId \in Id /\ newId \notin DOMAIN items
  BY <1>1, NewIdIsNew DEF SoundInv, Stocked
<1>3. MapsMatch' /\ DOMAIN items' = DOMAIN items \cup {newId}
  BY <1>1, <1>2, StoreKeepsMaps DEF SoundInv, Stocked
<1>4. Stocked'
  BY <1>3 DEF SoundInv, Stocked
<1>5. NotEmpty' \in BOOLEAN
  BY DEF Notify
<1>6. CallsTyped'
  BY <1>5 DEF SoundInv, CallsTyped, WakeAll
<1> QED
  BY <1>4, <1>6 DEF SoundInv

LEMMA PutBackSound ==
    ASSUME SoundInv, ~Duplicates, NEW e \in Elem, PutBack(e)
    PROVE  SoundInv'
<1>1. /\ IsRing(Room, RoomHead, RoomTail, count)
      /\ InSlots(Room, RoomHead, count) = InSlots(buf, head, count)
      /\ count < Len(Room)
      /\ ~BadSlice(buf, head, tail) /\ ~(RoomTail >= Len(Room))
  BY RoomIsThere DEF SoundInv
<1>2. /\ MayPut(e) /\ Store(e, newId)
      /\ buf' = Written(Room, RoomTail, newId)
      /\ head' = RoomHead /\ tail' = Wrap(RoomTail + 1, Len(Room))
      /\ count' = count + 1
      /\ Notify /\ WakeAll /\ UNCHANGED <<signalled, taken, panicked>>
  BY <1>1 DEF PutBack, Written
<1>3. newId \in Id /\ newId \notin InSlots(buf, head, count)
  BY <1>2, NewIdIsNew DEF MayPut, SoundInv
<1>4. /\ IsRing(buf', head', tail', count')
      /\ InSlots(buf', head', count') = InSlots(buf, head, count) \cup {newId}
  <2>1. /\ IsRing(Written(Room, RoomTail, newId), RoomHead,
                   Wrap(RoomTail + 1, Len(Room)), count + 1)
        /\ InSlots(Written(Room, RoomTail, newId), RoomHead, count + 1)
              = InSlots(Room, RoomHead, count) \cup {newId}
    <3>1. newId \notin InSlots(Room, RoomHead, count)
      BY <1>1, <1>3
    <3>2. newId \in Id /\ IsRing(Room, RoomHead, RoomTail, count)
      BY <1>1, <1>3
    <3> QED
      BY <1>1, <3>1, <3>2, PushBack
  <2> QED
    BY <1>1, <1>2, <2>1 DEF Written
<1> QED
  BY <1>2, <1>4, PutSound

LEMMA PutFrontSound ==
    ASSUME SoundInv, ~Duplicates, NEW e \in Elem, PutFront(e)
    PROVE  SoundInv'
<1>1. /\ IsRing(Room, RoomHead, RoomTail, count)
      /\ InSlots(Room, RoomHead, count) = InSlots(buf, head, count)
      /\ count < Len(Room)
      /\ ~BadSlice(buf, head, tail)
  BY RoomIsThere DEF SoundInv
<1>2. /\ MayPut(e) /\ Store(e, newId)
      /\ head' = Wrap(RoomHead - 1, Len(Room))
      /\ buf' = [Room EXCEPT ![head' + 1] = newId]
      /\ tail' = RoomTail /\ count' = count + 1
      /\ Notify /\ WakeAll /\ UNCHANGED <<signalled, taken, panicked>>
  BY <1>1 DEF PutFront, Written
<1>3. newId \in Id /\ newId \notin InSlots(buf, head, count)
  BY <1>2, NewIdIsNew DEF MayPut, SoundInv
<1>4. /\ IsRing(buf', head', tail', count')
      /\ InSlots(buf', head', count') = InSlots(buf, head, count) \cup {newId}
  <2> DEFINE first == Wrap(RoomHead - 1, Len(Room))
  <2>1. /\ IsRing(Written(Room, first, newId), first, RoomTail, count + 1)
        /\ InSlots(Written(Room, first, newId), first, count + 1)
              = InSlots(Room, RoomHead, count) \cup {newId}
    <3>1. newId \notin InSlots(Room, RoomHead, count)
      BY <1>1, <1>3
    <3>2. newId \in Id /\ IsRing(Room, RoomHead, RoomTail, count)
      BY <1>1, <1>3
    <3> QED
      BY <1>1, <3>1, <3>2, PushFront
  <2> QED
    BY <1>1, <1>2, <2>1 DEF Written
<1> QED
  BY <1>2, <1>4, PutSound

LEMMA RemoveSound ==
    ASSUME SoundInv, NEW e \in Elem, Remove(e)
    PROVE  SoundInv'
<1>1. ids[e] \in DOMAIN items /\ items[ids[e]] = e
  BY DEF SoundInv, Stocked, MapsMatch, IdsMatch, Remove
<1>2. MapsMatch' /\ DOMAIN items' = DOMAIN items \ {ids[e]}
  BY <1>1, WithoutKeepsMaps DEF SoundInv, Stocked, Remove
<1>3. Stocked'
  BY <1>2 DEF SoundInv, Stocked, Remove, ring
<1> QED
  BY <1>3 DEF SoundInv, CallsTyped, Remove, consumers

LEMMA TakeOutSound ==
    ASSUME SoundInv, NEW c \in Consumer, TakeOut(c)
    PROVE  SoundInv'
<1> DEFINE emptied == Written(buf, head, 0)
           next == Wrap(head + 1, Len(buf))
           id == buf[head + 1]
<1>1. /\ Len(buf) \in Nat \ {0} /\ tail \in 0..(Len(buf) - 1)
      /\ head \in 0..(Len(buf) - 1) /\ count \in 1..Len(buf)
  BY RingFacts DEF SoundInv, Stocked, IsRing, TakeOut, MayTake
<1>2. /\ IsRing(emptied, next, tail, count - 1)
      /\ InSlots(buf, head, count)
           = InSlots(emptied, next, count - 1) \cup {id}
      /\ Len(emptied) = Len(buf)
  <2>1. IsRing(buf, head, tail, count) /\ count > 0
    BY <1>1 DEF SoundInv, Stocked
  <2> QED
    BY <2>1, PopFront
<1>3. ~(head >= Len(buf)) /\ ~BadSlice(buf, next, tail)
  <2>1. next \in 0..(Len(buf) - 1)
    BY <1>2 DEF IsRing
  <2> QED
    BY <1>1, <2>1 DEF BadSlice
<1>4. /\ count' = count - 1
      /\ IF HalfFull
         THEN /\ buf' = Resized(emptied, next, tail, count - 1)
              /\ head' = 0 /\ tail' = count - 1
         ELSE buf' = emptied /\ head' = next /\ tail' = tail
      /\ Deliver(c, id) /\ UNCHANGED panicked
  BY <1>3 DEF TakeOut, Written
<1>5. /\ IsRing(buf', head', tail', count')
      /\ InSlots(buf, head, count) = InSlots(buf', head', count') \cup {id}
  <2> HIDE DEF emptied, next, id
  <2>1. CASE HalfFull
    <3>1. count - 1 > 0
      BY <1>1, <2>1, ConstantsAssumption DEF HalfFull
    <3> QED
      BY <1>2, <1>4, <2>1, <3>1, ResizeRing
  <2>2. CASE ~HalfFull
    BY <1>2, <1>4, <2>2
  <2> QED
    BY <2>1, <2>2
<1> HIDE DEF emptied, next, id
<1>6. CASE id \in DOMAIN items
  <2>1. /\ taken' = [taken EXCEPT ![c] = items[id]]
        /\ items' = Without(items, id) /\ ids' = Without(ids, items[id])
        /\ Notify /\ signalled' = signalled \ {c} /\ Goto(c, "idle")
    BY <1>4, <1>6 DEF Deliver
  <2>2. MapsMatch' /\ DOMAIN items' = DOMAIN items \ {id}
    BY <1>6, <2>1, WithoutKeepsMaps DEF SoundInv, Stocked
  <2>3. Stocked'
    BY <1>5, <2>2 DEF SoundInv, Stocked
  <2>4. items[id] \in Elem
    BY <1>6 DEF SoundInv, Stocked, MapsMatch
  <2>5. NotEmpty' \in BOOLEAN
    BY <2>1 DEF Notify
  <2>6. CallsTyped'
    BY <2>1, <2>4, <2>5 DEF SoundInv, CallsTyped, Goto
  <2> QED
    BY <1>4, <2>3, <2>6 DEF SoundInv
<1>7. CASE id \notin DOMAIN items
  <2>1. UNCHANGED <<maps, NotEmpty, consumers>>
    BY <1>4, <1>7 DEF Deliver
  <2>2. Stocked'
    BY <1>5, <1>7, <2>1 DEF SoundInv, Stocked, maps, MapsMatch, IdsMatch
  <2>3. CallsTyped'
    BY <2>1 DEF SoundInv, CallsTyped, consumers
  <2> QED
    BY <1>4, <2>2, <2>3 DEF SoundInv
<1> QED
  BY <1>6, <1>7

LEMMA SoundStep ==
    ASSUME SoundInv, ~Duplicates, ~CallsClean, [Next]_vars
    PROVE  SoundInv'
<1>1. ASSUME NEW e \in Elem, PutBack(e) PROVE SoundInv'
  BY <1>1, PutBackSound
<1>2. ASSUME NEW e \in Elem, PutFront(e) PROVE SoundInv'
  BY <1>2, PutFrontSound
<1>3. ASSUME NEW e \in Elem, Remove(e) PROVE SoundInv'
  BY <1>3, RemoveSound
<1>4. ASSUME Clean PROVE SoundInv'
  BY <1>4 DEF Clean
<1>5. ASSUME NEW c \in Consumer, Call(c) \/ Receive(c) \/ Lock(c) \/ Wait(c)
      PROVE  SoundInv'
  <2>1. Stocked'
    BY <1>5 DEF Call, Receive, Lock, Wait, ring, maps, SoundInv, Stocked,
                MapsMatch, IdsMatch
  <2>2. CallsTyped'
    BY <1>5 DEF Call, Receive, Lock, Wait, Goto, SoundInv, CallsTyped
  <2> QED
    BY <1>5, <2>1, <2>2 DEF Call, Receive, Lock, Wait, SoundInv
<1>6. ASSUME NEW c \in Consumer, TakeOut(c) PROVE SoundInv'
  BY <1>6, TakeOutSound
<1>7. CASE UNCHANGED vars
  BY <1>7 DEF vars, SoundInv, Stocked, MapsMatch, IdsMatch, CallsTyped
<1> QED
  BY <1>1, <1>2, <1>3, <1>4, <1>5, <1>6, <1>7 DEF Next

LEMMA SoundIsSound == SoundInv => RingSound
<1> SUFFICES ASSUME SoundInv PROVE RingSound
  OBVIOUS
<1>1. /\ Len(buf) \in Nat \ {0} /\ tail \in 0..(Len(buf) - 1)
      /\ head \in 0..(Len(buf) - 1) /\ count \in 0..Len(buf)
      /\ buf \in Seq(Id \cup {0}) /\ tail = Slot(buf, head, count)
  BY RingFacts DEF SoundInv, Stocked, IsRing
<1>2. \A k \in 0..Len(buf) : Slot(buf, head, k) = Wrap(head + k, Len(buf))
  BY <1>1, WrapIs DEF Slot
<1>3. TypeOK
  <2>1. DOMAIN items \subseteq Id
    BY RingFacts DEF SoundInv, Stocked
  <2>2. Len(buf) > 0 /\ buf \in [1..Len(buf) -> Id \cup {0}]
    BY <1>1
  <2>3. /\ items \in [DOMAIN items -> Elem]
        /\ DOMAIN ids \subseteq Elem /\ ids \in [DOMAIN ids -> Id]
    BY DEF SoundInv, Stocked, MapsMatch
  <2>4. CallsTyped /\ panicked \in BOOLEAN
    BY DEF SoundInv
  <2> QED
    BY <1>1, <2>1, <2>2, <2>3, <2>4, Zenon DEF CallsTyped, TypeOK
<1>4. RingIntact
  <2>1. tail = Wrap(head + count, Len(buf))
    BY <1>1, <1>2
  <2>2. ASSUME NEW i \in 0..(Len(buf) - 1)
        PROVE  /\ InRing(i) <=> buf[i + 1] # 0
               /\ \E k \in 0..(Len(buf) - 1) : Slot(buf, head, k) = i
    <3> DEFINE k == IF i >= head THEN i - head ELSE i - head + Len(buf)
    <3>1. k \in 0..(Len(buf) - 1) /\ Slot(buf, head, k) = i
      BY <1>1 DEF Slot
    <3> HIDE DEF k
    <3>2. buf[i + 1] # 0 <=> k < count
      BY <3>1 DEF SoundInv, Stocked, IsRing, At
    <3>3. InRing(i) => k < count
      <4> SUFFICES ASSUME NEW l \in 0..(count - 1),
                          i = Wrap(head + l, Len(buf))
                   PROVE  k < count
        BY DEF InRing
      <4>1. i = Slot(buf, head, l) /\ l < count
        BY <1>1, <1>2
      <4> QED
        BY <1>1, <3>1, <4>1 DEF Slot
    <3>4. k < count => InRing(i)
      <4>1. k < count => k \in 0..(count - 1)
        BY <1>1, <3>1
      <4> QED
        <5> SUFFICES ASSUME k < count PROVE InRing(i)
          OBVIOUS
        <5>1. i = Wrap(head + k, Len(buf))
          BY <1>1, <1>2, <3>1
        <5> QED
          BY <4>1, <5>1 DEF InRing
    <3> QED
      BY <3>1, <3>2, <3>3, <3>4
  <2>3. ASSUME NEW i \in 1..Len(buf), NEW j \in 1..Len(buf),
               buf[i] # 0, buf[i] = buf[j]
        PROVE  i = j
    <3>1. PICK k \in 0..(Len(buf) - 1) : Slot(buf, head, k) = i - 1
      BY <1>1, <2>2
    <3>2. PICK l \in 0..(Len(buf) - 1) : Slot(buf, head, l) = j - 1
      BY <1>1, <2>2
    <3>3. At(buf, head, k) = buf[i] /\ At(buf, head, l) = buf[j]
      BY <3>1, <3>2 DEF At
    <3>4. k < count /\ l < count
      BY <2>3, <3>3 DEF SoundInv, Stocked, IsRing
    <3>5. k = l
      BY <1>1, <2>3, <3>3, <3>4 DEF SoundInv, Stocked, IsRing
    <3> QED
      BY <3>1, <3>2, <3>5
  <2>4. ASSUME NEW x \in DOMAIN items
        PROVE  \E i \in 1..Len(buf) : buf[i] = x
    <3>1. PICK k \in 0..(count - 1) : x = At(buf, head, k)
      BY DEF SoundInv, Stocked, InSlots
    <3>2. Slot(buf, head, k) + 1 \in 1..Len(buf)
      BY <1>1 DEF Slot
    <3> QED
      BY <3>1, <3>2 DEF At
  <2> QED
    BY <2>1, <2>2, <2>3, <2>4 DEF RingIntact
<1> QED
  BY <1>3, <1>4 DEF SoundInv, Stocked, MapsMatch, RingSound, NoIndexPanic

(***************************************************************************)
(* While elements are distinct and nobody calls Clean, ring and maps fit   *)
(* together after any sequence of calls, at any lengths of the ring, and   *)
(* no index is out of range (Append, Prepend, Pop, Remove, resize).        *)
(***************************************************************************)
THEOREM RingStaysSound ==
    ASSUME ~Duplicates, ~CallsClean
    PROVE  Spec => []RingSound
<1>1. Init => SoundInv
  BY SoundInit
<1>2. SoundInv /\ [Next]_vars => SoundInv'
  BY SoundStep
<1> QED
  BY <1>1, <1>2, SoundIsSound, PTL DEF Spec

-----------------------------------------------------------------------------

\* Ranks are in the order of the set.
LEMMA RankIncreases ==
    ASSUME NEW P \in SUBSET Int, IsFiniteSet(P),
           NEW j \in P, NEW k \in P, j < k
    PROVE  Rank(P, j) < Rank(P, k)
<1> DEFINE upTo(i) == {l \in P : l <= i}
<1>1. upTo(j) \in SUBSET upTo(k) /\ k \in upTo(k) /\ k \notin upTo(j)
  <2>1. j \in Int /\ k \in Int /\ \A i \in P : i \in Int
    OBVIOUS
  <2>2. \A i \in P : i <= j => i <= k
    BY <2>1
  <2>3. k <= k /\ ~(k <= j)
    BY <2>1
  <2>4. upTo(j) \subseteq upTo(k)
    BY <2>2
  <2>5. k \in upTo(k) /\ k \notin upTo(j)
    BY <2>3
  <2> QED
    BY <2>4, <2>5
<1>2. IsFiniteSet(upTo(j)) /\ IsFiniteSet(upTo(k))
  <2>1. upTo(j) \in SUBSET P /\ upTo(k) \in SUBSET P
    OBVIOUS
  <2> HIDE DEF upTo
  <2> QED
    BY <2>1, FS_Subset
<1> HIDE DEF upTo
<1>3. Cardinality(upTo(j)) \in Nat /\ Cardinality(upTo(k)) \in Nat
  BY <1>2, FS_CardinalityType
<1>4. /\ Cardinality(upTo(j)) <= Cardinality(upTo(k))
      /\ Cardinality(upTo(k)) = Cardinality(upTo(j)) => upTo(k) = upTo(j)
  BY <1>1, <1>2, FS_Subset
<1>5. Cardinality(upTo(j)) < Cardinality(upTo(k))
  BY <1>1, <1>3, <1>4
<1> QED
  BY <1>5 DEF Rank, upTo

\* Of a finite set of integers, the rank runs through 1..Cardinality, in the
\* order of the set.
LEMMA RankIs ==
    ASSUME NEW P \in SUBSET Int, IsFiniteSet(P)
    PROVE  /\ Cardinality(P) \in Nat
           /\ \A k \in P : Rank(P, k) \in 1..Cardinality(P)
           /\ \A j, k \in P : Rank(P, j) = Rank(P, k) => j = k
           /\ \A r \in 1..Cardinality(P) : \E k \in P : Rank(P, k) = r
<1> DEFINE upTo(k) == {j \in P : j <= k}
           n == Cardinality(P)
           rank == [k \in P |-> Rank(P, k)]
<1>1. /\ n \in Nat /\ IsFiniteSet(1..n) /\ Cardinality(1..n) = n
  <2>1. n \in Nat
    BY FS_CardinalityType
  <2>2. /\ IsFiniteSet(1..n)
        /\ Cardinality(1..n) = IF 1 > n THEN 0 ELSE n - 1 + 1
    BY <2>1, FS_Interval
  <2> QED
    BY <2>1, <2>2
<1>2. \A k \in Int : /\ IsFiniteSet(upTo(k)) /\ Cardinality(upTo(k)) <= n
                     /\ Cardinality(upTo(k)) \in Nat
  <2> SUFFICES ASSUME NEW k \in Int
               PROVE  /\ IsFiniteSet(upTo(k)) /\ Cardinality(upTo(k)) <= n
                      /\ Cardinality(upTo(k)) \in Nat
    OBVIOUS
  <2>1. upTo(k) \in SUBSET P
    OBVIOUS
  <2>2. IsFiniteSet(upTo(k)) /\ Cardinality(upTo(k)) <= n
    BY <2>1, FS_Subset
  <2> QED
    BY <2>2, FS_CardinalityType
<1>3. \A k \in P : Rank(P, k) \in 1..n
  <2> SUFFICES ASSUME NEW k \in P PROVE Rank(P, k) \in 1..n
    OBVIOUS
  <2>1. IsFiniteSet(upTo(k)) /\ upTo(k) # {} /\ Cardinality(upTo(k)) \in 0..n
    BY <1>1, <1>2
  <2>2. Cardinality(upTo(k)) # 0
    BY <2>1, FS_EmptySet
  <2>3. Rank(P, k) = Cardinality(upTo(k))
    BY DEF Rank
  <2> HIDE DEF upTo, n
  <2> QED
    BY <1>1, <2>1, <2>2, <2>3
<1>5. \A j, k \in P : Rank(P, j) = Rank(P, k) => j = k
  <2> SUFFICES ASSUME NEW j \in P, NEW k \in P, Rank(P, j) = Rank(P, k), j # k
               PROVE  FALSE
    OBVIOUS
  <2>1. j < k \/ k < j
    OBVIOUS
  <2>2. Rank(P, j) \in Int /\ Rank(P, k) \in Int
    BY <1>1, <1>3
  <2> QED
    BY <2>1, <2>2, RankIncreases
<1>6. rank \in Surjection(P, 1..n)
  <2>1. rank \in Injection(P, 1..n)
    BY <1>3, <1>5 DEF Injection, IsInjective
  <2> HIDE DEF rank, n
  <2> QED
    BY <1>1, <2>1, FS_Injection DEF n
<1>7. \A r \in 1..n : \E k \in P : Rank(P, k) = r
  BY <1>6 DEF Surjection
<1> QED
  BY <1>1, <1>3, <1>5, <1>7

\* What InOrder is: the values, each at the rank of its argument.
LEMMA InOrderIs ==
    ASSUME NEW S, NEW v, v \in [DOMAIN v -> S],
           DOMAIN v \in SUBSET Int, IsFiniteSet(DOMAIN v)
    PROVE  /\ InOrder(v) \in Seq(S) /\ Len(InOrder(v)) = Cardinality(DOMAIN v)
           /\ \A k \in DOMAIN v : InOrder(v)[Rank(DOMAIN v, k)] = v[k]
<1> DEFINE n == Cardinality(DOMAIN v)
           Nth(r) == CHOOSE k \in DOMAIN v : Rank(DOMAIN v, k) = r
<1>1. /\ n \in Nat
      /\ \A k \in DOMAIN v : Rank(DOMAIN v, k) \in 1..n
      /\ \A j, k \in DOMAIN v :
            Rank(DOMAIN v, j) = Rank(DOMAIN v, k) => j = k
      /\ \A r \in 1..n : \E k \in DOMAIN v : Rank(DOMAIN v, k) = r
  BY RankIs
<1>2. \A r \in 1..n : Nth(r) \in DOMAIN v /\ Rank(DOMAIN v, Nth(r)) = r
  BY <1>1
<1>3. InOrder(v) = [r \in 1..n |-> v[Nth(r)]]
  BY DEF InOrder
<1> HIDE DEF Nth, n
<1>4. \A k \in DOMAIN v : Nth(Rank(DOMAIN v, k)) = k
  BY <1>1, <1>2
<1>5. InOrder(v) \in Seq(S) /\ Len(InOrder(v)) = n
  BY <1>1, <1>2, <1>3
<1>6. \A k \in DOMAIN v : InOrder(v)[Rank(DOMAIN v, k)] = v[k]
  BY <1>1, <1>3, <1>4
<1> QED
  BY <1>5, <1>6 DEF n

\* And the only one such sequence.
LEMMA InOrderUnique ==
    ASSUME NEW v, DOMAIN v \in SUBSET Int, IsFiniteSet(DOMAIN v),
           NEW S, v \in [DOMAIN v -> S],
           NEW s \in Seq(S), Len(s) = Cardinality(DOMAIN v),
           \A k \in DOMAIN v : s[Rank(DOMAIN v, k)] = v[k]
    PROVE  s = InOrder(v)
<1> DEFINE n == Cardinality(DOMAIN v)
           t == InOrder(v)
<1>1. /\ n \in Nat
      /\ \A r \in 1..n : \E k \in DOMAIN v : Rank(DOMAIN v, k) = r
  BY RankIs
<1>2. /\ t \in Seq(S) /\ Len(t) = n
      /\ \A k \in DOMAIN v : t[Rank(DOMAIN v, k)] = v[k]
  BY InOrderIs
<1> HIDE DEF n, t
<1>3. \A r \in 1..n : s[r] = t[r]
  BY <1>1, <1>2
<1>4. Len(s) = n
  BY DEF n
<1>5. s = t
  BY <1>1, <1>2, <1>3, <1>4
<1> QED
  BY <1>5 DEF t

\* A set without m: what comes after m moves up by one.
LEMMA RankWithout ==
    ASSUME NEW P \in SUBSET Int, IsFiniteSet(P), NEW m \in P
    PROVE  /\ IsFiniteSet(P \ {m}) /\ Cardinality(P \ {m}) = Cardinality(P) - 1
           /\ \A k \in P \ {m} :
                 IF k < m THEN /\ Rank(P \ {m}, k) = Rank(P, k)
                               /\ Rank(P, k) < Rank(P, m)
                          ELSE /\ Rank(P \ {m}, k) = Rank(P, k) - 1
                               /\ Rank(P, m) < Rank(P, k)
<1>1. IsFiniteSet(P \ {m}) /\ Cardinality(P \ {m}) = Cardinality(P) - 1
  BY FS_RemoveElement
<1>2. ASSUME NEW k \in P \ {m}
      PROVE  IF k < m THEN /\ Rank(P \ {m}, k) = Rank(P, k)
                           /\ Rank(P, k) < Rank(P, m)
                      ELSE /\ Rank(P \ {m}, k) = Rank(P, k) - 1
                           /\ Rank(P, m) < Rank(P, k)
  <2>1. k \in Int /\ m \in Int /\ \A i \in P : i \in Int
    OBVIOUS
  <2>2. CASE k < m
    <3>1. {j \in P \ {m} : j <= k} = {j \in P : j <= k}
      BY <2>1, <2>2
    <3>2. Rank(P, k) < Rank(P, m)
      BY <2>2, RankIncreases
    <3> QED
      BY <2>2, <3>1, <3>2 DEF Rank
  <2>3. CASE m < k
    <3>1. {j \in P \ {m} : j <= k} = {j \in P : j <= k} \ {m}
      OBVIOUS
    <3>2. m \in {j \in P : j <= k}
      BY <2>1, <2>3
    <3>3. {j \in P : j <= k} \in SUBSET P
      OBVIOUS
    <3>4. IsFiniteSet({j \in P : j <= k})
      BY <3>3, FS_Subset
    <3>5. Cardinality({j \in P : j <= k} \ {m})
             = Cardinality({j \in P : j <= k}) - 1
      BY <3>2, <3>4, FS_RemoveElement
    <3>6. Rank(P, m) < Rank(P, k)
      BY <2>3, RankIncreases
    <3>7. ~(k < m)
      BY <2>1, <2>3
    <3>8. Rank(P \ {m}, k) = Rank(P, k) - 1
      BY <3>1, <3>5 DEF Rank
    <3> QED
      BY <3>6, <3>7, <3>8
  <2> QED
    BY <2>1, <2>2, <2>3
<1> QED
  BY <1>1, <1>2

\* Taking m out of the function takes one element out of the sequence.
LEMMA InOrderWithout ==
    ASSUME NEW S, NEW v, v \in [DOMAIN v -> S],
           DOMAIN v \in SUBSET Int, IsFiniteSet(DOMAIN v), NEW m \in DOMAIN v
    PROVE  LET r == Rank(DOMAIN v, m)
               s == InOrder(v)
           IN  /\ r \in 1..Len(s) /\ s[r] = v[m]
               /\ InOrder(Without(v, m))
                    = SubSeq(s, 1, r - 1) \o SubSeq(s, r + 1, Len(s))
<1> DEFINE r == Rank(DOMAIN v, m)
           s == InOrder(v)
           w == Without(v, m)
           t == SubSeq(s, 1, r - 1) \o SubSeq(s, r + 1, Len(s))
           n == Cardinality(DOMAIN v)
<1>1. /\ s \in Seq(S) /\ Len(s) = n
      /\ \A k \in DOMAIN v : s[Rank(DOMAIN v, k)] = v[k]
  BY InOrderIs
<1>2. /\ n \in Nat
      /\ \A k \in DOMAIN v : Rank(DOMAIN v, k) \in 1..n
  BY RankIs
<1>3. /\ DOMAIN w = DOMAIN v \ {m} /\ w \in [DOMAIN w -> S]
      /\ \A k \in DOMAIN w : w[k] = v[k]
  BY DEF Without
<1>4. /\ IsFiniteSet(DOMAIN w) /\ Cardinality(DOMAIN w) = n - 1
      /\ \A k \in DOMAIN w :
            IF k < m THEN /\ Rank(DOMAIN w, k) = Rank(DOMAIN v, k)
                          /\ Rank(DOMAIN v, k) < r
                     ELSE /\ Rank(DOMAIN w, k) = Rank(DOMAIN v, k) - 1
                          /\ r < Rank(DOMAIN v, k)
  <2>1. /\ IsFiniteSet(DOMAIN v \ {m})
        /\ Cardinality(DOMAIN v \ {m}) = n - 1
        /\ \A k \in DOMAIN v \ {m} :
              IF k < m THEN /\ Rank(DOMAIN v \ {m}, k) = Rank(DOMAIN v, k)
                            /\ Rank(DOMAIN v, k) < r
                       ELSE /\ Rank(DOMAIN v \ {m}, k) = Rank(DOMAIN v, k) - 1
                            /\ r < Rank(DOMAIN v, k)
    BY RankWithout
  <2> HIDE DEF w, r, n
  <2> QED
    BY <1>3, <2>1
<1>5. r \in 1..n
  BY <1>2
<1> HIDE DEF r, s, w, n
<1>6. /\ t \in Seq(S) /\ Len(t) = n - 1
      /\ \A i \in 1..(n - 1) : t[i] = IF i < r THEN s[i] ELSE s[i + 1]
  <2> DEFINE low == SubSeq(s, 1, r - 1)
             high == SubSeq(s, r + 1, n)
  <2>1. /\ low \in Seq(S) /\ Len(low) = r - 1
        /\ \A i \in 1..(r - 1) : low[i] = s[i]
    BY <1>1, <1>2, <1>5
  <2>2. /\ high \in Seq(S) /\ Len(high) = n - r
        /\ \A i \in 1..(n - r) : high[i] = s[i + r]
    BY <1>1, <1>2, <1>5, SMTT(30)
  <2>3. t = low \o high
    BY <1>1
  <2> HIDE DEF low, high, t
  <2>4. /\ t \in Seq(S) /\ Len(t) = Len(low) + Len(high)
        /\ \A i \in 1..Len(low) : t[i] = low[i]
        /\ \A i \in 1..Len(high) : t[Len(low) + i] = high[i]
    <3>1. low \in Seq(S) /\ high \in Seq(S)
      BY <2>1, <2>2
    <3>2. /\ low \o high \in Seq(S)
          /\ Len(low \o high) = Len(low) + Len(high)
          /\ \A i \in 1..Len(low) : (low \o high)[i] = low[i]
          /\ \A i \in 1..Len(high) : (low \o high)[Len(low) + i] = high[i]
      BY <3>1, ConcatAt
    <3> QED
      BY <2>3, <3>2
  <2>5. n \in Int /\ r \in Int /\ Len(t) = n - 1
    BY <1>2, <1>5, <2>1, <2>2, <2>4
  <2>6. ASSUME NEW i \in 1..(n - 1)
        PROVE  t[i] = IF i < r THEN s[i] ELSE s[i + 1]
    <3>1. CASE i < r
      <4>1. i \in 1..(r - 1)
        BY <2>5, <3>1
      <4>2. t[i] = low[i] /\ low[i] = s[i]
        BY <2>1, <2>4, <4>1
      <4> QED
        BY <3>1, <4>2
    <3>2. CASE ~(i < r)
      <4>1. /\ i - (r - 1) \in 1..(n - r) /\ (r - 1) + (i - (r - 1)) = i
            /\ (i - (r - 1)) + r = i + 1
        BY <2>5, <3>2
      <4>2. t[i] = high[i - (r - 1)] /\ high[i - (r - 1)] = s[i + 1]
        BY <2>1, <2>2, <2>4, <4>1
      <4> QED
        BY <3>2, <4>2
    <3> QED
      BY <3>1, <3>2
  <2> QED
    BY <2>4, <2>5, <2>6
<1> HIDE DEF t
<1>7. ASSUME NEW k \in DOMAIN w PROVE t[Rank(DOMAIN w, k)] = w[k]
  <2>1. k \in DOMAIN v /\ s[Rank(DOMAIN v, k)] = w[k]
    BY <1>1, <1>3
  <2>2. Rank(DOMAIN v, k) \in 1..n
    BY <1>2, <2>1
  <2>3. CASE k < m
    <3>1. Rank(DOMAIN w, k) = Rank(DOMAIN v, k) /\ Rank(DOMAIN v, k) < r
      BY <1>4, <2>3
    <3> QED
      BY <1>2, <1>5, <1>6, <2>1, <2>2, <3>1
  <2>4. CASE ~(k < m)
    <3>1. /\ Rank(DOMAIN w, k) = Rank(DOMAIN v, k) - 1
          /\ r < Rank(DOMAIN v, k)
      BY <1>4, <2>4
    <3> QED
      BY <1>2, <1>5, <1>6, <2>1, <2>2, <3>1
  <2> QED
    BY <2>3, <2>4
<1>8. DOMAIN w \in SUBSET Int
  BY <1>3
<1>9. t = InOrder(w)
  <2>1. IsFiniteSet(DOMAIN w) /\ Len(t) = Cardinality(DOMAIN w)
    BY <1>4, <1>6
  <2>2. t \in Seq(S) /\ w \in [DOMAIN w -> S]
    BY <1>3, <1>6
  <2> QED
    BY <1>7, <1>8, <2>1, <2>2, InOrderUnique
<1> QED
  BY <1>1, <1>5, <1>9 DEF r, s, t, w, n

\* w is v with its arguments moved by one, which leaves their order as it is.
IsShifted(v, w) ==
    /\ \A k \in Int : k \in DOMAIN v <=> k + 1 \in DOMAIN w
    /\ \A k \in DOMAIN v : w[k + 1] = v[k]

LEMMA InOrderShifted ==
    ASSUME NEW S, NEW v, v \in [DOMAIN v -> S],
           DOMAIN v \in SUBSET Int, IsFiniteSet(DOMAIN v),
           NEW w, w \in [DOMAIN w -> S],
           DOMAIN w \in SUBSET Int, IsShifted(v, w)
    PROVE  InOrder(w) = InOrder(v)
<1> DEFINE s == InOrder(v)
           n == Cardinality(DOMAIN v)
           upTo(P, k) == {j \in P : j <= k}
<1>1. \A k \in DOMAIN w : k \in Int /\ k - 1 \in DOMAIN v /\ w[k] = v[k - 1]
  <2> SUFFICES ASSUME NEW k \in DOMAIN w
               PROVE  k \in Int /\ k - 1 \in DOMAIN v /\ w[k] = v[k - 1]
    OBVIOUS
  <2>1. k \in Int /\ k - 1 \in Int /\ (k - 1) + 1 = k
    OBVIOUS
  <2> QED
    BY <2>1 DEF IsShifted
<1>2. \A k \in DOMAIN v : k \in Int /\ k + 1 \in DOMAIN w
  BY DEF IsShifted
<1>3. ASSUME NEW P \in SUBSET DOMAIN v, NEW Q \in SUBSET DOMAIN w,
             \A k \in P : k + 1 \in Q, \A k \in Q : k - 1 \in P
      PROVE  IsFiniteSet(Q) /\ Cardinality(Q) = Cardinality(P)
  <2> DEFINE move == [k \in P |-> k + 1]
  <2>1. IsFiniteSet(P)
    BY FS_Subset
  <2>2. move \in Surjection(P, Q)
    <3>1. move \in [P -> Q]
      BY <1>3
    <3>2. \A k \in Q : k - 1 \in P /\ move[k - 1] = k
      BY <1>1, <1>3
    <3> QED
      BY <3>1, <3>2 DEF Surjection
  <2>3. move \in Injection(P, Q)
    <3>1. move \in [P -> Q]
      BY <1>3
    <3>2. \A j, k \in P : move[j] = move[k] => j = k
      BY <1>2
    <3> QED
      BY <3>1, <3>2 DEF Injection, IsInjective
  <2> HIDE DEF move
  <2> QED
    BY <2>1, <2>2, <2>3, FS_Surjection
<1>4. IsFiniteSet(DOMAIN w) /\ Cardinality(DOMAIN w) = n
  BY <1>1, <1>2, <1>3
<1>5. ASSUME NEW k \in DOMAIN w
      PROVE  Rank(DOMAIN w, k) = Rank(DOMAIN v, k - 1)
  <2>1. /\ upTo(DOMAIN v, k - 1) \in SUBSET DOMAIN v
        /\ upTo(DOMAIN w, k) \in SUBSET DOMAIN w
    OBVIOUS
  <2>2. \A j \in upTo(DOMAIN v, k - 1) : j + 1 \in upTo(DOMAIN w, k)
    BY <1>1, <1>2
  <2>3. \A j \in upTo(DOMAIN w, k) : j - 1 \in upTo(DOMAIN v, k - 1)
    BY <1>1, <1>2
  <2> HIDE DEF upTo
  <2>4. Cardinality(upTo(DOMAIN w, k)) = Cardinality(upTo(DOMAIN v, k - 1))
    BY <1>3, <2>1, <2>2, <2>3
  <2> QED
    BY <2>4 DEF upTo, Rank
<1>6. /\ s \in Seq(S) /\ Len(s) = n
      /\ \A k \in DOMAIN v : s[Rank(DOMAIN v, k)] = v[k]
  BY InOrderIs
<1>7. ASSUME NEW k \in DOMAIN w PROVE s[Rank(DOMAIN w, k)] = w[k]
  <2>1. k - 1 \in DOMAIN v /\ w[k] = v[k - 1]
    BY <1>1
  <2>2. s[Rank(DOMAIN v, k - 1)] = v[k - 1]
    BY <1>6, <2>1
  <2> QED
    BY <1>5, <2>1, <2>2
<1> HIDE DEF s, n
<1>8. s = InOrder(w)
  <2>1. IsFiniteSet(DOMAIN w) /\ Len(s) = Cardinality(DOMAIN w)
    BY <1>4, <1>6
  <2>2. s \in Seq(S) /\ w \in [DOMAIN w -> S] /\ DOMAIN w \in SUBSET Int
    BY <1>6
  <2> QED
    BY <1>7, <2>1, <2>2, InOrderUnique
<1> QED
  BY <1>8 DEF s

\* The last argument and the first.
LEMMA InOrderLast ==
    ASSUME NEW S, NEW v, v \in [DOMAIN v -> S],
           DOMAIN v \in SUBSET Int, IsFiniteSet(DOMAIN v),
           NEW m \in DOMAIN v, \A k \in DOMAIN v : k <= m
    PROVE  InOrder(v) = InOrder(Without(v, m)) \o <<v[m]>>
<1> DEFINE s == InOrder(v)
           t == InOrder(Without(v, m))
           r == Rank(DOMAIN v, m)
<1>1. s \in Seq(S) /\ Len(s) = Cardinality(DOMAIN v)
  BY InOrderIs
<1>2. /\ r \in 1..Len(s) /\ s[r] = v[m]
      /\ t = SubSeq(s, 1, r - 1) \o SubSeq(s, r + 1, Len(s))
  BY InOrderWithout
<1>3. {j \in DOMAIN v : j <= m} = DOMAIN v
  OBVIOUS
<1>4. r = Len(s)
  BY <1>1, <1>3 DEF Rank
<1> HIDE DEF s, t, r
<1>5. SubSeq(s, 1, r - 1) \o SubSeq(s, r + 1, Len(s)) = SubSeq(s, 1, r - 1)
  BY <1>1, <1>2, <1>4
<1>6. t = SubSeq(s, 1, r - 1)
  BY <1>2, <1>5
<1>7. t \in Seq(S) /\ Len(t) = r - 1 /\ \A i \in 1..(r - 1) : t[i] = s[i]
  BY <1>1, <1>2, <1>6
<1>8. s = t \o <<s[r]>>
  BY <1>1, <1>2, <1>4, <1>7
<1> QED
  BY <1>2, <1>8 DEF s, t

LEMMA InOrderFirst ==
    ASSUME NEW S, NEW v, v \in [DOMAIN v -> S],
           DOMAIN v \in SUBSET Int, IsFiniteSet(DOMAIN v),
           NEW m \in DOMAIN v, \A k \in DOMAIN v : m <= k
    PROVE  /\ InOrder(v) # <<>> /\ Head(InOrder(v)) = v[m]
           /\ Tail(InOrder(v)) = InOrder(Without(v, m))
           /\ InOrder(v) = <<v[m]>> \o InOrder(Without(v, m))
<1> DEFINE s == InOrder(v)
           t == InOrder(Without(v, m))
           r == Rank(DOMAIN v, m)
<1>1. s \in Seq(S) /\ Len(s) = Cardinality(DOMAIN v)
  BY InOrderIs
<1>2. /\ r \in 1..Len(s) /\ s[r] = v[m]
      /\ t = SubSeq(s, 1, r - 1) \o SubSeq(s, r + 1, Len(s))
  BY InOrderWithout
<1>3. r = 1
  <2>1. {j \in DOMAIN v : j <= m} = {m}
    OBVIOUS
  <2> QED
    BY <2>1, FS_Singleton DEF Rank
<1> HIDE DEF s, t, r
<1>4. SubSeq(s, 1, r - 1) \o SubSeq(s, r + 1, Len(s)) = SubSeq(s, 2, Len(s))
  <2>1. r - 1 = 0 /\ r + 1 = 2
    BY <1>3
  <2>2. SubSeq(s, 1, 0) = <<>>
    BY <1>1
  <2>3. SubSeq(s, 2, Len(s)) \in Seq(S)
    BY <1>1, <1>2
  <2>4. <<>> \o SubSeq(s, 2, Len(s)) = SubSeq(s, 2, Len(s))
    BY <2>3
  <2> QED
    BY <2>1, <2>2, <2>4
<1>5. s # <<>> /\ Head(s) = s[1] /\ Tail(s) = SubSeq(s, 2, Len(s))
  <2>1. s # <<>>
    BY <1>2
  <2>2. Head(s) = s[1]
    BY <1>1, <2>1
  <2>3. Tail(s) = SubSeq(s, 2, Len(s))
    BY <1>1, <2>1
  <2> QED
    BY <2>1, <2>2, <2>3
<1>6. t = Tail(s)
  BY <1>2, <1>4, <1>5
<1>7. s = <<s[1]>> \o Tail(s)
  BY <1>1, <1>5
<1> QED
  BY <1>2, <1>3, <1>5, <1>6, <1>7 DEF s, t

-----------------------------------------------------------------------------

\* The elements of the map f that are in a ring, at their distance from h.
LiveOf(b, h, c, f) ==
    [k \in {j \in 0..(c - 1) : At(b, h, j) \in DOMAIN f} |-> f[At(b, h, k)]]

LEMMA LiveOfTyped ==
    ASSUME NEW b, NEW h, NEW c \in Nat, NEW f, f \in [DOMAIN f -> Elem]
    PROVE  LET v == LiveOf(b, h, c, f)
           IN  /\ v \in [DOMAIN v -> Elem]
               /\ DOMAIN v \in SUBSET Int /\ IsFiniteSet(DOMAIN v)
               /\ \A k \in 0..(c - 1) :
                     k \in DOMAIN v <=> At(b, h, k) \in DOMAIN f
               /\ \A k \in DOMAIN v : /\ k \in 0..(c - 1)
                                      /\ v[k] = f[At(b, h, k)]
<1> DEFINE v == LiveOf(b, h, c, f)
<1>1. /\ DOMAIN v = {j \in 0..(c - 1) : At(b, h, j) \in DOMAIN f}
      /\ \A k \in DOMAIN v : v[k] = f[At(b, h, k)]
      /\ v = [k \in DOMAIN v |-> f[At(b, h, k)]]
  BY DEF LiveOf
<1> HIDE DEF v
<1>2. v \in [DOMAIN v -> Elem]
  BY <1>1
<1>3. DOMAIN v \in SUBSET (0..(c - 1))
  BY <1>1
<1>4. IsFiniteSet(DOMAIN v)
  <2>1. IsFiniteSet(0..(c - 1))
    BY FS_Interval
  <2> QED
    BY <1>3, <2>1, FS_Subset
<1> QED
  BY <1>1, <1>2, <1>3, <1>4 DEF v

\* IdAt without the remainder.
LEMMA AtIs ==
    ASSUME NEW b, NEW h, NEW t, NEW c, IsRing(b, h, t, c),
           NEW k \in 0..(c - 1)
    PROVE  b[Wrap(h + k, Len(b)) + 1] = At(b, h, k)
<1>1. Len(b) \in Nat \ {0} /\ h \in 0..(Len(b) - 1) /\ c \in 0..Len(b)
  BY RingFacts DEF IsRing
<1>2. h + k \in (0 - 1)..(2 * Len(b) - 1) /\ ~(h + k < 0)
  BY <1>1
<1>3. Wrap(h + k, Len(b)) = Slot(b, h, k)
  BY <1>1, <1>2, WrapIs DEF Slot
<1> QED
  BY <1>3 DEF At

LEMMA LiveIs ==
    ASSUME Stocked
    PROVE  Live = InOrder(LiveOf(buf, head, count, items))
<1>1. \A k \in 0..(count - 1) : IdAt(k) = At(buf, head, k)
  BY AtIs DEF Stocked, IdAt
<1>2. LiveAt = LiveOf(buf, head, count, items)
  BY <1>1 DEF LiveAt, LiveOf
<1> QED
  BY <1>2 DEF Live

LEMMA LiveIsNext ==
    ASSUME Stocked'
    PROVE  Live' = InOrder(LiveOf(buf', head', count', items'))
<1>1. \A k \in 0..(count' - 1) :
         buf'[Wrap(head' + k, Len(buf')) + 1] = At(buf', head', k)
  BY AtIs DEF Stocked
<1>2. LiveAt' = LiveOf(buf', head', count', items')
  BY <1>1 DEF LiveAt, LiveOf, IdAt
<1> QED
  BY <1>2 DEF Live

\* The facts that the steps below start from.
LEMMA LiveTyped ==
    ASSUME SoundInv
    PROVE  LET v == LiveOf(buf, head, count, items)
           IN  /\ count \in Nat /\ Live = InOrder(v)
               /\ v \in [DOMAIN v -> Elem]
               /\ DOMAIN v \in SUBSET Int /\ IsFiniteSet(DOMAIN v)
               /\ \A k \in 0..(count - 1) :
                     k \in DOMAIN v <=> At(buf, head, k) \in DOMAIN items
               /\ \A k \in DOMAIN v : /\ k \in 0..(count - 1)
                                      /\ v[k] = items[At(buf, head, k)]
<1>1. Stocked /\ items \in [DOMAIN items -> Elem]
  BY DEF SoundInv, Stocked, MapsMatch
<1>2. count \in Nat
  BY <1>1, RingFacts DEF Stocked, IsRing
<1> QED
  BY <1>1, <1>2, LiveIs, LiveOfTyped

LEMMA LiveTypedNext ==
    ASSUME SoundInv'
    PROVE  LET w == LiveOf(buf', head', count', items')
           IN  /\ count' \in Nat /\ Live' = InOrder(w)
               /\ w \in [DOMAIN w -> Elem]
               /\ DOMAIN w \in SUBSET Int /\ IsFiniteSet(DOMAIN w)
               /\ \A k \in 0..(count' - 1) :
                     k \in DOMAIN w <=> At(buf', head', k) \in DOMAIN items'
               /\ \A k \in DOMAIN w : /\ k \in 0..(count' - 1)
                                      /\ w[k] = items'[At(buf', head', k)]
<1>1. Stocked' /\ items' \in [DOMAIN items' -> Elem]
  BY DEF SoundInv, Stocked, MapsMatch
<1>2. count' \in Nat
  BY <1>1, RingFacts DEF Stocked, IsRing
<1> QED
  BY <1>1, <1>2, LiveIsNext, LiveOfTyped

LEMMA PutBackRefines ==
    ASSUME SoundInv, ~Duplicates, NEW e \in Elem, PutBack(e)
    PROVE  Deque!PutBack(e)
<1> DEFINE v == LiveOf(buf, head, count, items)
           w == LiveOf(buf', head', count', items')
<1>1. /\ IsRing(Room, RoomHead, RoomTail, count)
      /\ InSlots(Room, RoomHead, count) = InSlots(buf, head, count)
      /\ count < Len(Room)
      /\ ~BadSlice(buf, head, tail) /\ ~(RoomTail >= Len(Room))
      /\ \A k \in 0..(count - 1) : At(Room, RoomHead, k) = At(buf, head, k)
  BY RoomIsThere DEF SoundInv
<1>2. /\ MayPut(e) /\ Store(e, newId)
      /\ buf' = Written(Room, RoomTail, newId) /\ head' = RoomHead
      /\ count' = count + 1 /\ taken' = taken
  BY <1>1 DEF PutBack, Written
<1>3. newId \in Id /\ newId \notin InSlots(buf, head, count)
  BY <1>2, NewIdIsNew DEF MayPut, SoundInv
<1>4. /\ At(buf', head', count) = newId
      /\ \A k \in 0..(count - 1) : /\ At(buf', head', k) = At(buf, head, k)
                                   /\ At(buf, head, k) # newId
  <2>1. newId \notin InSlots(Room, RoomHead, count)
    BY <1>1, <1>3
  <2>2. /\ At(Written(Room, RoomTail, newId), RoomHead, count) = newId
        /\ \A k \in 0..(count - 1) :
              At(Written(Room, RoomTail, newId), RoomHead, k)
                = At(Room, RoomHead, k)
    BY <1>1, <1>3, <2>1, PushBack
  <2> QED
    BY <1>1, <1>2, <1>3, <2>2 DEF InSlots
<1>5. /\ DOMAIN items' = DOMAIN items \cup {newId} /\ items'[newId] = e
      /\ \A x \in DOMAIN items \ {newId} : items'[x] = items[x]
  BY <1>2 DEF Store, With
<1>6. /\ count \in Nat /\ Live = InOrder(v)
      /\ v \in [DOMAIN v -> Elem]
      /\ \A k \in 0..(count - 1) :
            k \in DOMAIN v <=> At(buf, head, k) \in DOMAIN items
      /\ \A k \in DOMAIN v : /\ k \in 0..(count - 1)
                             /\ v[k] = items[At(buf, head, k)]
  BY LiveTyped
<1>7. /\ Live' = InOrder(w) /\ w \in [DOMAIN w -> Elem]
      /\ DOMAIN w \in SUBSET Int /\ IsFiniteSet(DOMAIN w)
      /\ \A k \in 0..(count' - 1) :
            k \in DOMAIN w <=> At(buf', head', k) \in DOMAIN items'
      /\ \A k \in DOMAIN w : /\ k \in 0..(count' - 1)
                             /\ w[k] = items'[At(buf', head', k)]
  BY PutBackSound, LiveTypedNext
<1> HIDE DEF v, w
<1>8. /\ count \in DOMAIN w /\ w[count] = e
      /\ \A k \in DOMAIN w : k <= count
  BY <1>2, <1>4, <1>5, <1>6, <1>7
<1>9. Without(w, count) = v
  <2>1. ASSUME NEW k \in 0..(count - 1)
        PROVE  /\ k \in DOMAIN w <=> k \in DOMAIN v
               /\ k \in DOMAIN v => w[k] = v[k]
    <3>1. k \in 0..(count' - 1)
      BY <1>2, <1>6
    <3> QED
      BY <1>4, <1>5, <1>6, <1>7, <2>1, <3>1
  <2>2. \A k \in DOMAIN w \ {count} : k \in 0..(count - 1)
    BY <1>2, <1>6, <1>7
  <2>3. DOMAIN v = DOMAIN w \ {count}
    <3>1. \A k \in 0..(count - 1) : k # count
      BY <1>6
    <3> QED
      BY <1>6, <2>1, <2>2, <3>1
  <2>4. \A k \in DOMAIN v : w[k] = v[k]
    BY <1>6, <2>1
  <2> QED
    BY <1>6, <2>3, <2>4 DEF Without
<1>10. InOrder(w) = InOrder(Without(w, count)) \o <<w[count]>>
  BY <1>7, <1>8, InOrderLast
<1>11. Live' = Live \o <<e>>
  BY <1>6, <1>7, <1>8, <1>9, <1>10
<1> QED
  BY <1>2, <1>11 DEF Deque!PutBack

LEMMA PutFrontRefines ==
    ASSUME SoundInv, ~Duplicates, NEW e \in Elem, PutFront(e)
    PROVE  Deque!PutFront(e)
<1> DEFINE v == LiveOf(buf, head, count, items)
           w == LiveOf(buf', head', count', items')
<1>1. /\ IsRing(Room, RoomHead, RoomTail, count)
      /\ InSlots(Room, RoomHead, count) = InSlots(buf, head, count)
      /\ count < Len(Room) /\ ~BadSlice(buf, head, tail)
      /\ \A k \in 0..(count - 1) : At(Room, RoomHead, k) = At(buf, head, k)
  BY RoomIsThere DEF SoundInv
<1>2. /\ MayPut(e) /\ Store(e, newId)
      /\ head' = Wrap(RoomHead - 1, Len(Room))
      /\ buf' = [Room EXCEPT ![head' + 1] = newId]
      /\ count' = count + 1 /\ taken' = taken
  BY <1>1 DEF PutFront
<1>3. newId \in Id /\ newId \notin InSlots(buf, head, count)
  BY <1>2, NewIdIsNew DEF MayPut, SoundInv
<1>4. /\ At(buf', head', 0) = newId
      /\ \A k \in 0..(count - 1) : /\ At(buf', head', k + 1) = At(buf, head, k)
                                   /\ At(buf, head, k) # newId
  <2> DEFINE first == Wrap(RoomHead - 1, Len(Room))
  <2>1. newId \notin InSlots(Room, RoomHead, count)
    BY <1>1, <1>3
  <2>2. /\ At(Written(Room, first, newId), first, 0) = newId
        /\ \A k \in 0..(count - 1) :
              At(Written(Room, first, newId), first, k + 1)
                = At(Room, RoomHead, k)
    BY <1>1, <1>3, <2>1, PushFront
  <2>3. head' = first /\ buf' = Written(Room, first, newId)
    BY <1>2 DEF Written
  <2> HIDE DEF first
  <2> QED
    BY <1>1, <1>3, <2>2, <2>3 DEF InSlots
<1>5. /\ DOMAIN items' = DOMAIN items \cup {newId} /\ items'[newId] = e
      /\ \A x \in DOMAIN items \ {newId} : items'[x] = items[x]
  BY <1>2 DEF Store, With
<1>6. /\ count \in Nat /\ Live = InOrder(v)
      /\ v \in [DOMAIN v -> Elem]
      /\ DOMAIN v \in SUBSET Int /\ IsFiniteSet(DOMAIN v)
      /\ \A k \in 0..(count - 1) :
            k \in DOMAIN v <=> At(buf, head, k) \in DOMAIN items
      /\ \A k \in DOMAIN v : /\ k \in 0..(count - 1)
                             /\ v[k] = items[At(buf, head, k)]
  BY LiveTyped
<1>7. /\ Live' = InOrder(w) /\ w \in [DOMAIN w -> Elem]
      /\ DOMAIN w \in SUBSET Int /\ IsFiniteSet(DOMAIN w)
      /\ \A k \in 0..(count' - 1) :
            k \in DOMAIN w <=> At(buf', head', k) \in DOMAIN items'
      /\ \A k \in DOMAIN w : /\ k \in 0..(count' - 1)
                             /\ w[k] = items'[At(buf', head', k)]
  BY PutFrontSound, LiveTypedNext
<1> HIDE DEF v, w
<1>8. /\ 0 \in DOMAIN w /\ w[0] = e
      /\ \A k \in DOMAIN w : 0 <= k
  <2>1. 0 \in 0..(count' - 1)
    BY <1>2, <1>6
  <2>2. 0 \in DOMAIN w /\ w[0] = e
    BY <1>4, <1>5, <1>7, <2>1
  <2>3. \A k \in DOMAIN w : 0 <= k
    BY <1>7
  <2> QED
    BY <2>2, <2>3
<1> DEFINE u == Without(w, 0)
<1>9. /\ DOMAIN u = DOMAIN w \ {0} /\ u \in [DOMAIN u -> Elem]
      /\ \A k \in DOMAIN u : u[k] = w[k]
  BY <1>7 DEF Without
<1> HIDE DEF u
<1>10. ASSUME NEW k \in 0..(count - 1)
       PROVE  /\ k + 1 \in DOMAIN w <=> k \in DOMAIN v
              /\ k \in DOMAIN v => w[k + 1] = v[k]
  <2>1. k + 1 \in 0..(count' - 1)
    BY <1>2, <1>6
  <2>2. At(buf', head', k + 1) = At(buf, head, k) /\ At(buf, head, k) # newId
    BY <1>4
  <2>3. k + 1 \in DOMAIN w <=> k \in DOMAIN v
    BY <1>5, <1>6, <1>7, <2>1, <2>2
  <2>4. k \in DOMAIN v => w[k + 1] = v[k]
    BY <1>5, <1>6, <1>7, <2>1, <2>2, <2>3
  <2> QED
    BY <2>3, <2>4
<1>11. /\ \A k \in Int : k \in DOMAIN v <=> k + 1 \in DOMAIN u
       /\ \A k \in DOMAIN v : u[k + 1] = v[k]
  <2>1. \A k \in Int : k + 1 \in DOMAIN u => k \in 0..(count - 1)
    BY <1>2, <1>6, <1>7, <1>9
  <2>2. \A k \in 0..(count - 1) : k + 1 # 0
    BY <1>6
  <2>3. \A k \in Int : k \in DOMAIN v <=> k + 1 \in DOMAIN u
    BY <1>6, <1>9, <1>10, <2>1, <2>2
  <2>4. \A k \in DOMAIN v : u[k + 1] = v[k]
    BY <1>6, <1>9, <1>10, <2>3
  <2> QED
    BY <2>3, <2>4
<1>12. InOrder(u) = InOrder(v)
  <2>1. DOMAIN u \in SUBSET Int
    BY <1>7, <1>9
  <2> QED
    BY <1>6, <1>9, <1>11, <2>1, InOrderShifted DEF IsShifted
<1>13. InOrder(w) = <<w[0]>> \o InOrder(Without(w, 0))
  BY <1>7, <1>8, InOrderFirst
<1>14. Live' = <<e>> \o Live
  BY <1>6, <1>7, <1>8, <1>12, <1>13 DEF u
<1> QED
  BY <1>2, <1>14 DEF Deque!PutFront

\* Of the elements in the ring, one without the identifier x.
LEMMA RemoveRefines ==
    ASSUME SoundInv, NEW e \in Elem, Remove(e)
    PROVE  Deque!Remove(e)
<1> DEFINE v == LiveOf(buf, head, count, items)
           w == LiveOf(buf', head', count', items')
           x == ids[e]
<1>1. /\ x \in DOMAIN items /\ items[x] = e
      /\ buf' = buf /\ head' = head /\ count' = count /\ taken' = taken
      /\ items' = Without(items, x)
  BY DEF SoundInv, Stocked, MapsMatch, IdsMatch, Remove, ring, consumers
<1>2. /\ count \in Nat /\ Live = InOrder(v)
      /\ v \in [DOMAIN v -> Elem]
      /\ DOMAIN v \in SUBSET Int /\ IsFiniteSet(DOMAIN v)
      /\ \A k \in 0..(count - 1) :
            k \in DOMAIN v <=> At(buf, head, k) \in DOMAIN items
      /\ \A k \in DOMAIN v : /\ k \in 0..(count - 1)
                             /\ v[k] = items[At(buf, head, k)]
  BY LiveTyped
<1>3. /\ Live' = InOrder(w) /\ w \in [DOMAIN w -> Elem]
      /\ \A k \in 0..(count' - 1) :
            k \in DOMAIN w <=> At(buf', head', k) \in DOMAIN items'
      /\ \A k \in DOMAIN w : /\ k \in 0..(count' - 1)
                             /\ w[k] = items'[At(buf', head', k)]
  BY RemoveSound, LiveTypedNext
<1>4. PICK m \in 0..(count - 1) : At(buf, head, m) = x
  BY <1>1 DEF SoundInv, Stocked, InSlots
<1>5. \A k \in 0..(count - 1) : At(buf, head, k) = x => k = m
  BY <1>4 DEF SoundInv, Stocked, IsRing
<1>6. /\ DOMAIN items' = DOMAIN items \ {x}
      /\ \A y \in DOMAIN items' : items'[y] = items[y]
  BY <1>1 DEF Without
<1> HIDE DEF v, w, x
<1>7. m \in DOMAIN v /\ v[m] = e
  BY <1>1, <1>2, <1>4
<1>8. w = Without(v, m)
  <2>1. DOMAIN w = DOMAIN v \ {m}
    BY <1>1, <1>2, <1>3, <1>4, <1>5, <1>6
  <2>2. \A k \in DOMAIN w : w[k] = v[k]
    BY <1>1, <1>2, <1>3, <1>6, <2>1
  <2> QED
    BY <1>3, <2>1, <2>2 DEF Without
<1> DEFINE i == Rank(DOMAIN v, m)
<1>9. /\ i \in 1..Len(InOrder(v)) /\ InOrder(v)[i] = v[m]
      /\ InOrder(Without(v, m))
           = SubSeq(InOrder(v), 1, i - 1)
               \o SubSeq(InOrder(v), i + 1, Len(InOrder(v)))
  BY <1>2, <1>7, InOrderWithout
<1> HIDE DEF i
<1>10. /\ i \in 1..Len(Live) /\ Live[i] = e
       /\ Live' = SubSeq(Live, 1, i - 1) \o SubSeq(Live, i + 1, Len(Live))
  BY <1>2, <1>3, <1>7, <1>8, <1>9
<1> QED
  BY <1>1, <1>10 DEF Deque!Remove

\* Pop takes the first element, or passes over an identifier that Remove left.
LEMMA TakeOutRefines ==
    ASSUME SoundInv, NEW c \in Consumer, TakeOut(c)
    PROVE  Deque!Pop(c) \/ (Live' = Live /\ taken' = taken)
<1> DEFINE v == LiveOf(buf, head, count, items)
           w == LiveOf(buf', head', count', items')
           emptied == Written(buf, head, 0)
           next == Wrap(head + 1, Len(buf))
           id == buf[head + 1]
<1>1. /\ Len(buf) \in Nat \ {0} /\ tail \in 0..(Len(buf) - 1)
      /\ head \in 0..(Len(buf) - 1) /\ count \in 1..Len(buf)
  BY RingFacts DEF SoundInv, Stocked, IsRing, TakeOut, MayTake
<1>2. /\ IsRing(emptied, next, tail, count - 1)
      /\ At(buf, head, 0) = id
      /\ \A k \in 0..(count - 2) : At(emptied, next, k) = At(buf, head, k + 1)
  <2>1. IsRing(buf, head, tail, count) /\ count > 0
    BY <1>1 DEF SoundInv, Stocked
  <2>2. IsRing(emptied, next, tail, count - 1) /\ At(buf, head, 0) = id
    BY <2>1, PopFront
  <2>3. \A k \in 0..(count - 2) : At(emptied, next, k) = At(buf, head, k + 1)
    BY <1>1, <2>1, PopFront
  <2> QED
    BY <2>2, <2>3
<1>3. ~(head >= Len(buf)) /\ ~BadSlice(buf, next, tail)
  <2>1. next \in 0..(Len(buf) - 1)
    <3>1. Len(emptied) = Len(buf)
      BY DEF Written
    <3> QED
      BY <1>2, <3>1 DEF IsRing
  <2> QED
    BY <1>1, <2>1 DEF BadSlice
<1>4. /\ count' = count - 1
      /\ IF HalfFull
         THEN /\ buf' = Resized(emptied, next, tail, count - 1)
              /\ head' = 0 /\ tail' = count - 1
         ELSE buf' = emptied /\ head' = next /\ tail' = tail
      /\ Deliver(c, id)
  BY <1>3 DEF TakeOut, Written
<1> HIDE DEF emptied, next, id
<1>5. \A k \in 0..(count - 2) : At(buf', head', k) = At(buf, head, k + 1)
  <2>1. CASE HalfFull
    <3>1. count - 1 > 0
      BY <1>1, <2>1, ConstantsAssumption DEF HalfFull
    <3>2. \A k \in 0..((count - 1) - 1) :
             At(Resized(emptied, next, tail, count - 1), 0, k)
               = At(emptied, next, k)
      BY <1>2, <3>1, ResizeRing
    <3>3. (count - 1) - 1 = count - 2
      BY <1>1
    <3> QED
      BY <1>2, <1>4, <2>1, <3>2, <3>3
  <2>2. CASE ~HalfFull
    BY <1>2, <1>4, <2>2
  <2> QED
    BY <2>1, <2>2
<1>6. \A k \in 1..(count - 1) : At(buf, head, k) # id
  <2> SUFFICES ASSUME NEW k \in 1..(count - 1), At(buf, head, k) = id
               PROVE  FALSE
    OBVIOUS
  <2>1. k \in 0..(count - 1) /\ 0 \in 0..(count - 1) /\ k # 0
    BY <1>1
  <2> QED
    BY <1>2, <2>1 DEF SoundInv, Stocked, IsRing
<1>7. /\ count \in Nat /\ Live = InOrder(v)
      /\ v \in [DOMAIN v -> Elem]
      /\ DOMAIN v \in SUBSET Int /\ IsFiniteSet(DOMAIN v)
      /\ \A k \in 0..(count - 1) :
            k \in DOMAIN v <=> At(buf, head, k) \in DOMAIN items
      /\ \A k \in DOMAIN v : /\ k \in 0..(count - 1)
                             /\ v[k] = items[At(buf, head, k)]
  BY LiveTyped
<1>8. /\ Live' = InOrder(w) /\ w \in [DOMAIN w -> Elem]
      /\ DOMAIN w \in SUBSET Int /\ IsFiniteSet(DOMAIN w)
      /\ \A k \in 0..(count' - 1) :
            k \in DOMAIN w <=> At(buf', head', k) \in DOMAIN items'
      /\ \A k \in DOMAIN w : /\ k \in 0..(count' - 1)
                             /\ w[k] = items'[At(buf', head', k)]
  BY TakeOutSound, LiveTypedNext
<1>9. /\ DOMAIN items' = DOMAIN items \ {id}
      /\ \A y \in DOMAIN items' : items'[y] = items[y]
  <2>1. CASE id \in DOMAIN items
    BY <1>4, <2>1 DEF Deliver, Without
  <2>2. CASE id \notin DOMAIN items
    BY <1>4, <2>2 DEF Deliver, maps
  <2> QED
    BY <2>1, <2>2
<1> HIDE DEF v, w
<1> DEFINE u == Without(v, 0)
<1>10. /\ DOMAIN u = DOMAIN v \ {0} /\ u \in [DOMAIN u -> Elem]
       /\ \A k \in DOMAIN u : u[k] = v[k]
  BY <1>7 DEF Without
<1> HIDE DEF u
<1>11. ASSUME NEW k \in 0..(count - 2)
       PROVE  /\ k \in DOMAIN w <=> k + 1 \in DOMAIN v
              /\ k \in DOMAIN w => v[k + 1] = w[k]
  <2>1. /\ k \in 0..(count' - 1) /\ k + 1 \in 0..(count - 1)
        /\ k + 1 \in 1..(count - 1)
    BY <1>1, <1>4
  <2>2. At(buf', head', k) = At(buf, head, k + 1) /\ At(buf, head, k + 1) # id
    BY <1>5, <1>6, <2>1
  <2>3. k \in DOMAIN w <=> k + 1 \in DOMAIN v
    BY <1>7, <1>8, <1>9, <2>1, <2>2
  <2>4. k \in DOMAIN w => v[k + 1] = w[k]
    BY <1>7, <1>8, <1>9, <2>1, <2>2, <2>3
  <2> QED
    BY <2>3, <2>4
<1>12. /\ \A k \in Int : k \in DOMAIN w <=> k + 1 \in DOMAIN u
       /\ \A k \in DOMAIN w : u[k + 1] = w[k]
  <2>1. \A k \in Int : k + 1 \in DOMAIN u => k \in 0..(count - 2)
    BY <1>7, <1>10
  <2>2. \A k \in DOMAIN w : k \in 0..(count - 2)
    BY <1>1, <1>4, <1>8
  <2>3. \A k \in 0..(count - 2) : k + 1 # 0
    BY <1>7
  <2>4. \A k \in Int : k \in DOMAIN w <=> k + 1 \in DOMAIN u
    BY <1>10, <1>11, <2>1, <2>2, <2>3
  <2>5. \A k \in DOMAIN w : u[k + 1] = w[k]
    BY <1>10, <1>11, <2>2, <2>3
  <2> QED
    BY <2>4, <2>5
<1>13. InOrder(u) = InOrder(w)
  <2>1. DOMAIN u \in SUBSET Int
    BY <1>7, <1>10
  <2> QED
    BY <1>8, <1>10, <1>12, <2>1, InOrderShifted DEF IsShifted
<1>14. 0 \in DOMAIN v <=> id \in DOMAIN items
  <2>1. 0 \in 0..(count - 1)
    BY <1>1
  <2> QED
    BY <1>2, <1>7, <2>1
<1>15. CASE id \in DOMAIN items
  <2>1. 0 \in DOMAIN v /\ v[0] = items[id] /\ \A k \in DOMAIN v : 0 <= k
    BY <1>2, <1>7, <1>14, <1>15
  <2>2. /\ InOrder(v) # <<>> /\ Head(InOrder(v)) = v[0]
        /\ Tail(InOrder(v)) = InOrder(Without(v, 0))
    BY <1>7, <2>1, InOrderFirst
  <2>3. taken' = [taken EXCEPT ![c] = items[id]]
    BY <1>4, <1>15 DEF Deliver
  <2>4. /\ Live # <<>> /\ Live' = Tail(Live)
        /\ taken' = [taken EXCEPT ![c] = Head(Live)]
    BY <1>7, <1>8, <1>13, <2>1, <2>2, <2>3 DEF u
  <2> QED
    BY <2>4 DEF Deque!Pop
<1>16. CASE id \notin DOMAIN items
  <2>1. u = v
    BY <1>7, <1>10, <1>14, <1>16
  <2>2. taken' = taken
    BY <1>4, <1>16 DEF Deliver, consumers
  <2> QED
    BY <1>7, <1>8, <1>13, <2>1, <2>2
<1> QED
  BY <1>15, <1>16

LEMMA DequeInit ==
    ASSUME Init
    PROVE  Deque!Init
<1>1. LiveAt = [k \in {} |-> items[IdAt(k)]]
  <2>1. {j \in 0..(count - 1) : IdAt(j) \in DOMAIN items} = {}
    BY DEF Init, EmptyMap
  <2> QED
    BY <2>1 DEF LiveAt
<1>2. DOMAIN LiveAt = {}
  BY <1>1
<1>3. Live = [r \in 1..0 |-> LiveAt[CHOOSE k \in {} : Rank({}, k) = r]]
  BY <1>2, FS_EmptySet DEF Live, InOrder
<1>4. Live = <<>>
  BY <1>3
<1> QED
  BY <1>4 DEF Init, Deque!Init

LEMMA DequeStep ==
    ASSUME SoundInv, ~Duplicates, ~CallsClean, [Next]_vars
    PROVE  [Deque!Next]_(Deque!vars)
<1>1. ASSUME NEW e \in Elem, PutBack(e) PROVE Deque!Next
  BY <1>1, PutBackRefines DEF Deque!Next
<1>2. ASSUME NEW e \in Elem, PutFront(e) PROVE Deque!Next
  BY <1>2, PutFrontRefines DEF Deque!Next
<1>3. ASSUME NEW e \in Elem, Remove(e) PROVE Deque!Next
  BY <1>3, RemoveRefines DEF Deque!Next
<1>4. ASSUME Clean PROVE FALSE
  BY <1>4 DEF Clean
<1>5. ASSUME UNCHANGED <<ring, maps, taken>> PROVE UNCHANGED Deque!vars
  <2>1. LiveAt' = LiveAt
    BY <1>5 DEF LiveAt, IdAt, ring, maps
  <2>2. Live' = Live
    BY <2>1 DEF Live
  <2> QED
    BY <1>5, <2>2 DEF Deque!vars
<1>6. ASSUME NEW c \in Consumer, Call(c) \/ Receive(c) \/ Lock(c) \/ Wait(c)
      PROVE  UNCHANGED Deque!vars
  BY <1>5, <1>6 DEF Call, Receive, Lock, Wait
<1>7. ASSUME NEW c \in Consumer, TakeOut(c)
      PROVE  Deque!Next \/ UNCHANGED Deque!vars
  <2>1. Deque!Pop(c) \/ (Live' = Live /\ taken' = taken)
    BY <1>7, TakeOutRefines
  <2> QED
    BY <2>1 DEF Deque!Next, Deque!vars
<1>8. CASE UNCHANGED vars
  BY <1>5, <1>8 DEF vars, ring, maps
<1> QED
  BY <1>1, <1>2, <1>3, <1>4, <1>6, <1>7, <1>8 DEF Next

(***************************************************************************)
(* While elements are distinct and nobody calls Clean, the queue is the    *)
(* double-ended queue TxDeque to its callers: Append and Prepend put at    *)
(* the ends, Pop returns the first element, Remove takes its element out   *)
(* wherever it is, and whatever else happens to ring and maps (growing,    *)
(* shrinking, identifiers that Remove left) is not seen.                   *)
(***************************************************************************)
THEOREM QueueIsDeque ==
    ASSUME ~Duplicates, ~CallsClean
    PROVE  Spec => DequeSpec
<1>1. Init => SoundInv /\ Deque!Init
  BY SoundInit, DequeInit
<1>2. SoundInv /\ [Next]_vars => SoundInv'
  BY SoundStep
<1>3. SoundInv /\ [Next]_vars => [Deque!Next]_(Deque!vars)
  BY DequeStep
<1> QED
  BY <1>1, <1>2, <1>3, PTL DEF Spec, DequeSpec, Deque!Spec

=============================================================================
