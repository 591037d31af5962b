------------------------- MODULE MerkleTreeProofs --------------------------
(***************************************************************************)
(* Proofs about MerkleTree, for blocks of any size: the root depends on    *)
(* the set of transactions only; the path of a transaction leads a client  *)
(* to that root; a transaction of another block has no path.               *)
(*                                                                         *)
(* IInv says at each loop how far the code is.  NewMerkleTree has made the *)
(* first levels of the tree (Built).  findNodeByData has met a beginning   *)
(* of the tree, level by level, where the children of the i-th node are    *)
(* the nodes 2 * i and 2 * i + 1 and lie one level below it (Walk): this   *)
(* is where the padding matters, since a level that was padded has its     *)
(* last node twice, and below it that node's whole tree.                   *)
(* GetVerificationPath has gone up through parents, one hash a round       *)
(* (Climbed).                                                              *)
(***************************************************************************)
EXTENDS MerkleTree, FiniteSetTheorems, SequenceTheorems, TLAPS

-----------------------------------------------------------------------------
(* Induction.  The induction theorems of the library take an operator;     *)
(* those on well-founded relations take a set, and give the same.          *)

\* A set of natural numbers has a least element.
LEMMA LeastElement ==
    ASSUME NEW T \in SUBSET Nat, T # {}
    PROVE  \E m \in T : \A k \in T : m <= k
<1> DEFINE R == OpToRel(<, Nat)
<1>1. IsWellFoundedOn(R, Nat)
  BY NatLessThanWellFounded
<1>2. \A x, y \in Nat : <<x, y>> \in R <=> x < y
  BY DEF OpToRel
<1> HIDE DEF R
<1>3. PICK x \in T : \A y \in T : ~ (<<y, x>> \in R)
  BY <1>1, WFMin
<1>4. ASSUME NEW y \in T PROVE x <= y
  <2>1. x \in Nat /\ y \in Nat /\ ~ (<<y, x>> \in R)
    BY <1>3
  <2>2. ~ (y < x)
    BY <1>2, <2>1, Zenon
  <2> QED
    BY <2>1, <2>2
<1> QED
  BY <1>4

\* What holds for 0, and for n + 1 if it does for n, holds for all.
LEMMA SetInduction ==
    ASSUME NEW S, 0 \in S, \A n \in Nat : n \in S => n + 1 \in S
    PROVE  Nat \subseteq S
<1> SUFFICES ASSUME Nat \ S # {} PROVE FALSE
  OBVIOUS
<1>1. PICK m \in Nat \ S : \A k \in Nat \ S : m <= k
  BY LeastElement
<1>2. m - 1 \in Nat /\ m - 1 \in S
  BY <1>1
<1> QED
  BY <1>1, <1>2

-----------------------------------------------------------------------------
(* The recursive functions are what their equations say.                   *)

LeafLevel(ids) == [i \in 1..Cardinality(ids) |-> Leaf(Sorted(ids)[i])]

\* The first levels, as far as the n-th, by the equations of Levels.
IsLevels(f, ids, n) ==
    /\ f[0] = LeafLevel(ids)
    /\ \A l \in 1..n : f[l] = Pairs(f[l - 1])

\* Some function satisfies them up to any level,
LEMMA LevelsUpTo ==
    ASSUME NEW ids
    PROVE  \A n \in Nat : \E f : IsLevels(f, ids, n)
<1> DEFINE S == {n \in Nat : \E f : IsLevels(f, ids, n)}
<1>1. 0 \in S
  <2> DEFINE f == [i \in {0} |-> LeafLevel(ids)]
  <2>1. IsLevels(f, ids, 0)
    BY DEF IsLevels
  <2> QED
    BY <2>1
<1>2. ASSUME NEW n \in Nat, n \in S PROVE n + 1 \in S
  <2>1. PICK f : IsLevels(f, ids, n)
    BY <1>2
  <2> DEFINE g == [l \in 0..(n + 1) |->
                      IF l = n + 1 THEN Pairs(f[n]) ELSE f[l]]
  <2>2. g[0] = f[0]
    OBVIOUS
  <2>3. ASSUME NEW l \in 1..(n + 1) PROVE g[l] = Pairs(g[l - 1])
    <3>1. g[l - 1] = f[l - 1]
      OBVIOUS
    <3>2. CASE l = n + 1
      BY <3>1, <3>2
    <3>3. CASE l # n + 1
      <4>1. l \in 1..n /\ g[l] = f[l]
        BY <3>3
      <4> QED
        BY <2>1, <3>1, <4>1 DEF IsLevels
    <3> QED
      BY <3>2, <3>3
  <2>4. IsLevels(g, ids, n + 1)
    BY <2>1, <2>2, <2>3 DEF IsLevels
  <2> QED
    BY <2>4
<1> HIDE DEF S
<1>3. Nat \subseteq S
  BY <1>1, <1>2, SetInduction
<1> QED
  BY <1>3 DEF S

\* two of them agree as far as both go,
LEMMA LevelsAgree ==
    ASSUME NEW ids, NEW f, NEW g, NEW m \in Nat, NEW n \in Nat,
           IsLevels(f, ids, m), IsLevels(g, ids, n)
    PROVE  \A l \in Nat : l <= m /\ l <= n => f[l] = g[l]
<1> DEFINE S == {l \in Nat : l <= m /\ l <= n => f[l] = g[l]}
<1>1. 0 \in S
  BY DEF IsLevels
<1>2. ASSUME NEW l \in Nat, l \in S PROVE l + 1 \in S
  <2>1. SUFFICES ASSUME l + 1 <= m, l + 1 <= n PROVE f[l + 1] = g[l + 1]
    OBVIOUS
  <2>2. f[l] = g[l]
    BY <1>2, <2>1
  <2>3. /\ l + 1 \in 1..m /\ l + 1 \in 1..n /\ (l + 1) - 1 = l
    BY <2>1
  <2>4. f[l + 1] = Pairs(f[l]) /\ g[l + 1] = Pairs(g[l])
    BY <2>3 DEF IsLevels
  <2> QED
    BY <2>2, <2>4
<1> HIDE DEF S
<1>3. Nat \subseteq S
  BY <1>1, <1>2, SetInduction
<1> QED
  BY <1>3 DEF S

\* and so Levels, the choice of a function with all of them, has them.
LEMMA LevelsIs ==
    ASSUME NEW ids
    PROVE  /\ Levels(ids)[0] = LeafLevel(ids)
           /\ \A l \in Nat : Levels(ids)[l + 1] = Pairs(Levels(ids)[l])
<1> DEFINE up(n) == CHOOSE f : IsLevels(f, ids, n)
           F == [n \in Nat |-> up(n)[n]]
           Body(f) == [l \in Nat |-> IF l = 0 THEN LeafLevel(ids)
                                              ELSE Pairs(f[l - 1])]
<1>1. \A n \in Nat : IsLevels(up(n), ids, n)
  BY LevelsUpTo
<1>2. F[0] = LeafLevel(ids)
  BY <1>1 DEF IsLevels
<1>3. ASSUME NEW l \in Nat PROVE F[l + 1] = Pairs(F[l])
  <2>1. IsLevels(up(l), ids, l) /\ IsLevels(up(l + 1), ids, l + 1)
    BY <1>1
  <2> HIDE DEF up
  <2>2. up(l)[l] = up(l + 1)[l]
    BY <2>1, LevelsAgree
  <2>3. l + 1 \in 1..(l + 1) /\ (l + 1) - 1 = l
    OBVIOUS
  <2>4. up(l + 1)[l + 1] = Pairs(up(l + 1)[l])
    BY <2>1, <2>3 DEF IsLevels
  <2> QED
    BY <2>2, <2>4
<1>4. F = Body(F)
  <2> HIDE DEF F
  <2>1. ASSUME NEW l \in Nat PROVE F[l] = Body(F)[l]
    <3>1. CASE l = 0
      BY <1>2, <3>1
    <3>2. CASE l # 0
      <4>1. l - 1 \in Nat /\ (l - 1) + 1 = l
        BY <3>2
      <4> QED
        BY <1>3, <3>2, <4>1
    <3> QED
      BY <3>1, <3>2
  <2>2. F = [l \in Nat |-> F[l]]
    BY DEF F
  <2> QED
    BY <2>1, <2>2
<1>5. Levels(ids) = CHOOSE f : f = Body(f)
  BY DEF Levels, LeafLevel
<1> HIDE DEF F
<1>6. Levels(ids) = Body(Levels(ids))
  <2> HIDE DEF Body
  <2> QED
    BY <1>4, <1>5
<1> QED
  BY <1>6
IsClimb(f, path, id, n) ==
    /\ f[0] = [position |-> DocumentPosition(path), hash |-> Leaf(id)]
    /\ \A i \in 1..n : f[i] = Above(path, f[i - 1])

\* The same three steps for the way of the client.
LEMMA ClimbUpTo ==
    ASSUME NEW path, NEW id
    PROVE  \A n \in Nat : \E f : IsClimb(f, path, id, n)
<1> DEFINE S == {n \in Nat : \E f : IsClimb(f, path, id, n)}
           start == [position |-> DocumentPosition(path), hash |-> Leaf(id)]
<1>1. 0 \in S
  <2> DEFINE f == [i \in {0} |-> start]
  <2>1. IsClimb(f, path, id, 0)
    BY DEF IsClimb
  <2> QED
    BY <2>1
<1>2. ASSUME NEW n \in Nat, n \in S PROVE n + 1 \in S
  <2>1. PICK f : IsClimb(f, path, id, n)
    BY <1>2
  <2> DEFINE g == [i \in 0..(n + 1) |->
                      IF i = n + 1 THEN Above(path, f[n]) ELSE f[i]]
  <2>2. g[0] = f[0]
    OBVIOUS
  <2>3. ASSUME NEW i \in 1..(n + 1) PROVE g[i] = Above(path, g[i - 1])
    <3>1. g[i - 1] = f[i - 1]
      OBVIOUS
    <3>2. CASE i = n + 1
      BY <3>1, <3>2
    <3>3. CASE i # n + 1
      <4>1. i \in 1..n /\ g[i] = f[i]
        BY <3>3
      <4> QED
        BY <2>1, <3>1, <4>1 DEF IsClimb
    <3> QED
      BY <3>2, <3>3
  <2>4. IsClimb(g, path, id, n + 1)
    BY <2>1, <2>2, <2>3 DEF IsClimb
  <2> QED
    BY <2>4
<1> HIDE DEF S
<1>3. Nat \subseteq S
  BY <1>1, <1>2, SetInduction
<1> QED
  BY <1>3 DEF S

LEMMA ClimbsAgree ==
    ASSUME NEW path, NEW id, NEW f, NEW g, NEW m \in Nat, NEW n \in Nat,
           IsClimb(f, path, id, m), IsClimb(g, path, id, n)
    PROVE  \A i \in Nat : i <= m /\ i <= n => f[i] = g[i]
<1> DEFINE S == {i \in Nat : i <= m /\ i <= n => f[i] = g[i]}
<1>1. 0 \in S
  BY DEF IsClimb
<1>2. ASSUME NEW i \in Nat, i \in S PROVE i + 1 \in S
  <2>1. SUFFICES ASSUME i + 1 <= m, i + 1 <= n PROVE f[i + 1] = g[i + 1]
    OBVIOUS
  <2>2. f[i] = g[i]
    BY <1>2, <2>1
  <2>3. /\ i + 1 \in 1..m /\ i + 1 \in 1..n /\ (i + 1) - 1 = i
    BY <2>1
  <2>4. f[i + 1] = Above(path, f[i]) /\ g[i + 1] = Above(path, g[i])
    BY <2>3 DEF IsClimb
  <2> QED
    BY <2>2, <2>4
<1> HIDE DEF S
<1>3. Nat \subseteq S
  BY <1>1, <1>2, SetInduction
<1> QED
  BY <1>3 DEF S

LEMMA ClientClimbIs ==
    ASSUME NEW path, NEW id
    PROVE  LET climb == ClientClimb(path, id)
           IN  /\ climb[0] = [position |-> DocumentPosition(path),
                              hash |-> Leaf(id)]
               /\ \A i \in Nat : climb[i + 1] = Above(path, climb[i])
<1> DEFINE up(n) == CHOOSE f : IsClimb(f, path, id, n)
           F == [n \in Nat |-> up(n)[n]]
           start == [position |-> DocumentPosition(path), hash |-> Leaf(id)]
           Body(f) == [i \in Nat |-> IF i = 0 THEN start
                                              ELSE Above(path, f[i - 1])]
<1>1. \A n \in Nat : IsClimb(up(n), path, id, n)
  BY ClimbUpTo
<1>2. F[0] = start
  BY <1>1 DEF IsClimb
<1>3. ASSUME NEW i \in Nat PROVE F[i + 1] = Above(path, F[i])
  <2>1. IsClimb(up(i), path, id, i) /\ IsClimb(up(i + 1), path, id, i + 1)
    BY <1>1
  <2> HIDE DEF up
  <2>2. up(i)[i] = up(i + 1)[i]
    BY <2>1, ClimbsAgree
  <2>3. i + 1 \in 1..(i + 1) /\ (i + 1) - 1 = i
    OBVIOUS
  <2>4. up(i + 1)[i + 1] = Above(path, up(i + 1)[i])
    BY <2>1, <2>3 DEF IsClimb
  <2> QED
    BY <2>2, <2>4
<1>4. F = Body(F)
  <2> HIDE DEF F, start
  <2>1. ASSUME NEW i \in Nat PROVE F[i] = Body(F)[i]
    <3>1. CASE i = 0
      BY <1>2, <3>1
    <3>2. CASE i # 0
      <4>1. i - 1 \in Nat /\ (i - 1) + 1 = i
        BY <3>2
      <4> QED
        BY <1>3, <3>2, <4>1
    <3> QED
      BY <3>1, <3>2
  <2>2. F = [i \in Nat |-> F[i]]
    BY DEF F
  <2> QED
    BY <2>1, <2>2
<1>5. ClientClimb(path, id) = CHOOSE f : f = Body(f)
  BY DEF ClientClimb
<1> HIDE DEF F
<1>6. ClientClimb(path, id) = Body(ClientClimb(path, id))
  <2> HIDE DEF Body
  <2> QED
    BY <1>4, <1>5
<1> QED
  BY <1>6

-----------------------------------------------------------------------------
(* Sorting and pairing.                                                    *)

\* Sorted lists the elements of a set of numbers, each one once.
LEMMA SortedIs ==
    ASSUME NEW ids \in SUBSET Nat, IsFiniteSet(ids)
    PROVE  /\ Cardinality(ids) \in Nat
           /\ \A i \in 1..Cardinality(ids) : Sorted(ids)[i] \in ids
           /\ \A id \in ids : \E i \in 1..Cardinality(ids) :
                 Sorted(ids)[i] = id
<1> DEFINE n == Cardinality(ids)
           Below(id) == {x \in ids : x < id}
           rank == [id \in ids |-> Cardinality(Below(id))]
<1>1. n \in Nat
  BY FS_CardinalityType
<1>2. ASSUME NEW id \in ids PROVE rank[id] \in 0..(n - 1)
  <2>1. Below(id) \in SUBSET ids /\ id \notin Below(id)
    OBVIOUS
  <2>2. IsFiniteSet(Below(id)) /\ Cardinality(Below(id)) <= n
        /\ (n = Cardinality(Below(id)) => ids = Below(id))
    BY <2>1, FS_Subset
  <2>3. Cardinality(Below(id)) \in Nat
    BY <2>2, FS_CardinalityType
  <2>4. rank[id] = Cardinality(Below(id))
    OBVIOUS
  <2> HIDE DEF Below, rank
  <2>5. Cardinality(Below(id)) # n
    BY <2>1, <2>2
  <2> HIDE DEF n
  <2> QED
    BY <1>1, <2>2, <2>3, <2>4, <2>5
<1>3. ASSUME NEW x \in ids, NEW y \in ids, x < y PROVE rank[x] # rank[y]
  <2>1. Below(x) \subseteq Below(y) /\ x \in Below(y) /\ x \notin Below(x)
    <3>1. x \in Nat /\ y \in Nat /\ x < y /\ ~ (x < x)
      BY <1>3
    <3>2. \A z \in ids : z < x => z < y
      BY <3>1
    <3> QED
      BY <3>1, <3>2
  <2>2. IsFiniteSet(Below(y))
    BY FS_Subset
  <2> HIDE DEF Below
  <2> QED
    BY <2>1, <2>2, FS_Subset
<1>4. rank \in Injection(ids, 0..(n - 1))
  <2>1. rank \in [ids -> 0..(n - 1)]
    BY <1>2
  <2> HIDE DEF rank
  <2>2. ASSUME NEW x \in ids, NEW y \in ids, rank[x] = rank[y] PROVE x = y
    <3>1. x = y \/ x < y \/ y < x
      OBVIOUS
    <3> QED
      BY <1>3, <2>2, <3>1
  <2>3. DOMAIN rank = ids
    BY <2>1
  <2> QED
    BY <2>1, <2>2, <2>3 DEF Injection, IsInjective
<1>5. IsFiniteSet(0..(n - 1)) /\ Cardinality(0..(n - 1)) = n
  <2> HIDE DEF n
  <2>1. n - 1 \in Int /\ 0 \in Int
    BY <1>1
  <2>2. IsFiniteSet(0..(n - 1))
        /\ Cardinality(0..(n - 1)) = IF 0 > n - 1 THEN 0 ELSE n - 1 - 0 + 1
    BY <2>1, FS_Interval
  <2> QED
    BY <1>1, <2>2
<1>6. rank \in Surjection(ids, 0..(n - 1))
  <2> HIDE DEF rank
  <2> QED
    BY <1>4, <1>5, FS_Injection
<1>7. ASSUME NEW i \in 1..n PROVE \E id \in ids : rank[id] = i - 1
  <2> HIDE DEF rank
  <2>1. i - 1 \in 0..(n - 1)
    BY <1>1
  <2> QED
    BY <1>6, <2>1 DEF Surjection
<1>8. \A i \in 1..n :
         /\ Sorted(ids)[i] = CHOOSE id \in ids : rank[id] = i - 1
  BY DEF Sorted
<1> HIDE DEF rank
<1>9. ASSUME NEW i \in 1..n
      PROVE  Sorted(ids)[i] \in ids /\ rank[Sorted(ids)[i]] = i - 1
  BY <1>7, <1>8
<1>10. ASSUME NEW id \in ids PROVE \E i \in 1..n : Sorted(ids)[i] = id
  <2>1. rank[id] + 1 \in 1..n /\ (rank[id] + 1) - 1 = rank[id]
    BY <1>1, <1>2
  <2>2. rank[Sorted(ids)[rank[id] + 1]] = rank[id]
        /\ Sorted(ids)[rank[id] + 1] \in ids
    BY <1>9, <2>1
  <2>3. Sorted(ids)[rank[id] + 1] = id
    BY <1>4, <2>2 DEF Injection, IsInjective
  <2> QED
    BY <2>1, <2>3
<1> QED
  BY <1>1, <1>9, <1>10
\* A function on 1..n is a sequence of length n.
LEMMA ListIs ==
    ASSUME NEW n \in Nat, NEW f, f = [i \in 1..n |-> f[i]]
    PROVE  Len(f) = n /\ f \in Seq({f[i] : i \in 1..n})
<1> DEFINE S == {f[i] : i \in 1..n}
<1>1. f \in [1..n -> S]
  OBVIOUS
<1>2. f \in Seq(S)
  BY <1>1
<1> QED
  BY <1>1, <1>2

\* Padded repeats the last element of a sequence of odd length.
LEMMA PaddedIs ==
    ASSUME NEW T, NEW s \in Seq(T), s # <<>>
    PROVE  LET p == Padded(s)
               n == Len(s)
               m == IF n % 2 = 0 THEN n ELSE n + 1
           IN  /\ p \in Seq(T) /\ Len(p) = m /\ m % 2 = 0 /\ m >= 2
               /\ p = [i \in 1..m |-> IF i <= n THEN s[i] ELSE s[n]]
<1> DEFINE n == Len(s)
           m == IF n % 2 = 0 THEN n ELSE n + 1
<1>1. n \in Nat /\ n >= 1 /\ Last(s) = s[n] /\ s[n] \in T
  BY DEF Last
<1>2. m \in Nat /\ m % 2 = 0 /\ m >= 2
  <2> HIDE DEF n
  <2>1. n % 2 = 0 => n >= 2
    BY <1>1
  <2>2. n % 2 # 0 => (n + 1) % 2 = 0
    BY <1>1
  <2> QED
    BY <1>1, <2>1, <2>2
<1>3. CASE n % 2 = 0
  <2>1. Padded(s) = s /\ m = n
    BY <1>3 DEF Padded
  <2>2. s = [i \in 1..n |-> IF i <= n THEN s[i] ELSE s[n]]
    BY <1>1
  <2> QED
    BY <1>2, <2>1, <2>2
<1>4. CASE n % 2 # 0
  <2>1. Padded(s) = Append(s, s[n]) /\ m = n + 1
    BY <1>1, <1>4 DEF Padded
  <2>2. /\ Append(s, s[n]) \in Seq(T) /\ Len(Append(s, s[n])) = n + 1
        /\ Append(s, s[n]) =
              [i \in 1..(n + 1) |-> IF i <= n THEN s[i] ELSE s[n]]
    BY <1>1
  <2> QED
    BY <1>2, <2>1, <2>2
<1> QED
  BY <1>3, <1>4

\* Two by two, the padded level gives what Pairs gives without padding.
LEMMA PaddedPairs ==
    ASSUME NEW T, NEW s \in Seq(T), s # <<>>
    PROVE  [j \in 1..(Len(Padded(s)) \div 2) |->
               Keccak256(Padded(s)[2 * j - 1], Padded(s)[2 * j])] = Pairs(s)
<1> DEFINE n == Len(s)
           m == Len(Padded(s))
<1>1. /\ n \in Nat /\ n >= 1 /\ m \in Nat /\ m \div 2 = (n + 1) \div 2
      /\ m = IF n % 2 = 0 THEN n ELSE n + 1
      /\ \A i \in 1..m : Padded(s)[i] = IF i <= n THEN s[i] ELSE s[n]
  <2>1. n \in Nat /\ n >= 1
    OBVIOUS
  <2>2. m = IF n % 2 = 0 THEN n ELSE n + 1
    BY PaddedIs
  <2>3. \A i \in 1..m : Padded(s)[i] = IF i <= n THEN s[i] ELSE s[n]
    <3>1. Padded(s) = [i \in 1..(IF n % 2 = 0 THEN n ELSE n + 1) |->
                          IF i <= n THEN s[i] ELSE s[n]]
      BY PaddedIs
    <3> HIDE DEF m, n
    <3> QED
      BY <2>2, <3>1
  <2> HIDE DEF n, m
  <2>4. m \in Nat /\ m \div 2 = (n + 1) \div 2
    BY <2>1, <2>2
  <2> QED
    BY <2>1, <2>2, <2>3, <2>4
<1>2. ASSUME NEW j \in 1..((n + 1) \div 2)
      PROVE  /\ Padded(s)[2 * j - 1] = s[2 * j - 1]
             /\ Padded(s)[2 * j] = s[IF 2 * j > n THEN 2 * j - 1 ELSE 2 * j]
  <2>1. 2 * j - 1 \in 1..m /\ 2 * j \in 1..m /\ 2 * j - 1 <= n
    BY <1>1
  <2>2. 2 * j > n => n = 2 * j - 1
    BY <1>1, <2>1
  <2> HIDE DEF n, m
  <2> QED
    BY <1>1, <2>1, <2>2
<1>3. Pairs(s) =
        [j \in 1..((n + 1) \div 2) |->
            <<s[2 * j - 1], s[IF 2 * j > n THEN 2 * j - 1 ELSE 2 * j]>>]
  BY DEF Pairs
<1> HIDE DEF m, n
<1>4. [j \in 1..(m \div 2) |->
          Keccak256(Padded(s)[2 * j - 1], Padded(s)[2 * j])] = Pairs(s)
  BY <1>1, <1>2, <1>3 DEF Keccak256
<1> QED
  BY <1>4 DEF m

\* A padded level needs no more padding.
LEMMA PaddedTwice ==
    ASSUME NEW T, NEW s \in Seq(T), s # <<>>
    PROVE  Padded(Padded(s)) = Padded(s)
  BY PaddedIs DEF Padded

-----------------------------------------------------------------------------
(* The levels of the tree.                                                 *)

LevelAt(ids, l) == {Levels(ids)[l][i] : i \in 1..Len(Levels(ids)[l])}

Trees(ids) == UNION {LevelAt(ids, l) : l \in Nat}

\* What Init gives: a block has transactions, finitely many.
IsBlock(ids) == ids \in SUBSET Nat /\ IsFiniteSet(ids) /\ ids # {}

\* The level above, element by element.
LEMMA PairsIs ==
    ASSUME NEW s, NEW n \in Nat, n >= 1, Len(s) = n
    PROVE  LET p == Pairs(s)
           IN  /\ (n + 1) \div 2 \in Nat /\ (n + 1) \div 2 >= 1
               /\ p = [j \in 1..((n + 1) \div 2) |-> p[j]]
               /\ Len(p) = (n + 1) \div 2
               /\ \A j \in 1..((n + 1) \div 2) :
                     /\ 2 * j - 1 \in 1..n
                     /\ IF 2 * j > n THEN p[j] = <<s[2 * j - 1], s[2 * j - 1]>>
                        ELSE /\ 2 * j \in 1..n
                             /\ p[j] = <<s[2 * j - 1], s[2 * j]>>
<1> DEFINE k == (n + 1) \div 2
           p == Pairs(s)
<1>1. k \in Nat /\ k >= 1
  OBVIOUS
<1>2. p = [j \in 1..k |->
              <<s[2 * j - 1], s[IF 2 * j > n THEN 2 * j - 1 ELSE 2 * j]>>]
  BY DEF Pairs
<1> HIDE DEF p
<1>3. p = [j \in 1..k |-> p[j]]
  BY <1>2
<1>4. Len(p) = k
  BY <1>1, <1>3, ListIs
<1>5. \A j \in 1..k : 2 * j - 1 \in 1..n
  OBVIOUS
<1>6. ASSUME NEW j \in 1..k, 2 * j > n
      PROVE  p[j] = <<s[2 * j - 1], s[2 * j - 1]>>
  BY <1>2, <1>6
<1>7. ASSUME NEW j \in 1..k, ~ (2 * j > n)
      PROVE  2 * j \in 1..n /\ p[j] = <<s[2 * j - 1], s[2 * j]>>
  BY <1>2, <1>7
<1> QED
  BY <1>1, <1>3, <1>4, <1>5, <1>6, <1>7 DEF p

\* Every level is a sequence that is not empty.
LEMMA LevelsAreLists ==
    ASSUME NEW ids, IsBlock(ids)
    PROVE  \A l \in Nat :
              LET s == Levels(ids)[l]
              IN  /\ Len(s) \in Nat /\ Len(s) >= 1
                  /\ s = [i \in 1..Len(s) |-> s[i]]
<1> DEFINE Good(s) == /\ Len(s) \in Nat /\ Len(s) >= 1
                      /\ s = [i \in 1..Len(s) |-> s[i]]
           S == {l \in Nat : Good(Levels(ids)[l])}
<1>1. 0 \in S
  <2> DEFINE s == LeafLevel(ids)
             n == Cardinality(ids)
  <2>1. n \in Nat /\ n >= 1
    BY FS_CardinalityType, FS_EmptySet DEF IsBlock
  <2>2. s = [i \in 1..n |-> s[i]]
    BY DEF LeafLevel
  <2> HIDE DEF s
  <2>3. Len(s) = n
    BY <2>1, <2>2, ListIs
  <2>4. Good(s)
    BY <2>1, <2>2, <2>3
  <2>5. Levels(ids)[0] = s
    BY LevelsIs DEF s
  <2> HIDE DEF Good
  <2> QED
    BY <2>4, <2>5
<1>2. ASSUME NEW l \in Nat, l \in S PROVE l + 1 \in S
  <2> DEFINE s == Levels(ids)[l]
  <2>1. Len(s) \in Nat /\ Len(s) >= 1
    BY <1>2
  <2> HIDE DEF s
  <2> DEFINE p == Pairs(s)
             k == (Len(s) + 1) \div 2
  <2>4. k \in Nat /\ k >= 1 /\ p = [j \in 1..k |-> p[j]] /\ Len(p) = k
    BY <2>1, PairsIs
  <2>2. Good(Pairs(s))
    <3> HIDE DEF k, p
    <3>1. Good(p)
      BY <2>4
    <3> HIDE DEF Good
    <3> QED
      BY <3>1 DEF p
  <2>3. Levels(ids)[l + 1] = Pairs(s)
    BY LevelsIs DEF s
  <2> HIDE DEF Good
  <2> QED
    BY <2>2, <2>3
<1> HIDE DEF S
<1>3. Nat \subseteq S
  BY <1>1, <1>2, SetInduction
<1> QED
  BY <1>3 DEF S

\* A level has half as many nodes as the one below, rounded up.
LEMMA LevelLength ==
    ASSUME NEW ids, IsBlock(ids), NEW l \in Nat
    PROVE  Len(Levels(ids)[l + 1]) = (Len(Levels(ids)[l]) + 1) \div 2
<1> DEFINE s == Levels(ids)[l]
<1>1. Len(s) \in Nat /\ Len(s) >= 1
  BY LevelsAreLists
<1>2. Levels(ids)[l + 1] = Pairs(s)
  BY LevelsIs
<1> HIDE DEF s
<1>3. Len(Pairs(s)) = (Len(s) + 1) \div 2
  BY <1>1, PairsIs
<1> QED
  BY <1>2, <1>3 DEF s

\* The nodes of a level are among the trees of the set of transactions.
LEMMA LevelIsSeq ==
    ASSUME NEW ids, IsBlock(ids), NEW l \in Nat
    PROVE  /\ Levels(ids)[l] \in Seq(LevelAt(ids, l))
           /\ Levels(ids)[l] \in Seq(Trees(ids))
           /\ Levels(ids)[l] # <<>>
<1> DEFINE s == Levels(ids)[l]
<1>1. Len(s) \in Nat /\ Len(s) >= 1 /\ s = [i \in 1..Len(s) |-> s[i]]
  BY LevelsAreLists
<1>2. LevelAt(ids, l) = {s[i] : i \in 1..Len(s)}
  BY DEF LevelAt
<1> HIDE DEF s
<1>3. s \in Seq(LevelAt(ids, l))
  BY <1>1, <1>2, ListIs
<1>4. LevelAt(ids, l) \subseteq Trees(ids)
  BY DEF Trees
<1>5. s \in Seq(Trees(ids))
  <2>1. s \in [1..Len(s) -> Trees(ids)]
    BY <1>1, <1>2, <1>4
  <2> QED
    BY <1>1, <2>1
<1>6. s # <<>>
  BY <1>1
<1> QED
  BY <1>3, <1>5, <1>6 DEF s

\* The lowest level are the leaves of all identifiers.
LEMMA Leaves ==
    ASSUME NEW ids, IsBlock(ids)
    PROVE  /\ \A x \in LevelAt(ids, 0) : \E id \in ids : x = Leaf(id)
           /\ \A id \in ids : Leaf(id) \in LevelAt(ids, 0)
<1> DEFINE s == Levels(ids)[0]
           n == Cardinality(ids)
<1>1. n \in Nat /\ s = [i \in 1..n |-> Leaf(Sorted(ids)[i])]
  BY LevelsIs, FS_CardinalityType DEF LeafLevel, IsBlock
<1>2. Len(s) = n
  <2> HIDE DEF s, n
  <2>1. s = [i \in 1..n |-> s[i]]
    BY <1>1
  <2> QED
    BY <1>1, <2>1, ListIs
<1>3. LevelAt(ids, 0) = {s[i] : i \in 1..n}
  BY <1>2 DEF LevelAt
<1>4. \A i \in 1..n : Sorted(ids)[i] \in ids
  BY SortedIs DEF IsBlock
<1>5. \A id \in ids : \E i \in 1..n : Sorted(ids)[i] = id
  BY SortedIs DEF IsBlock
<1> HIDE DEF s, n
<1> QED
  BY <1>1, <1>3, <1>4, <1>5

\* Every node above has its two children in the level below, and every node
\* of the level below is the child of one.
LEMMA Children ==
    ASSUME NEW ids, IsBlock(ids), NEW l \in Nat
    PROVE  /\ \A x \in LevelAt(ids, l + 1) :
                 \E a, b \in LevelAt(ids, l) : x = <<a, b>>
           /\ \A y \in LevelAt(ids, l) : \E z \in LevelAt(ids, l) :
                 \/ <<y, z>> \in LevelAt(ids, l + 1)
                 \/ <<z, y>> \in LevelAt(ids, l + 1)
<1> DEFINE s == Levels(ids)[l]
           p == Levels(ids)[l + 1]
           n == Len(s)
           k == (n + 1) \div 2
<1>1. n \in Nat /\ n >= 1
  BY LevelsAreLists
<1>2. p = Pairs(s) /\ Len(p) = k
  BY LevelsIs, LevelLength
<1>3. LevelAt(ids, l) = {s[i] : i \in 1..n}
      /\ LevelAt(ids, l + 1) = {p[j] : j \in 1..k}
  BY <1>2 DEF LevelAt
<1> HIDE DEF s, p
<1>4. \A j \in 1..k :
         /\ 2 * j - 1 \in 1..n
         /\ 2 * j > n => p[j] = <<s[2 * j - 1], s[2 * j - 1]>>
         /\ ~ (2 * j > n) => /\ 2 * j \in 1..n
                             /\ p[j] = <<s[2 * j - 1], s[2 * j]>>
  BY <1>1, <1>2, PairsIs
<1>5. ASSUME NEW j \in 1..k
      PROVE  \E a, b \in LevelAt(ids, l) : p[j] = <<a, b>>
  BY <1>3, <1>4
<1>6. ASSUME NEW i \in 1..n
      PROVE  \E z \in LevelAt(ids, l) : \E j \in 1..k :
                p[j] = <<s[i], z>> \/ p[j] = <<z, s[i]>>
  <2> DEFINE j == (i + 1) \div 2
  <2>1. j \in 1..k /\ (i = 2 * j - 1 \/ i = 2 * j)
    BY <1>1
  <2>4. i = 2 * j => ~ (2 * j > n)
    BY <1>1
  <2> HIDE DEF j, k, n
  <2>2. CASE i = 2 * j - 1
    BY <1>3, <1>4, <2>1, <2>2
  <2>3. CASE i = 2 * j
    <3>1. p[j] = <<s[2 * j - 1], s[i]>> /\ 2 * j - 1 \in 1..n
      BY <1>4, <2>1, <2>3, <2>4
    <3>2. s[2 * j - 1] \in LevelAt(ids, l)
      BY <1>3, <3>1
    <3> QED
      BY <2>1, <3>1, <3>2
  <2> QED
    BY <2>1, <2>2, <2>3
<1> HIDE DEF k, n
<1>7. ASSUME NEW x \in LevelAt(ids, l + 1)
      PROVE  \E a, b \in LevelAt(ids, l) : x = <<a, b>>
  <2>1. PICK j \in 1..k : x = p[j]
    BY <1>3
  <2> QED
    BY <1>5, <2>1
<1>8. ASSUME NEW y \in LevelAt(ids, l)
      PROVE  \E z \in LevelAt(ids, l) :
                \/ <<y, z>> \in LevelAt(ids, l + 1)
                \/ <<z, y>> \in LevelAt(ids, l + 1)
  <2>1. PICK i \in 1..n : y = s[i]
    BY <1>3
  <2>2. PICK z \in LevelAt(ids, l) : \E j \in 1..k :
            p[j] = <<y, z>> \/ p[j] = <<z, y>>
    BY <1>6, <2>1
  <2>3. \A j \in 1..k : p[j] \in LevelAt(ids, l + 1)
    BY <1>3
  <2> QED
    BY <2>2, <2>3
<1> QED
  BY <1>7, <1>8

\* The root by its definition is the node that NewMerkleTree ends with.
LEMMA RootIs ==
    ASSUME NEW ids, NEW d \in 1..Cardinality(ids),
           Len(Levels(ids)[d]) = 1,
           \A m \in 1..(d - 1) : Len(Levels(ids)[m]) > 1,
           Cardinality(ids) \in Nat
    PROVE  RootOf(ids) = Levels(ids)[d][1]
<1> DEFINE Depth(l) == /\ Len(Levels(ids)[l]) = 1
                       /\ \A m \in 1..(l - 1) : Len(Levels(ids)[m]) > 1
<1>1. Depth(d)
  OBVIOUS
<1>2. ASSUME NEW l \in 1..Cardinality(ids), Depth(l) PROVE l = d
  <2>1. d \in Nat /\ l \in Nat /\ d >= 1 /\ l >= 1
    OBVIOUS
  <2>2. ASSUME l < d PROVE FALSE
    <3>1. l \in 1..(d - 1)
      BY <2>1, <2>2
    <3>2. Len(Levels(ids)[l]) > 1 /\ Len(Levels(ids)[l]) = 1
      BY <1>2, <3>1
    <3> QED
      BY <3>2
  <2>3. ASSUME d < l PROVE FALSE
    <3>1. d \in 1..(l - 1)
      BY <2>1, <2>3
    <3>2. Len(Levels(ids)[d]) > 1
      BY <1>2, <3>1
    <3> QED
      BY <3>2
  <2> QED
    BY <2>1, <2>2, <2>3
<1>3. RootOf(ids) = Levels(ids)[CHOOSE l \in 1..Cardinality(ids) : Depth(l)][1]
  BY DEF RootOf
<1> HIDE DEF Depth
<1> QED
  BY <1>1, <1>2, <1>3

-----------------------------------------------------------------------------
(* The invariant.                                                          *)

Ids == ToSet(txs)

\* What NewMerkleTree has in nodes after k rounds: the k-th level, and the
\* padded leaves at first.
Built(k) ==
    /\ nodes = IF k = 0 THEN Padded(Levels(Ids)[0]) ELSE Levels(Ids)[k]
    /\ \A m \in 1..(k - 1) : Len(Levels(Ids)[m]) > 1
    /\ Len(Levels(Ids)[k]) + k <= Cardinality(Ids) + 1

\* The nodes that findNodeByData has met: those visited, then its queue.
Met == nodes \o nodeBuffer

\* The walk over a tree whose root is at level d, where height says of each
\* position at which level its node is.  Heights never rise along the walk
\* and the queue spans two of them at most; the children of the i-th node
\* (counted from one) are the two nodes from 2 * i on, and every node but the
\* root is such a child.
Walk(d, height) ==
    LET v == Len(nodes)
        n == Len(Met)
    IN  /\ d \in Nat \ {0} /\ height \in [1..n -> 0..d]
        /\ LevelAt(Ids, d) = {RootOf(Ids)}
        /\ n >= 1 /\ Met[1] = RootOf(Ids) /\ height[1] = d
        /\ \A i \in 1..n : Met[i] \in LevelAt(Ids, height[i])
        /\ \A i, j \in 1..n : i <= j => height[j] <= height[i]
        /\ v < n => height[v + 1] <= height[n] + 1
        /\ v < n /\ height[v + 1] > 0 => n = 2 * v + 1
        /\ \A i \in 1..v : height[i] > 0 =>
              /\ 2 * i + 1 <= n
              /\ Met[i] = <<Met[2 * i], Met[2 * i + 1]>>
              /\ height[2 * i] = height[i] - 1
              /\ height[2 * i + 1] = height[i] - 1
        /\ \A j \in 2..n : j \div 2 \in 1..v /\ height[j \div 2] > 0

\* What findNodeByData has found.
Search ==
    /\ nodeIndex \in Nat
    /\ nodeIndex > 0 => /\ nodeIndex < Len(nodes)
                        /\ At(nodeIndex) = Leaf(txToVerify)
    /\ \A i \in 2..Len(nodes) : nodes[i] = Leaf(txToVerify) => nodeIndex > 0

\* GetVerificationPath has gone up k times, over the positions of a.
Climbed(k, a) ==
    LET siblings == {Sibling(a[i]) : i \in 0..(k - 1)}
    IN  /\ k \in Nat /\ a \in [0..k -> Nat]
        /\ a[0] = nodeIndex /\ a[k] = cursor
        /\ \A i \in 0..(k - 1) : a[i] > 0 /\ a[i + 1] = Parent(a[i])
        /\ \A i \in 0..k : a[i] < Len(nodes)
        /\ cursor = nodeIndex \/ 2 * cursor + 1 <= nodeIndex
        /\ DOMAIN hashPath \ {0} = siblings
        /\ IsFiniteSet(siblings) /\ Cardinality(siblings) = k
        /\ \A q \in siblings : /\ 2 * cursor + 1 <= q
                               /\ q <= Sibling(nodeIndex)
        /\ \A q \in DOMAIN hashPath : hashPath[q] = At(q)

IInv ==
    /\ IsBlock(Ids)
    /\ pc \in {"sort", "level", "find", "climb", "done"}
    /\ pc \in {"sort", "level", "find"} => hashPath = NoPath
    /\ pc = "level" => \E k \in Nat : Built(k)
    /\ pc \in {"find", "climb", "done"} =>
          /\ nodes \in Seq(Trees(Ids)) /\ nodeBuffer \in Seq(Trees(Ids))
          /\ \E d, height : Walk(d, height)
          /\ Search
    /\ pc \in {"climb", "done"} => nodeBuffer = <<>>
    /\ pc = "climb" => /\ nodeIndex > 0 /\ 0 \notin DOMAIN hashPath
                       /\ \E k, a : Climbed(k, a)
    /\ pc = "done" =>
          \/ nodeIndex = 0 /\ hashPath = NoPath
          \/ /\ nodeIndex > 0 /\ cursor = 0 /\ 0 \in DOMAIN hashPath
             /\ \E k, a : Climbed(k, a)

-----------------------------------------------------------------------------
(* NewMerkleTree.                                                          *)

LEMMA InitIInv == Init => IInv
<1> SUFFICES ASSUME Init PROVE IInv
  OBVIOUS
<1>1. PICK n \in 1..MaxTxs : txs \in {s \in [1..n -> Id] : IsInjective(s)}
  BY DEF Init
<1>2. txs \in [1..n -> Id] /\ n \in Nat /\ n >= 1
  BY <1>1, ConstantsAssumption
<1>3. Ids = {txs[i] : i \in 1..n}
  BY <1>2 DEF Ids, ToSet
<1>4. Ids \in SUBSET Nat /\ Ids # {}
  <2>1. \A i \in 1..n : txs[i] \in Nat
    BY <1>2, ConstantsAssumption
  <2>2. txs[1] \in Ids
    BY <1>2, <1>3
  <2> QED
    BY <1>3, <2>1, <2>2
<1>5. IsFiniteSet(Ids)
  <2>1. txs \in Surjection(1..n, Ids)
    BY <1>2, <1>3 DEF Surjection
  <2>2. IsFiniteSet(1..n)
    BY <1>2, FS_Interval
  <2> QED
    BY <2>1, <2>2, FS_Surjection
<1>6. pc = "sort" /\ hashPath = NoPath
  BY DEF Init
<1> QED
  BY <1>4, <1>5, <1>6 DEF IInv, IsBlock

\* The leaves that are made first are the lowest level, padded.
LEMMA LeavesMade ==
    ASSUME NEW ids, IsBlock(ids)
    PROVE  LET hashes == Padded(Sorted(ids))
           IN  [i \in 1..Len(hashes) |-> Leaf(hashes[i])]
                  = Padded(Levels(ids)[0])
<1> DEFINE s == Sorted(ids)
           n == Cardinality(ids)
           m == IF n % 2 = 0 THEN n ELSE n + 1
           l == Levels(ids)[0]
           T == {s[i] : i \in 1..n}
<1>1. n \in Nat /\ n >= 1
  BY FS_CardinalityType, FS_EmptySet DEF IsBlock
<1>2. s = [i \in 1..n |-> s[i]]
  <2> DEFINE e(i) == CHOOSE id \in ids :
                        Cardinality({x \in ids : x < id}) = i - 1
  <2>1. s = [i \in 1..n |-> e(i)]
    BY DEF Sorted
  <2> HIDE DEF e, s
  <2> QED
    BY <2>1
<1>3. l = [i \in 1..n |-> Leaf(s[i])] /\ l # <<>> /\ l \in Seq(Trees(ids))
  BY LevelsIs, LevelIsSeq DEF LeafLevel
<1>4. Len(l) = n
  <2> HIDE DEF l
  <2>1. l = [i \in 1..n |-> l[i]]
    BY <1>3
  <2> QED
    BY <1>1, <2>1, ListIs
<1> HIDE DEF s, n, l
<1>5. Len(s) = n /\ s \in Seq(T) /\ s # <<>>
  BY <1>1, <1>2, ListIs
<1> HIDE DEF T
<1>6. Padded(s) = [i \in 1..m |-> IF i <= n THEN s[i] ELSE s[n]]
      /\ Len(Padded(s)) = m
  BY <1>5, PaddedIs
<1>7. Padded(l) = [i \in 1..m |-> IF i <= n THEN l[i] ELSE l[n]]
  <2>1. l # <<>> /\ l \in Seq(Trees(ids))
    BY <1>3
  <2>2. Padded(l) = [i \in 1..(IF Len(l) % 2 = 0 THEN Len(l) ELSE Len(l) + 1)
                        |-> IF i <= Len(l) THEN l[i] ELSE l[Len(l)]]
    BY <2>1, PaddedIs
  <2> QED
    BY <1>4, <2>2
<1>8. n \in 1..n
  BY <1>1
<1>9. \A i \in 1..m : Leaf(Padded(s)[i]) = Padded(l)[i]
  <2> HIDE DEF m
  <2> QED
    BY <1>1, <1>3, <1>6, <1>7, <1>8
<1>10. [i \in 1..Len(Padded(s)) |-> Leaf(Padded(s)[i])]
          = [i \in 1..m |-> Padded(l)[i]]
  BY <1>6, <1>9
<1>11. Padded(l) = [i \in 1..m |-> Padded(l)[i]]
  BY <1>7
<1> QED
  BY <1>10, <1>11 DEF s, l

LEMMA MakeLeavesIInv == IInv /\ MakeLeaves => IInv'
<1> SUFFICES ASSUME IInv, MakeLeaves PROVE IInv'
  OBVIOUS
<1>1. /\ IsBlock(Ids) /\ Ids' = Ids /\ pc' = "level"
      /\ hashPath = NoPath /\ hashPath' = hashPath
  BY DEF IInv, MakeLeaves, Ids
<1>2. nodes' = Padded(Levels(Ids)[0])
  BY <1>1, LeavesMade DEF MakeLeaves, SortByteArrays, Ids
<1>3. Len(Levels(Ids)[0]) + 0 <= Cardinality(Ids) + 1
  <2> DEFINE s == Levels(Ids)[0]
             n == Cardinality(Ids)
  <2>1. n \in Nat /\ s = [i \in 1..n |-> Leaf(Sorted(Ids)[i])]
    BY <1>1, LevelsIs, FS_CardinalityType DEF LeafLevel, IsBlock
  <2> HIDE DEF s, n
  <2>2. s = [i \in 1..n |-> s[i]]
    BY <2>1
  <2>3. Len(s) = n
    BY <2>1, <2>2, ListIs
  <2> QED
    BY <2>1, <2>3 DEF s, n
<1>4. Built(0)'
  BY <1>1, <1>2, <1>3 DEF Built
<1> QED
  BY <1>1, <1>4 DEF IInv

LEMMA NextLevelIInv == IInv /\ NextLevel => IInv'
<1> SUFFICES ASSUME IInv, NextLevel PROVE IInv'
  OBVIOUS
<1>1. /\ IsBlock(Ids) /\ Ids' = Ids /\ pc = "level" /\ pc' = "level"
      /\ hashPath = NoPath /\ hashPath' = hashPath /\ Len(nodes) > 1
  BY DEF IInv, NextLevel, Ids
<1>2. PICK k \in Nat : Built(k)
  BY <1>1 DEF IInv
<1> DEFINE s == Levels(Ids)[k]
           n == Cardinality(Ids)
<1>3. /\ s \in Seq(Trees(Ids)) /\ s # <<>> /\ Len(s) \in Nat /\ Len(s) >= 1
      /\ Levels(Ids)[k + 1] = Pairs(s)
      /\ Len(Levels(Ids)[k + 1]) = (Len(s) + 1) \div 2
  BY <1>1, LevelIsSeq, LevelsAreLists, LevelLength, LevelsIs
<1>4. nodes = IF k = 0 THEN Padded(s) ELSE s
  BY <1>2 DEF Built
<1>5. Len(s) + k <= n + 1 /\ n \in Nat
  BY <1>1, <1>2, FS_CardinalityType DEF Built, IsBlock
<1>6. nodes' = Levels(Ids)[k + 1]
  <2> HIDE DEF s
  <2>1. Padded(nodes) = Padded(s)
    BY <1>3, <1>4, PaddedTwice
  <2> QED
    BY <1>3, <2>1, PaddedPairs DEF NextLevel
<1>7. k = 0 => Len(s) = n
  <2>1. CASE k = 0
    <3>1. s = [i \in 1..n |-> Leaf(Sorted(Ids)[i])]
      BY <2>1, LevelsIs DEF LeafLevel
    <3> HIDE DEF s
    <3>2. s = [i \in 1..n |-> s[i]]
      BY <3>1
    <3> QED
      BY <1>5, <3>2, ListIs
  <2> QED
    BY <2>1
<1>8. Len(Levels(Ids)[k + 1]) + (k + 1) <= n + 1
  <2> HIDE DEF s, n
  <2>1. CASE k = 0
    BY <1>3, <1>5, <1>7, <2>1
  <2>2. CASE k # 0
    <3>1. Len(s) > 1
      BY <1>1, <1>4, <2>2
    <3>2. (Len(s) + 1) \div 2 <= Len(s) - 1
      BY <1>3, <3>1
    <3> QED
      BY <1>3, <1>5, <3>2
  <2> QED
    BY <2>1, <2>2
<1>9. ASSUME NEW m \in 1..((k + 1) - 1) PROVE Len(Levels(Ids)[m]) > 1
  <2>1. CASE m = k
    <3>1. k # 0 /\ nodes = Levels(Ids)[m]
      BY <1>4, <2>1
    <3> QED
      BY <1>1, <3>1
  <2>2. CASE m # k
    <3>1. m \in 1..(k - 1)
      BY <2>2
    <3> QED
      BY <1>2, <3>1 DEF Built
  <2> QED
    BY <2>1, <2>2
<1>10. k + 1 \in Nat /\ k + 1 # 0
  OBVIOUS
<1> HIDE DEF s
<1>11. Built(k + 1)'
  BY <1>1, <1>6, <1>8, <1>9, <1>10 DEF Built
<1> QED
  BY <1>1, <1>10, <1>11 DEF IInv

-----------------------------------------------------------------------------
(* findNodeByData.                                                         *)

LEMMA StartFindIInv == IInv /\ StartFind => IInv'
<1> SUFFICES ASSUME IInv, StartFind PROVE IInv'
  OBVIOUS
<1>1. /\ IsBlock(Ids) /\ Ids' = Ids /\ pc = "level" /\ pc' = "find"
      /\ hashPath = NoPath /\ hashPath' = hashPath /\ Len(nodes) = 1
      /\ nodes' = <<>> /\ nodeBuffer' = nodes /\ nodeIndex' = 0
  BY DEF IInv, StartFind, Ids
<1>2. PICK k \in Nat : Built(k)
  BY <1>1 DEF IInv
<1> DEFINE s == Levels(Ids)[k]
           n == Cardinality(Ids)
           root == RootOf(Ids)
<1>3. /\ s \in Seq(Trees(Ids)) /\ s # <<>> /\ Len(s) \in Nat /\ Len(s) >= 1
      /\ s = [i \in 1..Len(s) |-> s[i]]
  BY <1>1, LevelIsSeq, LevelsAreLists
<1>4. k # 0
  <2>1. Len(Padded(s)) >= 2
    BY <1>3, PaddedIs
  <2>2. k = 0 => nodes = Padded(s)
    BY <1>2 DEF Built
  <2> HIDE DEF s
  <2>3. k = 0 => Len(nodes) >= 2
    BY <2>1, <2>2
  <2> QED
    BY <1>1, <2>3
<1>5. nodes = s
  BY <1>2, <1>4 DEF Built
<1>6. k \in 1..n /\ n \in Nat
  BY <1>1, <1>2, <1>3, <1>4, FS_CardinalityType DEF Built, IsBlock
<1>7. \A m \in 1..(k - 1) : Len(Levels(Ids)[m]) > 1
  BY <1>2 DEF Built
<1>8. root = s[1]
  BY <1>1, <1>5, <1>6, <1>7, RootIs
<1>9. LevelAt(Ids, k) = {root}
  <2>1. LevelAt(Ids, k) = {s[i] : i \in 1..1}
    BY <1>1, <1>5 DEF LevelAt
  <2> QED
    BY <1>8, <2>1
<1> HIDE DEF s, root
<1>10. nodes \in Seq(Trees(Ids)) /\ nodes = <<root>>
  BY <1>1, <1>3, <1>5, <1>8
<1>11. Met' = <<root>>
  BY <1>1, <1>10 DEF Met
<1> DEFINE height == [i \in 1..1 |-> k]
<1>12. /\ Len(Met') = 1 /\ Met'[1] = root /\ Len(nodes') = 0
       /\ height \in [1..1 -> 0..k] /\ height[1] = k
  BY <1>1, <1>11
<1>13. Walk(k, height)'
  <2>1. LevelAt(Ids, k)' = {root} /\ RootOf(Ids)' = root
    BY <1>1, <1>9 DEF root
  <2> HIDE DEF height
  <2>2. \A i \in 1..1 : i = 1
    OBVIOUS
  <2>3. Met'[1] \in LevelAt(Ids, height[1])'
    BY <1>12, <2>1
  <2> QED
    BY <1>1, <1>4, <1>12, <2>1, <2>2, <2>3 DEF Walk
<1>14. Search'
  BY <1>1 DEF Search
<1>15. nodes' \in Seq(Trees(Ids)) /\ nodeBuffer' \in Seq(Trees(Ids))
  BY <1>1, <1>10
<1> HIDE DEF height
<1>16. (\E d, h : Walk(d, h))'
  BY <1>13
<1> QED
  BY <1>1, <1>14, <1>15, <1>16 DEF IInv

\* A round of the walk moves the first of the queue and appends to it.
LEMMA QueueMoves ==
    ASSUME NEW T, NEW s \in Seq(T), NEW q \in Seq(T), q # <<>>,
           NEW more \in Seq(T)
    PROVE  /\ Append(s, Head(q)) \o (Tail(q) \o more) = (s \o q) \o more
           /\ Head(q) = (s \o q)[Len(s) + 1] /\ Len(s) < Len(s \o q)
           /\ Append(s, Head(q)) \in Seq(T) /\ Tail(q) \o more \in Seq(T)
           /\ Head(q) \in T
<1>1. /\ Len(s) \in Nat /\ Len(q) \in Nat /\ Len(more) \in Nat
      /\ Len(q) >= 1
  OBVIOUS
<1>2. /\ Tail(q) \in Seq(T) /\ Len(Tail(q)) = Len(q) - 1
      /\ \A i \in 1..(Len(q) - 1) : Tail(q)[i] = q[i + 1]
      /\ Head(q) = q[1] /\ Head(q) \in T
  OBVIOUS
<1> DEFINE t == Tail(q)
           h == Head(q)
           a == Append(s, h)
           u == t \o more
           l == a \o u
           r == (s \o q) \o more
<1>3. /\ a \in Seq(T) /\ Len(a) = Len(s) + 1
      /\ \A i \in 1..Len(a) : a[i] = IF i <= Len(s) THEN s[i] ELSE h
  BY <1>1, <1>2
<1> HIDE DEF t, h
<1>4. /\ u \in Seq(T) /\ Len(u) = Len(q) - 1 + Len(more)
      /\ \A i \in 1..Len(u) :
            u[i] = IF i <= Len(q) - 1 THEN t[i] ELSE more[i - (Len(q) - 1)]
  BY <1>1, <1>2 DEF t
<1> HIDE DEF a, u
<1>5. /\ l \in Seq(T) /\ Len(l) = Len(s) + Len(q) + Len(more)
      /\ \A i \in 1..Len(l) :
            l[i] = IF i <= Len(s) + 1 THEN a[i]
                   ELSE u[i - (Len(s) + 1)]
  <2>1. /\ l \in Seq(T) /\ Len(l) = Len(a) + Len(u)
        /\ \A i \in 1..Len(l) :
              l[i] = IF i <= Len(a) THEN a[i] ELSE u[i - Len(a)]
    <3>1. a \in Seq(T) /\ u \in Seq(T)
      BY <1>3, <1>4
    <3> QED
      BY <3>1
  <2> HIDE DEF l
  <2>2. Len(l) = Len(s) + Len(q) + Len(more)
    BY <1>1, <1>3, <1>4, <2>1
  <2> QED
    BY <1>3, <2>1, <2>2
<1>6. /\ s \o q \in Seq(T) /\ Len(s \o q) = Len(s) + Len(q)
      /\ \A i \in 1..Len(s \o q) :
            (s \o q)[i] = IF i <= Len(s) THEN s[i] ELSE q[i - Len(s)]
  BY <1>1
<1>7. /\ r \in Seq(T) /\ Len(r) = Len(s) + Len(q) + Len(more)
      /\ \A i \in 1..Len(r) :
            r[i] = IF i <= Len(s) + Len(q) THEN (s \o q)[i]
                   ELSE more[i - (Len(s) + Len(q))]
  BY <1>1, <1>6
<1> HIDE DEF l, r
<1>8. ASSUME NEW i \in 1..(Len(s) + Len(q) + Len(more)) PROVE l[i] = r[i]
  <2>1. CASE i <= Len(s)
    <3>1. i \in 1..Len(a) /\ i \in 1..Len(s \o q)
      BY <1>1, <1>3, <1>6, <2>1
    <3>2. l[i] = s[i]
      BY <1>1, <1>3, <1>5, <2>1, <3>1
    <3>3. r[i] = s[i]
      BY <1>1, <1>6, <1>7, <2>1, <3>1
    <3> QED
      BY <3>2, <3>3
  <2>2. CASE i = Len(s) + 1
    BY <1>1, <1>2, <1>3, <1>5, <1>6, <1>7, <2>2 DEF h
  <2>3. CASE i > Len(s) + 1 /\ i <= Len(s) + Len(q)
    <3>1. /\ i - (Len(s) + 1) \in 1..(Len(q) - 1)
          /\ i - (Len(s) + 1) \in 1..Len(u)
          /\ (i - (Len(s) + 1)) + 1 = i - Len(s)
      BY <1>1, <1>4, <2>3
    <3>2. l[i] = t[i - (Len(s) + 1)]
      <4>1. i \in 1..Len(l) /\ ~ (i <= Len(s) + 1)
        BY <1>1, <1>5, <2>3
      <4>2. l[i] = u[i - (Len(s) + 1)]
        BY <1>5, <4>1
      <4> QED
        BY <1>4, <3>1, <4>2
    <3>3. r[i] = q[i - Len(s)]
      BY <1>1, <1>6, <1>7, <2>3
    <3> QED
      BY <1>2, <3>1, <3>2, <3>3 DEF t
  <2>4. CASE i > Len(s) + Len(q)
    <3>1. /\ i - (Len(s) + 1) \in 1..Len(u)
          /\ ~ (i - (Len(s) + 1) <= Len(q) - 1)
          /\ i - (Len(s) + 1) - (Len(q) - 1) = i - (Len(s) + Len(q))
      BY <1>1, <1>4, <2>4
    <3>2. l[i] = more[i - (Len(s) + 1) - (Len(q) - 1)]
      <4>1. i \in 1..Len(l) /\ ~ (i <= Len(s) + 1)
        BY <1>1, <1>5, <2>4
      <4>2. l[i] = u[i - (Len(s) + 1)]
        BY <1>5, <4>1
      <4> QED
        BY <1>4, <3>1, <4>2
    <3> QED
      BY <1>1, <1>7, <2>4, <3>1, <3>2
  <2> QED
    BY <1>1, <2>1, <2>2, <2>3, <2>4
<1>9. l = r
  BY <1>1, <1>5, <1>7, <1>8
<1>10. Head(q) = (s \o q)[Len(s) + 1] /\ Len(s) < Len(s \o q)
  BY <1>1, <1>2, <1>6
<1> QED
  BY <1>2, <1>3, <1>4, <1>9, <1>10 DEF l, r, u, a, t, h

\* A node is a leaf exactly at the lowest level.
LEMMA NodeIs ==
    ASSUME NEW ids, IsBlock(ids), NEW l \in Nat, NEW x \in LevelAt(ids, l)
    PROVE  /\ l = 0 => IsLeaf(x) /\ \E id \in ids : x = Leaf(id)
           /\ l > 0 => /\ ~ IsLeaf(x)
                       /\ \A id : x # Leaf(id)
                       /\ \E a, b \in LevelAt(ids, l - 1) : x = <<a, b>>
<1>1. CASE l = 0
  <2>1. PICK id \in ids : x = Leaf(id)
    BY <1>1, Leaves
  <2> QED
    BY <1>1, <2>1 DEF IsLeaf, Leaf
<1>2. CASE l > 0
  <2>1. l - 1 \in Nat /\ (l - 1) + 1 = l
    BY <1>2
  <2>2. PICK a, b \in LevelAt(ids, l - 1) : x = <<a, b>>
    BY <2>1, Children
  <2> QED
    BY <1>2, <2>2 DEF IsLeaf, Leaf
<1> QED
  BY <1>1, <1>2

\* The node before the queue's next is appended by its children.
LEMMA VisitWalks ==
    ASSUME IInv, Visit, NEW d, NEW height, Walk(d, height)
    PROVE  /\ nodes' \in Seq(Trees(Ids)) /\ nodeBuffer' \in Seq(Trees(Ids))
           /\ \E h : Walk(d, h)'
<1> DEFINE T == Trees(Ids)
           node == Head(nodeBuffer)
           v == Len(nodes)
           n == Len(Met)
           more == IF IsLeaf(node) THEN <<>> ELSE node
<1>1. /\ IsBlock(Ids) /\ Ids' = Ids /\ nodeBuffer # <<>>
      /\ nodes \in Seq(T) /\ nodeBuffer \in Seq(T)
      /\ nodes' = Append(nodes, node) /\ nodeBuffer' = Tail(nodeBuffer) \o more
  BY DEF IInv, Visit, Ids
<1>2. /\ Append(nodes, node) \o (Tail(nodeBuffer) \o <<>>) = Met \o <<>>
      /\ node = Met[v + 1] /\ v < n /\ v \in Nat /\ n \in Nat
      /\ Append(nodes, node) \in Seq(T)
      /\ Tail(nodeBuffer) \o <<>> \in Seq(T) /\ Met \in Seq(T)
      /\ Len(Append(nodes, node)) = v + 1
  BY <1>1, QueueMoves DEF Met
<1>3. /\ d \in Nat /\ d # 0 /\ height \in [1..n -> 0..d]
      /\ LevelAt(Ids, d) = {RootOf(Ids)}
      /\ n >= 1 /\ Met[1] = RootOf(Ids) /\ height[1] = d
  BY DEF Walk
<1>4. /\ \A i \in 1..n : Met[i] \in LevelAt(Ids, height[i])
      /\ \A i, j \in 1..n : i <= j => height[j] <= height[i]
      /\ v < n => height[v + 1] <= height[n] + 1
      /\ v < n /\ height[v + 1] > 0 => n = 2 * v + 1
  BY DEF Walk
<1>5. /\ \A i \in 1..v : height[i] > 0 =>
            /\ 2 * i + 1 <= n
            /\ Met[i] = <<Met[2 * i], Met[2 * i + 1]>>
            /\ height[2 * i] = height[i] - 1
            /\ height[2 * i + 1] = height[i] - 1
      /\ \A j \in 2..n : j \div 2 \in 1..v /\ height[j \div 2] > 0
  BY DEF Walk
<1> DEFINE top == height[v + 1]
<1> HIDE DEF node, n, v, T
<1>9. v \in Nat /\ n \in Nat /\ v < n
  BY <1>2
<1>11. node = Met[v + 1]
  BY <1>2
<1>10. \A i, j \in 1..n : i <= j => height[j] <= height[i]
  BY <1>4
<1>6. /\ v + 1 \in 1..n /\ n \in 1..n /\ top \in Nat /\ height[n] \in Nat
      /\ node \in LevelAt(Ids, top) /\ top = height[v + 1] /\ top \in 0..d
  <2>1. v + 1 \in 1..n /\ n \in 1..n
    BY <1>2
  <2>2. top \in 0..d /\ height[n] \in 0..d
    BY <1>3, <2>1
  <2> QED
    BY <1>2, <1>3, <1>4, <2>1, <2>2
<1> HIDE DEF top
<1>7. CASE top = 0
  <2>1. more = <<>>
    BY <1>1, <1>6, <1>7, NodeIs
  <2>2. nodeBuffer' \in Seq(T) /\ Met' = Met \o <<>>
    BY <1>1, <1>2, <2>1 DEF Met
  <2>3. Met' = Met
    BY <1>2, <2>2
  <2>4. Len(nodes') = v + 1 /\ Len(Met') = n
    BY <1>1, <1>2, <2>3 DEF n, v
  <2>5. ASSUME NEW i \in 1..(v + 1), height[i] > 0
        PROVE  i \in 1..v
    <3>1. i # v + 1
      <4>1. top = height[v + 1] /\ ~ (top > 0)
        BY <1>6, <1>7
      <4>2. height[i] > 0
        BY <2>5
      <4> QED
        BY <4>1, <4>2, Zenon
    <3> QED
      BY <1>9, <2>5, <3>1
  <2>6. ASSUME v + 1 < n PROVE height[(v + 1) + 1] = 0
    <3>1. (v + 1) + 1 \in 1..n /\ v + 1 <= (v + 1) + 1
      BY <1>2, <2>6
    <3>2. height[(v + 1) + 1] <= 0 /\ height[(v + 1) + 1] \in 0..d
      BY <1>3, <1>6, <1>7, <1>10, <3>1
    <3> QED
      BY <3>2
  <2>7. \A j \in 2..n : j \div 2 \in 1..(v + 1) /\ height[j \div 2] > 0
    BY <1>2, <1>5
  <2>8. v + 1 < n => height[(v + 1) + 1] <= height[n] + 1
    BY <1>6, <2>6
  <2>9. ~ (v + 1 < n /\ height[(v + 1) + 1] > 0)
    BY <2>6
  <2>10. Walk(d, height)'
    BY <1>1, <1>3, <1>4, <1>5, <2>3, <2>4, <2>5, <2>7, <2>8, <2>9
       DEF Walk
  <2> QED
    BY <1>1, <1>2, <2>2, <2>10 DEF T
<1>8. CASE top > 0
  <2>1. PICK a \in LevelAt(Ids, top - 1), b \in LevelAt(Ids, top - 1) :
            node = <<a, b>>
    BY <1>1, <1>6, <1>8, NodeIs
  <2>2. more = <<a, b>>
    BY <1>1, <1>6, <1>8, <2>1, NodeIs
  <2>3. top - 1 \in Nat /\ a \in T /\ b \in T
    BY <1>6, <1>8 DEF Trees, T
  <2> HIDE DEF more
  <2>4. nodeBuffer' \in Seq(T) /\ Met' = Met \o <<a, b>>
    <3>1. <<a, b>> \in Seq(T)
      BY <2>3
    <3>2. /\ Append(nodes, node) \o (Tail(nodeBuffer) \o <<a, b>>)
                = Met \o <<a, b>>
          /\ Tail(nodeBuffer) \o <<a, b>> \in Seq(T)
      BY <1>1, <3>1, QueueMoves DEF Met, node
    <3> QED
      BY <1>1, <2>2, <3>2 DEF Met
  <2>5. n = 2 * v + 1
    BY <1>2, <1>4, <1>6, <1>8
  <2>6. /\ Len(Met') = n + 2 /\ Len(nodes') = v + 1
        /\ \A i \in 1..n : Met'[i] = Met[i]
        /\ Met'[n + 1] = a /\ Met'[n + 2] = b
    BY <1>1, <1>2, <2>3, <2>4 DEF n, v
  <2> DEFINE f == [i \in 1..(n + 2) |-> IF i <= n THEN height[i] ELSE top - 1]
  <2>18. /\ f \in [1..(n + 2) -> 0..d]
         /\ \A i \in 1..n : f[i] = height[i]
         /\ f[n + 1] = top - 1 /\ f[n + 2] = top - 1
    BY <1>3, <1>6, <1>8, <1>9
  <2> HIDE DEF f
  <2>7. PICK h :
        /\ h \in [1..(n + 2) -> 0..d]
        /\ \A i \in 1..n : h[i] = height[i]
        /\ h[n + 1] = top - 1 /\ h[n + 2] = top - 1
    BY <2>18
  <2>8. \A i \in 1..(n + 2) : i \in 1..n \/ i = n + 1 \/ i = n + 2
    BY <1>2
  <2>9. ASSUME NEW i \in 1..(n + 2) PROVE Met'[i] \in LevelAt(Ids, h[i])
    BY <1>4, <2>1, <2>6, <2>7, <2>8
  <2>10. ASSUME NEW i \in 1..(n + 2), NEW j \in 1..(n + 2), i <= j
         PROVE  h[j] <= h[i]
    <3>1. ASSUME NEW k \in 1..n PROVE top - 1 <= height[k]
      <4>1. height[n] <= height[k] /\ height[k] \in 0..d
        <5>1. k <= n
          BY <1>9
        <5> QED
          BY <1>3, <1>6, <1>10, <5>1
      <4>2. top <= height[n] + 1
        BY <1>2, <1>4, <1>6
      <4> QED
        BY <1>3, <1>6, <4>1, <4>2
    <3>2. CASE j \in 1..n
      <4>1. i \in 1..n
        BY <1>9, <2>10, <3>2
      <4> QED
        BY <1>4, <2>7, <2>10, <3>2, <4>1
    <3>3. CASE j \notin 1..n
      <4>1. h[j] = top - 1
        BY <2>7, <2>8, <3>3
      <4>2. CASE i \in 1..n
        BY <2>7, <3>1, <4>1, <4>2
      <4>3. CASE i \notin 1..n
        <5>1. h[i] = top - 1
          BY <2>7, <2>8, <4>3
        <5> QED
          BY <1>6, <4>1, <5>1
      <4> QED
        BY <4>2, <4>3
    <3> QED
      BY <3>2, <3>3
  <2>11. (v + 1) + 1 \in 1..(n + 2) /\ h[(v + 1) + 1] <= h[n + 2] + 1
    <3>1. (v + 1) + 1 \in 1..(n + 2)
      BY <1>2
    <3>2. CASE (v + 1) + 1 \in 1..n
      <4>1. height[(v + 1) + 1] <= top
        BY <1>2, <1>4, <1>6, <3>2
      <4> QED
        BY <1>6, <2>7, <3>1, <3>2, <4>1
    <3>3. CASE (v + 1) + 1 \notin 1..n
      <4>1. h[(v + 1) + 1] = top - 1
        BY <2>7, <2>8, <3>1, <3>3
      <4> QED
        BY <1>6, <2>7, <3>1, <4>1
    <3> QED
      BY <3>2, <3>3
  <2>12. n + 2 = 2 * (v + 1) + 1
    BY <1>2, <2>5
  <2>13. ASSUME NEW i \in 1..(v + 1), h[i] > 0
         PROVE  /\ 2 * i + 1 <= n + 2
                /\ Met'[i] = <<Met'[2 * i], Met'[2 * i + 1]>>
                /\ h[2 * i] = h[i] - 1
                /\ h[2 * i + 1] = h[i] - 1
    <3>1. CASE i = v + 1
      <4>1. i \in 1..n /\ 2 * i = n + 1 /\ 2 * i + 1 = n + 2
        BY <1>2, <1>6, <2>5, <3>1
      <4>2. Met'[i] = <<a, b>> /\ h[i] = top
        BY <1>6, <1>11, <2>1, <2>6, <2>7, <3>1, <4>1
      <4>3. Met'[2 * i] = a /\ Met'[2 * i + 1] = b
        BY <2>6, <4>1
      <4>4. h[2 * i] = top - 1 /\ h[2 * i + 1] = top - 1
        BY <2>7, <4>1
      <4>5. 2 * i + 1 <= n + 2
        BY <1>2, <4>1
      <4> QED
        BY <4>2, <4>3, <4>4, <4>5
    <3>2. CASE i # v + 1
      <4>1. i \in 1..v /\ i \in 1..n
        BY <1>2, <3>2
      <4>2. height[i] > 0
        BY <2>7, <2>13, <4>1
      <4>3. 2 * i + 1 <= n /\ 2 * i \in 1..n /\ 2 * i + 1 \in 1..n
        <5>1. 2 * i + 1 <= n
          BY <1>5, <4>1, <4>2
        <5> QED
          BY <1>9, <4>1, <5>1
      <4>4. /\ Met[i] = <<Met[2 * i], Met[2 * i + 1]>>
            /\ height[2 * i] = height[i] - 1
            /\ height[2 * i + 1] = height[i] - 1
        BY <1>5, <4>1, <4>2
      <4>5. 2 * i + 1 <= n + 2
        BY <1>2, <4>1, <4>3
      <4> QED
        BY <2>6, <2>7, <4>1, <4>3, <4>4, <4>5
    <3> QED
      BY <3>1, <3>2
  <2>14. ASSUME NEW j \in 2..(n + 2)
         PROVE  j \div 2 \in 1..(v + 1) /\ h[j \div 2] > 0
    <3>1. CASE j \in 2..n
      <4>1. j \div 2 \in 1..v /\ height[j \div 2] > 0
        BY <1>5, <3>1
      <4>2. j \div 2 \in 1..n /\ j \div 2 \in 1..(v + 1)
        BY <1>2, <4>1
      <4> QED
        BY <2>7, <4>1, <4>2
    <3>2. CASE j \notin 2..n
      <4>1. j \div 2 = v + 1
        BY <1>2, <2>5, <3>2
      <4> QED
        BY <1>2, <1>6, <1>8, <2>7, <4>1
    <3> QED
      BY <3>1, <3>2
  <2>15. Met'[1] = RootOf(Ids) /\ h[1] = d /\ n + 2 >= 1 /\ 1 \in 1..n
    BY <1>2, <1>3, <2>6, <2>7
  <2>16. (v + 1) < n + 2
    BY <1>9
  <2>17. Walk(d, h)'
    <3>1. Len(Met)' = n + 2 /\ Len(nodes)' = v + 1
      BY <2>6
    <3>2. LevelAt(Ids, d)' = {RootOf(Ids)} /\ RootOf(Ids)' = RootOf(Ids)
      BY <1>1, <1>3
    <3>3. \A i \in 1..(n + 2) : (Met[i] \in LevelAt(Ids, h[i]))'
      BY <1>1, <2>9
    <3> QED
      BY <1>1, <1>3, <2>7, <2>10, <2>11, <2>12, <2>13, <2>14, <2>15,
         <3>1, <3>2, <3>3 DEF Walk
  <2> QED
    BY <1>1, <1>2, <2>4, <2>17 DEF T
<1> QED
  BY <1>6, <1>7, <1>8

LEMMA VisitIInv == IInv /\ Visit => IInv'
<1> SUFFICES ASSUME IInv, Visit PROVE IInv'
  OBVIOUS
<1>1. /\ IsBlock(Ids) /\ Ids' = Ids /\ pc = "find" /\ pc' = "find"
      /\ hashPath = NoPath /\ hashPath' = hashPath /\ Search
      /\ txToVerify' = txToVerify /\ nodes \in Seq(Trees(Ids))
  BY DEF IInv, Visit, Ids
<1>2. PICK d, height : Walk(d, height)
  BY <1>1 DEF IInv
<1>3. /\ nodes' \in Seq(Trees(Ids)) /\ nodeBuffer' \in Seq(Trees(Ids))
      /\ \E h : Walk(d, h)'
  BY <1>2, VisitWalks
<1>4. Search'
  <2> DEFINE node == Head(nodeBuffer)
             v == Len(nodes)
  <2>1. /\ nodes' = Append(nodes, node)
        /\ nodeIndex' = IF node = Leaf(txToVerify) THEN v ELSE nodeIndex
    BY DEF Visit
  <2> HIDE DEF node
  <2>2. /\ v \in Nat /\ Len(nodes') = v + 1 /\ nodes'[v + 1] = node
        /\ \A i \in 1..v : nodes'[i] = nodes[i]
    BY <1>1, <1>3, <2>1
  <2>3. /\ nodeIndex \in Nat
        /\ nodeIndex > 0 => /\ nodeIndex < v
                            /\ nodes[nodeIndex + 1] = Leaf(txToVerify)
        /\ \A i \in 2..v : nodes[i] = Leaf(txToVerify) => nodeIndex > 0
    BY <1>1 DEF Search, At
  <2> HIDE DEF v
  <2>4. nodeIndex' \in Nat
    BY <2>1, <2>2, <2>3
  <2>5. ASSUME nodeIndex' > 0
        PROVE  /\ nodeIndex' < v + 1
               /\ nodes'[nodeIndex' + 1] = Leaf(txToVerify)
    <3>1. CASE node = Leaf(txToVerify)
      BY <2>1, <2>2, <3>1
    <3>2. CASE node # Leaf(txToVerify)
      <4>1. nodeIndex' = nodeIndex /\ nodeIndex > 0
        BY <2>1, <2>5, <3>2
      <4>2. nodeIndex + 1 \in 1..v /\ nodeIndex < v + 1
        BY <2>2, <2>3, <4>1
      <4> QED
        BY <2>2, <2>3, <4>1, <4>2
    <3> QED
      BY <3>1, <3>2
  <2>6. ASSUME NEW i \in 2..(v + 1), nodes'[i] = Leaf(txToVerify)
        PROVE  nodeIndex' > 0
    <3>1. v >= 1
      BY <2>2
    <3>2. CASE node = Leaf(txToVerify)
      <4>1. nodeIndex' = v
        BY <2>1, <3>2
      <4> QED
        BY <2>2, <3>1, <4>1
    <3>3. CASE node # Leaf(txToVerify)
      <4>1. i # v + 1
        BY <2>2, <2>6, <3>3
      <4>2. i \in 2..v /\ i \in 1..v
        BY <2>2, <4>1
      <4> QED
        BY <2>1, <2>2, <2>3, <2>6, <3>3, <4>2
    <3> QED
      BY <3>2, <3>3
  <2> QED
    BY <1>1, <2>2, <2>4, <2>5, <2>6 DEF Search, At
<1>5. (\E e, h : Walk(e, h))'
  BY <1>3
<1> QED
  BY <1>1, <1>3, <1>4, <1>5 DEF IInv

\* The walk is over: it has met every node of every level up to the root.
LEMMA WalkMeetsAll ==
    ASSUME IsBlock(Ids), nodeBuffer = <<>>, nodes \in Seq(Trees(Ids)),
           NEW d, NEW height, Walk(d, height)
    PROVE  \A id \in Ids : \E i \in 2..Len(nodes) : nodes[i] = Leaf(id)
<1> DEFINE n == Len(nodes)
           Meets(e) == \A x \in LevelAt(Ids, d - e) :
                          \E i \in 1..n : nodes[i] = x /\ height[i] = d - e
           S == {e \in Nat : e <= d => Meets(e)}
<1>1. Met = nodes /\ n \in Nat
  BY DEF Met
<1>2. /\ d \in Nat /\ d # 0 /\ LevelAt(Ids, d) = {RootOf(Ids)}
      /\ n >= 1 /\ nodes[1] = RootOf(Ids) /\ height[1] = d
      /\ \A i \in 1..n : height[i] > 0 =>
            /\ 2 * i + 1 <= n
            /\ nodes[i] = <<nodes[2 * i], nodes[2 * i + 1]>>
            /\ height[2 * i] = height[i] - 1
            /\ height[2 * i + 1] = height[i] - 1
  BY <1>1 DEF Walk
<1> HIDE DEF n
<1>3. 0 \in S
  <2>1. Meets(0)
    BY <1>1, <1>2
  <2> QED
    BY <2>1
<1>4. ASSUME NEW e \in Nat, e \in S PROVE e + 1 \in S
  <2> SUFFICES ASSUME e + 1 <= d PROVE Meets(e + 1)
    OBVIOUS
  <2>1. /\ Meets(e) /\ d - (e + 1) \in Nat /\ (d - (e + 1)) + 1 = d - e
        /\ d - e > 0 /\ (d - e) - 1 = d - (e + 1)
    BY <1>2, <1>4
  <2>2. ASSUME NEW x \in LevelAt(Ids, d - (e + 1))
        PROVE  \E i \in 1..n : nodes[i] = x /\ height[i] = d - (e + 1)
    <3>1. PICK z \in LevelAt(Ids, d - (e + 1)) :
              \/ <<x, z>> \in LevelAt(Ids, d - e)
              \/ <<z, x>> \in LevelAt(Ids, d - e)
      BY <2>1, Children
    <3>2. PICK p \in LevelAt(Ids, d - e) : p = <<x, z>> \/ p = <<z, x>>
      BY <3>1
    <3>3. PICK i \in 1..n : nodes[i] = p /\ height[i] = d - e
      BY <2>1, <3>2
    <3>4. /\ 2 * i + 1 <= n
          /\ p = <<nodes[2 * i], nodes[2 * i + 1]>>
          /\ height[2 * i] = d - (e + 1) /\ height[2 * i + 1] = d - (e + 1)
      BY <1>2, <2>1, <3>3
    <3>5. 2 * i \in 1..n /\ 2 * i + 1 \in 1..n
      BY <1>1, <3>4
    <3>6. nodes[2 * i] = x \/ nodes[2 * i + 1] = x
      BY <3>2, <3>4
    <3> QED
      BY <3>4, <3>5, <3>6
  <2> QED
    BY <2>2
<1> HIDE DEF S
<1>5. Nat \subseteq S
  BY <1>3, <1>4, SetInduction
<1>6. Meets(d)
  <2>1. d \in S /\ d <= d
    BY <1>2, <1>5
  <2> HIDE DEF Meets
  <2> QED
    BY <2>1 DEF S
<1>7. ASSUME NEW id \in Ids PROVE \E i \in 2..n : nodes[i] = Leaf(id)
  <2>1. Leaf(id) \in LevelAt(Ids, 0) /\ d - d = 0
    BY <1>2, Leaves
  <2>2. PICK i \in 1..n : nodes[i] = Leaf(id) /\ height[i] = 0
    BY <1>6, <2>1
  <2>3. i # 1
    BY <1>2, <2>2
  <2> QED
    BY <1>1, <2>2, <2>3
<1> QED
  BY <1>7 DEF n

LEMMA StartPathIInv == IInv /\ StartPath => IInv'
<1> SUFFICES ASSUME IInv, StartPath PROVE IInv'
  OBVIOUS
<1>1. /\ IsBlock(Ids) /\ Ids' = Ids /\ pc = "find" /\ hashPath = NoPath
      /\ hashPath' = hashPath /\ Search /\ cursor' = nodeIndex
      /\ txToVerify' = txToVerify /\ nodeIndex' = nodeIndex
      /\ nodes' = nodes /\ nodeBuffer' = nodeBuffer /\ nodeBuffer = <<>>
      /\ nodes \in Seq(Trees(Ids)) /\ nodeBuffer \in Seq(Trees(Ids))
      /\ nodeIndex \in Nat
      /\ pc' = IF nodeIndex > 0 THEN "climb" ELSE "done"
  BY DEF IInv, StartPath, Ids, Search, Found
<1>2. PICK d, height : Walk(d, height)
  BY <1>1 DEF IInv
<1>3. Walk(d, height)'
  BY <1>1, <1>2 DEF Walk, Met
<1>4. Search'
  BY <1>1 DEF Search, At
<1>5. ASSUME nodeIndex > 0
      PROVE  0 \notin DOMAIN hashPath' /\ (\E k, a : Climbed(k, a))'
  <2>1. DOMAIN hashPath = {}
    BY <1>1 DEF NoPath
  <2> DEFINE a == [i \in 0..0 |-> nodeIndex]
  <2>2. PICK b : b = a
    OBVIOUS
  <2>3. b \in [0..0 -> Nat] /\ b[0] = nodeIndex
    BY <1>1, <2>2
  <2> HIDE DEF a
  <2>4. {Sibling(b[i]) : i \in 0..(0 - 1)} = {}
    OBVIOUS
  <2>5. nodeIndex < Len(nodes)
    BY <1>1, <1>5 DEF Search
  <2>6. \A i \in 0..0 : i = 0
    OBVIOUS
  <2>7. IsFiniteSet({}) /\ Cardinality({}) = 0
    BY FS_EmptySet
  <2>8. Climbed(0, b)'
    <3>1. \A i \in 0..0 : b[i] < Len(nodes)
      BY <2>3, <2>5, <2>6
    <3>2. \A i \in 0..(0 - 1) : FALSE
      OBVIOUS
    <3> QED
      BY <1>1, <2>1, <2>3, <2>4, <2>7, <3>1, <3>2 DEF Climbed
  <2> QED
    BY <1>1, <2>1, <2>8
<1>6. (\E e, h : Walk(e, h))'
  BY <1>3
<1> QED
  BY <1>1, <1>4, <1>5, <1>6 DEF IInv

-----------------------------------------------------------------------------
(* GetVerificationPath.                                                    *)

\* Parents and siblings of positions that begin with 0.
LEMMA PositionsAre ==
    ASSUME NEW c \in Nat, c > 0
    PROVE  LET p == Parent(c)
               q == Sibling(c)
           IN  /\ p \in Nat /\ q \in Nat /\ p < c /\ 2 * p + 1 <= c
               /\ q >= 2 * p + 1 /\ q >= 1 /\ q <= c + 1 /\ q < 2 * c + 1
               /\ Sibling(q) = c
               /\ (c + 1) \div 2 = p + 1
               /\ \/ c % 2 # 0 /\ c = 2 * p + 1 /\ q = c + 1
                  \/ c % 2 = 0 /\ c = 2 * p + 2 /\ q = c - 1
<1>1. CASE c % 2 # 0
  <2>1. c = 2 * Parent(c) + 1 /\ Parent(c) \in Nat
    BY <1>1 DEF Parent
  <2>2. Sibling(c) = c + 1 /\ (c + 1) % 2 = 0
    BY <1>1 DEF Sibling
  <2>3. Sibling(c + 1) = c
    BY <2>2 DEF Sibling
  <2> QED
    BY <1>1, <2>1, <2>2, <2>3
<1>2. CASE c % 2 = 0
  <2>1. c = 2 * Parent(c) + 2 /\ Parent(c) \in Nat
    BY <1>2 DEF Parent
  <2>2. Sibling(c) = c - 1 /\ (c - 1) % 2 # 0
    BY <1>2 DEF Sibling
  <2>3. Sibling(c - 1) = c
    BY <2>2 DEF Sibling
  <2> QED
    BY <1>2, <2>1, <2>2, <2>3
<1> QED
  BY <1>1, <1>2

\* The siblings of the positions on the way.
Siblings(k, a) == {Sibling(a[i]) : i \in 0..(k - 1)}

LEMMA ClimbIInv == IInv /\ Climb => IInv'
<1> SUFFICES ASSUME IInv, Climb PROVE IInv'
  OBVIOUS
<1>1. /\ IsBlock(Ids) /\ Ids' = Ids /\ pc = "climb" /\ pc' = "climb"
      /\ Search /\ nodeIndex > 0 /\ nodeIndex \in Nat /\ cursor > 0
      /\ 0 \notin DOMAIN hashPath
      /\ hashPath' = With(hashPath, Sibling(cursor), At(Sibling(cursor)))
      /\ cursor' = Parent(cursor)
      /\ txToVerify' = txToVerify /\ nodeIndex' = nodeIndex
      /\ nodes' = nodes /\ nodeBuffer' = nodeBuffer /\ nodeBuffer = <<>>
      /\ nodes \in Seq(Trees(Ids)) /\ nodeBuffer \in Seq(Trees(Ids))
  BY DEF IInv, Climb, Ids, Search
<1>2. PICK d, height : Walk(d, height)
  BY <1>1 DEF IInv
<1>3. Walk(d, height)'
  BY <1>1, <1>2 DEF Walk, Met
<1>4. Search'
  BY <1>1 DEF Search, At
<1>5. PICK k, a : Climbed(k, a)
  BY <1>1 DEF IInv
<1> DEFINE q == Sibling(cursor)
           p == Parent(cursor)
<1>6. /\ k \in Nat /\ a \in [0..k -> Nat]
      /\ a[0] = nodeIndex /\ a[k] = cursor
      /\ \A i \in 0..(k - 1) : a[i] > 0 /\ a[i + 1] = Parent(a[i])
      /\ \A i \in 0..k : a[i] < Len(nodes)
      /\ cursor = nodeIndex \/ 2 * cursor + 1 <= nodeIndex
  BY <1>5 DEF Climbed
<1>7. /\ DOMAIN hashPath \ {0} = Siblings(k, a)
      /\ IsFiniteSet(Siblings(k, a)) /\ Cardinality(Siblings(k, a)) = k
      /\ \A r \in Siblings(k, a) : /\ 2 * cursor + 1 <= r
                                   /\ r <= Sibling(nodeIndex)
      /\ \A r \in DOMAIN hashPath : hashPath[r] = At(r)
  BY <1>5 DEF Climbed, Siblings
<1>8. /\ cursor \in Nat
      /\ p \in Nat /\ q \in Nat /\ p < cursor /\ 2 * p + 1 <= cursor
      /\ q >= 2 * p + 1 /\ q >= 1 /\ q <= cursor + 1 /\ q < 2 * cursor + 1
  <2>1. cursor \in Nat
    <3>1. k \in 0..k
      BY <1>6
    <3> QED
      BY <1>6, <3>1
  <2> QED
    BY <1>1, <2>1, PositionsAre
<1> HIDE DEF q, p
<1> DEFINE b == [i \in 0..(k + 1) |-> IF i <= k THEN a[i] ELSE p]
<1>9. /\ b \in [0..(k + 1) -> Nat] /\ b[k + 1] = p /\ k + 1 \in Nat
      /\ \A i \in 0..k : b[i] = a[i]
  BY <1>6, <1>8
<1> HIDE DEF b
<1>10. PICK c : c = b
  OBVIOUS
<1>11. /\ c \in [0..(k + 1) -> Nat] /\ c[k + 1] = p
       /\ \A i \in 0..k : c[i] = a[i]
  BY <1>9, <1>10
<1>12. c[0] = nodeIndex
  BY <1>6, <1>11
<1>13. ASSUME NEW i \in 0..((k + 1) - 1)
       PROVE  c[i] > 0 /\ c[i + 1] = Parent(c[i])
  <2>1. CASE i = k
    BY <1>1, <1>6, <1>11, <2>1 DEF p
  <2>2. CASE i # k
    <3>1. i \in 0..(k - 1) /\ i \in 0..k /\ i + 1 \in 0..k
      BY <1>6, <2>2
    <3> QED
      BY <1>6, <1>11, <3>1
  <2> QED
    BY <2>1, <2>2
<1>14. ASSUME NEW i \in 0..(k + 1) PROVE c[i] < Len(nodes)
  <2>1. CASE i = k + 1
    <3>1. cursor < Len(nodes) /\ Len(nodes) \in Nat
      BY <1>1, <1>6
    <3> QED
      BY <1>8, <1>11, <2>1, <3>1
  <2>2. CASE i # k + 1
    <3>1. i \in 0..k
      BY <1>6, <2>2
    <3> QED
      BY <1>6, <1>11, <3>1
  <2> QED
    BY <2>1, <2>2
<1>15. 2 * p + 1 <= nodeIndex
  BY <1>1, <1>6, <1>8
<1>16. Siblings(k + 1, c) = Siblings(k, a) \cup {q}
  <2>1. \A i \in 0..((k + 1) - 1) : i \in 0..(k - 1) \/ i = k
    BY <1>6
  <2>2. c[k] = cursor /\ k \in 0..((k + 1) - 1)
    BY <1>6, <1>11
  <2>3. \A i \in 0..(k - 1) : i \in 0..((k + 1) - 1) /\ c[i] = a[i]
    BY <1>6, <1>11
  <2> QED
    BY <2>1, <2>2, <2>3 DEF Siblings, q
<1>17. q \notin Siblings(k, a) /\ q # 0
  BY <1>7, <1>8
<1>18. /\ DOMAIN hashPath' = DOMAIN hashPath \cup {q}
       /\ hashPath'[q] = At(q)
       /\ \A r \in DOMAIN hashPath : r # q => hashPath'[r] = hashPath[r]
  <2> DEFINE value == At(q)
  <2>1. hashPath' = With(hashPath, q, value)
    BY <1>1 DEF q
  <2> HIDE DEF value
  <2> DEFINE path == With(hashPath, q, value)
  <2>2. /\ DOMAIN path = DOMAIN hashPath \cup {q}
        /\ path[q] = value
        /\ \A r \in DOMAIN hashPath : r # q => path[r] = hashPath[r]
    BY DEF With
  <2>3. hashPath' = path
    BY <2>1
  <2> HIDE DEF path
  <2> QED
    BY <2>2, <2>3 DEF value
<1>19. IsFiniteSet(Siblings(k + 1, c))
       /\ Cardinality(Siblings(k + 1, c)) = k + 1
  BY <1>7, <1>16, <1>17, FS_AddElement
<1>20. ASSUME NEW r \in Siblings(k + 1, c)
       PROVE  2 * p + 1 <= r /\ r <= Sibling(nodeIndex)
  <2>1. CASE r = q
    <3>1. q <= Sibling(nodeIndex)
      <4>1. CASE cursor = nodeIndex
        BY <1>8, <4>1 DEF q
      <4>2. CASE 2 * cursor + 1 <= nodeIndex
        <5>1. /\ Sibling(nodeIndex) \in Nat
              /\ Sibling(nodeIndex) = nodeIndex + 1
                    \/ Sibling(nodeIndex) = nodeIndex - 1
          BY <1>1, PositionsAre
        <5> QED
          BY <1>1, <1>8, <4>2, <5>1
      <4> QED
        BY <1>6, <4>1, <4>2
    <3> QED
      BY <1>8, <2>1, <3>1
  <2>2. CASE r # q
    <3>1. r \in Siblings(k, a)
      BY <1>16, <2>2
    <3>2. 2 * cursor + 1 <= r /\ r <= Sibling(nodeIndex)
      BY <1>7, <3>1
    <3>3. r \in Nat
      <4>1. PICK i \in 0..(k - 1) : r = Sibling(a[i])
        BY <3>1 DEF Siblings
      <4>2. a[i] \in Nat /\ a[i] > 0
        BY <1>6, <4>1
      <4> QED
        BY <4>1, <4>2, PositionsAre
    <3> QED
      BY <1>8, <3>2, <3>3
  <2> QED
    BY <2>1, <2>2
<1>21. ASSUME NEW r \in DOMAIN hashPath' PROVE hashPath'[r] = At(r)
  BY <1>7, <1>18
<1>22. DOMAIN hashPath' \ {0} = Siblings(k + 1, c)
  BY <1>7, <1>16, <1>17, <1>18
<1>23. Climbed(k + 1, c)'
  <2>1. {Sibling(c[i]) : i \in 0..((k + 1) - 1)} = Siblings(k + 1, c)
    BY DEF Siblings
  <2>2. cursor' = p /\ nodeIndex' = nodeIndex /\ Len(nodes') = Len(nodes)
    BY <1>1 DEF p
  <2>3. \A r \in DOMAIN hashPath' : hashPath'[r] = At(r)'
    BY <1>1, <1>21 DEF At
  <2>4. k + 1 \in Nat
    BY <1>6
  <2> HIDE DEF Siblings
  <2>5. \A r \in Siblings(k + 1, c) : /\ 2 * cursor' + 1 <= r
                                      /\ r <= Sibling(nodeIndex')
    BY <1>20, <2>2
  <2>6. cursor' = nodeIndex' \/ 2 * cursor' + 1 <= nodeIndex'
    BY <1>15, <2>2
  <2> QED
    BY <1>11, <1>12, <1>13, <1>14, <1>19, <1>22, <2>1, <2>2, <2>3, <2>4,
       <2>5, <2>6 DEF Climbed
<1>24. 0 \notin DOMAIN hashPath'
  BY <1>1, <1>17, <1>18
<1>25. (\E e, h : Walk(e, h))' /\ (\E j, b0 : Climbed(j, b0))'
  BY <1>3, <1>23
<1> QED
  BY <1>1, <1>4, <1>24, <1>25 DEF IInv

LEMMA FinishPathIInv == IInv /\ FinishPath => IInv'
<1> SUFFICES ASSUME IInv, FinishPath PROVE IInv'
  OBVIOUS
<1>1. /\ IsBlock(Ids) /\ Ids' = Ids /\ pc = "climb" /\ pc' = "done"
      /\ Search /\ nodeIndex > 0 /\ nodeIndex \in Nat /\ cursor = 0
      /\ 0 \notin DOMAIN hashPath
      /\ hashPath' = With(hashPath, 0, At(0))
      /\ cursor' = cursor
      /\ txToVerify' = txToVerify /\ nodeIndex' = nodeIndex
      /\ nodes' = nodes /\ nodeBuffer' = nodeBuffer /\ nodeBuffer = <<>>
      /\ nodes \in Seq(Trees(Ids)) /\ nodeBuffer \in Seq(Trees(Ids))
  BY DEF IInv, FinishPath, Ids, Search
<1>2. PICK d, height : Walk(d, height)
  BY <1>1 DEF IInv
<1>3. Walk(d, height)'
  BY <1>1, <1>2 DEF Walk, Met
<1>4. Search'
  BY <1>1 DEF Search, At
<1>5. PICK k, a : Climbed(k, a)
  BY <1>1 DEF IInv
<1>6. /\ DOMAIN hashPath' = DOMAIN hashPath \cup {0}
      /\ hashPath'[0] = At(0)
      /\ \A r \in DOMAIN hashPath : hashPath'[r] = hashPath[r]
  <2> DEFINE value == At(0)
             path == With(hashPath, 0, value)
  <2>1. hashPath' = path
    BY <1>1
  <2> HIDE DEF value
  <2>2. /\ DOMAIN path = DOMAIN hashPath \cup {0}
        /\ path[0] = value
        /\ \A r \in DOMAIN hashPath : r # 0 => path[r] = hashPath[r]
    BY DEF With
  <2> HIDE DEF path
  <2> QED
    BY <1>1, <2>1, <2>2 DEF value
<1>7. \A r \in DOMAIN hashPath : hashPath[r] = At(r)
  BY <1>5 DEF Climbed
<1>8. \A r \in DOMAIN hashPath' : hashPath'[r] = At(r)
  BY <1>6, <1>7
<1>9. DOMAIN hashPath' \ {0} = DOMAIN hashPath \ {0}
  BY <1>6
<1>10. Climbed(k, a)'
  BY <1>1, <1>5, <1>8, <1>9 DEF Climbed, At
<1>11. 0 \in DOMAIN hashPath'
  BY <1>6
<1>12. (\E e, h : Walk(e, h))' /\ (\E j, b : Climbed(j, b))'
  BY <1>3, <1>10
<1> QED
  BY <1>1, <1>4, <1>11, <1>12 DEF IInv

-----------------------------------------------------------------------------
(* The theorems.                                                           *)

LEMMA StutterIInv == IInv /\ UNCHANGED vars => IInv'
<1> SUFFICES ASSUME IInv, UNCHANGED vars PROVE IInv'
  OBVIOUS
<1>1. /\ txs' = txs /\ Ids' = Ids /\ pc' = pc /\ cursor' = cursor
      /\ hashPath' = hashPath
      /\ txToVerify' = txToVerify /\ nodeIndex' = nodeIndex
      /\ nodes' = nodes /\ nodeBuffer' = nodeBuffer
  BY DEF vars, Ids
<1>2. \A k : Built(k)' <=> Built(k)
  BY <1>1 DEF Built
<1>3. \A d, height : Walk(d, height)' <=> Walk(d, height)
  BY <1>1 DEF Walk, Met
<1>4. Search' <=> Search
  BY <1>1 DEF Search, At
<1>5. \A k, a : Climbed(k, a)' <=> Climbed(k, a)
  BY <1>1 DEF Climbed, At
<1> QED
  BY <1>1, <1>2, <1>3, <1>4, <1>5 DEF IInv

\* Every step of the three loops keeps what IInv says of nodes, queue and path.
THEOREM IInvariant == Spec => []IInv
<1>1. Init => IInv
  BY InitIInv
<1>2. IInv /\ [Next]_vars => IInv'
  BY MakeLeavesIInv, NextLevelIInv, StartFindIInv, VisitIInv,
     StartPathIInv, ClimbIInv, FinishPathIInv, StutterIInv DEF Next
<1> QED
  BY <1>1, <1>2, PTL DEF Spec

\* What the invariant says when the answer is given.
LEMMA AtTheEnd ==
    ASSUME IInv, Done
    PROVE  /\ IsBlock(Ids) /\ nodes \in Seq(Trees(Ids)) /\ Met = nodes
           /\ nodeBuffer = <<>> /\ Search /\ nodeIndex \in Nat
           /\ \E d, height : Walk(d, height)
           /\ \/ nodeIndex = 0 /\ hashPath = NoPath
              \/ /\ nodeIndex > 0 /\ cursor = 0 /\ 0 \in DOMAIN hashPath
                 /\ \E k, a : Climbed(k, a)
<1>1. /\ IsBlock(Ids) /\ nodes \in Seq(Trees(Ids))
      /\ nodeBuffer = <<>> /\ Search
      /\ \E d, height : Walk(d, height)
      /\ \/ nodeIndex = 0 /\ hashPath = NoPath
         \/ /\ nodeIndex > 0 /\ cursor = 0 /\ 0 \in DOMAIN hashPath
            /\ \E k, a : Climbed(k, a)
  BY DEF IInv, Done
<1>2. nodeIndex \in Nat
  BY <1>1 DEF Search
<1>3. Met = nodes
  BY <1>1 DEF Met
<1> QED
  BY <1>1, <1>2, <1>3

\* The order of the transactions does not matter for the root that
\* NewMerkleTree ends with.
THEOREM RootDependsOnSet == Spec => []RootIsUnique
<1>1. ASSUME IInv PROVE RootIsUnique
  <2> SUFFICES ASSUME Done PROVE At(0) = RootOf(ToSet(txs))
    BY DEF RootIsUnique
  <2>1. PICK d, height : Walk(d, height)
    BY <1>1, AtTheEnd
  <2>2. Met[1] = RootOf(Ids)
    BY <2>1 DEF Walk
  <2> QED
    BY <1>1, <2>2, AtTheEnd DEF At, Ids
<1> QED
  BY <1>1, IInvariant, PTL

\* findNodeByData finds nothing for a transaction that the block does not
\* hold, and GetVerificationPath then returns nil.
THEOREM AbsentGetsNoPath == Spec => []AbsentHasNoPath
<1>1. ASSUME IInv PROVE AbsentHasNoPath
  <2> SUFFICES ASSUME Done, txToVerify \notin Ids PROVE hashPath = NoPath
    BY DEF AbsentHasNoPath, Ids
  <2>1. PICK d, height : Walk(d, height)
    BY <1>1, AtTheEnd
  <2>2. IsBlock(Ids) /\ Met = nodes /\ nodeIndex \in Nat /\ Search
        /\ nodes \in Seq(Trees(Ids))
    BY <1>1, AtTheEnd
  <2>3. ASSUME NEW i \in 1..Len(nodes) PROVE nodes[i] # Leaf(txToVerify)
    <3>1. nodes[i] \in LevelAt(Ids, height[i]) /\ height[i] \in 0..d
          /\ d \in Nat
      BY <2>1, <2>2 DEF Walk
    <3>2. height[i] \in Nat
      BY <3>1
    <3>3. CASE height[i] = 0
      <4>1. PICK id \in Ids : nodes[i] = Leaf(id)
        BY <2>2, <3>1, <3>2, <3>3, NodeIs
      <4> QED
        BY <4>1 DEF Leaf
    <3>4. CASE height[i] > 0
      BY <2>2, <3>1, <3>2, <3>4, NodeIs
    <3> QED
      BY <3>2, <3>3, <3>4
  <2>4. nodeIndex = 0
    <3> SUFFICES ASSUME nodeIndex > 0 PROVE FALSE
      BY <2>2
    <3>1. nodeIndex < Len(nodes) /\ nodes[nodeIndex + 1] = Leaf(txToVerify)
      BY <2>2 DEF Search, At
    <3>2. nodeIndex + 1 \in 1..Len(nodes)
      BY <2>2, <3>1
    <3> QED
      BY <2>3, <3>1, <3>2
  <2> QED
    BY <1>1, <2>4, AtTheEnd
<1> QED
  BY <1>1, IInvariant, PTL

\* A path of the code holds the hashes beside the way from the document, the
\* deepest of which is the document's own neighbour, and the root.
LEMMA PathIs ==
    ASSUME nodeIndex \in Nat, nodeIndex > 0, cursor = 0,
           0 \in DOMAIN hashPath, NEW k, NEW a, Climbed(k, a)
    PROVE  /\ Cardinality(DOMAIN hashPath) - 1 = k
           /\ DocumentPosition(hashPath) = nodeIndex
<1> DEFINE s == Sibling(nodeIndex)
           D == DOMAIN hashPath
<1>1. /\ k \in Nat /\ a \in [0..k -> Nat]
      /\ a[0] = nodeIndex /\ a[k] = cursor
      /\ \A i \in 0..(k - 1) : a[i] > 0
  BY DEF Climbed
<1>2. /\ D \ {0} = Siblings(k, a)
      /\ IsFiniteSet(Siblings(k, a)) /\ Cardinality(Siblings(k, a)) = k
      /\ \A q \in Siblings(k, a) : q <= s
  BY DEF Climbed, Siblings
<1>3. D = Siblings(k, a) \cup {0} /\ 0 \notin Siblings(k, a)
  BY <1>2
<1>4. k >= 1
  <2>1. k # 0
    BY <1>1
  <2> QED
    BY <1>1, <2>1
<1>5. s \in D /\ s \in Nat /\ Sibling(s) = nodeIndex
  <2>1. 0 \in 0..(k - 1)
    BY <1>1, <1>4
  <2>2. s \in Siblings(k, a)
    BY <1>1, <2>1 DEF Siblings
  <2>3. s \in Nat /\ Sibling(s) = nodeIndex
    BY PositionsAre
  <2> QED
    BY <1>3, <2>2, <2>3
<1>6. D \subseteq Nat
  <2>1. ASSUME NEW q \in Siblings(k, a) PROVE q \in Nat
    <3>1. PICK i \in 0..(k - 1) : q = Sibling(a[i])
      BY <2>1 DEF Siblings
    <3>2. a[i] \in Nat /\ a[i] > 0
      BY <1>1, <3>1
    <3> QED
      BY <3>1, <3>2, PositionsAre
  <2> QED
    BY <1>3, <2>1
<1> HIDE DEF s, D
<1>7. \A q \in D : q <= s
  BY <1>2, <1>3, <1>5
<1>8. Cardinality(D) = k + 1
  BY <1>2, <1>3, FS_AddElement
<1>9. DocumentPosition(hashPath) = nodeIndex
  <2> DEFINE m == CHOOSE q \in D : \A i \in D : i <= q
  <2>1. m \in D /\ \A i \in D : i <= m
    BY <1>5, <1>7
  <2>2. DocumentPosition(hashPath) = Sibling(m)
    BY DEF DocumentPosition, D
  <2> HIDE DEF m
  <2>3. m = s
    BY <1>5, <1>6, <1>7, <2>1
  <2> QED
    BY <1>5, <2>2, <2>3
<1> QED
  BY <1>1, <1>8, <1>9 DEF D

\* The client goes the way of GetVerificationPath, and has at each position
\* the hash of the node there.
LEMMA ClientFollows ==
    ASSUME nodeBuffer = <<>>, nodes \in Seq(Trees(Ids)), Search,
           nodeIndex > 0, cursor = 0, 0 \in DOMAIN hashPath,
           NEW d, NEW height, Walk(d, height), NEW k, NEW a, Climbed(k, a)
    PROVE  ClientClimb(hashPath, txToVerify)[k]
              = [position |-> 0, hash |-> hashPath[0]]
<1> DEFINE climb == ClientClimb(hashPath, txToVerify)
           S == {i \in Nat : i <= k =>
                    climb[i] = [position |-> a[i], hash |-> At(a[i])]}
<1>1. /\ k \in Nat /\ a \in [0..k -> Nat]
      /\ a[0] = nodeIndex /\ a[k] = cursor
      /\ \A i \in 0..(k - 1) : a[i] > 0 /\ a[i + 1] = Parent(a[i])
      /\ \A i \in 0..k : a[i] < Len(nodes)
      /\ \A i \in 0..(k - 1) : Sibling(a[i]) \in DOMAIN hashPath
      /\ \A q \in DOMAIN hashPath : hashPath[q] = At(q)
  BY DEF Climbed
<1>2. nodeIndex \in Nat /\ At(nodeIndex) = Leaf(txToVerify)
  BY DEF Search
<1>3. 0 \in S
  <2>1. DocumentPosition(hashPath) = nodeIndex
    BY <1>2, PathIs
  <2>2. climb[0] = [position |-> nodeIndex, hash |-> Leaf(txToVerify)]
    BY <2>1, ClientClimbIs
  <2> HIDE DEF climb
  <2> QED
    BY <1>1, <1>2, <2>2
<1>4. ASSUME NEW i \in Nat, i \in S PROVE i + 1 \in S
  <2> SUFFICES ASSUME i + 1 <= k
               PROVE  climb[i + 1] = [position |-> a[i + 1],
                                      hash |-> At(a[i + 1])]
    OBVIOUS
  <2> DEFINE c == a[i]
             p == Parent(c)
             q == Sibling(c)
  <2>1. i <= k /\ i \in 0..(k - 1) /\ i \in 0..k
    BY <1>1
  <2>2. /\ c \in Nat /\ c > 0 /\ a[i + 1] = p /\ c < Len(nodes)
        /\ q \in DOMAIN hashPath /\ hashPath[q] = At(q)
    BY <1>1, <2>1
  <2>3. climb[i] = [position |-> c, hash |-> At(c)]
    BY <1>4, <2>1
  <2>4. climb[i + 1] = Above(hashPath, climb[i])
    BY ClientClimbIs
  <2> HIDE DEF climb, S
  <2>5. /\ p \in Nat /\ q \in Nat /\ (c + 1) \div 2 = p + 1
        /\ \/ c % 2 # 0 /\ c = 2 * p + 1 /\ q = c + 1
           \/ c % 2 = 0 /\ c = 2 * p + 2 /\ q = c - 1
    BY <2>2, PositionsAre
  <2>6. At(p) = IF c % 2 # 0 THEN <<At(c), At(q)>> ELSE <<At(q), At(c)>>
    <3>1. Met = nodes /\ Len(nodes) \in Nat
      BY DEF Met
    <3>2. c + 1 \in 2..Len(nodes)
      BY <2>2, <3>1
    <3>3. p + 1 \in 1..Len(nodes) /\ height[p + 1] > 0
      <4>1. (c + 1) \div 2 \in 1..Len(nodes) /\ height[(c + 1) \div 2] > 0
        BY <3>1, <3>2 DEF Walk
      <4> QED
        BY <2>5, <4>1
    <3>4. nodes[p + 1] = <<nodes[2 * (p + 1)], nodes[2 * (p + 1) + 1]>>
      BY <3>1, <3>3 DEF Walk
    <3> HIDE DEF c, p, q
    <3>5. CASE c % 2 # 0
      <4>1. 2 * (p + 1) = c + 1 /\ 2 * (p + 1) + 1 = q + 1
        BY <2>5, <3>5
      <4> QED
        BY <3>4, <3>5, <4>1 DEF At
    <3>6. CASE c % 2 = 0
      <4>1. 2 * (p + 1) = q + 1 /\ 2 * (p + 1) + 1 = c + 1
        BY <2>2, <2>5, <3>6
      <4> QED
        BY <3>4, <3>6, <4>1 DEF At
    <3> QED
      BY <2>5, <3>5, <3>6
  <2>7. Given(hashPath, q) = At(q)
    BY <2>2 DEF Given
  <2>8. p = (c - 1) \div 2
    BY DEF Parent
  <2> DEFINE here == [position |-> c, hash |-> At(c)]
  <2>9. Above(hashPath, here) = [position |-> p, hash |-> At(p)]
    <3>1. here.position = c /\ here.hash = At(c)
      OBVIOUS
    <3> HIDE DEF here, c, p, q
    <3>2. CASE c % 2 # 0
      <4>1. q = c + 1 /\ At(p) = <<At(c), At(q)>>
        BY <2>5, <2>6, <3>2
      <4> QED
        BY <2>7, <2>8, <3>1, <3>2, <4>1 DEF Above, Keccak256
    <3>3. CASE c % 2 = 0
      <4>1. q = c - 1 /\ At(p) = <<At(q), At(c)>>
        BY <2>5, <2>6, <3>3
      <4> QED
        BY <2>7, <2>8, <3>1, <3>3, <4>1 DEF Above, Keccak256
    <3> QED
      BY <2>5, <3>2, <3>3
  <2> QED
    BY <2>2, <2>3, <2>4, <2>9
<1> HIDE DEF S
<1>5. Nat \subseteq S
  BY <1>3, <1>4, SetInduction
<1>6. climb[k] = [position |-> a[k], hash |-> At(a[k])]
  <2>1. k \in S /\ k <= k
    BY <1>1, <1>5
  <2> HIDE DEF climb
  <2> QED
    BY <2>1 DEF S
<1> QED
  BY <1>1, <1>6

\* The path that GetVerificationPath returns for a transaction of the block
\* leads from its identifier to the root that the block was sealed with.
THEOREM PathVerifies == Spec => []PathLeadsToRoot
<1>1. ASSUME IInv PROVE PathLeadsToRoot
  <2> SUFFICES ASSUME Done, txToVerify \in Ids
      PROVE  /\ hashPath # NoPath /\ 0 \in DOMAIN hashPath
             /\ hashPath[0] = RootOf(Ids)
             /\ ClientClimb(hashPath, txToVerify)
                    [Cardinality(DOMAIN hashPath) - 1]
                  = [position |-> 0, hash |-> hashPath[0]]
    BY DEF PathLeadsToRoot, Ids
  <2>1. PICK d, height : Walk(d, height)
    BY <1>1, AtTheEnd
  <2>2. /\ IsBlock(Ids) /\ Met = nodes /\ nodeBuffer = <<>> /\ Search
        /\ nodeIndex \in Nat /\ nodes \in Seq(Trees(Ids))
    BY <1>1, AtTheEnd
  <2>3. nodeIndex > 0
    <3>1. PICK i \in 2..Len(nodes) : nodes[i] = Leaf(txToVerify)
      BY <2>1, <2>2, WalkMeetsAll
    <3> QED
      BY <2>2, <3>1 DEF Search
  <2>4. cursor = 0 /\ 0 \in DOMAIN hashPath
    BY <1>1, <2>3, AtTheEnd
  <2>5. PICK k, a : Climbed(k, a)
    BY <1>1, <2>3, AtTheEnd
  <2>6. hashPath # NoPath
    BY <2>4 DEF NoPath
  <2>7. hashPath[0] = RootOf(Ids)
    <3>1. hashPath[0] = At(0)
      BY <2>4, <2>5 DEF Climbed
    <3>2. Met[1] = RootOf(Ids)
      BY <2>1 DEF Walk
    <3> QED
      BY <2>2, <3>1, <3>2 DEF At
  <2>8. Cardinality(DOMAIN hashPath) - 1 = k
    BY <2>2, <2>3, <2>4, <2>5, PathIs
  <2>9. ClientClimb(hashPath, txToVerify)[k]
           = [position |-> 0, hash |-> hashPath[0]]
    BY <2>1, <2>2, <2>3, <2>4, <2>5, ClientFollows
  <2> QED
    BY <2>4, <2>6, <2>7, <2>8, <2>9
<1> QED
  BY <1>1, IInvariant, PTL
=============================================================================
