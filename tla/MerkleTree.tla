---------------------------- MODULE MerkleTree -----------------------------
(***************************************************************************)
(* The Merkle tree of a block and the verification path of a document in   *)
(* it (blockchain/merkle_tree.go), a step per round of the code's loops.   *)
(*                                                                         *)
(* The tree is built when the block is made, from the order of the batch,  *)
(* and again for every request of a path, from the order of the keys in    *)
(* the database; the client has the root of the first and the path of the  *)
(* second.  An identifier is a number that compares like its bytes; the    *)
(* Data of a leaf is <<id>>, and a hash, taken as free of collisions, is   *)
(* the pair of what was hashed, so that Data also tells Left and Right.    *)
(***************************************************************************)
EXTENDS Integers, FiniteSets, SequencesExt

CONSTANTS
    Id,         \* identifiers of transactions
    MaxTxs      \* bound on the transactions of a block

ASSUME ConstantsAssumption == Id \subseteq Nat /\ MaxTxs \in Nat

VARIABLES
    txs,          \* block.Transactions: identifiers in the order of the caller
    txToVerify,   \* the identifier that a path is asked for
    pc,           \* the loop that runs
    nodes,        \* NewMerkleTree's level; findNodeByData's nodes
    nodeBuffer,   \* the queue of findNodeByData
    nodeIndex,    \* its result
    cursor,       \* the cursor of GetVerificationPath
    hashPath      \* the result: a map from positions to hashes

vars == <<txs, txToVerify, pc, nodes, nodeBuffer, nodeIndex, cursor, hashPath>>

NoPath == <<>>     \* nil: a map has position 0, a sequence has not
Leaf(id) == <<id>>
Keccak256(left, right) == <<left, right>>
IsLeaf(node) == Len(node) = 1

-----------------------------------------------------------------------------

Init ==
    /\ txs \in UNION {{s \in [1..n -> Id] : IsInjective(s)} : n \in 1..MaxTxs}
    /\ txToVerify \in Id
    /\ pc = "sort" /\ nodes = <<>> /\ nodeBuffer = <<>>
    /\ nodeIndex = 0 /\ cursor = 0 /\ hashPath = NoPath

\* Mutant: the order of the caller is kept.
SortByteArrays_Not(s) == s

\* A set of identifiers in its order: the i-th has i - 1 smaller ones.
Sorted(ids) ==
    [i \in 1..Cardinality(ids) |->
        CHOOSE id \in ids : Cardinality({x \in ids : x < id}) = i - 1]

SortByteArrays(s) == Sorted(ToSet(s))

\* An odd level gets its last node a second time.
Padded(s) == IF Len(s) % 2 = 0 THEN s ELSE Append(s, Last(s))

\* NewMerkleTree up to its loop over the levels.
MakeLeaves ==
    /\ pc = "sort"
    /\ LET hashes == Padded(SortByteArrays(txs))
       IN  nodes' = [i \in 1..Len(hashes) |-> Leaf(hashes[i])]
    /\ pc' = "level"
    /\ UNCHANGED <<txs, txToVerify, nodeBuffer, nodeIndex, cursor, hashPath>>

\* A round of that loop: two nodes become one.
NextLevel ==
    /\ pc = "level" /\ Len(nodes) > 1
    /\ LET level == Padded(nodes)
       IN  nodes' = [j \in 1..(Len(level) \div 2) |->
                        Keccak256(level[2 * j - 1], level[2 * j])]
    /\ UNCHANGED <<txs, txToVerify, pc>>
    /\ UNCHANGED <<nodeBuffer, nodeIndex, cursor, hashPath>>

\* The root is made: findNodeByData begins with it.
StartFind ==
    /\ pc = "level" /\ Len(nodes) = 1
    /\ nodeBuffer' = nodes /\ nodes' = <<>> /\ nodeIndex' = 0
    /\ pc' = "find"
    /\ UNCHANGED <<txs, txToVerify, cursor, hashPath>>

\* A round of findNodeByData: the last node that matches counts.
Visit ==
    /\ pc = "find" /\ nodeBuffer # <<>>
    /\ LET node == Head(nodeBuffer)
       IN  /\ nodes' = Append(nodes, node)
           /\ nodeIndex' = IF node = Leaf(txToVerify) THEN Len(nodes)
                                                      ELSE nodeIndex
           /\ nodeBuffer' = Tail(nodeBuffer) \o
                              (IF IsLeaf(node) THEN <<>> ELSE node)
    /\ UNCHANGED <<txs, txToVerify, pc, cursor, hashPath>>

\* Mutant: position 0, which also says "not found", is taken for a match.
Found_Zero == nodeIndex >= 0

\* GetVerificationPath looks at the position that findNodeByData returned.
Found == nodeIndex > 0

At(k) == nodes[k + 1]      \* positions in nodes begin with 0

StartPath ==
    /\ pc = "find" /\ nodeBuffer = <<>>
    /\ pc' = IF Found THEN "climb" ELSE "done"
    /\ cursor' = nodeIndex
    /\ UNCHANGED <<txs, txToVerify, nodes, nodeBuffer, nodeIndex, hashPath>>

\* Mutant: the parent in a tree whose root is at position 1.
Parent_FromOne(k) == k \div 2

Parent(k) == (k - 1) \div 2

\* The node beside the one at a position: the left one has an odd position.
Sibling(k) == IF k % 2 # 0 THEN k + 1 ELSE k - 1

With(f, k, value) ==
    [i \in DOMAIN f \cup {k} |-> IF i = k THEN value ELSE f[i]]

\* A round of GetVerificationPath.
Climb ==
    /\ pc = "climb" /\ cursor > 0
    /\ hashPath' = With(hashPath, Sibling(cursor), At(Sibling(cursor)))
    /\ cursor' = Parent(cursor)
    /\ UNCHANGED <<txs, txToVerify, pc, nodes, nodeBuffer, nodeIndex>>

\* The root is added, and the path returned.
FinishPath ==
    /\ pc = "climb" /\ cursor = 0
    /\ hashPath' = With(hashPath, cursor, At(cursor))
    /\ pc' = "done"
    /\ UNCHANGED <<txs, txToVerify, nodes, nodeBuffer, nodeIndex, cursor>>

Next == MakeLeaves \/ NextLevel \/ StartFind \/ Visit \/ StartPath \/ Climb
            \/ FinishPath

Spec == Init /\ [][Next]_vars

-----------------------------------------------------------------------------
(* What the client does with a path.                                       *)

\* The deepest hash of the path belongs to the node beside the document.
DocumentPosition(path) ==
    Sibling(CHOOSE k \in DOMAIN path : \A i \in DOMAIN path : i <= k)

\* A client that misses a hash goes on with none.
Given(path, k) == IF k \in DOMAIN path THEN path[k] ELSE NoPath

\* A round of the client: from a position and its hash to the one above.
Above(path, at) ==
    LET k == at.position
    IN  [position |-> (k - 1) \div 2,
         hash |-> IF k % 2 # 0
                  THEN Keccak256(at.hash, Given(path, k + 1))
                  ELSE Keccak256(Given(path, k - 1), at.hash)]

\* Where the client is after a number of rounds, and the hash that it has
\* computed for that position.
ClientClimb(path, id) ==
    LET climb[i \in Nat] ==
            IF i = 0 THEN [position |-> DocumentPosition(path),
                           hash |-> Leaf(id)]
            ELSE Above(path, climb[i - 1])
    IN  climb

-----------------------------------------------------------------------------
(* Properties.                                                             *)

\* The level above, by its definition: without padding, the last node of an
\* odd level is beside itself.
Pairs(level) ==
    [j \in 1..((Len(level) + 1) \div 2) |->
        <<level[2 * j - 1],
          level[IF 2 * j > Len(level) THEN 2 * j - 1 ELSE 2 * j]>>]

Levels(ids) ==
    LET level[l \in Nat] ==
            IF l = 0 THEN [i \in 1..Cardinality(ids) |-> Leaf(Sorted(ids)[i])]
            ELSE Pairs(level[l - 1])
    IN  level

\* The one node of the first level, above the leaves, that has one only.
RootOf(ids) ==
    LET level == Levels(ids)
        depth == CHOOSE l \in 1..Cardinality(ids) :
                    /\ Len(level[l]) = 1
                    /\ \A m \in 1..(l - 1) : Len(level[m]) > 1
    IN  level[depth][1]

Done == pc = "done"

\* The root depends on the set of transactions only, not on the order in
\* which the batch or the cursor of the database gives them ("sort the slice
\* to make sure creating the unique merkle tree").
RootIsUnique == Done => At(0) = RootOf(ToSet(txs))

\* The path of a transaction of the block leads a client that starts with
\* its identifier to the root, also below levels that were padded, where
\* the same node is met at several positions of the walk.
PathLeadsToRoot ==
    Done /\ txToVerify \in ToSet(txs) =>
        /\ hashPath # NoPath /\ 0 \in DOMAIN hashPath
        /\ hashPath[0] = RootOf(ToSet(txs))
        /\ ClientClimb(hashPath, txToVerify)[Cardinality(DOMAIN hashPath) - 1]
             = [position |-> 0, hash |-> hashPath[0]]

\* There is no path for a transaction that the block does not hold.
AbsentHasNoPath == Done /\ txToVerify \notin ToSet(txs) => hashPath = NoPath
=============================================================================
