----------------------------- MODULE MerkleCheck -----------------------------
(***************************************************************************)
(* The Merkle operators against independent definitions, on every log that *)
(* can be grown from Entries up to MaxLen.                                 *)
(***************************************************************************)
EXTENDS Merkle

CONSTANT MaxLen     \* bound: length of the logs

VARIABLE log

Init == log = << >>

Measure(e) == Len(log) < MaxLen /\ log' = Append(log, e)

Next == \E e \in Entries : Measure(e)

Spec == Init /\ [][Next]_log

-----------------------------------------------------------------------------
(***************************************************************************)
(* The tree by position instead of by rounds: at height h, node i covers   *)
(* the leaves from i * 2^h on, if there are any, and a missing right child *)
(* is the left one.                                                        *)
(***************************************************************************)
Nodes(n, h) == { i \in 0..n - 1 : i * 2^h < n }

NodesOf(entries) ==
    LET n == Len(entries)
        node[h \in Nat] ==
            IF h = 0
            THEN [i \in Nodes(n, 0) |-> LeafHash(entries[i + 1], i)]
            ELSE [i \in Nodes(n, h) |->
                     Pair(node[h - 1][2*i],
                          node[h - 1][IF 2*i + 1 \in Nodes(n, h - 1)
                                      THEN 2*i + 1 ELSE 2*i])]
    IN  node

Least(S) == CHOOSE x \in S : \A y \in S : x <= y

Height(n) == Least({ h \in 0..n : 2^h >= n })

(* _reduce_to_root builds the balanced tree over all leaves, as high as the *)
(* logarithm of their number: no leaf is lost in an odd layer.              *)
TreeIsBalanced ==
    log # << >> => /\ BuildTree(log).depth = Height(Len(log))
                   /\ BuildTree(log).root = NodesOf(log)[Height(Len(log))][0]

(* A cache filled in any two stages gives the tree of a full rebuild, leaf  *)
(* for leaf: the base index of the second stage continues the first.        *)
IncrementalIsFull ==
    \A j, k \in 0..Len(log) : j <= k =>
        LET first  == BuildIncrementalTree(<< >>, SubSeq(log, 1, j), 0)
            second == BuildIncrementalTree(first.leaves,
                                           SubSeq(log, j + 1, k), j)
        IN  BuildIncrementalTree(second.leaves, SubSeq(log, k + 1, Len(log)), k)
                = BuildTree(log)

\* The digest an inclusion proof leads to, from the leaf at index: it is on
\* the side that its position in the round tells.
Climb(leaf, index, proof) ==
    LET digest[k \in 0..Len(proof)] ==
            IF k = 0 THEN leaf
            ELSE IF Path(index)[k - 1] % 2 = 0
                 THEN Pair(digest[k - 1], proof[k])
                 ELSE Pair(proof[k], digest[k - 1])
    IN  digest[Len(proof)]

(* get_ima_proof proves: hashing the leaf with the siblings, on the side    *)
(* the position tells, gives the root the server pins, in depth steps.      *)
ProofLeadsToRoot ==
    \A i \in 0..Len(log) - 1 :
        LET p == GetProof(log, i)
        IN  /\ p.leaf = LeafHash(log[i + 1], i)
            /\ Climb(p.leaf, i, p.proof) = BuildTree(log).root
            /\ p.root = BuildTree(log).root
            /\ Len(p.proof) = BuildTree(log).depth

AllLogs == UNION { [1..n -> Entries] : n \in 0..MaxLen }

(* "appending-duplicate-entries attacks impossible" (ima_reader.py:206):    *)
(* no other log has the same root, though odd layers repeat a node.         *)
RootDeterminesLog ==
    \A other \in AllLogs :
        BuildTree(other).root = BuildTree(log).root => other = log

=============================================================================
