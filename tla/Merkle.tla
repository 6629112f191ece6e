------------------------------- MODULE Merkle -------------------------------
(***************************************************************************)
(* The Merkle tree of agent/ima_reader.py over the leaves of ImaLog.  The  *)
(* loops that reduce a layer are functions of the number of rounds done.   *)
(***************************************************************************)
EXTENDS ImaLog

EmptyHash == <<"empty">>

Pair(a, b) == <<"node", a, b>>

(***************************************************************************)
(* One round of _reduce_to_root and of get_ima_proof.                      *)
(***************************************************************************)
\* A round that drops the last node of an odd layer:
DropLast(layer) ==
    IF Len(layer) % 2 = 1 THEN SubSeq(layer, 1, Len(layer) - 1) ELSE layer

\* An odd layer duplicates its last node.
Padded(layer) ==
    IF Len(layer) % 2 = 1 THEN Append(layer, layer[Len(layer)]) ELSE layer

Paired(layer) ==
    [i \in 1..Len(layer) \div 2 |-> Pair(layer[2*i - 1], layer[2*i])]

Round(layer) == Paired(Padded(layer))

\* The layers over leaves, from layer 0, the leaves, on.
Layers(leaves) ==
    LET layer[k \in Nat] == IF k = 0 THEN leaves ELSE Round(layer[k - 1])
    IN  layer

\* while len(current) > 1: the rounds until one node is left.
Depth(leaves) ==
    CHOOSE k \in 0..Len(leaves) :
        /\ Len(Layers(leaves)[k]) <= 1
        /\ \A j \in 0..k - 1 : Len(Layers(leaves)[j]) > 1

TreeOf(leaves) ==
    IF leaves = << >>
    THEN [root |-> EmptyHash, depth |-> 0, leaves |-> << >>]
    ELSE [root   |-> Layers(leaves)[Depth(leaves)][1],
          depth  |-> Depth(leaves),
          leaves |-> leaves]

\* build_ima_merkle_tree
BuildTree(entries) == TreeOf(LeafHashes(entries, 0))

\* An incremental build that numbers the new entries from 0:
IncrementalFromZero(cachedLeaves, newEntries, base) ==
    TreeOf(cachedLeaves \o LeafHashes(newEntries, 0))

\* build_incremental_merkle_tree; the new cache is the leaves of the tree.
BuildIncrementalTree(cachedLeaves, newEntries, base) ==
    TreeOf(cachedLeaves \o LeafHashes(newEntries, base))

\* current_index of get_ima_proof after k rounds.
Path(index) ==
    LET at[k \in Nat] == IF k = 0 THEN index ELSE at[k - 1] \div 2
    IN  at

\* A sibling that is always the left neighbour:
LeftNeighbour(index) == IF index = 0 THEN 1 ELSE index - 1

Sibling(index) == IF index % 2 = 0 THEN index + 1 ELSE index - 1

\* get_ima_proof for a position of a log that is not empty.
GetProof(entries, index) ==
    LET leaves  == LeafHashes(entries, 0)
        sibling == [k \in 0..Depth(leaves) - 1 |->
                       Padded(Layers(leaves)[k])[Sibling(Path(index)[k]) + 1]]
    IN  [leaf  |-> leaves[index + 1],
         proof |-> [k \in 1..Depth(leaves) |-> sibling[k - 1]],
         root  |-> Layers(leaves)[Depth(leaves)][1]]

=============================================================================
