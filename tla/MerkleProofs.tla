---------------------------- MODULE MerkleProofs ----------------------------
(***************************************************************************)
(* The Merkle tree for logs of any length: what MerkleCheck states of the  *)
(* short ones, by induction over the rounds of a reduction.                *)
(***************************************************************************)
EXTENDS MerkleCheck, SequenceTheorems, FiniteSetTheorems, TLAPS

RoundStep(k, layer) == Round(layer)

HalfStep(k, index) == index \div 2

Rounds == INSTANCE NatRecursion WITH Step <- RoundStep
Halves == INSTANCE NatRecursion WITH Step <- HalfStep

-----------------------------------------------------------------------------
(***************************************************************************)
(* Powers of two.                                                          *)
(***************************************************************************)
(* The subsets of 1..k + 1 are those of 1..k, with k + 1 and without.       *)
LEMMA PowerOfTwo ==
    \A k \in Nat : 2^k \in Nat /\ 2^k > 0 /\ 2^(k + 1) = 2 * 2^k
<1> SUFFICES ASSUME NEW k \in Nat
             PROVE  2^k \in Nat /\ 2^k > 0 /\ 2^(k + 1) = 2 * 2^k
  OBVIOUS
<1> DEFINE A == SUBSET (1..k)
           B == { s \cup {k + 1} : s \in A }
           f == [s \in A |-> s \cup {k + 1}]
<1>1. /\ IsFiniteSet(1..k) /\ Cardinality(1..k) = k
      /\ IsFiniteSet(1..k + 1) /\ Cardinality(1..k + 1) = k + 1
  BY FS_Interval
<1>2. IsFiniteSet(A) /\ Cardinality(A) = 2^k
  BY <1>1, FS_SUBSET
<1>3. Cardinality(SUBSET (1..k + 1)) = 2^(k + 1)
  BY <1>1, FS_SUBSET
<1>4. SUBSET (1..k + 1) = A \cup B
  <2>1. ASSUME NEW s \in SUBSET (1..k + 1), s \notin A PROVE s \in B
    <3>1. s = (s \ {k + 1}) \cup {k + 1} /\ s \ {k + 1} \in A
      BY <2>1
    <3> QED
      BY <3>1
  <2>2. ASSUME NEW s \in A \cup B PROVE s \in SUBSET (1..k + 1)
    OBVIOUS
  <2> QED
    BY <2>1, <2>2
<1>5. A \cap B = {}
  OBVIOUS
<1>6. f \in Bijection(A, B)
  <2>1. f \in [A -> B]
    OBVIOUS
  <2>2. ASSUME NEW s \in A, NEW t \in A, f[s] = f[t] PROVE s = t
    BY <2>2
  <2>3. \A t \in B : \E s \in A : f[s] = t
    OBVIOUS
  <2> HIDE DEF A, B, f
  <2> QED
    BY <2>1, <2>2, <2>3 DEF Bijection, Injection, IsInjective, Surjection
<1>7. IsFiniteSet(B) /\ Cardinality(B) = Cardinality(A)
  BY <1>2, <1>6, FS_Bijection DEF ExistsBijection
<1>8. Cardinality(A \cup B) = Cardinality(A) + Cardinality(B)
                              - Cardinality(A \cap B)
  BY <1>2, <1>7, FS_Union
<1>9. Cardinality(A) \in Nat /\ Cardinality({}) = 0
  BY <1>2, FS_CardinalityType, FS_EmptySet
<1>10. Cardinality(A) # 0
  <2>1. {} \in A
    OBVIOUS
  <2> QED
    BY <1>2, <2>1, FS_EmptySet
<1> HIDE DEF A, B
<1>11. 2^(k + 1) = Cardinality(A) + Cardinality(A) - 0
  BY <1>3, <1>4, <1>5, <1>7, <1>8, <1>9
<1> QED
  BY <1>2, <1>9, <1>10, <1>11

LEMMA PowerOfZero == 2^0 = 1
<1>1. IsFiniteSet({}) /\ Cardinality({}) = 0 /\ SUBSET {} = {{}}
  BY FS_EmptySet
<1>2. Cardinality(SUBSET {}) = 2^0
  BY <1>1, FS_SUBSET
<1> QED
  BY <1>1, <1>2, FS_Singleton

(* A power of two is beyond its exponent: there is a round for every log    *)
(* after which one node is left.                                            *)
LEMMA PowerExceeds == \A n \in Nat : 2^n > n
<1> DEFINE S == { n \in Nat : 2^n > n }
<1>1. 0 \in S
  BY PowerOfZero
<1>2. ASSUME NEW n \in Nat, n \in S PROVE n + 1 \in S
  BY <1>2, PowerOfTwo
<1>3. \A n \in Nat : n \in S
  <2> HIDE DEF S
  <2> QED
    BY <1>1, <1>2, Rounds!SetInduction
<1> QED
  BY <1>3

-----------------------------------------------------------------------------
(***************************************************************************)
(* One round.                                                              *)
(***************************************************************************)
\* Nodes in a row, at least one.
IsLayer(s) == (\E V : s \in Seq(V)) /\ Len(s) \in Nat \ {0}

LEMMA LayerIsFunction ==
    ASSUME NEW s, IsLayer(s)
    PROVE  s = [i \in 1..Len(s) |-> s[i]]
BY LenProperties DEF IsLayer

LEMMA FunctionIsLayer ==
    ASSUME NEW n \in Nat \ {0}, NEW s, s = [i \in 1..n |-> s[i]]
    PROVE  IsLayer(s) /\ Len(s) = n
<1> DEFINE V == { s[i] : i \in 1..n }
<1>1. s \in [1..n -> V]
  OBVIOUS
<1>2. s \in Seq(V)
  <2> HIDE DEF V
  <2> QED
    BY <1>1, SeqDef
<1>3. Len(s) = n
  <2> HIDE DEF V
  <2> QED
    BY <1>1, <1>2, LenProperties
<1> QED
  BY <1>2, <1>3 DEF IsLayer

LEMMA PaddedAt ==
    ASSUME NEW s, IsLayer(s)
    PROVE  /\ IsLayer(Padded(s))
           /\ Len(Padded(s)) = 2 * ((Len(s) + 1) \div 2)
           /\ \A i \in 1..Len(Padded(s)) :
                 Padded(s)[i] = s[IF i <= Len(s) THEN i ELSE Len(s)]
<1>1. PICK V : s \in Seq(V)
  BY DEF IsLayer
<1>2. Len(s) \in Nat \ {0}
  BY DEF IsLayer
<1>3. CASE Len(s) % 2 = 1
  <2>1. Padded(s) = Append(s, s[Len(s)]) /\ s[Len(s)] \in V
    BY <1>1, <1>2, <1>3, ElementOfSeq DEF Padded
  <2>2. /\ Padded(s) \in Seq(V) /\ Len(Padded(s)) = Len(s) + 1
        /\ \A i \in 1..Len(s) : Padded(s)[i] = s[i]
        /\ Padded(s)[Len(s) + 1] = s[Len(s)]
    BY <1>1, <1>2, <2>1, AppendProperties
  <2> QED
    BY <1>2, <1>3, <2>2 DEF IsLayer
<1>4. CASE Len(s) % 2 # 1
  BY <1>2, <1>4 DEF Padded
<1> QED
  BY <1>3, <1>4

(* A round halves a layer, upwards; node i has the children 2i - 1 and 2i,  *)
(* or 2i - 1 twice.                                                         *)
LEMMA RoundAt ==
    ASSUME NEW s, IsLayer(s)
    PROVE  /\ IsLayer(Round(s))
           /\ Len(Round(s)) = (Len(s) + 1) \div 2
           /\ \A i \in 1..Len(Round(s)) :
                 /\ 2*i - 1 \in 1..Len(s)
                 /\ Round(s)[i] =
                       Pair(s[2*i - 1],
                            s[IF 2*i <= Len(s) THEN 2*i ELSE 2*i - 1])
<1> DEFINE n == Len(Padded(s)) \div 2
<1>1. Len(s) \in Nat \ {0}
  BY DEF IsLayer
<1>2. /\ n = (Len(s) + 1) \div 2 /\ n \in Nat \ {0}
      /\ Len(Padded(s)) = 2 * n /\ 2 * n \in Len(s)..Len(s) + 1
  BY <1>1, PaddedAt
<1>3. Round(s) = [i \in 1..n |-> Pair(Padded(s)[2*i - 1], Padded(s)[2*i])]
  BY DEF Round, Paired
<1>4. IsLayer(Round(s)) /\ Len(Round(s)) = n
  <2>1. Round(s) = [i \in 1..n |-> Round(s)[i]]
    BY <1>3
  <2> HIDE DEF n
  <2> QED
    BY <1>2, <2>1, FunctionIsLayer
<1>5. ASSUME NEW i \in 1..n
      PROVE  /\ 2*i - 1 \in 1..Len(s)
             /\ Round(s)[i] =
                   Pair(s[2*i - 1],
                        s[IF 2*i <= Len(s) THEN 2*i ELSE 2*i - 1])
  <2>1. /\ 2*i - 1 \in 1..Len(s)
        /\ 2*i - 1 \in 1..Len(Padded(s)) /\ 2*i \in 1..Len(Padded(s))
        /\ 2*i > Len(s) => Len(s) = 2*i - 1
    <3> HIDE DEF n
    <3> QED
      BY <1>1, <1>2
  <2>2. /\ Padded(s)[2*i - 1] = s[2*i - 1]
        /\ Padded(s)[2*i] = s[IF 2*i <= Len(s) THEN 2*i ELSE 2*i - 1]
    BY <1>1, <2>1, PaddedAt
  <2> QED
    BY <1>3, <2>1, <2>2
<1> QED
  BY <1>2, <1>4, <1>5

-----------------------------------------------------------------------------
(***************************************************************************)
(* The layers over some leaves.                                            *)
(***************************************************************************)
LEMMA LayersStep ==
    ASSUME NEW leaves
    PROVE  /\ Layers(leaves)[0] = leaves
           /\ \A k \in Nat : Layers(leaves)[k + 1] = Round(Layers(leaves)[k])
<1>1. Layers(leaves) =
          [k \in Nat |-> IF k = 0 THEN leaves
                         ELSE Round(Layers(leaves)[k - 1])]
  BY Rounds!Recursion DEF Layers, RoundStep
<1> DEFINE f == Layers(leaves)
<1>2. f = [k \in Nat |-> IF k = 0 THEN leaves ELSE Round(f[k - 1])]
  BY <1>1
<1> HIDE DEF f
<1>3. f[0] = leaves
  BY <1>2
<1>4. ASSUME NEW k \in Nat PROVE f[k + 1] = Round(f[k])
  <2>1. f[k + 1] = Round(f[(k + 1) - 1])
    BY <1>2
  <2>2. (k + 1) - 1 = k
    OBVIOUS
  <2> QED
    BY <2>1, <2>2
<1> QED
  BY <1>3, <1>4 DEF f

LEMMA LayersAreLayers ==
    ASSUME NEW leaves, IsLayer(leaves)
    PROVE  \A k \in Nat : IsLayer(Layers(leaves)[k])
<1> DEFINE S == { k \in Nat : IsLayer(Layers(leaves)[k]) }
<1>1. 0 \in S
  BY LayersStep
<1>2. ASSUME NEW k \in Nat, k \in S PROVE k + 1 \in S
  BY <1>2, LayersStep, RoundAt
<1>3. \A k \in Nat : k \in S
  <2> HIDE DEF S
  <2> QED
    BY <1>1, <1>2, Rounds!SetInduction
<1> QED
  BY <1>3

(* Layer k has a node i, counted from 0, where a leaf is at i * 2^k.        *)
LEMMA LayersWidth ==
    ASSUME NEW leaves, IsLayer(leaves)
    PROVE  \A k, i \in Nat :
               i < Len(Layers(leaves)[k]) <=> i * 2^k < Len(leaves)
<1> DEFINE Width(k) == Len(Layers(leaves)[k])
           S == { k \in Nat : \A i \in Nat :
                                 i < Width(k) <=> i * 2^k < Len(leaves) }
<1>0. \A k \in Nat : Width(k) \in Nat
  BY LayersAreLayers DEF IsLayer
<1>1. 0 \in S
  <2>1. Width(0) = Len(leaves)
    BY LayersStep
  <2>2. \A i \in Nat : i * 2^0 = i
    BY PowerOfZero
  <2> HIDE DEF Width
  <2> QED
    BY <2>1, <2>2
<1>2. ASSUME NEW k \in Nat, k \in S PROVE k + 1 \in S
  <2>1. Width(k + 1) = (Width(k) + 1) \div 2
    BY LayersStep, LayersAreLayers, RoundAt
  <2>2. ASSUME NEW i \in Nat
        PROVE  i < Width(k + 1) <=> i * 2^(k + 1) < Len(leaves)
    <3>1. i < Width(k + 1) <=> 2 * i < Width(k)
      <4> HIDE DEF Width
      <4> QED
        BY <1>0, <2>1
    <3>2. 2 * i < Width(k) <=> (2 * i) * 2^k < Len(leaves)
      <4>1. 2 * i \in Nat
        OBVIOUS
      <4> HIDE DEF Width
      <4> QED
        BY <1>2, <4>1
    <3>3. (2 * i) * 2^k = i * 2^(k + 1)
      <4>1. 2^k \in Nat /\ 2^(k + 1) = 2 * 2^k
        BY PowerOfTwo
      <4>2. \A p \in Nat : (2 * i) * p = i * (2 * p)
        OBVIOUS
      <4> QED
        BY <4>1, <4>2
    <3> QED
      BY <3>1, <3>2, <3>3
  <2> HIDE DEF Width
  <2> QED
    BY <2>2
<1>3. \A k \in Nat : k \in S
  <2> HIDE DEF S
  <2> QED
    BY <1>1, <1>2, Rounds!SetInduction
<1> QED
  BY <1>3

(* The loop of _reduce_to_root ends, at a single node.                      *)
LEMMA DepthIs ==
    ASSUME NEW leaves, IsLayer(leaves)
    PROVE  /\ Depth(leaves) \in 0..Len(leaves)
           /\ Len(Layers(leaves)[Depth(leaves)]) = 1
           /\ \A j \in 0..Depth(leaves) - 1 : Len(Layers(leaves)[j]) > 1
<1> DEFINE n == Len(leaves)
           Width(k) == Len(Layers(leaves)[k])
           S == { k \in Nat : Width(k) <= 1 }
<1>1. n \in Nat \ {0} /\ \A k \in Nat : Width(k) \in Nat \ {0}
  BY LayersAreLayers DEF IsLayer
<1>2. n \in S
  <2>1. ~ (1 * 2^n < n)
    BY <1>1, PowerOfTwo, PowerExceeds
  <2>2. ~ (1 < Width(n))
    BY <1>1, <2>1, LayersWidth
  <2> HIDE DEF Width, n
  <2> QED
    BY <1>1, <2>2
<1>3. PICK m \in S : \A k \in S : m <= k
  <2>1. S \in SUBSET Nat /\ S # {}
    BY <1>2
  <2> HIDE DEF S
  <2> QED
    BY <2>1, Rounds!LeastNatural
<1> HIDE DEF Width, n
<1>4. m \in 0..n /\ Width(m) <= 1 /\ \A j \in 0..m - 1 : Width(j) > 1
  BY <1>1, <1>2, <1>3
<1>5. Depth(leaves) = CHOOSE k \in 0..n :
                          Width(k) <= 1 /\ \A j \in 0..k - 1 : Width(j) > 1
  BY DEF Depth, Width, n
<1>6. /\ Depth(leaves) \in 0..n
      /\ Width(Depth(leaves)) <= 1
      /\ \A j \in 0..Depth(leaves) - 1 : Width(j) > 1
  BY <1>4, <1>5
<1>7. Width(Depth(leaves)) = 1
  BY <1>1, <1>6
<1> QED
  BY <1>6, <1>7 DEF Width, n

LEMMA DepthIsHeight ==
    ASSUME NEW leaves, IsLayer(leaves)
    PROVE  Depth(leaves) = Height(Len(leaves))
<1> DEFINE n == Len(leaves)
           d == Depth(leaves)
           S == { h \in 0..n : 2^h >= n }
<1>1. n \in Nat \ {0}
  BY DEF IsLayer
<1>2. d \in 0..n /\ Len(Layers(leaves)[d]) = 1
      /\ \A j \in 0..d - 1 : Len(Layers(leaves)[j]) > 1
  BY DepthIs
<1>3. \A h \in Nat : 2^h < n <=> 1 < Len(Layers(leaves)[h])
  <2>1. \A h \in Nat : 1 * 2^h = 2^h
    BY PowerOfTwo
  <2> HIDE DEF n
  <2> QED
    BY <2>1, LayersWidth DEF n
<1>4. \A h \in Nat : 2^h \in Nat /\ Len(Layers(leaves)[h]) \in Nat
  BY PowerOfTwo, LayersAreLayers DEF IsLayer
<1> HIDE DEF n, d
<1>5. d \in S /\ \A h \in S : d <= h
  <2>1. d \in S
    <3>1. d \in Nat
      BY <1>1, <1>2
    <3>2. 2^d \in Nat /\ (2^d < n <=> 1 < Len(Layers(leaves)[d]))
      BY <1>3, <1>4, <3>1
    <3>3. ~ (2^d < n)
      BY <1>2, <3>2
    <3> QED
      BY <1>1, <1>2, <3>2, <3>3
  <2>2. ASSUME NEW h \in S, h < d PROVE FALSE
    <3>1. h \in Nat /\ h \in 0..d - 1 /\ 2^h >= n /\ 2^h \in Nat
      BY <1>1, <1>2, <1>4, <2>2
    <3>2. 2^h < n
      BY <1>2, <1>3, <3>1
    <3> QED
      BY <1>1, <3>1, <3>2
  <2>3. d \in Nat /\ S \subseteq Nat
    BY <1>1, <1>2
  <2> HIDE DEF S
  <2> QED
    BY <2>1, <2>2, <2>3
<1>6. \A m \in S : (\A h \in S : m <= h) => m = d
  <2>1. S \subseteq Nat
    BY <1>1
  <2> HIDE DEF S
  <2> QED
    BY <1>5, <2>1
<1>7. Least(S) = d
  <2> HIDE DEF S
  <2> QED
    BY <1>5, <1>6 DEF Least
<1> QED
  BY <1>7 DEF Height, n, d

-----------------------------------------------------------------------------
(***************************************************************************)
(* The leaves of a log.                                                    *)
(***************************************************************************)
Leaves == { LeafHash(e, i) : e \in Entries, i \in Nat }

LEMMA LeavesAre ==
    ASSUME NEW entries \in Seq(Entries), NEW base \in Nat
    PROVE  /\ Len(entries) \in Nat
           /\ LeafHashes(entries, base) \in Seq(Leaves)
           /\ Len(LeafHashes(entries, base)) = Len(entries)
           /\ \A i \in 1..Len(entries) :
                 /\ entries[i] \in Entries
                 /\ LeafHashes(entries, base)[i] =
                        LeafHash(entries[i], base + i - 1)
<1> DEFINE s == LeafHashes(entries, base)
           n == Len(entries)
<1>1. n \in Nat /\ DOMAIN entries = 1..n /\ \A i \in 1..n : entries[i] \in Entries
  BY LenProperties, ElementOfSeq
<1>2. s = [i \in 1..n |-> LeafHash(entries[i], base + i - 1)]
  BY <1>1 DEF LeafHashes
<1>3. \A i \in 1..n : LeafHash(entries[i], base + i - 1) \in Leaves
  <2>1. \A i \in 1..n : base + i - 1 \in Nat
    BY <1>1
  <2> HIDE DEF n
  <2> QED
    BY <1>1, <2>1 DEF Leaves
<1>4. s \in [1..n -> Leaves]
  BY <1>2, <1>3
<1> HIDE DEF s, n
<1>5. s \in Seq(Leaves)
  BY <1>1, <1>4, SeqDef
<1>6. Len(s) = n
  BY <1>1, <1>4, <1>5, LenProperties
<1> QED
  BY <1>1, <1>2, <1>5, <1>6 DEF s, n

LEMMA LeavesAreLayer ==
    ASSUME NEW entries \in Seq(Entries), entries # << >>
    PROVE  /\ IsLayer(LeafHashes(entries, 0))
           /\ LeafHashes(entries, 0) # << >>
           /\ Len(LeafHashes(entries, 0)) = Len(entries)
<1> DEFINE s == LeafHashes(entries, 0)
<1>1. Len(entries) \in Nat \ {0}
  BY EmptySeq, LeavesAre
<1>2. (\E V : s \in Seq(V)) /\ Len(s) = Len(entries)
  BY LeavesAre
<1>3. s # << >>
  <2> HIDE DEF s
  <2> QED
    BY <1>1, <1>2, EmptySeq
<1> QED
  BY <1>1, <1>2, <1>3 DEF IsLayer

-----------------------------------------------------------------------------
(***************************************************************************)
(* The tree by position has the layers as its rows.                        *)
(***************************************************************************)
(* The nodes at height k are the positions of layer k.                      *)
LEMMA NodesAre ==
    ASSUME NEW leaves, IsLayer(leaves), NEW k \in Nat, NEW i
    PROVE  i \in Nodes(Len(leaves), k)
               <=> i \in Nat /\ i < Len(Layers(leaves)[k])
<1> DEFINE n == Len(leaves)
<1>1. n \in Nat \ {0} /\ 2^k \in Nat /\ 2^k > 0
  BY PowerOfTwo DEF IsLayer
<1>2. ASSUME i \in Nat, i * 2^k < n PROVE i < n
  <2>1. \A p \in Nat : p > 0 => i * p >= i
    <3>1. SUFFICES ASSUME NEW p \in Nat, p > 0 PROVE i * p >= i
      OBVIOUS
    <3>2. i * p = i + i * (p - 1) /\ i * (p - 1) >= 0
      BY <1>2, <3>1
    <3> QED
      BY <1>2, <3>1, <3>2
  <2>2. i * 2^k >= i /\ i * 2^k \in Nat
    BY <1>1, <1>2, <2>1
  <2> HIDE DEF n
  <2> QED
    BY <1>1, <1>2, <2>2
<1>3. i \in Nat => (i < Len(Layers(leaves)[k]) <=> i * 2^k < n)
  BY LayersWidth
<1> HIDE DEF n
<1>4. i \in Nodes(n, k) <=> i \in Nat /\ i * 2^k < n
  BY <1>1, <1>2 DEF Nodes
<1> QED
  BY <1>3, <1>4 DEF n

LEMMA NodesOfIsLayers ==
    ASSUME NEW entries \in Seq(Entries), entries # << >>
    PROVE  \A k \in Nat : \A i \in Nodes(Len(entries), k) :
               NodesOf(entries)[k][i] =
                   Layers(LeafHashes(entries, 0))[k][i + 1]
<1> DEFINE n == Len(entries)
           leaves == LeafHashes(entries, 0)
           L == Layers(leaves)
           Row(node, h) ==
               IF h = 0
               THEN [i \in Nodes(n, 0) |-> LeafHash(entries[i + 1], i)]
               ELSE [i \in Nodes(n, h) |->
                        Pair(node[h - 1][2*i],
                             node[h - 1][IF 2*i + 1 \in Nodes(n, h - 1)
                                         THEN 2*i + 1 ELSE 2*i])]
           W == [k \in Nat |-> [i \in Nodes(n, k) |-> L[k][i + 1]]]
           N == NodesOf(entries)
<1>1. IsLayer(leaves) /\ Len(leaves) = n
  BY LeavesAreLayer
<1>2. /\ L[0] = leaves
      /\ \A k \in Nat : L[k + 1] = Round(L[k]) /\ IsLayer(L[k])
  BY <1>1, LayersStep, LayersAreLayers
<1>3. \A k \in Nat : \A i : i \in Nodes(n, k) <=> i \in Nat /\ i < Len(L[k])
  BY <1>1, NodesAre
<1>4. n \in Nat \ {0} /\ \A i \in 1..n : leaves[i] = LeafHash(entries[i], i - 1)
  <2>1. n \in Nat /\ \A i \in 1..n : 0 + i - 1 = i - 1
    BY LeavesAre
  <2>2. \A i \in 1..n : leaves[i] = LeafHash(entries[i], 0 + i - 1)
    BY LeavesAre
  <2> HIDE DEF n
  <2> QED
    BY <1>1, <2>1, <2>2 DEF IsLayer
<1> HIDE DEF L, n, leaves
<1>5. \A i \in Nodes(n, 0) : L[0][i + 1] = LeafHash(entries[i + 1], i)
  <2>1. SUFFICES ASSUME NEW i \in Nodes(n, 0)
                 PROVE  L[0][i + 1] = LeafHash(entries[i + 1], i)
    OBVIOUS
  <2>2. i + 1 \in 1..n /\ (i + 1) - 1 = i
    <3>1. i \in Nat /\ i < Len(L[0])
      BY <1>3
    <3>2. Len(L[0]) = n
      BY <1>1, <1>2
    <3> QED
      BY <1>4, <3>1, <3>2
  <2> QED
    BY <1>2, <1>4, <2>2
<1>6. ASSUME NEW k \in Nat, NEW i \in Nodes(n, k + 1)
      PROVE  /\ 2*i \in Nodes(n, k)
             /\ L[k + 1][i + 1] =
                    Pair(L[k][2*i + 1],
                         L[k][(IF 2*i + 1 \in Nodes(n, k)
                               THEN 2*i + 1 ELSE 2*i) + 1])
  <2>1. i \in Nat /\ i + 1 \in 1..Len(Round(L[k])) /\ Len(L[k]) \in Nat
    <3>1. k + 1 \in Nat /\ i \in Nat /\ i < Len(L[k + 1])
      BY <1>3
    <3>2. L[k + 1] = Round(L[k]) /\ IsLayer(L[k]) /\ IsLayer(L[k + 1])
      BY <1>2, <3>1
    <3> QED
      BY <3>1, <3>2 DEF IsLayer
  <2>2. /\ 2*(i + 1) - 1 \in 1..Len(L[k])
        /\ Round(L[k])[i + 1] =
               Pair(L[k][2*(i + 1) - 1],
                    L[k][IF 2*(i + 1) <= Len(L[k])
                         THEN 2*(i + 1) ELSE 2*(i + 1) - 1])
    BY <1>2, <2>1, RoundAt
  <2>3. /\ 2*(i + 1) - 1 = 2*i + 1 /\ 2*(i + 1) = 2*i + 2
        /\ (2*i + 1) + 1 = 2*i + 2
        /\ 2*i \in Nat /\ 2*i + 1 \in Nat
        /\ 2*i + 1 < Len(L[k]) <=> 2*i + 2 <= Len(L[k])
        /\ 2*i < Len(L[k])
    BY <2>1, <2>2
  <2>4. 2*i + 1 \in Nodes(n, k) <=> 2*i + 2 <= Len(L[k])
    BY <1>3, <2>3
  <2> QED
    BY <1>2, <1>3, <2>2, <2>3, <2>4
<1>7. W = [h \in Nat |-> Row(W, h)]
  <2>1. \A i \in Nodes(n, 0) : L[0][i + 1] = LeafHash(entries[i + 1], i)
    BY <1>5
  <2>2. W[0] = Row(W, 0)
    BY <2>1
  <2>3. ASSUME NEW k \in Nat PROVE W[k + 1] = Row(W, k + 1)
    <3> DEFINE right(i) == IF 2*i + 1 \in Nodes(n, k) THEN 2*i + 1 ELSE 2*i
    <3>1. \A i \in Nodes(n, k) : W[k][i] = L[k][i + 1]
      OBVIOUS
    <3>2. W[k + 1] = [i \in Nodes(n, k + 1) |-> L[k + 1][i + 1]]
      OBVIOUS
    <3>3. Row(W, k + 1) = [i \in Nodes(n, k + 1) |->
                              Pair(W[k][2*i], W[k][right(i)])]
      <4> HIDE DEF W
      <4> QED
        OBVIOUS
    <3>4. ASSUME NEW i \in Nodes(n, k + 1)
          PROVE  L[k + 1][i + 1] = Pair(W[k][2*i], W[k][right(i)])
      <4>1. 2*i \in Nodes(n, k) /\ right(i) \in Nodes(n, k)
        BY <1>6
      <4>2. L[k + 1][i + 1] = Pair(L[k][2*i + 1], L[k][right(i) + 1])
        BY <1>6
      <4> HIDE DEF W, right
      <4> QED
        BY <3>1, <4>1, <4>2
    <3> HIDE DEF W, Row
    <3> QED
      BY <3>2, <3>3, <3>4
  <2>4. ASSUME NEW h \in Nat PROVE W[h] = Row(W, h)
    <3>1. h = 0 \/ (h - 1 \in Nat /\ (h - 1) + 1 = h)
      OBVIOUS
    <3> HIDE DEF W, Row
    <3> QED
      BY <2>2, <2>3, <3>1
  <2>5. W = [h \in Nat |-> W[h]]
    OBVIOUS
  <2> HIDE DEF W, Row
  <2> QED
    BY <2>4, <2>5
<1>8. N = [h \in Nat |-> Row(N, h)]
  <2> HIDE DEF W
  <2>1. \E node : node = [h \in Nat |-> Row(node, h)]
    BY <1>7
  <2>2. N = CHOOSE node : node = [h \in Nat |-> Row(node, h)]
    BY DEF NodesOf, n
  <2> HIDE DEF N, Row
  <2> QED
    BY <2>1, <2>2
<1> DEFINE S == { k \in Nat : \A i \in Nodes(n, k) : N[k][i] = L[k][i + 1] }
<1> HIDE DEF N, W
<1>9. \A h \in Nat : N[h] = Row(N, h)
  <2> HIDE DEF Row
  <2> QED
    BY <1>8
<1>10. 0 \in S
  <2>1. N[0] = [i \in Nodes(n, 0) |-> LeafHash(entries[i + 1], i)]
    BY <1>9
  <2> QED
    BY <1>5, <2>1
<1>11. ASSUME NEW k \in Nat, k \in S PROVE k + 1 \in S
  <2> DEFINE right(i) == IF 2*i + 1 \in Nodes(n, k) THEN 2*i + 1 ELSE 2*i
  <2>1. N[k + 1] = [i \in Nodes(n, k + 1) |->
                       Pair(N[k][2*i], N[k][right(i)])]
    <3>1. N[k + 1] = Row(N, k + 1)
      <4> HIDE DEF Row
      <4> QED
        BY <1>9
    <3>2. Row(N, k + 1) = [i \in Nodes(n, k + 1) |->
                              Pair(N[k][2*i], N[k][right(i)])]
      OBVIOUS
    <3> HIDE DEF Row
    <3> QED
      BY <3>1, <3>2
  <2>2. ASSUME NEW i \in Nodes(n, k + 1)
        PROVE  N[k + 1][i] = L[k + 1][i + 1]
    <3>1. 2*i \in Nodes(n, k) /\ right(i) \in Nodes(n, k)
      BY <1>6
    <3>2. L[k + 1][i + 1] = Pair(L[k][2*i + 1], L[k][right(i) + 1])
      BY <1>6
    <3>3. \A j \in Nodes(n, k) : N[k][j] = L[k][j + 1]
      BY <1>11
    <3> HIDE DEF right
    <3> QED
      BY <2>1, <3>1, <3>2, <3>3
  <2> QED
    BY <2>2
<1>12. \A k \in Nat : k \in S
  <2> HIDE DEF S
  <2> QED
    BY <1>10, <1>11, Rounds!SetInduction
<1> QED
  BY <1>12 DEF L, n, leaves, N

LEMMA FirstIsLeaf ==
    ASSUME NEW entries \in Seq(Entries), entries # << >>
    PROVE  \E e, i : LeafHashes(entries, 0)[1] = LeafHash(e, i)
<1>1. 1 \in 1..Len(entries)
  BY LeavesAre, EmptySeq
<1>2. LeafHashes(entries, 0)[1] = LeafHash(entries[1], 0 + 1 - 1)
  BY <1>1, LeavesAre
<1> QED
  BY <1>2

LEMMA TreeOfLog ==
    ASSUME NEW entries \in Seq(Entries), entries # << >>
    PROVE  LET leaves == LeafHashes(entries, 0)
           IN  BuildTree(entries) =
                   [root   |-> Layers(leaves)[Depth(leaves)][1],
                    depth  |-> Depth(leaves),
                    leaves |-> leaves]
BY LeavesAreLayer DEF BuildTree, TreeOf

LEMMA Balanced ==
    ASSUME NEW entries \in Seq(Entries), entries # << >>
    PROVE  /\ BuildTree(entries).depth = Height(Len(entries))
           /\ BuildTree(entries).root =
                  NodesOf(entries)[Height(Len(entries))][0]
<1> DEFINE leaves == LeafHashes(entries, 0)
           d == Depth(leaves)
<1>1. IsLayer(leaves) /\ Len(leaves) = Len(entries)
  BY LeavesAreLayer
<1>2. d = Height(Len(entries)) /\ d \in Nat /\ Len(Layers(leaves)[d]) = 1
  <2>1. Len(leaves) \in Nat
    BY <1>1 DEF IsLayer
  <2> QED
    BY <1>1, <2>1, DepthIs, DepthIsHeight
<1>3. 0 \in Nodes(Len(entries), d)
  <2> HIDE DEF leaves, d
  <2>1. d \in Nat /\ 0 \in Nat /\ 0 < Len(Layers(leaves)[d])
    BY <1>2
  <2>2. 0 \in Nodes(Len(leaves), d)
    BY <1>1, <2>1, NodesAre
  <2> QED
    BY <1>1, <2>2
<1>4. NodesOf(entries)[d][0] = Layers(leaves)[d][0 + 1] /\ 0 + 1 = 1
  BY <1>2, <1>3, NodesOfIsLayers
<1>5. /\ BuildTree(entries).root = Layers(leaves)[d][1]
      /\ BuildTree(entries).depth = d
  BY TreeOfLog
<1> HIDE DEF d, leaves
<1> QED
  BY <1>2, <1>4, <1>5

-----------------------------------------------------------------------------
(***************************************************************************)
(* A root belongs to one log.  An odd layer and the layer with its last    *)
(* node repeated have the same parents, but the leaves carry their         *)
(* positions, so no layer over them repeats a node.                        *)
(***************************************************************************)
LEMMA PairInjective ==
    \A a, b, c, d : Pair(a, b) = Pair(c, d) => a = c /\ b = d
BY DEF Pair

LEMMA LeafInjective ==
    \A e, i, f, j : LeafHash(e, i) = LeafHash(f, j) => e = f /\ i = j
BY DEF LeafHash

LEMMA TagsDiffer ==
    /\ \A a, b, e, i : Pair(a, b) # LeafHash(e, i)
    /\ \A a, b : Pair(a, b) # EmptyHash
    /\ \A e, i : LeafHash(e, i) # EmptyHash
BY DEF Pair, LeafHash, EmptyHash

Distinct(s) == \A i, j \in 1..Len(s) : s[i] = s[j] => i = j

LEMMA LayersAreDistinct ==
    ASSUME NEW entries \in Seq(Entries), entries # << >>
    PROVE  \A k \in Nat : Distinct(Layers(LeafHashes(entries, 0))[k])
<1> DEFINE leaves == LeafHashes(entries, 0)
           L == Layers(leaves)
           S == { k \in Nat : Distinct(L[k]) }
<1>1. /\ L[0] = leaves
      /\ \A k \in Nat : L[k + 1] = Round(L[k]) /\ IsLayer(L[k])
  BY LeavesAreLayer, LayersStep, LayersAreLayers
<1>2. 0 \in S
  <2>1. SUFFICES ASSUME NEW i \in 1..Len(leaves), NEW j \in 1..Len(leaves),
                        leaves[i] = leaves[j]
                 PROVE  i = j
    BY <1>1 DEF Distinct
  <2>2. Len(leaves) = Len(entries) /\ Len(entries) \in Nat
    BY LeavesAre
  <2>3. /\ leaves[i] = LeafHash(entries[i], 0 + i - 1)
        /\ leaves[j] = LeafHash(entries[j], 0 + j - 1)
    BY <2>2, LeavesAre
  <2>4. 0 + i - 1 = 0 + j - 1
    <3>1. LeafHash(entries[i], 0 + i - 1) = LeafHash(entries[j], 0 + j - 1)
      BY <2>1, <2>3
    <3> QED
      BY <3>1, LeafInjective
  <2> QED
    BY <2>2, <2>4
<1> HIDE DEF L
<1>3. ASSUME NEW k \in Nat, k \in S PROVE k + 1 \in S
  <2>1. SUFFICES ASSUME NEW i \in 1..Len(L[k + 1]), NEW j \in 1..Len(L[k + 1]),
                        L[k + 1][i] = L[k + 1][j]
                 PROVE  i = j
    BY DEF Distinct
  <2>2. IsLayer(L[k]) /\ L[k + 1] = Round(L[k]) /\ Distinct(L[k])
    BY <1>1, <1>3
  <2>3. /\ 2*i - 1 \in 1..Len(L[k]) /\ 2*j - 1 \in 1..Len(L[k])
        /\ L[k][2*i - 1] = L[k][2*j - 1]
    <3> DEFINE second(h) ==
                   L[k][IF 2*h <= Len(L[k]) THEN 2*h ELSE 2*h - 1]
    <3>1. \A h \in 1..Len(L[k + 1]) :
             /\ 2*h - 1 \in 1..Len(L[k])
             /\ L[k + 1][h] = Pair(L[k][2*h - 1], second(h))
      BY <2>2, RoundAt
    <3> HIDE DEF second
    <3>2. Pair(L[k][2*i - 1], second(i)) = Pair(L[k][2*j - 1], second(j))
      BY <2>1, <3>1
    <3> QED
      BY <3>1, <3>2, PairInjective
  <2>4. 2*i - 1 = 2*j - 1
    BY <2>2, <2>3 DEF Distinct
  <2>5. i \in Int /\ j \in Int
    OBVIOUS
  <2> QED
    BY <2>4, <2>5
<1>4. \A k \in Nat : k \in S
  <2> HIDE DEF S
  <2> QED
    BY <1>2, <1>3, Rounds!SetInduction
<1> QED
  BY <1>4 DEF L

LEMMA RoundInjective ==
    ASSUME NEW s, NEW t, IsLayer(s), IsLayer(t), Distinct(s), Distinct(t),
           Round(s) = Round(t)
    PROVE  s = t
<1> DEFINE w == Len(Round(s))
           second(r, i) == r[IF 2*i <= Len(r) THEN 2*i ELSE 2*i - 1]
<1>1. /\ Len(s) \in Nat \ {0} /\ w = (Len(s) + 1) \div 2
      /\ Len(t) \in Nat \ {0} /\ w = (Len(t) + 1) \div 2
  BY RoundAt DEF IsLayer
<1>2. ASSUME NEW i \in 1..w
      PROVE  /\ 2*i - 1 \in 1..Len(s) /\ 2*i - 1 \in 1..Len(t)
             /\ s[2*i - 1] = t[2*i - 1] /\ second(s, i) = second(t, i)
  <2>1. 2*i - 1 \in 1..Len(s) /\ 2*i - 1 \in 1..Len(t)
    BY RoundAt
  <2>2. /\ Round(s)[i] = Pair(s[2*i - 1], second(s, i))
        /\ Round(t)[i] = Pair(t[2*i - 1], second(t, i))
    BY RoundAt
  <2>3. s[2*i - 1] = t[2*i - 1] /\ second(s, i) = second(t, i)
    <3> HIDE DEF second
    <3> QED
      BY <2>2, PairInjective
  <2> QED
    BY <2>1, <2>3
<1> HIDE DEF w
<1>3. w \in 1..w /\ w \in Nat
  BY <1>1
<1>4. ~ (Len(s) = 2*w - 1 /\ Len(t) = 2*w)
  <2>1. SUFFICES ASSUME Len(s) = 2*w - 1, Len(t) = 2*w PROVE FALSE
    OBVIOUS
  <2>2. second(s, w) = s[2*w - 1] /\ second(t, w) = t[2*w]
    BY <1>3, <2>1
  <2>3. t[2*w - 1] = t[2*w]
    BY <1>2, <1>3, <2>2
  <2>4. 2*w - 1 \in 1..Len(t) /\ 2*w \in 1..Len(t) /\ 2*w - 1 # 2*w
    BY <1>1, <1>3, <2>1
  <2> QED
    BY <2>3, <2>4 DEF Distinct
<1>5. ~ (Len(t) = 2*w - 1 /\ Len(s) = 2*w)
  <2>1. SUFFICES ASSUME Len(t) = 2*w - 1, Len(s) = 2*w PROVE FALSE
    OBVIOUS
  <2>2. second(t, w) = t[2*w - 1] /\ second(s, w) = s[2*w]
    BY <1>3, <2>1
  <2>3. s[2*w - 1] = s[2*w]
    BY <1>2, <1>3, <2>2
  <2>4. 2*w - 1 \in 1..Len(s) /\ 2*w \in 1..Len(s) /\ 2*w - 1 # 2*w
    BY <1>1, <1>3, <2>1
  <2> QED
    BY <2>3, <2>4 DEF Distinct
<1>6. Len(s) = Len(t)
  BY <1>1, <1>4, <1>5
<1>7. ASSUME NEW i \in 1..Len(s) PROVE s[i] = t[i]
  <2>1. CASE i % 2 = 1
    <3>1. PICK j \in 1..w : i = 2*j - 1
      <4>1. (i + 1) \div 2 \in 1..w /\ i = 2*((i + 1) \div 2) - 1
        BY <1>1, <1>7, <2>1
      <4> QED
        BY <4>1
    <3> QED
      BY <1>2, <3>1
  <2>2. CASE i % 2 = 0
    <3>1. PICK j \in 1..w : i = 2*j
      <4>1. i \div 2 \in 1..w /\ i = 2*(i \div 2)
        BY <1>1, <1>7, <2>2
      <4> QED
        BY <4>1
    <3>2. second(s, j) = s[i] /\ second(t, j) = t[i]
      BY <1>1, <1>6, <1>7, <3>1
    <3> QED
      BY <1>2, <3>2
  <2> QED
    BY <1>1, <1>7, <2>1, <2>2
<1>8. s = [i \in 1..Len(s) |-> s[i]] /\ t = [i \in 1..Len(t) |-> t[i]]
  BY LayerIsFunction
<1> QED
  BY <1>6, <1>7, <1>8

(* The first node of a layer is a leaf in layer 0 only.                     *)
LEMMA RootsOfOneDepth ==
    ASSUME NEW s, NEW t, IsLayer(s), IsLayer(t),
           NEW c \in Nat, NEW d \in Nat, c < d,
           \E e, i : s[1] = LeafHash(e, i)
    PROVE  Layers(s)[c][1] # Layers(t)[d][1]
<1> DEFINE A == Layers(s)
           B == Layers(t)
           S == { k \in Nat : k <= c => A[c - k][1] = B[d - k][1] }
<1>1. /\ A[0] = s
      /\ \A k \in Nat : \E x : A[k + 1][1] = Pair(A[k][1], x)
      /\ \A k \in Nat : \E x : B[k + 1][1] = Pair(B[k][1], x)
  <2>1. ASSUME NEW r, IsLayer(r), NEW k \in Nat
        PROVE  \E x : Layers(r)[k + 1][1] = Pair(Layers(r)[k][1], x)
    <3>1. IsLayer(Layers(r)[k]) /\ Layers(r)[k + 1] = Round(Layers(r)[k])
      BY <2>1, LayersAreLayers, LayersStep
    <3>2. 1 \in 1..Len(Round(Layers(r)[k])) /\ 2*1 - 1 = 1
      BY <3>1, RoundAt DEF IsLayer
    <3> QED
      BY <3>1, <3>2, RoundAt
  <2> QED
    BY <2>1, LayersStep
<1> SUFFICES ASSUME A[c][1] = B[d][1] PROVE FALSE
  OBVIOUS
<1> HIDE DEF A, B
<1>2. 0 \in S
  <2>1. c - 0 = c /\ d - 0 = d
    OBVIOUS
  <2> QED
    BY <2>1
<1>3. ASSUME NEW k \in Nat, k \in S PROVE k + 1 \in S
  <2>1. SUFFICES ASSUME k + 1 <= c PROVE A[c - (k + 1)][1] = B[d - (k + 1)][1]
    OBVIOUS
  <2>2. PICK m \in Nat, l \in Nat :
            /\ m = c - (k + 1) /\ m + 1 = c - k
            /\ l = d - (k + 1) /\ l + 1 = d - k
    <3>1. /\ c - (k + 1) \in Nat /\ (c - (k + 1)) + 1 = c - k
          /\ d - (k + 1) \in Nat /\ (d - (k + 1)) + 1 = d - k
      BY <2>1
    <3> QED
      BY <3>1
  <2>3. A[m + 1][1] = B[l + 1][1]
    BY <1>3, <2>1, <2>2
  <2>4. PICK x : A[m + 1][1] = Pair(A[m][1], x)
    BY <1>1
  <2>5. PICK y : B[l + 1][1] = Pair(B[l][1], y)
    BY <1>1
  <2>6. Pair(A[m][1], x) = Pair(B[l][1], y)
    BY <2>3, <2>4, <2>5
  <2>7. A[m][1] = B[l][1]
    BY <2>6, PairInjective
  <2> QED
    BY <2>2, <2>7
<1>4. \A k \in Nat : k \in S
  <2> HIDE DEF S
  <2> QED
    BY <1>2, <1>3, Rounds!SetInduction
<1>5. A[0][1] = B[d - c][1]
  <2>1. c - c = 0 /\ c <= c
    OBVIOUS
  <2> QED
    BY <1>4, <2>1
<1>6. \E x : B[d - c][1] = Pair(B[d - c - 1][1], x)
  <2>1. d - c - 1 \in Nat /\ (d - c - 1) + 1 = d - c
    OBVIOUS
  <2> QED
    BY <1>1, <2>1
<1>7. \E e, i : A[0][1] = LeafHash(e, i)
  BY <1>1
<1> QED
  BY <1>5, <1>6, <1>7, TagsDiffer

(* The layers below one root are equal, from the root down.                 *)
LEMMA RootDeterminesLeaves ==
    ASSUME NEW a \in Seq(Entries), NEW b \in Seq(Entries),
           a # << >>, b # << >>, BuildTree(a).root = BuildTree(b).root
    PROVE  LeafHashes(a, 0) = LeafHashes(b, 0)
<1> DEFINE s == LeafHashes(a, 0)
           t == LeafHashes(b, 0)
           A == Layers(s)
           B == Layers(t)
           c == Depth(s)
           d == Depth(t)
           S == { k \in Nat : k <= c => A[c - k] = B[c - k] }
<1>1. /\ IsLayer(s) /\ IsLayer(t)
      /\ c \in Nat /\ Len(A[c]) = 1 /\ d \in Nat /\ Len(B[d]) = 1
  <2>1. IsLayer(s) /\ IsLayer(t)
    BY LeavesAreLayer
  <2>2. Len(s) \in Nat /\ Len(t) \in Nat
    BY <2>1 DEF IsLayer
  <2> QED
    BY <2>1, <2>2, DepthIs
<1>2. A[c][1] = B[d][1]
  BY TreeOfLog
<1>3. /\ A[0] = s /\ B[0] = t
      /\ \A k \in Nat : /\ IsLayer(A[k]) /\ A[k + 1] = Round(A[k])
                        /\ IsLayer(B[k]) /\ B[k + 1] = Round(B[k])
                        /\ Distinct(A[k]) /\ Distinct(B[k])
  BY <1>1, LayersAreLayers, LayersStep, LayersAreDistinct
<1>4. (\E e, i : s[1] = LeafHash(e, i)) /\ (\E e, i : t[1] = LeafHash(e, i))
  BY FirstIsLeaf
<1> HIDE DEF s, t
<1>5. c = d
  <2>1. ~ (c < d) /\ ~ (d < c)
    <3> HIDE DEF c, d
    <3> QED
      BY <1>1, <1>2, <1>4, RootsOfOneDepth
  <2> HIDE DEF A, B, c, d
  <2> QED
    BY <1>1, <2>1
<1> HIDE DEF A, B, c, d
<1>6. 0 \in S
  <2>1. A[c] = [i \in 1..1 |-> A[c][i]] /\ B[c] = [i \in 1..1 |-> B[c][i]]
    BY <1>1, <1>3, <1>5, LayerIsFunction
  <2>2. A[c] = B[c]
    <3>1. \A i \in 1..1 : A[c][i] = B[c][i]
      BY <1>2, <1>5
    <3> QED
      BY <2>1, <3>1
  <2>3. c - 0 = c
    BY <1>1
  <2> QED
    BY <2>2, <2>3
<1>7. ASSUME NEW k \in Nat, k \in S PROVE k + 1 \in S
  <2>1. SUFFICES ASSUME k + 1 <= c PROVE A[c - (k + 1)] = B[c - (k + 1)]
    OBVIOUS
  <2>2. c - (k + 1) \in Nat /\ (c - (k + 1)) + 1 = c - k
    BY <1>1, <2>1
  <2>3. A[c - k] = B[c - k]
    BY <1>1, <1>7, <2>1
  <2>4. Round(A[c - (k + 1)]) = Round(B[c - (k + 1)])
    BY <1>3, <2>2, <2>3
  <2> QED
    BY <1>3, <2>2, <2>4, RoundInjective
<1>8. \A k \in Nat : k \in S
  <2> HIDE DEF S
  <2> QED
    BY <1>6, <1>7, Rounds!SetInduction
<1>9. A[0] = B[0]
  <2>1. c - c = 0 /\ c <= c
    BY <1>1
  <2> QED
    BY <1>1, <1>8, <2>1
<1> QED
  BY <1>3, <1>9 DEF s, t

(* The root is a commitment to the log: build_ima_merkle_tree gives two     *)
(* logs of any lengths the same root only when they are the same log, the   *)
(* empty one included.  No entry can be dropped, moved or repeated under a  *)
(* root that the server has pinned.                                         *)
THEOREM RootIsInjective ==
    \A a, b \in Seq(Entries) :
        BuildTree(a).root = BuildTree(b).root => a = b
<1> SUFFICES ASSUME NEW a \in Seq(Entries), NEW b \in Seq(Entries),
                    BuildTree(a).root = BuildTree(b).root
             PROVE  a = b
  OBVIOUS
<1>1. BuildTree(<< >>).root = EmptyHash
  <2>1. LeafHashes(<< >>, 0) = << >>
    BY DEF LeafHashes
  <2> QED
    BY <2>1 DEF BuildTree, TreeOf
<1>2. ASSUME NEW r \in Seq(Entries), r # << >>
      PROVE  BuildTree(r).root # EmptyHash
  <2> DEFINE s == LeafHashes(r, 0)
             d == Depth(s)
             L == Layers(s)
  <2>1. IsLayer(s) /\ d \in Nat /\ BuildTree(r).root = L[d][1]
    <3>1. IsLayer(s) /\ Len(s) \in Nat
      BY <1>2, LeavesAreLayer DEF IsLayer
    <3> QED
      BY <1>2, <3>1, DepthIs, TreeOfLog
  <2>2. \E e, i : L[0][1] = LeafHash(e, i)
    <3>1. L[0] = s
      BY LayersStep
    <3>2. \E e, i : s[1] = LeafHash(e, i)
      BY <1>2, FirstIsLeaf
    <3> HIDE DEF s, L
    <3> QED
      BY <3>1, <3>2
  <2>3. ASSUME d # 0 PROVE \E x, y : L[d][1] = Pair(x, y)
    <3>1. d - 1 \in Nat /\ (d - 1) + 1 = d
      BY <2>1, <2>3
    <3>2. L[d] = Round(L[d - 1]) /\ IsLayer(L[d - 1]) /\ IsLayer(L[d])
      <4>1. \A k \in Nat : L[k + 1] = Round(L[k]) /\ IsLayer(L[k])
        BY <2>1, LayersAreLayers, LayersStep
      <4> HIDE DEF d, L
      <4> QED
        BY <2>1, <3>1, <4>1
    <3>3. 1 \in 1..Len(L[d])
      BY <3>2 DEF IsLayer
    <3> QED
      BY <3>2, <3>3, RoundAt
  <2> HIDE DEF s, d, L
  <2> QED
    BY <2>1, <2>2, <2>3, TagsDiffer
<1>3. CASE a = << >> \/ b = << >>
  BY <1>1, <1>2, <1>3
<1>4. CASE a # << >> /\ b # << >>
  <2>1. LeafHashes(a, 0) = LeafHashes(b, 0)
    BY <1>4, RootDeterminesLeaves
  <2>2. Len(a) = Len(b) /\ Len(a) \in Nat
    BY <2>1, LeavesAre
  <2>3. ASSUME NEW i \in 1..Len(a) PROVE a[i] = b[i]
    <3>1. /\ LeafHashes(a, 0)[i] = LeafHash(a[i], 0 + i - 1)
          /\ LeafHashes(b, 0)[i] = LeafHash(b[i], 0 + i - 1)
      BY <2>2, LeavesAre
    <3> QED
      BY <2>1, <3>1, LeafInjective
  <2> QED
    BY <2>2, <2>3, SeqEqual
<1> QED
  BY <1>3, <1>4

-----------------------------------------------------------------------------
(***************************************************************************)
(* Inclusion proofs.                                                       *)
(***************************************************************************)
LEMMA PathStep ==
    ASSUME NEW index
    PROVE  /\ Path(index)[0] = index
           /\ \A k \in Nat : Path(index)[k + 1] = Path(index)[k] \div 2
<1>1. Path(index) =
          [k \in Nat |-> IF k = 0 THEN index ELSE Path(index)[k - 1] \div 2]
  BY Halves!Recursion DEF Path, HalfStep
<1> DEFINE f == Path(index)
<1>2. f = [k \in Nat |-> IF k = 0 THEN index ELSE f[k - 1] \div 2]
  BY <1>1
<1> HIDE DEF f
<1>3. f[0] = index
  BY <1>2
<1>4. ASSUME NEW k \in Nat PROVE f[k + 1] = f[k] \div 2
  <2>1. f[k + 1] = f[(k + 1) - 1] \div 2
    BY <1>2
  <2>2. (k + 1) - 1 = k
    OBVIOUS
  <2> QED
    BY <2>1, <2>2
<1> QED
  BY <1>3, <1>4 DEF f

(* current_index stays within the layer that the round looks at.            *)
LEMMA PathInLayers ==
    ASSUME NEW leaves, IsLayer(leaves), NEW index \in 0..Len(leaves) - 1
    PROVE  \A k \in Nat :
               Path(index)[k] \in 0..Len(Layers(leaves)[k]) - 1
<1> DEFINE at == Path(index)
           L == Layers(leaves)
           S == { k \in Nat : at[k] \in 0..Len(L[k]) - 1 }
<1>1. /\ at[0] = index
      /\ \A k \in Nat : at[k + 1] = at[k] \div 2
  BY PathStep
<1>2. /\ L[0] = leaves
      /\ \A k \in Nat : L[k + 1] = Round(L[k]) /\ IsLayer(L[k])
  BY LayersStep, LayersAreLayers
<1> HIDE DEF at, L
<1>3. 0 \in S
  BY <1>1, <1>2
<1>4. ASSUME NEW k \in Nat, k \in S PROVE k + 1 \in S
  <2>1. Len(L[k + 1]) = (Len(L[k]) + 1) \div 2 /\ Len(L[k]) \in Nat
    BY <1>2, RoundAt DEF IsLayer
  <2>2. at[k + 1] = at[k] \div 2 /\ at[k] \in 0..Len(L[k]) - 1
    BY <1>1, <1>4
  <2>3. at[k + 1] \in 0..Len(L[k + 1]) - 1
    <3>1. \A p, n \in Nat : p \in 0..n - 1 =>
              p \div 2 \in 0..((n + 1) \div 2) - 1
      OBVIOUS
    <3>2. at[k] \in Nat
      BY <2>1, <2>2
    <3> QED
      BY <2>1, <2>2, <3>1, <3>2
  <2> QED
    BY <2>3
<1>5. \A k \in Nat : k \in S
  <2> HIDE DEF S
  <2> QED
    BY <1>3, <1>4, Rounds!SetInduction
<1> QED
  BY <1>5 DEF at, L

(* A node and its sibling, each on its side, give their parent.             *)
LEMMA SiblingStep ==
    ASSUME NEW s, IsLayer(s), NEW p \in 0..Len(s) - 1
    PROVE  Round(s)[p \div 2 + 1] =
               IF p % 2 = 0
               THEN Pair(s[p + 1], Padded(s)[Sibling(p) + 1])
               ELSE Pair(Padded(s)[Sibling(p) + 1], s[p + 1])
<1> DEFINE i == p \div 2 + 1
<1>1. Len(s) \in Nat \ {0} /\ p \in Nat
  BY DEF IsLayer
<1>2. i \in 1..Len(Round(s)) /\ i \in Nat
  BY <1>1, RoundAt
<1>3. Round(s)[i] =
          Pair(s[2*i - 1], s[IF 2*i <= Len(s) THEN 2*i ELSE 2*i - 1])
  BY <1>2, RoundAt
<1>4. CASE p % 2 = 0
  <2>1. /\ Sibling(p) + 1 = p + 2 /\ 2*i - 1 = p + 1 /\ 2*i = p + 2
        /\ p + 2 \in 1..Len(Padded(s))
        /\ p + 2 > Len(s) => Len(s) = p + 1
    BY <1>1, <1>4, PaddedAt DEF Sibling
  <2>2. Padded(s)[p + 2] = s[IF p + 2 <= Len(s) THEN p + 2 ELSE p + 1]
    BY <1>1, <2>1, PaddedAt
  <2> HIDE DEF i
  <2> QED
    BY <1>3, <1>4, <2>1, <2>2 DEF i
<1>5. CASE p % 2 # 0
  <2>1. /\ Sibling(p) + 1 = p /\ 2*i - 1 = p /\ 2*i = p + 1
        /\ p \in 1..Len(Padded(s)) /\ p <= Len(s) /\ p + 1 <= Len(s)
    BY <1>1, <1>5, PaddedAt DEF Sibling
  <2>2. Padded(s)[p] = s[p]
    BY <1>1, <2>1, PaddedAt
  <2> HIDE DEF i
  <2> QED
    BY <1>3, <1>5, <2>1, <2>2 DEF i
<1> QED
  BY <1>4, <1>5

(* The digest after k rounds of a climb is the node on the path in layer k. *)
LEMMA ClimbIs ==
    ASSUME NEW leaves, IsLayer(leaves), NEW index \in 0..Len(leaves) - 1,
           NEW d \in Nat, NEW proof, Len(proof) = d,
           \A k \in 0..d - 1 :
               proof[k + 1] = Padded(Layers(leaves)[k])
                                  [Sibling(Path(index)[k]) + 1]
    PROVE  Climb(leaves[index + 1], index, proof) =
               Layers(leaves)[d][Path(index)[d] + 1]
<1> DEFINE at == Path(index)
           L == Layers(leaves)
           leaf == leaves[index + 1]
           Value(digest, k) ==
               IF k = 0 THEN leaf
               ELSE IF at[k - 1] % 2 = 0
                    THEN Pair(digest[k - 1], proof[k])
                    ELSE Pair(proof[k], digest[k - 1])
           D == [k \in 0..d |-> L[k][at[k] + 1]]
           C == CHOOSE digest : digest = [k \in 0..d |-> Value(digest, k)]
           S == { k \in Nat : k <= d => C[k] = D[k] }
<1>1. /\ L[0] = leaves /\ at[0] = index
      /\ \A k \in Nat : /\ L[k + 1] = Round(L[k]) /\ IsLayer(L[k])
                        /\ at[k + 1] = at[k] \div 2
                        /\ at[k] \in 0..Len(L[k]) - 1
  BY LayersStep, LayersAreLayers, PathStep, PathInLayers
<1>2. \A k \in 0..d - 1 : proof[k + 1] = Padded(L[k])[Sibling(at[k]) + 1]
  OBVIOUS
<1>3. Climb(leaf, index, proof) = C[d]
  BY DEF Climb
<1> HIDE DEF at, L, leaf
<1>4. L[0][at[0] + 1] = leaf
  BY <1>1 DEF leaf
<1>5. ASSUME NEW k \in 0..d - 1
      PROVE  L[k + 1][at[k + 1] + 1] =
                 IF at[k] % 2 = 0 THEN Pair(L[k][at[k] + 1], proof[k + 1])
                                  ELSE Pair(proof[k + 1], L[k][at[k] + 1])
  <2>1. k \in Nat
    OBVIOUS
  <2>2. Round(L[k])[at[k] \div 2 + 1] =
            IF at[k] % 2 = 0
            THEN Pair(L[k][at[k] + 1], Padded(L[k])[Sibling(at[k]) + 1])
            ELSE Pair(Padded(L[k])[Sibling(at[k]) + 1], L[k][at[k] + 1])
    BY <1>1, <2>1, SiblingStep
  <2> QED
    BY <1>1, <1>2, <2>1, <2>2
<1>6. D = [k \in 0..d |-> Value(D, k)]
  <2>1. \A k \in 0..d : D[k] = L[k][at[k] + 1]
    OBVIOUS
  <2>2. D = [k \in 0..d |-> D[k]]
    OBVIOUS
  <2> HIDE DEF D
  <2>3. ASSUME NEW k \in 0..d PROVE D[k] = Value(D, k)
    <3>1. CASE k = 0
      BY <1>4, <2>1, <3>1
    <3>2. CASE k # 0
      <4>1. k - 1 \in 0..d - 1 /\ (k - 1) + 1 = k /\ k - 1 \in 0..d
        BY <3>2
      <4>2. L[k][at[k] + 1] =
                IF at[k - 1] % 2 = 0
                THEN Pair(L[k - 1][at[k - 1] + 1], proof[k])
                ELSE Pair(proof[k], L[k - 1][at[k - 1] + 1])
        BY <1>5, <4>1
      <4> QED
        BY <2>1, <3>2, <4>1, <4>2
    <3> QED
      BY <3>1, <3>2
  <2> HIDE DEF Value
  <2> QED
    BY <2>2, <2>3
<1>7. C = [k \in 0..d |-> Value(C, k)]
  <2> HIDE DEF D, Value
  <2> QED
    BY <1>6
<1>8. \A k \in 0..d : C[k] = Value(C, k) /\ D[k] = Value(D, k)
  <2> HIDE DEF C, D, Value
  <2> QED
    BY <1>6, <1>7
<1>9. D[d] = L[d][at[d] + 1]
  OBVIOUS
<1> HIDE DEF C, D
<1>10. 0 \in S
  BY <1>8
<1>11. ASSUME NEW k \in Nat, k \in S PROVE k + 1 \in S
  <2>1. SUFFICES ASSUME k + 1 <= d PROVE C[k + 1] = D[k + 1]
    OBVIOUS
  <2>2. /\ k + 1 \in 0..d /\ k + 1 # 0 /\ (k + 1) - 1 = k
        /\ C[k] = D[k]
    BY <1>11, <2>1
  <2>3. Value(C, k + 1) = Value(D, k + 1)
    BY <2>2
  <2> HIDE DEF Value
  <2> QED
    BY <1>8, <2>2, <2>3
<1>12. \A k \in Nat : k \in S
  <2> HIDE DEF S
  <2> QED
    BY <1>10, <1>11, Rounds!SetInduction
<1>13. C[d] = D[d]
  BY <1>12
<1> QED
  BY <1>3, <1>9, <1>13 DEF at, L, leaf

LEMMA FunctionLen ==
    ASSUME NEW n \in Nat, NEW s, s = [i \in 1..n |-> s[i]]
    PROVE  Len(s) = n
<1> DEFINE V == { s[i] : i \in 1..n }
<1>1. s \in [1..n -> V]
  OBVIOUS
<1> HIDE DEF V
<1>2. s \in Seq(V)
  BY <1>1, SeqDef
<1> QED
  BY <1>1, <1>2, LenProperties

LEMMA ProofIsPath ==
    ASSUME NEW entries \in Seq(Entries), NEW index \in 0..Len(entries) - 1
    PROVE  LET p == GetProof(entries, index)
           IN  /\ p.leaf = LeafHash(entries[index + 1], index)
               /\ Climb(p.leaf, index, p.proof) = BuildTree(entries).root
               /\ p.root = BuildTree(entries).root
               /\ Len(p.proof) = BuildTree(entries).depth
<1> DEFINE leaves == LeafHashes(entries, 0)
           d == Depth(leaves)
           L == Layers(leaves)
           sib(k) == Padded(L[k])[Sibling(Path(index)[k]) + 1]
           sibling == [k \in 0..d - 1 |-> sib(k)]
           proof == [k \in 1..d |-> sibling[k - 1]]
           p == GetProof(entries, index)
<1>1. entries # << >> /\ Len(entries) \in Nat
  BY LeavesAre, EmptySeq
<1>2. IsLayer(leaves) /\ Len(leaves) = Len(entries)
  BY <1>1, LeavesAreLayer
<1>3. d \in Nat /\ Len(L[d]) = 1
  <2>1. Len(leaves) \in Nat
    BY <1>1, <1>2
  <2> QED
    BY <1>2, <2>1, DepthIs
<1>4. p = [leaf |-> leaves[index + 1], proof |-> proof, root |-> L[d][1]]
  BY DEF GetProof
<1>5. BuildTree(entries) = [root |-> L[d][1], depth |-> d, leaves |-> leaves]
  BY <1>1, TreeOfLog
<1>6. leaves[index + 1] = LeafHash(entries[index + 1], index)
  <2>1. index + 1 \in 1..Len(entries) /\ 0 + (index + 1) - 1 = index
    BY <1>1
  <2>2. leaves[index + 1] =
            LeafHash(entries[index + 1], 0 + (index + 1) - 1)
    BY <2>1, LeavesAre
  <2> QED
    BY <2>1, <2>2
<1> HIDE DEF d, sib
<1>7. \A k \in 0..d - 1 : proof[k + 1] = sib(k)
  <2>1. \A k \in 0..d - 1 : k + 1 \in 1..d /\ (k + 1) - 1 = k
    BY <1>3
  <2> QED
    BY <2>1
<1>8. Len(proof) = d
  <2>1. proof = [k \in 1..d |-> proof[k]]
    OBVIOUS
  <2> HIDE DEF proof
  <2> QED
    BY <1>3, <2>1, FunctionLen
<1> HIDE DEF proof, leaves
<1>9. Climb(leaves[index + 1], index, proof) = L[d][Path(index)[d] + 1]
  <2>1. index \in 0..Len(leaves) - 1
    BY <1>2
  <2> QED
    BY <1>2, <1>3, <1>7, <1>8, <2>1, ClimbIs DEF sib
<1>10. Path(index)[d] + 1 = 1
  <2>1. index \in 0..Len(leaves) - 1
    BY <1>2
  <2>2. Path(index)[d] \in 0..Len(L[d]) - 1
    BY <1>2, <1>3, <2>1, PathInLayers
  <2> QED
    BY <1>3, <2>2
<1> HIDE DEF L, p
<1> QED
  BY <1>4, <1>5, <1>6, <1>8, <1>9, <1>10 DEF p

-----------------------------------------------------------------------------
(***************************************************************************)
(* Incremental builds.                                                     *)
(***************************************************************************)
(* The leaves of a piece of a log, numbered from its start, continue those  *)
(* before it.                                                               *)
LEMMA LeavesContinue ==
    ASSUME NEW entries \in Seq(Entries),
           NEW k \in 0..Len(entries), NEW j \in 0..k
    PROVE  /\ LeafHashes(SubSeq(entries, 1, k), 0) \in Seq(Leaves)
           /\ LeafHashes(SubSeq(entries, 1, j), 0)
                  \o LeafHashes(SubSeq(entries, j + 1, k), j) =
              LeafHashes(SubSeq(entries, 1, k), 0)
<1> DEFINE x == SubSeq(entries, 1, j)
           y == SubSeq(entries, j + 1, k)
           z == SubSeq(entries, 1, k)
           u == LeafHashes(x, 0)
           v == LeafHashes(y, j)
           w == LeafHashes(z, 0)
<1>1. /\ Len(entries) \in Nat /\ j \in Nat /\ k \in Nat /\ j <= k
      /\ \A i \in 1..Len(entries) : entries[i] \in Entries
  BY LeavesAre
<1>2. /\ x \in Seq(Entries) /\ Len(x) = j
      /\ \A i \in 1..j : x[i] = entries[i]
  <2>1. \A i \in 1..j : entries[i] \in Entries
    BY <1>1
  <2> QED
    BY <1>1, <2>1, SubSeqProperties
<1>3. /\ z \in Seq(Entries) /\ Len(z) = k
      /\ \A i \in 1..k : z[i] = entries[i]
  <2>1. \A i \in 1..k : entries[i] \in Entries
    BY <1>1
  <2> QED
    BY <1>1, <2>1, SubSeqProperties
<1>4. /\ y \in Seq(Entries) /\ Len(y) = k - j
      /\ \A i \in 1..k - j : y[i] = entries[j + i]
  <2>1. \A i \in j + 1..k : entries[i] \in Entries
    BY <1>1
  <2>2. /\ y \in Seq(Entries)
        /\ Len(y) = IF j + 1 <= k THEN k - (j + 1) + 1 ELSE 0
        /\ \A i \in 1..k - (j + 1) + 1 : y[i] = entries[(j + 1) + i - 1]
    BY <1>1, <2>1, SubSeqProperties
  <2> QED
    BY <1>1, <2>2
<1> HIDE DEF x, y, z
<1>5. /\ u \in Seq(Leaves) /\ Len(u) = j
      /\ \A i \in 1..j : u[i] = LeafHash(x[i], 0 + i - 1)
  BY <1>2, LeavesAre
<1>6. /\ v \in Seq(Leaves) /\ Len(v) = k - j
      /\ \A i \in 1..k - j : v[i] = LeafHash(y[i], j + i - 1)
  BY <1>1, <1>4, LeavesAre
<1>7. /\ w \in Seq(Leaves) /\ Len(w) = k
      /\ \A i \in 1..k : w[i] = LeafHash(z[i], 0 + i - 1)
  BY <1>3, LeavesAre
<1> HIDE DEF u, v, w
<1>8. /\ u \o v \in Seq(Leaves) /\ Len(u \o v) = k
      /\ \A i \in 1..k : (u \o v)[i] = IF i <= j THEN u[i] ELSE v[i - j]
  <2>1. /\ u \o v \in Seq(Leaves) /\ Len(u \o v) = Len(u) + Len(v)
        /\ \A i \in 1..Len(u) + Len(v) :
              (u \o v)[i] = IF i <= Len(u) THEN u[i] ELSE v[i - Len(u)]
    BY <1>5, <1>6, ConcatProperties
  <2>2. Len(u) = j /\ Len(u) + Len(v) = k
    BY <1>1, <1>5, <1>6
  <2> QED
    BY <2>1, <2>2
<1>9. ASSUME NEW i \in 1..k PROVE (u \o v)[i] = w[i]
  <2>1. CASE i <= j
    <3>1. i \in 1..j
      BY <1>1, <2>1
    <3> QED
      BY <1>2, <1>3, <1>5, <1>7, <1>8, <2>1, <3>1
  <2>2. CASE ~ (i <= j)
    <3>1. PICK m \in 1..k - j : i - j = m /\ j + m = i /\ j + m - 1 = 0 + i - 1
      <4>1. /\ i - j \in 1..k - j /\ j + (i - j) = i
            /\ j + (i - j) - 1 = 0 + i - 1
        BY <1>1, <2>2
      <4> QED
        BY <4>1
    <3>2. (u \o v)[i] = v[m]
      BY <1>8, <2>2, <3>1
    <3>3. v[m] = LeafHash(y[m], j + m - 1) /\ y[m] = entries[j + m]
      BY <1>4, <1>6
    <3>4. w[i] = LeafHash(entries[i], 0 + i - 1)
      BY <1>3, <1>7
    <3> QED
      BY <3>1, <3>2, <3>3, <3>4
  <2> QED
    BY <2>1, <2>2
<1>10. u \o v = w
  BY <1>7, <1>8, <1>9, SeqEqual
<1> QED
  BY <1>7, <1>10 DEF u, v, w, x, y, z

LEMMA Incremental ==
    ASSUME NEW entries \in Seq(Entries),
           NEW k \in 0..Len(entries), NEW j \in 0..k
    PROVE  LET first  == BuildIncrementalTree(<< >>, SubSeq(entries, 1, j), 0)
               second == BuildIncrementalTree(first.leaves,
                                              SubSeq(entries, j + 1, k), j)
           IN  BuildIncrementalTree(second.leaves,
                                    SubSeq(entries, k + 1, Len(entries)), k)
                   = BuildTree(entries)
<1> DEFINE n == Len(entries)
           upTo(m) == LeafHashes(SubSeq(entries, 1, m), 0)
           first == BuildIncrementalTree(<< >>, SubSeq(entries, 1, j), 0)
           second == BuildIncrementalTree(first.leaves,
                                          SubSeq(entries, j + 1, k), j)
<1>1. n \in Nat /\ j \in 0..n /\ k \in 0..n /\ n \in 0..n /\ k \in 0..n
  BY LeavesAre
<1>2. \A s : TreeOf(s).leaves = s
  BY DEF TreeOf
<1>3. first.leaves = upTo(j)
  <2>1. upTo(j) \in Seq(Leaves)
    BY <1>1, LeavesContinue
  <2>2. << >> \o upTo(j) = upTo(j)
    <3> HIDE DEF upTo
    <3> QED
      BY <2>1, ConcatEmptySeq
  <2> QED
    BY <1>2, <2>2 DEF BuildIncrementalTree
<1>4. second.leaves = upTo(k)
  <2>1. upTo(j) \o LeafHashes(SubSeq(entries, j + 1, k), j) = upTo(k)
    BY LeavesContinue
  <2> HIDE DEF upTo, first
  <2> QED
    BY <1>2, <1>3, <2>1 DEF BuildIncrementalTree
<1>5. upTo(k) \o LeafHashes(SubSeq(entries, k + 1, n), k) = upTo(n)
  BY <1>1, LeavesContinue
<1>6. SubSeq(entries, 1, n) = entries
  BY SubSeqFull
<1>7. BuildIncrementalTree(second.leaves, SubSeq(entries, k + 1, n), k)
          = BuildTree(entries)
  <2> HIDE DEF second
  <2> QED
    BY <1>4, <1>5, <1>6 DEF BuildIncrementalTree, BuildTree
<1> QED
  BY <1>7

-----------------------------------------------------------------------------
(***************************************************************************)
(* The invariants of MerkleCheck.                                          *)
(***************************************************************************)
LEMMA LogIsSequence == Spec => [](log \in Seq(Entries))
<1>1. Init => log \in Seq(Entries)
  BY EmptySeq DEF Init
<1>2. log \in Seq(Entries) /\ [Next]_log => (log \in Seq(Entries))'
  <2> SUFFICES ASSUME log \in Seq(Entries), [Next]_log
               PROVE  log' \in Seq(Entries)
    OBVIOUS
  <2> QED
    BY AppendProperties DEF Next, Measure
<1> QED
  BY <1>1, <1>2, PTL DEF Spec

(* For a log of any length, _reduce_to_root builds the balanced tree over   *)
(* all its leaves: its depth is the logarithm of their number, rounded up,  *)
(* and node by node it is the tree that NodesOf defines by position.        *)
THEOREM TreeIsAlwaysBalanced == Spec => []TreeIsBalanced
<1>1. log \in Seq(Entries) => TreeIsBalanced
  BY Balanced DEF TreeIsBalanced
<1> QED
  BY <1>1, LogIsSequence, PTL

(* However a log of any length is read in three stages, the two that fill   *)
(* the cache of build_incremental_merkle_tree and the last one give the     *)
(* tree that build_ima_merkle_tree gives for the whole log.                 *)
THEOREM IncrementalIsAlwaysFull == Spec => []IncrementalIsFull
<1>1. log \in Seq(Entries) => IncrementalIsFull
  <2> SUFFICES ASSUME log \in Seq(Entries),
                      NEW j \in 0..Len(log), NEW k \in 0..Len(log), j <= k
               PROVE  LET first  == BuildIncrementalTree(<< >>,
                                                   SubSeq(log, 1, j), 0)
                          second == BuildIncrementalTree(first.leaves,
                                                   SubSeq(log, j + 1, k), j)
                      IN  BuildIncrementalTree(second.leaves,
                                       SubSeq(log, k + 1, Len(log)), k)
                              = BuildTree(log)
    BY DEF IncrementalIsFull
  <2>1. j \in 0..k
    OBVIOUS
  <2> QED
    BY <2>1, Incremental
<1> QED
  BY <1>1, LogIsSequence, PTL

(* For every position of a log of any length, the siblings that             *)
(* get_ima_proof collects lead from the leaf at that position to the root   *)
(* that the server pins, in as many steps as the tree is deep.              *)
THEOREM ProofAlwaysLeadsToRoot == Spec => []ProofLeadsToRoot
<1>1. log \in Seq(Entries) => ProofLeadsToRoot
  BY ProofIsPath DEF ProofLeadsToRoot
<1> QED
  BY <1>1, LogIsSequence, PTL

(* No other log within the bound has the root of the log: RootIsInjective   *)
(* for the logs that the run compares.                                      *)
THEOREM RootAlwaysDeterminesLog == Spec => []RootDeterminesLog
<1>1. log \in Seq(Entries) => RootDeterminesLog
  <2> SUFFICES ASSUME log \in Seq(Entries), NEW other \in AllLogs,
                      BuildTree(other).root = BuildTree(log).root
               PROVE  other = log
    BY DEF RootDeterminesLog
  <2>1. other \in Seq(Entries)
    <3>1. PICK n \in 0..MaxLen : other \in [1..n -> Entries]
      BY DEF AllLogs
    <3>2. n \in Nat
      OBVIOUS
    <3> QED
      BY <3>1, <3>2, SeqDef
  <2> QED
    BY <2>1, RootIsInjective
<1> QED
  BY <1>1, LogIsSequence, PTL

=============================================================================
