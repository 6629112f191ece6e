-------------------------- MODULE ShimCollectProofs --------------------------
(***************************************************************************)
(* Incremental collection for every log, every sequence of failures,       *)
(* restarts and reboots, and any set of entries: the reports leave nothing *)
(* out, and on a log that parses they are full rebuilds.                   *)
(***************************************************************************)
EXTENDS ShimCollect, SequenceTheorems, FiniteSetTheorems, TLAPS

-----------------------------------------------------------------------------
(***************************************************************************)
(* What reading the log returns: as many entries as lines that parse, each *)
(* of them an entry of the log and none left out, and the log itself when  *)
(* every line parses.                                                      *)
(***************************************************************************)
(* The ranks of a finite set of positions number it without gaps.           *)
LEMMA RankNumbers ==
    ASSUME NEW P \in SUBSET Int, IsFiniteSet(P)
    PROVE  /\ \A i \in P : Rank(P, i) \in 1..Cardinality(P)
           /\ \A i, j \in P : Rank(P, i) = Rank(P, j) => i = j
           /\ \A k \in 1..Cardinality(P) : \E i \in P : Rank(P, i) = k
<1> DEFINE Below(i) == { j \in P : j <= i }
           rank == [i \in P |-> Rank(P, i)]
<1>1. \A i \in P : /\ IsFiniteSet(Below(i))
                   /\ Cardinality(Below(i)) \in Nat
                   /\ Cardinality(Below(i)) <= Cardinality(P)
                   /\ Cardinality(Below(i)) # 0
    <2> SUFFICES ASSUME NEW i \in P
                 PROVE  /\ IsFiniteSet(Below(i))
                        /\ Cardinality(Below(i)) \in Nat
                        /\ Cardinality(Below(i)) <= Cardinality(P)
                        /\ Cardinality(Below(i)) # 0
        OBVIOUS
    <2>1. Below(i) \in SUBSET P /\ i \in Below(i)
        OBVIOUS
    <2>2. IsFiniteSet(Below(i)) /\ Cardinality(Below(i)) <= Cardinality(P)
        BY <2>1, FS_Subset
    <2>3. Cardinality(Below(i)) \in Nat
        BY <2>2, FS_CardinalityType
    <2>4. Cardinality(Below(i)) # 0
        BY <2>1, <2>2, FS_EmptySet
    <2> QED BY <2>2, <2>3, <2>4
<1>2. Cardinality(P) \in Nat
    BY FS_CardinalityType
<1>3. \A i \in P : Rank(P, i) \in 1..Cardinality(P)
    BY <1>1, <1>2 DEF Rank
<1>4. ASSUME NEW i \in P, NEW j \in P, i < j
      PROVE  Rank(P, i) # Rank(P, j)
    <2>0. P \subseteq Int /\ i \in Int /\ j \in Int /\ ~(j <= i) /\ j <= j
        BY <1>4
    <2>1. Below(i) \in SUBSET Below(j) /\ j \in Below(j) /\ j \notin Below(i)
        <3>1. \A k \in P : k <= i => k <= j
            BY <2>0, <1>4
        <3> QED BY <3>1, <2>0
    <2>2. Cardinality(Below(j)) # Cardinality(Below(i))
        BY <2>1, <1>1, FS_Subset
    <2> QED BY <2>2 DEF Rank
<1>5. \A i, j \in P : Rank(P, i) = Rank(P, j) => i = j
    BY <1>4
<1>6. rank \in Injection(P, 1..Cardinality(P))
    BY <1>3, <1>5 DEF Injection, IsInjective
<1>7. /\ IsFiniteSet(1..Cardinality(P))
      /\ Cardinality(1..Cardinality(P)) = Cardinality(P)
    BY <1>2, FS_Interval
<1>8. rank \in Surjection(P, 1..Cardinality(P))
    BY <1>6, <1>7, FS_Injection
<1>9. \A k \in 1..Cardinality(P) : \E i \in P : Rank(P, i) = k
    BY <1>8 DEF Surjection
<1> QED BY <1>3, <1>5, <1>9

(* The lines that parse are finitely many, at most as many as the lines.    *)
LEMMA WellFormedBound ==
    ASSUME NEW S, NEW lines \in Seq(S)
    PROVE  /\ WellFormed(lines) \in SUBSET (1..Len(lines))
           /\ WellFormed(lines) \in SUBSET Int
           /\ IsFiniteSet(WellFormed(lines))
           /\ Cardinality(WellFormed(lines)) \in Nat
           /\ Cardinality(WellFormed(lines)) <= Len(lines)
<1>1. WellFormed(lines) \in SUBSET (1..Len(lines))
    BY DEF WellFormed
<1>2. /\ IsFiniteSet(1..Len(lines))
      /\ Cardinality(1..Len(lines)) = Len(lines)
    <2> DEFINE n == Len(lines)
    <2>1. n \in Nat
        OBVIOUS
    <2> HIDE DEF n
    <2>2. IsFiniteSet(1..n) /\ Cardinality(1..n) = IF 1 > n THEN 0 ELSE n - 1 + 1
        BY <2>1, FS_Interval
    <2>3. IsFiniteSet(1..n) /\ Cardinality(1..n) = n
        BY <2>1, <2>2
    <2> QED BY <2>3 DEF n
<1>3. /\ IsFiniteSet(WellFormed(lines))
      /\ Cardinality(WellFormed(lines)) <= Len(lines)
    BY <1>1, <1>2, FS_Subset
<1> QED BY <1>1, <1>3, FS_CardinalityType

(* read_ima_log returns entries, no more than there are lines, and every    *)
(* line that parses is among them.                                          *)
LEMMA ParsedEntries ==
    ASSUME NEW lines \in Seq(Line)
    PROVE  /\ Parsed(lines) \in Seq(Entries)
           /\ Len(Parsed(lines)) \in Nat
           /\ Len(Parsed(lines)) <= Len(lines)
           /\ \A i \in 1..Len(lines) : lines[i] # Malformed =>
                  \E k \in 1..Len(Parsed(lines)) : Parsed(lines)[k] = lines[i]
           /\ \A k \in 1..Len(Parsed(lines)) :
                  \E i \in 1..Len(lines) : lines[i] = Parsed(lines)[k]
<1> DEFINE P == WellFormed(lines)
           nth(k) == CHOOSE i \in P : Rank(P, i) = k
<1>1. /\ P \in SUBSET (1..Len(lines)) /\ P \in SUBSET Int /\ IsFiniteSet(P)
      /\ Cardinality(P) \in Nat /\ Cardinality(P) <= Len(lines)
    BY WellFormedBound
<1>2. /\ \A i \in P : Rank(P, i) \in 1..Cardinality(P)
      /\ \A i, j \in P : Rank(P, i) = Rank(P, j) => i = j
      /\ \A k \in 1..Cardinality(P) : \E i \in P : Rank(P, i) = k
    BY <1>1, RankNumbers
<1>3. \A k \in 1..Cardinality(P) : nth(k) \in P /\ Rank(P, nth(k)) = k
    BY <1>2
<1>4. \A i \in P : lines[i] \in Entries
    BY <1>1 DEF WellFormed, Line
<1>5. Parsed(lines) = [k \in 1..Cardinality(P) |-> lines[nth(k)]]
    BY DEF Parsed
<1> HIDE DEF P, nth
<1>6. Parsed(lines) \in Seq(Entries) /\ Len(Parsed(lines)) = Cardinality(P)
    <2>1. \A k \in 1..Cardinality(P) : lines[nth(k)] \in Entries
        BY <1>3, <1>4
    <2> QED BY <2>1, <1>1, <1>5
<1>7. ASSUME NEW i \in 1..Len(lines), lines[i] # Malformed
      PROVE  \E k \in 1..Len(Parsed(lines)) : Parsed(lines)[k] = lines[i]
    <2>1. i \in P
        BY <1>7 DEF P, WellFormed
    <2>2. Rank(P, i) \in 1..Cardinality(P) /\ nth(Rank(P, i)) = i
        BY <2>1, <1>2, <1>3
    <2>3. Parsed(lines)[Rank(P, i)] = lines[i]
        BY <2>2, <1>5
    <2> QED BY <2>2, <2>3, <1>6
<1>8. ASSUME NEW k \in 1..Len(Parsed(lines))
      PROVE  \E i \in 1..Len(lines) : lines[i] = Parsed(lines)[k]
    <2>1. k \in 1..Cardinality(P) /\ nth(k) \in 1..Len(lines)
        BY <1>1, <1>3, <1>6
    <2> QED BY <2>1, <1>5
<1> QED BY <1>1, <1>6, <1>7, <1>8

(* A log whose lines all parse is returned as it is.                        *)
LEMMA ParsedClean ==
    ASSUME NEW lines \in Seq(Line), \A i \in 1..Len(lines) : lines[i] # Malformed
    PROVE  Parsed(lines) = lines
<1> DEFINE P == WellFormed(lines)
           n == Len(lines)
           nth(k) == CHOOSE i \in P : Rank(P, i) = k
<1>1. P = 1..n
    BY DEF WellFormed
<1>2. Cardinality(P) = n
    BY <1>1, FS_Interval
<1>3. ASSUME NEW i \in 1..n
      PROVE  Rank(P, i) = i
    <2>1. { j \in P : j <= i } = 1..i
        BY <1>1
    <2>2. Cardinality(1..i) = i
        BY FS_Interval
    <2> QED BY <2>1, <2>2 DEF Rank
<1>4. \A k \in 1..n : nth(k) = k
    BY <1>1, <1>3
<1>5. Parsed(lines) = [k \in 1..Cardinality(P) |-> lines[nth(k)]]
    BY DEF Parsed
<1> HIDE DEF P, nth
<1>6. Parsed(lines) = [k \in 1..n |-> lines[k]]
    BY <1>2, <1>4, <1>5
<1> QED BY <1>6

-----------------------------------------------------------------------------
(***************************************************************************)
(* Nothing is lost.                                                        *)
(***************************************************************************)
(* What collecting from an offset adds: numbered leaves, no more of them    *)
(* than there are lines left, one for every line left that parses.          *)
LEMMA NewLeaves ==
    ASSUME NEW log \in Seq(Line), NEW off \in Nat, off <= Len(log)
    PROVE  LET new == LeafHashes(ReadLog(log, off), off)
           IN  /\ new \in Seq(Leaf)
               /\ Len(new) \in Nat
               /\ off + Len(new) <= Len(log)
               /\ \A k \in 1..Len(new) : new[k][2] = off + k - 1
               /\ \A i \in (off + 1)..Len(log) : log[i] # Malformed =>
                      \E k \in 1..Len(new) : new[k][3] = log[i]
               /\ \A k \in 1..Len(new) :
                      \E i \in 1..Len(log) : log[i] = new[k][3]
<1> DEFINE rest == SubSeq(log, off + 1, Len(log))
           got  == ReadLog(log, off)
           new  == LeafHashes(got, off)
<1>1. /\ rest \in Seq(Line)
      /\ Len(rest) = Len(log) - off
      /\ \A i \in 1..Len(rest) : rest[i] = log[off + i]
    OBVIOUS
<1>2. got = Parsed(rest)
    BY DEF ReadLog
<1> HIDE DEF rest
<1>3. /\ got \in Seq(Entries)
      /\ Len(got) \in Nat
      /\ Len(got) <= Len(rest)
      /\ \A i \in 1..Len(rest) : rest[i] # Malformed =>
             \E k \in 1..Len(got) : got[k] = rest[i]
      /\ \A k \in 1..Len(got) : \E i \in 1..Len(rest) : rest[i] = got[k]
    BY <1>1, <1>2, ParsedEntries
<1> HIDE DEF got
<1>4. new = [k \in 1..Len(got) |-> <<"leaf", off + k - 1, got[k]>>]
    BY <1>3 DEF LeafHashes, LeafHash
<1>5. \A k \in 1..Len(got) : <<"leaf", off + k - 1, got[k]>> \in Leaf
    BY <1>3 DEF Leaf
<1> HIDE DEF new
<1>6. new \in Seq(Leaf) /\ Len(new) = Len(got)
    BY <1>3, <1>4, <1>5
<1>7. \A k \in 1..Len(new) : new[k][2] = off + k - 1 /\ new[k][3] = got[k]
    BY <1>4, <1>6
<1>8. ASSUME NEW i \in (off + 1)..Len(log), log[i] # Malformed
      PROVE  \E k \in 1..Len(new) : new[k][3] = log[i]
    <2>1. i - off \in 1..Len(rest) /\ rest[i - off] = log[i]
        BY <1>1
    <2>2. PICK k \in 1..Len(got) : got[k] = rest[i - off]
        BY <1>3, <1>8, <2>1
    <2> QED BY <1>6, <1>7, <2>1, <2>2
<1>9. off + Len(new) <= Len(log)
    BY <1>1, <1>3, <1>6
<1>10. ASSUME NEW k \in 1..Len(new)
       PROVE  \E i \in 1..Len(log) : log[i] = new[k][3]
    <2>1. PICK i \in 1..Len(rest) : rest[i] = got[k]
        BY <1>3, <1>6
    <2>2. off + i \in 1..Len(log) /\ log[off + i] = rest[i]
        BY <1>1, <2>1
    <2> QED BY <1>7, <2>1, <2>2
<1> QED BY <1>3, <1>6, <1>7, <1>8, <1>9, <1>10 DEF new, got

-----------------------------------------------------------------------------
(***************************************************************************)
(* Nothing is left out.  The offset never passes the end of the log, and   *)
(* what precedes it is in the cache; that is why an offset gone astray     *)
(* only makes the shim read lines again.                                   *)
(***************************************************************************)
Covers(leaves, n) ==
    \A i \in 1..n : rawLog[i] # Malformed =>
        \E k \in 1..Len(leaves) : leaves[k][3] = rawLog[i]

CoverInv ==
    /\ TypeOK
    /\ LeavesAreNumbered
    /\ lineOffset <= Len(rawLog)
    /\ call.pcr10 <= Len(rawLog)
    /\ report.pcr10 <= Len(rawLog)
    /\ Covers(leafCache, lineOffset)
    /\ pc = "quote" => Covers(leafCache, call.pcr10)
    /\ Covers(report.leaves, report.pcr10)

LEMMA CoverInit == Init => CoverInv
BY DEF Init, CoverInv, TypeOK, LeavesAreNumbered, Covers, NoCall, NoReport,
       Step, Leaf

LEMMA CoverNext == CoverInv /\ [Next]_vars => CoverInv'
<1> SUFFICES ASSUME CoverInv, [Next]_vars
             PROVE  CoverInv'
    OBVIOUS
<1> USE DEF CoverInv
<1>1. CASE ReadPcrs
    <2>1. UNCHANGED <<rawLog, leafCache, lineOffset, report>> /\ pc' = "summary"
        BY <1>1 DEF ReadPcrs
    <2>2. /\ call' \in [pcr10 : Nat, total : Nat]
          /\ call'.pcr10 = Len(rawLog)
        BY <1>1 DEF ReadPcrs, TypeOK
    <2>3. TypeOK' /\ call'.pcr10 <= Len(rawLog')
        BY <2>1, <2>2 DEF TypeOK, Step
    <2> QED BY <2>1, <2>3 DEF LeavesAreNumbered, Covers
<1>2. CASE ReadSummary
    <2>1. Len(ReadLog(rawLog, 0)) \in Nat
        <3>1. SubSeq(rawLog, 0 + 1, Len(rawLog)) \in Seq(Line)
            BY DEF TypeOK
        <3> QED BY <3>1, ParsedEntries DEF ReadLog
    <2> QED BY <1>2, <2>1 DEF ReadSummary, TypeOK, LeavesAreNumbered, Covers, Step
<1>3. CASE CountLines
    <2>1. CASE LineCount(rawLog) < lineOffset
        BY <1>3, <2>1 DEF CountLines, TypeOK, LeavesAreNumbered, Covers, Step, Leaf
    <2>2. CASE ~(LineCount(rawLog) < lineOffset)
        BY <1>3, <2>2 DEF CountLines, TypeOK, LeavesAreNumbered, Covers, Step
    <2> QED BY <2>1, <2>2
<1>4. CASE ReadNewLines
    <2> DEFINE new == LeafHashes(ReadLog(rawLog, lineOffset), lineOffset)
               all == leafCache \o new
    <2>1. /\ new \in Seq(Leaf)
          /\ Len(new) \in Nat
          /\ lineOffset + Len(new) <= Len(rawLog)
          /\ \A k \in 1..Len(new) : new[k][2] = lineOffset + k - 1
          /\ \A i \in (lineOffset + 1)..Len(rawLog) : rawLog[i] # Malformed =>
                 \E k \in 1..Len(new) : new[k][3] = rawLog[i]
        BY NewLeaves DEF TypeOK
    <2>2. leafCache' = all /\ lineOffset' = Len(all) /\ pc' = "quote"
        BY <1>4 DEF ReadNewLines
    <2>3. UNCHANGED <<rawLog, call, report>>
        BY <1>4 DEF ReadNewLines
    <2> HIDE DEF new
    <2>4. /\ all \in Seq(Leaf)
          /\ Len(all) = lineOffset + Len(new)
          /\ \A k \in 1..lineOffset : all[k] = leafCache[k]
          /\ \A k \in 1..Len(new) : all[lineOffset + k] = new[k]
        BY <2>1 DEF TypeOK, LeavesAreNumbered
    <2> HIDE DEF all
    <2>5. \A k \in 1..Len(all) : all[k][2] = k - 1
        <3> SUFFICES ASSUME NEW k \in 1..Len(all) PROVE all[k][2] = k - 1
            OBVIOUS
        <3>1. CASE k <= lineOffset
            <4>1. k \in 1..lineOffset /\ lineOffset \in Nat
                BY <2>1, <2>4, <3>1 DEF TypeOK
            <4>2. k \in DOMAIN leafCache
                BY <4>1 DEF TypeOK, LeavesAreNumbered
            <4>3. leafCache[k][2] = k - 1
                BY <4>2 DEF LeavesAreNumbered
            <4> QED BY <2>4, <4>1, <4>3
        <3>2. CASE k > lineOffset
            <4>1. k - lineOffset \in 1..Len(new) /\ k = lineOffset + (k - lineOffset)
                BY <2>1, <2>4, <3>2 DEF TypeOK
            <4>2. all[k] = new[k - lineOffset]
                BY <2>4, <4>1
            <4>3. new[k - lineOffset][2] = lineOffset + (k - lineOffset) - 1
                BY <2>1, <4>1
            <4> QED BY <4>2, <4>3 DEF TypeOK
        <3> QED BY <3>1, <3>2, <2>1, <2>4 DEF TypeOK
    <2>6. \A i \in 1..Len(rawLog) : rawLog[i] # Malformed =>
              \E k \in 1..Len(all) : all[k][3] = rawLog[i]
        <3> SUFFICES ASSUME NEW i \in 1..Len(rawLog), rawLog[i] # Malformed
                     PROVE  \E k \in 1..Len(all) : all[k][3] = rawLog[i]
            OBVIOUS
        <3>1. CASE i <= lineOffset
            <4>1. PICK k \in 1..Len(leafCache) : leafCache[k][3] = rawLog[i]
                BY <3>1 DEF Covers, TypeOK
            <4>2. k \in 1..Len(all) /\ all[k] = leafCache[k]
                BY <2>1, <2>4 DEF TypeOK, LeavesAreNumbered
            <4> QED BY <4>1, <4>2
        <3>2. CASE i > lineOffset
            <4>1. PICK k \in 1..Len(new) : new[k][3] = rawLog[i]
                BY <2>1, <3>2 DEF TypeOK
            <4>2. lineOffset + k \in 1..Len(all) /\ all[lineOffset + k] = new[k]
                BY <2>1, <2>4 DEF TypeOK
            <4> QED BY <4>1, <4>2
        <3> QED BY <3>1, <3>2 DEF TypeOK
    <2>7. TypeOK'
        BY <2>1, <2>2, <2>3, <2>4 DEF TypeOK, Step
    <2>8. LeavesAreNumbered' /\ lineOffset' <= Len(rawLog)'
        BY <2>1, <2>2, <2>3, <2>4, <2>5 DEF LeavesAreNumbered
    <2>9. /\ Covers(leafCache, lineOffset)'
          /\ Covers(leafCache, call.pcr10)'
          /\ Covers(report.leaves, report.pcr10)'
        <3>1. Len(all) \in Nat /\ call.pcr10 \in Nat /\ Len(all) <= Len(rawLog)
            BY <2>1, <2>4 DEF TypeOK
        <3>2. \A n \in Nat : n <= Len(rawLog) =>
                  \A i \in 1..n : rawLog[i] # Malformed =>
                      \E k \in 1..Len(all) : all[k][3] = rawLog[i]
            BY <2>6 DEF TypeOK
        <3> QED BY <2>2, <2>3, <3>1, <3>2 DEF Covers
    <2> QED BY <2>3, <2>7, <2>8, <2>9
<1>5. CASE Quote
    BY <1>5 DEF Quote, NoCall, TypeOK, LeavesAreNumbered, Covers, Step
<1>6. CASE Fail
    BY <1>6 DEF Fail, NoCall, TypeOK, LeavesAreNumbered, Covers, Step
<1>7. ASSUME NEW l \in Line, Measure(l)
      PROVE  CoverInv'
    <2>1. /\ rawLog' \in Seq(Line)
          /\ Len(rawLog') = Len(rawLog) + 1
          /\ \A i \in 1..Len(rawLog) : rawLog'[i] = rawLog[i]
        BY <1>7 DEF Measure, TypeOK
    <2>2. UNCHANGED <<leafCache, lineOffset, pc, call, report>>
        BY <1>7 DEF Measure
    <2>3. ASSUME NEW leaves, NEW n \in Nat, n <= Len(rawLog), Covers(leaves, n)
          PROVE  \A i \in 1..n : rawLog'[i] # Malformed =>
                     \E k \in 1..Len(leaves) : leaves[k][3] = rawLog'[i]
        <3> SUFFICES ASSUME NEW i \in 1..n, rawLog'[i] # Malformed
                     PROVE  \E k \in 1..Len(leaves) : leaves[k][3] = rawLog'[i]
            OBVIOUS
        <3>1. Len(rawLog) \in Nat
            BY DEF TypeOK
        <3>2. rawLog'[i] = rawLog[i]
            BY <2>1, <2>3, <3>1
        <3> QED BY <2>3, <3>2 DEF Covers
    <2>4. lineOffset \in Nat /\ call.pcr10 \in Nat /\ report.pcr10 \in Nat
        BY DEF TypeOK
    <2>5. Covers(leafCache, lineOffset)'
        <3>1. \A i \in 1..lineOffset : rawLog'[i] # Malformed =>
                  \E k \in 1..Len(leafCache) : leafCache[k][3] = rawLog'[i]
            BY <2>3, <2>4
        <3> QED BY <2>2, <3>1 DEF Covers
    <2>6. (pc = "quote" => Covers(leafCache, call.pcr10))'
        <3>1. pc = "quote" =>
                  \A i \in 1..call.pcr10 : rawLog'[i] # Malformed =>
                      \E k \in 1..Len(leafCache) : leafCache[k][3] = rawLog'[i]
            BY <2>3, <2>4
        <3> QED BY <2>2, <3>1 DEF Covers
    <2>7. Covers(report.leaves, report.pcr10)'
        <3>1. \A i \in 1..report.pcr10 : rawLog'[i] # Malformed =>
                  \E k \in 1..Len(report.leaves) :
                      report.leaves[k][3] = rawLog'[i]
            BY <2>3, <2>4
        <3> QED BY <2>2, <3>1 DEF Covers
    <2> QED BY <2>1, <2>2, <2>5, <2>6, <2>7 DEF TypeOK, LeavesAreNumbered
<1>8. CASE RestartShim
    BY <1>8 DEF RestartShim, ForgetAll, NoCall, NoReport, TypeOK,
                LeavesAreNumbered, Covers, Step, Leaf
<1>9. CASE Reboot
    BY <1>9 DEF Reboot, ForgetAll, NoCall, NoReport, TypeOK,
                LeavesAreNumbered, Covers, Step, Leaf
<1>10. CASE UNCHANGED vars
    BY <1>10 DEF vars, TypeOK, LeavesAreNumbered, Covers
<1> QED BY <1>1, <1>2, <1>3, <1>4, <1>5, <1>6, <1>7, <1>8, <1>9, <1>10 DEF Next

LEMMA Covering == Spec => []CoverInv
BY CoverInit, CoverNext, PTL DEF Spec

(* The collector's variables keep their types, whatever is in the log.      *)
THEOREM CollectTypeCorrect == Spec => []TypeOK
<1>1. CoverInv => TypeOK
    BY DEF CoverInv
<1> QED BY <1>1, Covering, PTL

(* The cache never loses its numbering: _IMA_LINE_OFFSET is the number of   *)
(* leaves, and leaf k is hashed with position k.                            *)
THEOREM CacheNumbered == Spec => []LeavesAreNumbered
<1>1. CoverInv => LeavesAreNumbered
    BY DEF CoverInv
<1> QED BY <1>1, Covering, PTL

(* No report of _collect_report_incremental leaves out an entry that was    *)
(* extended into the PCR 10 it carries, malformed lines or not.             *)
THEOREM NothingLost == Spec => []NoMeasurementLost
<1>1. CoverInv => NoMeasurementLost
    BY DEF CoverInv, Covers, NoMeasurementLost, TypeOK
<1> QED BY <1>1, Covering, PTL

-----------------------------------------------------------------------------
(***************************************************************************)
(* What the root of a report tells.                                        *)
(***************************************************************************)
(* The Merkle tree of the report is the one that MerkleProofs is about; its *)
(* variable, the log of MerkleCheck, plays no part in its lemmas.           *)
Trees == INSTANCE MerkleProofs WITH log <- rawLog, MaxLen <- 0

LEMMA SameTrees == \A log : Trees!BuildTree(log) = BuildTree(log)
<1>1. \A s : Trees!Layers(s) = Layers(s)
    BY DEF Trees!Layers, Layers, Trees!Round, Round, Trees!Paired, Paired,
           Trees!Padded, Padded, Trees!Pair, Pair
<1>2. \A s : Trees!Depth(s) = Depth(s)
    BY <1>1 DEF Trees!Depth, Depth
<1>3. \A s : Trees!TreeOf(s) = TreeOf(s)
    BY <1>1, <1>2 DEF Trees!TreeOf, TreeOf, Trees!EmptyHash, EmptyHash
<1>4. \A log : Trees!LeafHashes(log, 0) = LeafHashes(log, 0)
    BY DEF Trees!LeafHashes, LeafHashes, Trees!LeafHash, LeafHash
<1> QED BY <1>3, <1>4 DEF Trees!BuildTree, BuildTree

LEMMA OneLogPerRoot ==
    ASSUME NEW a \in Seq(Entries), NEW b \in Seq(Entries),
           BuildTree(a).root = BuildTree(b).root
    PROVE  a = b
<1>1. Trees!BuildTree(a).root = Trees!BuildTree(b).root
    BY SameTrees
<1> QED BY <1>1, MalformedAssumption, Trees!RootIsInjective

Genuine(leaves) ==
    \A k \in 1..Len(leaves) : \E i \in 1..Len(rawLog) : rawLog[i] = leaves[k][3]

ReportInv ==
    /\ \A k \in 1..Len(report.leaves) : report.leaves[k][2] = k - 1
    /\ Genuine(leafCache)
    /\ Genuine(report.leaves)

LEMMA ReportInit == Init => ReportInv
BY DEF Init, ReportInv, Genuine, NoReport

(* Only collecting adds leaves, and only the quote makes a report of them.  *)
LEMMA ReportNext == CoverInv /\ ReportInv /\ [Next]_vars => ReportInv'
<1> SUFFICES ASSUME CoverInv, ReportInv, [Next]_vars
             PROVE  ReportInv'
    OBVIOUS
<1>0. TypeOK /\ LeavesAreNumbered
    BY DEF CoverInv
<1>1. CASE UNCHANGED <<rawLog, leafCache, report>>
    BY <1>1 DEF ReportInv, Genuine
<1>2. CASE CountLines
    BY <1>2 DEF CountLines, ReportInv, Genuine
<1>3. CASE ReadNewLines
    <2> DEFINE new == LeafHashes(ReadLog(rawLog, lineOffset), lineOffset)
               all == leafCache \o new
    <2>1. /\ new \in Seq(Leaf)
          /\ Len(new) \in Nat
          /\ \A k \in 1..Len(new) :
                \E i \in 1..Len(rawLog) : rawLog[i] = new[k][3]
        BY <1>0, NewLeaves DEF TypeOK, CoverInv
    <2>2. leafCache' = all /\ UNCHANGED <<rawLog, report>>
        BY <1>3 DEF ReadNewLines
    <2> HIDE DEF new
    <2>3. /\ Len(all) = Len(leafCache) + Len(new) /\ Len(leafCache) \in Nat
          /\ \A k \in 1..Len(leafCache) : all[k] = leafCache[k]
          /\ \A k \in 1..Len(new) : all[Len(leafCache) + k] = new[k]
        BY <1>0, <2>1 DEF TypeOK
    <2> HIDE DEF all
    <2>4. ASSUME NEW k \in 1..Len(all)
          PROVE  \E i \in 1..Len(rawLog) : rawLog[i] = all[k][3]
        <3>1. CASE k <= Len(leafCache)
            <4>1. k \in 1..Len(leafCache)
                BY <2>3, <3>1
            <4> QED BY <2>3, <4>1 DEF ReportInv, Genuine
        <3>2. CASE k > Len(leafCache)
            <4>1. PICK j \in 1..Len(new) : k = Len(leafCache) + j
                <5>1. /\ k - Len(leafCache) \in 1..Len(new)
                      /\ k = Len(leafCache) + (k - Len(leafCache))
                    BY <2>1, <2>3, <3>2
                <5> QED BY <5>1
            <4> QED BY <2>1, <2>3, <4>1
        <3> QED BY <2>1, <2>3, <3>1, <3>2
    <2> QED BY <2>2, <2>4 DEF ReportInv, Genuine
<1>4. CASE Quote
    <2>1. report'.leaves = leafCache /\ UNCHANGED <<rawLog, leafCache>>
        BY <1>4 DEF Quote
    <2>2. \A k \in 1..Len(leafCache) : leafCache[k][2] = k - 1
        BY <1>0 DEF TypeOK, LeavesAreNumbered
    <2> QED BY <2>1, <2>2 DEF ReportInv, Genuine
<1>5. ASSUME NEW l \in Line, Measure(l)
      PROVE  ReportInv'
    <2>1. /\ Len(rawLog') = Len(rawLog) + 1 /\ Len(rawLog) \in Nat
          /\ \A i \in 1..Len(rawLog) : rawLog'[i] = rawLog[i]
        BY <1>0, <1>5 DEF Measure, TypeOK
    <2>2. \A i \in 1..Len(rawLog) : i \in 1..Len(rawLog')
        BY <2>1
    <2>3. ASSUME NEW leaves, Genuine(leaves)
          PROVE  \A k \in 1..Len(leaves) :
                     \E i \in 1..Len(rawLog') : rawLog'[i] = leaves[k][3]
        BY <2>1, <2>2, <2>3 DEF Genuine
    <2>4. UNCHANGED <<leafCache, report>>
        BY <1>5 DEF Measure
    <2> QED BY <2>3, <2>4 DEF ReportInv, Genuine
<1>6. CASE ForgetAll
    BY <1>6 DEF ForgetAll, NoReport, ReportInv, Genuine
<1> QED
    BY <1>1, <1>2, <1>3, <1>4, <1>5, <1>6
    DEF Next, vars, ReadPcrs, ReadSummary, Fail, RestartShim, Reboot

(* The leaves of a report are those of some log, and of no other.           *)
LEMMA ReportOfLog ==
    ASSUME CoverInv, ReportInv
    PROVE  RootTells(Seq(Entries))
<1> DEFINE leaves == report.leaves
           own == [k \in 1..Len(leaves) |-> leaves[k][3]]
<1>1. leaves \in Seq(Leaf) /\ Len(leaves) \in Nat
    BY DEF CoverInv, TypeOK
<1>2. own \in Seq(Entries) /\ DOMAIN own = 1..Len(leaves)
    <2>1. \A k \in 1..Len(leaves) : leaves[k][3] \in Entries
        BY <1>1 DEF Leaf
    <2> HIDE DEF leaves
    <2> QED BY <1>1, <2>1
<1>3. LeafHashes(own, 0) = leaves
    <2>1. \A k \in 1..Len(leaves) :
             leaves[k] = <<"leaf", 0 + k - 1, leaves[k][3]>>
        <3> SUFFICES ASSUME NEW k \in 1..Len(leaves)
                     PROVE  leaves[k] = <<"leaf", 0 + k - 1, leaves[k][3]>>
            OBVIOUS
        <3>1. leaves[k] \in Leaf /\ leaves[k][2] = k - 1 /\ 0 + k - 1 = k - 1
            BY <1>1 DEF ReportInv
        <3> QED BY <3>1 DEF Leaf
    <2>2. LeafHashes(own, 0) =
              [k \in 1..Len(leaves) |-> <<"leaf", 0 + k - 1, leaves[k][3]>>]
        BY <1>2 DEF LeafHashes, LeafHash
    <2>3. leaves = [k \in 1..Len(leaves) |-> leaves[k]]
        BY <1>1
    <2> HIDE DEF leaves, own
    <2> QED BY <2>1, <2>2, <2>3
<1> SUFFICES ASSUME NEW log \in Seq(Entries),
                    BuildTree(log).root = TreeOf(leaves).root
             PROVE  /\ \A i \in 1..report.pcr10 : rawLog[i] # Malformed =>
                           \E k \in DOMAIN log : log[k] = rawLog[i]
                    /\ \A k \in DOMAIN log :
                           \E i \in DOMAIN rawLog : rawLog[i] = log[k]
    BY DEF RootTells
<1>4. log = own
    <2>1. BuildTree(own) = TreeOf(leaves)
        BY <1>3 DEF BuildTree
    <2> HIDE DEF own, leaves
    <2> QED BY <1>2, <2>1, OneLogPerRoot
<1>5. ASSUME NEW i \in 1..report.pcr10, rawLog[i] # Malformed
      PROVE  \E k \in DOMAIN own : own[k] = rawLog[i]
    BY <1>2, <1>5 DEF CoverInv, Covers
<1>6. ASSUME NEW k \in DOMAIN own
      PROVE  \E i \in DOMAIN rawLog : rawLog[i] = own[k]
    <2>1. DOMAIN rawLog = 1..Len(rawLog)
        BY DEF CoverInv, TypeOK
    <2> QED BY <1>2, <2>1 DEF ReportInv, Genuine
<1> HIDE DEF own
<1> QED BY <1>4, <1>5, <1>6

(* A report of _collect_report_incremental whose root is that of a log, of  *)
(* any length, tells that every entry extended into its PCR 10 is in that   *)
(* log and every entry of that log was measured: after malformed lines,     *)
(* failures, flushes and restarts, what the server compares with the pinned *)
(* root is the machine's log.                                               *)
THEOREM RootTellsEveryLog == Spec => []RootTells(Seq(Entries))
<1>1. CoverInv /\ ReportInv => RootTells(Seq(Entries))
    BY ReportOfLog
<1> QED BY <1>1, Covering, ReportInit, ReportNext, PTL DEF Spec

(* The same for the logs that the run compares.                             *)
THEOREM RootTellsShortLogs == Spec => []RootTellsTheLog
<1>1. RootTells(Seq(Entries)) /\ TypeOK => RootTellsTheLog
    <2>1. TypeOK => LogsUpTo(Len(rawLog)) \subseteq Seq(Entries)
        BY DEF LogsUpTo, TypeOK
    <2> QED BY <2>1 DEF RootTells, RootTellsTheLog
<1> QED BY <1>1, RootTellsEveryLog, CollectTypeCorrect, PTL

-----------------------------------------------------------------------------
(***************************************************************************)
(* Logs that parse.  While every line does, the cache is what a full       *)
(* rebuild of the first lineOffset lines gives: counting lines and         *)
(* counting entries is then the same, so the offset never goes astray and  *)
(* the cache is never flushed.                                             *)
(***************************************************************************)
AllParse(log) == \A i \in 1..Len(log) : log[i] # Malformed

Rebuild(log, n) == LeafHashes(SubSeq(log, 1, n), 0)

CleanInv ==
    AllParse(rawLog) =>
        /\ leafCache = Rebuild(rawLog, lineOffset)
        /\ call.pcr10 <= call.total \/ pc \in {"pcrs", "summary"}
        /\ call.total <= Len(rawLog)
        /\ pc = "quote" => call.total <= lineOffset
        /\ report.pcr10 <= report.total
        /\ report.total <= Len(report.leaves)
        /\ Len(report.leaves) <= Len(rawLog)
        /\ report.leaves = Rebuild(rawLog, Len(report.leaves))

LEMMA CleanMeansAllParse ==
    ASSUME rawLog \in Seq(Line)
    PROVE  Clean <=> AllParse(rawLog)
<1>1. DOMAIN rawLog = 1..Len(rawLog)
    OBVIOUS
<1> QED BY <1>1 DEF Clean, WellFormed, AllParse

(* Reading from an offset of a log that parses gives the lines themselves.  *)
LEMMA CleanRead ==
    ASSUME NEW log \in Seq(Line), AllParse(log), NEW off \in Nat, off <= Len(log)
    PROVE  /\ ReadLog(log, off) = SubSeq(log, off + 1, Len(log))
           /\ LineCount(log) = Len(log)
<1>1. SubSeq(log, off + 1, Len(log)) \in Seq(Line)
    OBVIOUS
<1>2. \A i \in 1..Len(SubSeq(log, off + 1, Len(log))) :
          SubSeq(log, off + 1, Len(log))[i] # Malformed
    BY DEF AllParse
<1>3. ReadLog(log, off) = SubSeq(log, off + 1, Len(log))
    BY <1>1, <1>2, ParsedClean DEF ReadLog
<1>4. Parsed(log) = log
    BY ParsedClean DEF AllParse
<1> QED BY <1>3, <1>4 DEF LineCount

(* The leaves of the first lines and those of the rest, numbered on, are    *)
(* the leaves of all of them.                                               *)
LEMMA LeavesJoin ==
    ASSUME NEW log \in Seq(Line), NEW off \in Nat, off <= Len(log)
    PROVE  LeafHashes(SubSeq(log, 1, off), 0)
               \o LeafHashes(SubSeq(log, off + 1, Len(log)), off)
           = LeafHashes(log, 0)
<1> DEFINE first == SubSeq(log, 1, off)
           rest  == SubSeq(log, off + 1, Len(log))
           L     == LeafHashes(first, 0)
           R     == LeafHashes(rest, off)
           all   == LeafHashes(log, 0)
<1>1. /\ first \in Seq(Line) /\ Len(first) = off
      /\ \A i \in 1..off : first[i] = log[i]
      /\ rest \in Seq(Line) /\ Len(rest) = Len(log) - off
      /\ \A i \in 1..(Len(log) - off) : rest[i] = log[off + i]
    OBVIOUS
<1> HIDE DEF first, rest
<1>2. /\ L = [i \in 1..off |-> <<"leaf", i - 1, first[i]>>]
      /\ R = [i \in 1..(Len(log) - off) |-> <<"leaf", off + i - 1, rest[i]>>]
      /\ all = [i \in 1..Len(log) |-> <<"leaf", i - 1, log[i]>>]
    BY <1>1 DEF LeafHashes, LeafHash
<1> DEFINE S == {"leaf"} \X Int \X Line
<1>3. /\ \A i \in 1..off : <<"leaf", i - 1, first[i]>> \in S
      /\ \A i \in 1..(Len(log) - off) : <<"leaf", off + i - 1, rest[i]>> \in S
      /\ \A i \in 1..Len(log) : <<"leaf", i - 1, log[i]>> \in S
    BY <1>1
<1> HIDE DEF S, L, R, all
<1>4. /\ L \in Seq(S) /\ Len(L) = off
      /\ R \in Seq(S) /\ Len(R) = Len(log) - off
      /\ all \in Seq(S) /\ Len(all) = Len(log)
    BY <1>2, <1>3
<1>5. L \o R \in Seq(S) /\ Len(L \o R) = Len(all)
    BY <1>4
<1>6. ASSUME NEW i \in 1..Len(log)
      PROVE  (L \o R)[i] = all[i]
    <2>1. CASE i <= off
        <3>1. i \in 1..off
            BY <2>1
        <3>2. (L \o R)[i] = L[i]
            BY <1>4, <3>1
        <3>3. L[i] = <<"leaf", i - 1, first[i]>> /\ all[i] = <<"leaf", i - 1, log[i]>>
            BY <1>2, <3>1
        <3> QED BY <1>1, <3>1, <3>2, <3>3
    <2>2. CASE i > off
        <3>1. i - off \in 1..(Len(log) - off)
            BY <2>2
        <3>2. (L \o R)[i] = R[i - off]
            BY <1>4, <2>2
        <3>3. off + (i - off) = i
            OBVIOUS
        <3>4. R[i - off] = <<"leaf", off + (i - off) - 1, rest[i - off]>>
            BY <1>2, <3>1
        <3>5. rest[i - off] = log[i]
            BY <1>1, <3>1, <3>3
        <3>6. all[i] = <<"leaf", i - 1, log[i]>>
            BY <1>2
        <3> QED BY <3>2, <3>3, <3>4, <3>5, <3>6
    <2>3. i <= off \/ i > off
        OBVIOUS
    <2> QED BY <2>1, <2>2, <2>3
<1>7. L \o R = all
    BY <1>4, <1>5, <1>6, SeqEqual
<1> QED BY <1>7 DEF L, R, all, first, rest

(* What the new lines make of the cache.                                    *)
LEMMA CleanCache ==
    ASSUME TypeOK, AllParse(rawLog), lineOffset <= Len(rawLog),
           leafCache = Rebuild(rawLog, lineOffset)
    PROVE  leafCache \o LeafHashes(ReadLog(rawLog, lineOffset), lineOffset)
           = Rebuild(rawLog, Len(rawLog))
<1>1. rawLog \in Seq(Line) /\ lineOffset \in Nat /\ Len(rawLog) \in Nat
    BY DEF TypeOK
<1>2. ReadLog(rawLog, lineOffset) = SubSeq(rawLog, lineOffset + 1, Len(rawLog))
    BY <1>1, CleanRead
<1>3. SubSeq(rawLog, 1, Len(rawLog)) = rawLog
    BY <1>1
<1> QED BY <1>1, <1>2, <1>3, LeavesJoin DEF Rebuild

LEMMA RebuildLength ==
    ASSUME NEW log \in Seq(Line), NEW n \in Nat, n <= Len(log)
    PROVE  Len(Rebuild(log, n)) = n
<1>1. SubSeq(log, 1, n) \in Seq(Line) /\ Len(SubSeq(log, 1, n)) = n
    OBVIOUS
<1> QED BY <1>1 DEF Rebuild, LeafHashes

\* A line more does not change what the first lines give.
LEMMA RebuildStays ==
    ASSUME NEW log \in Seq(Line), NEW l \in Line, NEW n \in Nat, n <= Len(log)
    PROVE  Rebuild(Append(log, l), n) = Rebuild(log, n)
<1>1. SubSeq(Append(log, l), 1, n) = SubSeq(log, 1, n)
    OBVIOUS
<1> QED BY <1>1 DEF Rebuild

LEMMA RebuildEmpty ==
    ASSUME NEW log \in Seq(Line)
    PROVE  Rebuild(log, 0) = << >>
<1>1. SubSeq(log, 1, 0) = << >>
    OBVIOUS
<1> QED BY <1>1 DEF Rebuild, LeafHashes

LEMMA CleanInit == Init => CleanInv
<1> SUFFICES ASSUME Init PROVE CleanInv
    OBVIOUS
<1>1. rawLog \in Seq(Line) /\ Len(rawLog) = 0 /\ lineOffset = 0
    BY DEF Init
<1>2. Rebuild(rawLog, 0) = << >>
    BY <1>1, RebuildEmpty
<1> QED BY <1>1, <1>2 DEF Init, CleanInv, NoCall, NoReport

LEMMA CleanNext == CoverInv /\ CleanInv /\ [Next]_vars => CleanInv'
<1> SUFFICES ASSUME CoverInv, CleanInv, [Next]_vars, AllParse(rawLog')
             PROVE  CleanInv'
    BY DEF CleanInv
<1> USE DEF CoverInv
<1>0. /\ rawLog \in Seq(Line) /\ Len(rawLog) \in Nat
      /\ lineOffset \in Nat /\ lineOffset <= Len(rawLog)
      /\ call \in [pcr10 : Nat, total : Nat]
      /\ report.pcr10 \in Nat /\ report.total \in Nat
      /\ Len(report.leaves) \in Nat
    BY DEF TypeOK
<1>1. CASE ReadPcrs
    BY <1>0, <1>1 DEF ReadPcrs, CleanInv
<1>2. CASE ReadSummary
    <2>1. Len(ReadLog(rawLog, 0)) = Len(rawLog)
        <3>1. rawLog' = rawLog /\ 0 \in Nat /\ 0 <= Len(rawLog)
            BY <1>0, <1>2 DEF ReadSummary
        <3>2. ReadLog(rawLog, 0) = SubSeq(rawLog, 0 + 1, Len(rawLog))
            BY <1>0, <3>1, CleanRead
        <3> QED BY <1>0, <3>2
    <2> QED BY <1>0, <1>2, <2>1 DEF ReadSummary, CleanInv
<1>3. CASE CountLines
    <2>1. LineCount(rawLog) = Len(rawLog)
        BY <1>0, <1>3, CleanRead DEF CountLines
    <2> QED BY <1>0, <1>3, <2>1 DEF CountLines, CleanInv
<1>4. CASE ReadNewLines
    <2>1. leafCache \o LeafHashes(ReadLog(rawLog, lineOffset), lineOffset)
          = Rebuild(rawLog, Len(rawLog))
        BY <1>0, <1>4, CleanCache DEF ReadNewLines, CleanInv
    <2>2. /\ leafCache' = Rebuild(rawLog, Len(rawLog))
          /\ lineOffset' = Len(rawLog)
          /\ UNCHANGED <<rawLog, call, report>>
          /\ pc = "read" /\ pc' = "quote"
        BY <1>0, <1>4, <2>1, RebuildLength DEF ReadNewLines
    <2> QED BY <1>0, <2>2 DEF CleanInv
<1>5. CASE Quote
    <2>1. Len(leafCache) = lineOffset
        BY DEF LeavesAreNumbered
    <2> QED BY <1>0, <1>5, <2>1 DEF Quote, CleanInv, NoCall
<1>6. CASE Fail
    BY <1>0, <1>6 DEF Fail, CleanInv, NoCall
<1>7. ASSUME NEW l \in Line, Measure(l)
      PROVE  CleanInv'
    <2>1. /\ rawLog' = Append(rawLog, l)
          /\ UNCHANGED <<leafCache, lineOffset, pc, call, report>>
        BY <1>7 DEF Measure
    <2>2. /\ Len(rawLog') = Len(rawLog) + 1
          /\ \A i \in 1..Len(rawLog) : rawLog'[i] = rawLog[i]
        BY <1>0, <2>1
    <2>3. AllParse(rawLog)
        BY <1>0, <2>2 DEF AllParse
    <2>4. /\ Rebuild(rawLog', lineOffset) = Rebuild(rawLog, lineOffset)
          /\ Rebuild(rawLog', Len(report.leaves))
             = Rebuild(rawLog, Len(report.leaves))
        BY <1>0, <2>1, <2>3, RebuildStays DEF CleanInv
    <2> QED BY <1>0, <2>1, <2>2, <2>3, <2>4 DEF CleanInv
<1>8. CASE RestartShim \/ Reboot
    <2>1. rawLog' \in Seq(Line) /\ Len(rawLog') \in Nat
        <3>1. rawLog' = rawLog \/ rawLog' = << >>
            BY <1>8 DEF RestartShim, Reboot
        <3>2. << >> \in Seq(Line) /\ Len(<< >>) = 0
            BY EmptySeq
        <3> QED BY <1>0, <3>1, <3>2
    <2>2. Rebuild(rawLog', 0) = << >>
        BY <2>1, RebuildEmpty
    <2>3. /\ leafCache' = << >> /\ lineOffset' = 0
          /\ pc' = "pcrs" /\ call' = NoCall /\ report' = NoReport
        BY <1>8 DEF RestartShim, Reboot, ForgetAll
    <2> QED BY <2>1, <2>2, <2>3 DEF NoCall, NoReport, CleanInv
<1>9. CASE UNCHANGED vars
    BY <1>9 DEF vars, CleanInv
<1> QED BY <1>1, <1>2, <1>3, <1>4, <1>5, <1>6, <1>7, <1>8, <1>9 DEF Next

LEMMA Rebuilding == Spec => [](CoverInv /\ CleanInv)
BY CoverInit, CoverNext, CleanInit, CleanNext, PTL DEF Spec

(* On a log that parses, every report of the shim is a full rebuild of the  *)
(* log at one moment of the call, after PCR 10 and the summary were read.   *)
THEOREM RebuildOnCleanLogs == Spec => []CleanReportIsRebuild
<1>1. CoverInv /\ CleanInv => CleanReportIsRebuild
    BY CleanMeansAllParse
       DEF CoverInv, TypeOK, CleanInv, CleanReportIsRebuild, Rebuild
<1> QED BY <1>1, Rebuilding, PTL

-----------------------------------------------------------------------------
(***************************************************************************)
(* The incremental collection implements generate_report.  Only the step   *)
(* that reads the new lines needs the invariant.                           *)
(***************************************************************************)
LEMMA SameLog ==
    /\ Agent!Line = Line
    /\ \A log, n : Agent!ReadLog(log, n) = ReadLog(log, n)
    /\ \A entries, n : Agent!LeafHashes(entries, n) = LeafHashes(entries, n)
<1>1. Agent!Line = Line
    BY DEF Agent!Line, Line
<1>2. \A lines : Agent!Parsed(lines) = Parsed(lines)
    BY DEF Agent!Parsed, Parsed, Agent!WellFormed, WellFormed,
           Agent!Rank, Rank, Agent!Cardinality, Cardinality
<1>3. \A log, n : Agent!ReadLog(log, n) = ReadLog(log, n)
    BY <1>2 DEF Agent!ReadLog, ReadLog
<1>4. \A entries, n : Agent!LeafHashes(entries, n) = LeafHashes(entries, n)
    BY DEF Agent!LeafHashes, LeafHashes, Agent!LeafHash, LeafHash
<1> QED BY <1>1, <1>3, <1>4

LEMMA CallUpdates ==
    ASSUME NEW a, NEW b, NEW c, NEW x
    PROVE  LET r == [pcr10 |-> a, total |-> b, leaves |-> c]
           IN  /\ [r EXCEPT !.pcr10 = x]
                  = [pcr10 |-> x, total |-> b, leaves |-> c]
               /\ [r EXCEPT !.total = x]
                  = [pcr10 |-> a, total |-> x, leaves |-> c]
               /\ [r EXCEPT !.leaves = x]
                  = [pcr10 |-> a, total |-> b, leaves |-> x]
OBVIOUS

LEMMA AgentInit == Init => Agent!Init
BY DEF Init, NoCall, NoReport, Agent!Init, Agent!Nothing

LEMMA AgentNext ==
    CoverInv /\ CleanInv /\ [Next]_vars =>
        ((pc = "read" => Clean \/ lineOffset = 0) => [Agent!Next]_(Agent!vars))
<1> SUFFICES ASSUME CoverInv, CleanInv, [Next]_vars,
                    pc = "read" => Clean \/ lineOffset = 0
             PROVE  [Agent!Next]_(Agent!vars)
    OBVIOUS
<1> USE DEF CoverInv
<1>0. call \in [pcr10 : Nat, total : Nat] /\ rawLog \in Seq(Line)
    BY DEF TypeOK
<1>1. CASE ReadPcrs
    <2>1. /\ pc = "pcrs" /\ pc' = "summary"
          /\ call'.pcr10 = Len(rawLog) /\ call'.total = 0
          /\ UNCHANGED <<rawLog, report>>
        BY <1>1 DEF ReadPcrs
    <2> QED BY <2>1, CallUpdates DEF Agent!ReadPcrs, Agent!Next, Agent!Nothing
<1>2. CASE ReadSummary
    <2>1. /\ pc = "summary" /\ pc' = "count"
          /\ UNCHANGED <<rawLog, report>>
        BY <1>2 DEF ReadSummary
    <2>2. /\ call'.pcr10 = call.pcr10
          /\ call'.total = Len(Agent!ReadLog(rawLog, 0))
        BY <1>0, <1>2, SameLog DEF ReadSummary
    <2> QED BY <2>1, <2>2, CallUpdates DEF Agent!ReadSummary, Agent!Next
<1>3. CASE CountLines
    BY <1>3 DEF CountLines, Agent!vars
<1>4. CASE ReadNewLines
    <2>1. leafCache' = LeafHashes(ReadLog(rawLog, 0), 0)
        <3>0. leafCache' = leafCache
                           \o LeafHashes(ReadLog(rawLog, lineOffset), lineOffset)
            BY <1>4 DEF ReadNewLines
        <3>1. CASE lineOffset = 0
            <4> DEFINE new == LeafHashes(ReadLog(rawLog, 0), 0)
            <4>1. new \in Seq(Leaf)
                BY <3>1, NewLeaves DEF TypeOK
            <4>2. leafCache \in Seq(Leaf) /\ Len(leafCache) = 0
                BY <3>1 DEF TypeOK, LeavesAreNumbered
            <4>3. leafCache = << >>
                BY <4>2, EmptySeq
            <4>4. leafCache' = leafCache \o new
                BY <3>0, <3>1
            <4> HIDE DEF new
            <4>5. leafCache' = new
                BY <4>1, <4>3, <4>4
            <4> QED BY <4>5 DEF new
        <3>2. CASE lineOffset # 0
            <4>1. AllParse(rawLog)
                BY <1>4, <3>2, CleanMeansAllParse DEF ReadNewLines, TypeOK
            <4>2. leafCache' = Rebuild(rawLog, Len(rawLog))
                BY <3>0, <4>1, CleanCache DEF CleanInv
            <4>3. 0 \in Nat /\ 0 <= Len(rawLog)
                BY <1>0
            <4>4. ReadLog(rawLog, 0) = SubSeq(rawLog, 0 + 1, Len(rawLog))
                BY <1>0, <4>1, <4>3, CleanRead
            <4>5. 0 + 1 = 1
                OBVIOUS
            <4> HIDE DEF CoverInv
            <4> QED BY <4>2, <4>4, <4>5 DEF Rebuild
        <3> QED BY <3>1, <3>2
    <2>2. /\ pc = "read" /\ pc' = "quote"
          /\ UNCHANGED <<rawLog, call, report>>
        BY <1>4 DEF ReadNewLines
    <2>3. leafCache' = Agent!LeafHashes(Agent!ReadLog(rawLog, 0), 0)
        BY <2>1, SameLog
    <2> QED BY <2>2, <2>3, CallUpdates DEF Agent!BuildTree, Agent!Next
<1>5. CASE Quote
    BY <1>5 DEF Quote, NoCall, Agent!Quote, Agent!Next, Agent!Nothing
<1>6. CASE Fail
    <2>1. pc \in Step /\ pc # "pcrs"
        BY <1>6 DEF Fail, TypeOK
    <2> QED BY <1>6, <2>1 DEF Fail, NoCall, Agent!Fail, Agent!Next,
                              Agent!Nothing, Step
<1>7. ASSUME NEW l \in Line, Measure(l)
      PROVE  Agent!Next
    <2>1. l \in Agent!Line
        BY SameLog
    <2>2. Agent!Measure(l)
        <3>1. /\ rawLog' = Append(rawLog, l)
              /\ pc' = pc /\ call' = call
              /\ leafCache' = leafCache /\ report' = report
            BY <1>7 DEF Measure
        <3> QED BY <3>1 DEF Agent!Measure
    <2> QED BY <2>1, <2>2 DEF Agent!Next
<1>8. CASE RestartShim \/ Reboot
    BY <1>8 DEF RestartShim, Reboot, ForgetAll, NoCall, NoReport,
                Agent!Restart, Agent!Next, Agent!Nothing
<1>9. CASE UNCHANGED vars
    BY <1>9 DEF vars, Agent!vars
<1> QED BY <1>1, <1>2, <1>3, <1>4, <1>5, <1>6, <1>7, <1>8, <1>9 DEF Next

(* A call that finds nothing cached, or a log that parses, does what        *)
(* generate_report does, whatever happened before.                          *)
THEOREM ShimActsAsAgent == Spec => ActsAsAgent
BY AgentInit, AgentNext, Rebuilding, PTL DEF Spec, ActsAsAgent

=============================================================================
