---------------------------- MODULE NatRecursion ----------------------------
(***************************************************************************)
(* Induction and primitive recursion over the naturals in a form that      *)
(* needs no theorem with an operator as its parameter: induction is about  *)
(* a set of naturals, and the step of a recursion is a constant of this    *)
(* module, given by whoever takes an instance of it.                       *)
(***************************************************************************)
EXTENDS Integers, WellFoundedInduction, TLAPS

CONSTANT Step(_, _)     \* the value for k + 1, from k and the value for k

(* Every set of naturals that is not empty has a least element.             *)
LEMMA LeastNatural ==
    ASSUME NEW S \in SUBSET Nat, S # {}
    PROVE  \E m \in S : \A k \in S : m <= k
<1> DEFINE R == { ss \in Nat \X Nat : ss[1] < ss[2] }
<1>1. IsWellFoundedOn(R, Nat)
  <2>1. OpToRel(<, Nat) = R
    BY DEF OpToRel
  <2> QED
    BY <2>1, NatLessThanWellFounded
<1>2. PICK m \in S : \A k \in S : ~ (<<k, m>> \in R)
  <2> HIDE DEF R
  <2> QED
    BY <1>1, WFMin
<1>3. ASSUME NEW k \in S PROVE m <= k
  <2>1. m \in Nat /\ k \in Nat /\ ~ (<<k, m>> \in R)
    BY <1>2
  <2> QED
    BY <2>1
<1> QED
  BY <1>3

(* Induction: a set with 0 and with every successor has all naturals.       *)
LEMMA SetInduction ==
    ASSUME NEW S, 0 \in S, \A n \in Nat : n \in S => n + 1 \in S
    PROVE  \A n \in Nat : n \in S
<1> DEFINE T == Nat \ S
<1>1. SUFFICES ASSUME T # {} PROVE FALSE
  OBVIOUS
<1>2. PICK m \in T : \A k \in T : m <= k
  <2> HIDE DEF T
  <2>1. T \in SUBSET Nat
    BY DEF T
  <2> QED
    BY <1>1, <2>1, LeastNatural
<1>3. m - 1 \in T
  BY <1>2
<1> QED
  BY <1>2, <1>3

-----------------------------------------------------------------------------
(***************************************************************************)
(* A recursive function is a CHOOSE: that it satisfies its equation is to  *)
(* be shown.  Its values up to n are a finite table; tables agree where    *)
(* both are defined, and the function reads the diagonal.                  *)
(***************************************************************************)
Table(base, n, g) ==
    g = [k \in 0..n |-> IF k = 0 THEN base ELSE Step(k - 1, g[k - 1])]

LEMMA TableValue ==
    ASSUME NEW base, NEW n \in Nat, NEW g, Table(base, n, g)
    PROVE  /\ g[0] = base
           /\ \A k \in 1..n : g[k] = Step(k - 1, g[k - 1])
<1> DEFINE h == [k \in 0..n |-> IF k = 0 THEN base ELSE Step(k - 1, g[k - 1])]
<1>1. g = h
  BY DEF Table
<1>2. h[0] = base
  OBVIOUS
<1>3. ASSUME NEW k \in 1..n PROVE h[k] = Step(k - 1, g[k - 1])
  OBVIOUS
<1> HIDE DEF h
<1> QED
  BY <1>1, <1>2, <1>3

LEMMA TablesAgree ==
    ASSUME NEW base, NEW n \in Nat, NEW m \in Nat, NEW g, NEW h,
           Table(base, n, g), Table(base, m, h)
    PROVE  \A k \in Nat : k <= n /\ k <= m => g[k] = h[k]
<1> DEFINE S == { k \in Nat : k <= n /\ k <= m => g[k] = h[k] }
<1>1. 0 \in S
  BY TableValue
<1>2. ASSUME NEW k \in Nat, k \in S PROVE k + 1 \in S
  <2>1. SUFFICES ASSUME k + 1 <= n, k + 1 <= m PROVE g[k + 1] = h[k + 1]
    OBVIOUS
  <2>2. /\ k + 1 \in 1..n /\ k + 1 \in 1..m
        /\ (k + 1) - 1 = k /\ g[k] = h[k]
    BY <1>2, <2>1
  <2>3. /\ \A i \in 1..n : g[i] = Step(i - 1, g[i - 1])
        /\ \A i \in 1..m : h[i] = Step(i - 1, h[i - 1])
    BY TableValue
  <2> QED
    BY <2>2, <2>3
<1>3. \A k \in Nat : k \in S
  <2> HIDE DEF S
  <2> QED
    BY <1>1, <1>2, SetInduction
<1> QED
  BY <1>3

LEMMA TablesExist ==
    ASSUME NEW base
    PROVE  \A n \in Nat : \E g : Table(base, n, g)
<1> DEFINE S == { n \in Nat : \E g : Table(base, n, g) }
<1>1. 0 \in S
  <2> DEFINE g0 == [k \in 0..0 |-> base]
  <2>1. Table(base, 0, g0)
    BY DEF Table
  <2> QED
    BY <2>1
<1>2. ASSUME NEW n \in Nat, n \in S PROVE n + 1 \in S
  <2>1. PICK g : Table(base, n, g)
    BY <1>2
  <2>0. \A k \in 1..n : g[k] = Step(k - 1, g[k - 1])
    BY <2>1, TableValue
  <2> DEFINE h == [k \in 0..n + 1 |->
                      IF k = 0 THEN base ELSE Step(k - 1, g[k - 1])]
  <2>2. ASSUME NEW k \in 0..n PROVE h[k] = g[k]
    <3>1. h[k] = IF k = 0 THEN base ELSE Step(k - 1, g[k - 1])
      OBVIOUS
    <3>2. CASE k = 0
      BY <2>1, <3>1, <3>2, TableValue
    <3>3. CASE k # 0
      <4>1. k \in 1..n
        BY <3>3
      <4>2. g[k] = Step(k - 1, g[k - 1])
        BY <2>0, <4>1
      <4> HIDE DEF h
      <4> QED
        BY <3>1, <3>3, <4>2
    <3> QED
      BY <3>2, <3>3
  <2>3. \A k \in 0..n + 1 : k # 0 => h[k - 1] = g[k - 1]
    <3> HIDE DEF h
    <3> QED
      BY <2>2
  <2>4. h = [k \in 0..n + 1 |-> IF k = 0 THEN base ELSE Step(k - 1, h[k - 1])]
    BY <2>3
  <2>5. Table(base, n + 1, h)
    <3> HIDE DEF h
    <3> QED
      BY <2>4 DEF Table
  <2> QED
    BY <2>5
<1>3. \A n \in Nat : n \in S
  <2> HIDE DEF S
  <2> QED
    BY <1>1, <1>2, SetInduction
<1> QED
  BY <1>3

(* A function defined by primitive recursion satisfies its equation.        *)
LEMMA Recursion ==
    \A base :
        LET f[k \in Nat] == IF k = 0 THEN base ELSE Step(k - 1, f[k - 1])
        IN  f = [k \in Nat |-> IF k = 0 THEN base ELSE Step(k - 1, f[k - 1])]
<1> SUFFICES ASSUME NEW base
             PROVE  \E f : f = [k \in Nat |-> IF k = 0 THEN base
                                              ELSE Step(k - 1, f[k - 1])]
  OBVIOUS
<1> DEFINE table(n) == CHOOSE g : Table(base, n, g)
           f == [k \in Nat |-> table(k)[k]]
<1>1. \A n \in Nat : Table(base, n, table(n))
  BY TablesExist
<1>2. ASSUME NEW k \in Nat, k # 0 PROVE f[k] = Step(k - 1, f[k - 1])
  <2>1. table(k)[k] = Step(k - 1, table(k)[k - 1])
    <3>1. k \in 1..k
      BY <1>2
    <3> HIDE DEF table
    <3> QED
      BY <1>1, <3>1, TableValue
  <2>2. table(k)[k - 1] = table(k - 1)[k - 1]
    <3>1. k - 1 \in Nat /\ k - 1 <= k
      BY <1>2
    <3> HIDE DEF table
    <3> QED
      BY <1>1, <3>1, TablesAgree
  <2> QED
    BY <1>2, <2>1, <2>2
<1>3. f[0] = base
  <2> HIDE DEF table
  <2>1. table(0)[0] = base
    BY <1>1, TableValue
  <2> QED
    BY <2>1
<1>4. f = [k \in Nat |-> IF k = 0 THEN base ELSE Step(k - 1, f[k - 1])]
  <2>1. f = [k \in Nat |-> f[k]]
    OBVIOUS
  <2> HIDE DEF f
  <2> QED
    BY <1>2, <1>3, <2>1
<1> QED
  BY <1>4

=============================================================================
