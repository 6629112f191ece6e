------------------------- MODULE AttestServerProofs -------------------------
(***************************************************************************)
(* Theorems of AttestServer, for any numbers of workers, nonces, machines, *)
(* roots, ticks and faults.                                                *)
(***************************************************************************)
EXTENDS AttestRefinement, SequenceTheorems, FiniteSetTheorems,
        WellFoundedInduction, TLAPS

-----------------------------------------------------------------------------
(***************************************************************************)
(* Lemmas about the tables.                                                *)
(***************************************************************************)

(* Every nonempty set of naturals with an upper bound has a largest         *)
(* element, so the newest active row of BaselineStore exists.               *)
LEMMA LargestElement ==
    ASSUME NEW S \in SUBSET Nat, S # {}, NEW b \in Nat, \A i \in S : i <= b
    PROVE  \E i \in S : \A j \in S : j <= i
<1> DEFINE Above(i) == { k \in S : k > i }
           T == { Above(i) : i \in S }
<1>1. IsFiniteSet(S)
  <2>1. S \in SUBSET (0..b) /\ IsFiniteSet(0..b)
    BY FS_Interval
  <2> QED
    BY <2>1, FS_Subset
<1>2. T \subseteq FiniteSubsetsOf(S) /\ T # {}
  <2>1. PICK i \in S : TRUE
    OBVIOUS
  <2>2. Above(i) \in T
    OBVIOUS
  <2>3. T \subseteq SUBSET S
    OBVIOUS
  <2> QED
    BY <1>1, <2>2, <2>3, FS_FiniteSubsetsOfFinite
<1>3. PICK A \in T : \A B \in T : ~ (<<B, A>> \in StrictSubsetOrdering(S))
  BY <1>2, WFMin, FS_StrictSubsetOrderingWellFounded
<1>4. PICK i \in S : A = Above(i)
  OBVIOUS
<1>5. ASSUME NEW j \in S PROVE j <= i
  <2> SUFFICES ASSUME j > i PROVE FALSE
    OBVIOUS
  <2>1. i \in Nat /\ j \in Nat
    OBVIOUS
  <2>2. Above(j) \subseteq Above(i)
    <3> SUFFICES ASSUME NEW k \in Above(j) PROVE k \in Above(i)
      OBVIOUS
    <3>1. k \in S /\ k \in Nat /\ k > j
      OBVIOUS
    <3>2. k > i
      BY <2>1, <3>1
    <3> QED
      BY <3>1, <3>2
  <2>3. j \in Above(i) /\ j \notin Above(j)
    BY <2>1
  <2>4. Above(i) \in SUBSET S /\ Above(j) \in SUBSET S
    OBVIOUS
  <2>5. <<Above(j), Above(i)>> \in StrictSubsetOrdering(S)
    BY <2>2, <2>3, <2>4 DEF StrictSubsetOrdering
  <2>6. Above(j) \in T
    OBVIOUS
  <2> QED
    BY <1>3, <1>4, <2>5, <2>6
<1> QED
  BY <1>5

(* The lookup of the pinned root returns a root or nothing.                 *)
LEMMA ActiveRootType ==
    ASSUME BaselineTypeOK
    PROVE  ActiveRoot \in Root \cup {NoRoot}
<1>1. CASE ActiveIds = {}
  BY <1>1 DEF ActiveRoot
<1>2. CASE ActiveIds # {}
  <2>1. Len(baselines) \in Nat /\ DOMAIN baselines = 1..Len(baselines)
    BY LenProperties DEF BaselineTypeOK
  <2>2. ActiveIds \in SUBSET Nat /\ \A i \in ActiveIds : i <= Len(baselines)
    BY <2>1 DEF ActiveIds
  <2>3. \E i \in ActiveIds : \A j \in ActiveIds : j <= i
    BY <1>2, <2>1, <2>2, LargestElement
  <2>4. NewestActive \in ActiveIds
    BY <2>3 DEF NewestActive
  <2>5. baselines[NewestActive] \in BaselineRow
    BY <2>1, <2>4, ElementOfSeq DEF BaselineTypeOK, ActiveIds
  <2> QED
    BY <1>2, <2>5 DEF ActiveRoot, BaselineRow
<1> QED
  BY <1>1, <1>2

(* A function on the rows of a sequence is a sequence of the same length.   *)
LEMMA RowwiseUpdate ==
    ASSUME NEW S, NEW s \in Seq(S), NEW f \in [DOMAIN s -> S]
    PROVE  f \in Seq(S) /\ Len(f) = Len(s)
<1>1. Len(s) \in Nat /\ DOMAIN s = 1..Len(s)
  BY LenProperties
<1> QED
  BY <1>1, SeqDef

(* Each of the three updates of the table keeps its type.                   *)
LEMMA AllInactiveType ==
    ASSUME BaselineTypeOK
    PROVE  AllInactive \in Seq(BaselineRow)
<1>1. AllInactive \in [DOMAIN baselines -> BaselineRow]
  <2>1. ASSUME NEW i \in DOMAIN baselines
        PROVE  [baselines[i] EXCEPT !.active = FALSE] \in BaselineRow
    <3>1. baselines[i] \in BaselineRow
      BY LenProperties, ElementOfSeq DEF BaselineTypeOK
    <3> QED
      BY <3>1 DEF BaselineRow
  <2> QED
    BY <2>1 DEF AllInactive
<1> QED
  BY <1>1, RowwiseUpdate DEF BaselineTypeOK

LEMMA PinType ==
    ASSUME BaselineTypeOK, NEW r \in Root, NEW p \in Pcr7 \cup {NoPcr7},
           PinBaseline(r, p)
    PROVE  BaselineTypeOK'
<1>1. [root |-> r, pcr7 |-> p, active |-> TRUE] \in BaselineRow
  BY DEF BaselineRow
<1> QED
  BY <1>1, AllInactiveType, AppendProperties DEF PinBaseline, BaselineTypeOK

LEMMA RestoreType ==
    ASSUME BaselineTypeOK, NEW r, RestoreBaseline(r)
    PROVE  BaselineTypeOK'
<1>1. baselines' \in [DOMAIN baselines -> BaselineRow]
  <2>1. ASSUME NEW i \in DOMAIN baselines
        PROVE  /\ baselines[i] \in BaselineRow
               /\ [baselines[i] EXCEPT !.active = TRUE] \in BaselineRow
    <3>1. baselines[i] \in BaselineRow
      BY LenProperties, ElementOfSeq DEF BaselineTypeOK
    <3> QED
      BY <3>1 DEF BaselineRow
  <2> QED
    BY <2>1 DEF RestoreBaseline
<1> QED
  BY <1>1, RowwiseUpdate DEF BaselineTypeOK

-----------------------------------------------------------------------------
(***************************************************************************)
(* Type correctness.  Two facts must be carried along: a worker has a      *)
(* request exactly while it is busy, and a report past the content check   *)
(* has a well-formed root, for Pin stores that root.                       *)
(***************************************************************************)
PastContent == {"root", "pcr7", "entries", "pin"}

StoresOK == NonceTypeOK /\ RegistryTypeOK /\ BaselineTypeOK

HandlersOK ==
    /\ pc \in [Worker -> Label]
    /\ req \in [Worker -> Request \cup {NoRequest}]
    /\ currentRoot \in [Worker -> Root \cup {NoRoot}]
    /\ now \in [Worker -> Nat]
    /\ row \in [Worker -> MachineRow \cup {NoRow}]
    /\ \A w \in Worker :
           IF pc[w] = Idle THEN req[w] = NoRequest ELSE req[w] \in Request
    /\ \A w \in Worker :
           pc[w] \in PastContent => req[w].body.root # BadRoot

ServerOK ==
    /\ up \in BOOLEAN
    /\ policy \in Policy
    /\ grants \in [Nonce -> Nat]
    /\ faults \in Nat

TypeInv == StoresOK /\ HandlersOK /\ ServerOK

(* The labels are distinct strings; Idle is none of the others.             *)
LEMMA Labels ==
    /\ Checking \subseteq Label \ {Idle}
    /\ {"save", "deactivate", "stamp", "consume", "restore"}
            \subseteq Label \ {Idle}
    /\ Idle \in Label
    /\ PastContent \subseteq Checking
    /\ PastContent \cap {Idle, "save", "deactivate", "stamp", "consume",
                         "quote", "strict", "content", "restore"} = {}
BY DEF Checking, Label, Idle, PastContent

(* A handler that goes on keeps its locals.                                 *)
LEMMA ProceedOK ==
    ASSUME HandlersOK, NEW w \in Worker, pc[w] # Idle,
           NEW l \in Label \ {Idle},
           l \in PastContent => req[w].body.root # BadRoot,
           Proceed(w, l)
    PROVE  HandlersOK'
BY DEF HandlersOK, Proceed, locals

(* A handler that returns drops them.                                       *)
LEMMA FinishOK ==
    ASSUME HandlersOK, NEW w \in Worker, Finish(w)
    PROVE  HandlersOK'
BY Labels DEF HandlersOK, Finish

LEMMA RejectOK ==
    ASSUME HandlersOK, NEW w \in Worker, pc[w] # Idle, Reject(w)
    PROVE  HandlersOK'
<1>1. CASE Proceed(w, "restore")
  BY <1>1, ProceedOK, Labels
<1>2. CASE Finish(w)
  BY <1>2, FinishOK
<1> QED
  BY <1>1, <1>2 DEF Reject

(* A check passes on to l or rejects.                                       *)
LEMMA CheckOK ==
    ASSUME HandlersOK, NEW w \in Worker, pc[w] # Idle,
           NEW l \in Label \ {Idle},
           l \in PastContent => req[w].body.root # BadRoot,
           Proceed(w, l) \/ Reject(w)
    PROVE  HandlersOK'
BY ProceedOK, RejectOK

LEMMA TypeInvInit == Init => TypeInv
<1> SUFFICES ASSUME Init PROVE TypeInv
  OBVIOUS
<1>1. StoresOK
  BY EmptySeq DEF Init, NonceInit, RegistryInit, BaselineInit, StoresOK,
       NonceTypeOK, RegistryTypeOK, BaselineTypeOK
<1>2. HandlersOK
  BY Labels DEF Init, HandlersOK
<1>3. ServerOK
  BY ServerAssumption DEF Init, ServerOK
<1> QED
  BY <1>1, <1>2, <1>3 DEF TypeInv

(* A grant adds one to a count.                                             *)
LEMMA CountGrantOK ==
    ASSUME ServerOK, NEW w \in Worker, req[w] \in Request, CountGrant(w),
           UNCHANGED <<up, policy, faults>>
    PROVE  ServerOK'
BY DEF ServerOK, CountGrant, Request

(* A step that only reads keeps the tables and the process.                 *)
LEMMA ReadOnlyOK ==
    ASSUME StoresOK, ServerOK, ReadOnly
    PROVE  StoresOK' /\ ServerOK'
BY DEF ReadOnly, UnchangedStores, UnchangedServer, StoresOK, ServerOK,
       NonceTypeOK, RegistryTypeOK, BaselineTypeOK, nonceVars

LEMMA HandleOK ==
    ASSUME TypeInv, NEW w \in Worker, Handle(w)
    PROVE  TypeInv'
<1> USE DEF TypeInv
<1> USE Labels
<1>1. CASE SaveRoot(w)
  <2>1. ActiveRoot \in Root \cup {NoRoot}
    BY ActiveRootType DEF StoresOK
  <2>2. HandlersOK'
    BY <1>1, <2>1 DEF SaveRoot, At, HandlersOK
  <2> QED
    BY <1>1, <2>2, ReadOnlyOK DEF SaveRoot
<1>2. CASE DeactivateAll(w)
  <2>1. HandlersOK'
    BY <1>2, ProceedOK DEF DeactivateAll, At
  <2>2. BaselineTypeOK'
    BY <1>2, AllInactiveType DEF DeactivateAll, StoresOK, BaselineTypeOK
  <2>3. NonceTypeOK' /\ RegistryTypeOK' /\ ServerOK'
    BY <1>2 DEF DeactivateAll, UnchangedServer, nonceVars, StoresOK, ServerOK,
         NonceTypeOK, RegistryTypeOK
  <2> QED
    BY <2>1, <2>2, <2>3 DEF StoresOK
<1>3. CASE Stamp(w)
  <2>1. HandlersOK'
    BY <1>3 DEF Stamp, At, HandlersOK, StoresOK, NonceTypeOK
  <2> QED
    BY <1>3, <2>1, ReadOnlyOK DEF Stamp
<1>4. CASE Consume(w)
  <2>1. pc[w] # Idle /\ (Proceed(w, "quote") \/ Reject(w))
    BY <1>4 DEF Consume, At, Idle
  <2>2. HandlersOK'
    BY <2>1, CheckOK DEF Checking
  <2>3. NonceTypeOK'
    BY <1>4 DEF Consume, ConsumeNonce, Unexpired, StoresOK, NonceTypeOK
  <2>4. RegistryTypeOK' /\ BaselineTypeOK' /\ ServerOK'
    BY <1>4 DEF Consume, UnchangedServer, StoresOK, ServerOK,
         RegistryTypeOK, BaselineTypeOK
  <2> QED
    BY <2>2, <2>3, <2>4 DEF StoresOK
<1>5. CASE VerifyQuote(w)
  <2> DEFINE r == GetEnrolledMachine(req[w].body.machine)
             l == IF policy.strict THEN "strict" ELSE "content"
  <2>1. r \in MachineRow \cup {NoRow}
    BY DEF GetEnrolledMachine, StoresOK, RegistryTypeOK
  <2>2. pc[w] = "quote" /\ ReadOnly
    BY <1>5 DEF VerifyQuote, At
  <2>3. \/ /\ pc' = [pc EXCEPT ![w] = l]
           /\ row' = [row EXCEPT ![w] = r]
           /\ UNCHANGED <<req, currentRoot, now>>
        \/ Reject(w)
    BY <1>5 DEF VerifyQuote
  <2>4. CASE Reject(w)
    BY <2>2, <2>4, RejectOK, ReadOnlyOK DEF Idle
  <2>5. CASE ~Reject(w)
    <3>1. l \in Label \ {Idle} /\ l \notin PastContent
      BY DEF Checking
    <3>2. HandlersOK'
      <4> HIDE DEF l, r
      <4> QED
        BY <2>1, <2>2, <2>3, <2>5, <3>1 DEF HandlersOK, Idle
    <3> QED
      BY <2>2, <3>2, ReadOnlyOK
  <2> QED
    BY <2>4, <2>5
<1>6. CASE StrictCheck(w)
  <2>1. pc[w] # Idle /\ (Proceed(w, "content") \/ Reject(w)) /\ ReadOnly
    BY <1>6 DEF StrictCheck, At, Idle
  <2> QED
    BY <2>1, CheckOK, ReadOnlyOK DEF Checking
<1>7. CASE ContentCheck(w)
  <2>1. pc[w] # Idle /\ ReadOnly
    BY <1>7 DEF ContentCheck, At, Idle
  <2>2. (Proceed(w, "root") /\ req[w].body.root # BadRoot) \/ Reject(w)
    BY <1>7 DEF ContentCheck, ContentOK
  <2> QED
    BY <2>1, <2>2, CheckOK, RejectOK, ReadOnlyOK DEF Checking
<1>8. CASE RootCheck(w)
  <2> DEFINE l == IF policy.pcr7 THEN "pcr7" ELSE "entries"
  <2>1. pc[w] # Idle /\ pc[w] \in PastContent /\ ReadOnly
    BY <1>8 DEF RootCheck, At, Idle, PastContent
  <2>2. Proceed(w, l) \/ Reject(w)
    BY <1>8 DEF RootCheck
  <2>3. l \in Label \ {Idle}
    BY DEF Checking
  <2>4. req[w].body.root # BadRoot
    BY <2>1 DEF HandlersOK
  <2> HIDE DEF l
  <2> QED
    BY <2>1, <2>2, <2>3, <2>4, CheckOK, ReadOnlyOK
<1>9. CASE Pcr7Check(w)
  <2>1. pc[w] # Idle /\ pc[w] \in PastContent /\ ReadOnly
    BY <1>9 DEF Pcr7Check, At, Idle, PastContent
  <2>2. Proceed(w, "entries") \/ Reject(w)
    BY <1>9 DEF Pcr7Check
  <2>3. req[w].body.root # BadRoot
    BY <2>1 DEF HandlersOK
  <2> QED
    BY <2>1, <2>2, <2>3, CheckOK, ReadOnlyOK DEF Checking
<1>10. CASE EntriesCheck(w)
  <2>1. req[w].body.root # BadRoot /\ req[w] \in Request
    BY <1>10 DEF EntriesCheck, At, HandlersOK, PastContent
  <2>2. HandlersOK'
    <3>1. pc[w] # Idle /\ (Proceed(w, "pin") \/ Reject(w) \/ Finish(w))
      BY <1>10 DEF EntriesCheck, At, Idle
    <3> QED
      BY <2>1, <3>1, CheckOK, FinishOK DEF Checking
  <2>3. StoresOK'
    BY <1>10 DEF EntriesCheck, UnchangedStores, StoresOK, NonceTypeOK,
         RegistryTypeOK, BaselineTypeOK, nonceVars
  <2>4. UNCHANGED <<up, policy, faults>>
        /\ (CountGrant(w) \/ UNCHANGED grants)
    BY <1>10 DEF EntriesCheck, UnchangedServer
  <2>5. ServerOK'
    BY <2>1, <2>4, CountGrantOK DEF ServerOK
  <2> QED
    BY <2>2, <2>3, <2>5
<1>11. CASE Pin(w)
  <2>1. req[w].body.root # BadRoot /\ req[w] \in Request
    BY <1>11 DEF Pin, At, HandlersOK, PastContent
  <2>2. req[w].body.root \in Root /\ req[w].body.pcr7 \in Pcr7 \cup {NoPcr7}
    BY <2>1 DEF Request, Report
  <2>3. BaselineTypeOK'
    BY <1>11, <2>2, PinType DEF Pin, StoresOK
  <2>4. NonceTypeOK' /\ RegistryTypeOK'
    BY <1>11 DEF Pin, StoresOK, NonceTypeOK, RegistryTypeOK, nonceVars
  <2>5. HandlersOK'
    BY <1>11, FinishOK DEF Pin
  <2>6. ServerOK'
    BY <1>11, <2>1, CountGrantOK DEF Pin, UnchangedServer
  <2> QED
    BY <2>3, <2>4, <2>5, <2>6 DEF StoresOK
<1>12. CASE Restore(w)
  <2>1. BaselineTypeOK'
    BY <1>12, RestoreType DEF Restore, StoresOK
  <2>2. NonceTypeOK' /\ RegistryTypeOK' /\ ServerOK'
    BY <1>12 DEF Restore, UnchangedServer, StoresOK, ServerOK, NonceTypeOK,
         RegistryTypeOK, nonceVars
  <2>3. HandlersOK'
    BY <1>12, FinishOK DEF Restore
  <2> QED
    BY <2>1, <2>2, <2>3 DEF StoresOK
<1> QED
  BY <1>1, <1>2, <1>3, <1>4, <1>5, <1>6, <1>7, <1>8, <1>9, <1>10, <1>11,
     <1>12 DEF Handle

LEMMA TypeInvNext == TypeInv /\ [Next]_vars => TypeInv'
<1> SUFFICES ASSUME TypeInv, [Next]_vars PROVE TypeInv'
  OBVIOUS
<1> USE DEF TypeInv
<1> USE Labels
<1>1. ASSUME NEW n \in Nonce, Challenge(n) PROVE TypeInv'
  <2>1. NonceTypeOK'
    BY <1>1, LifetimeAssumption
       DEF Challenge, IssueNonce, StoresOK, NonceTypeOK, NonceRow
  <2> QED
    BY <1>1, <2>1 DEF Challenge, UnchangedServer, StoresOK, HandlersOK,
         ServerOK, RegistryTypeOK, BaselineTypeOK, locals
<1>2. ASSUME NEW r \in RegRequests, Register(r) PROVE TypeInv'
  <2>1. r \in RegRequest
    BY <1>2, ServerAssumption
  <2>2. RegistryTypeOK'
    BY <1>2, <2>1 DEF Register, RegisterMachine, StoresOK, RegistryTypeOK,
         RegRequest, MachineRow
  <2> QED
    BY <1>2, <2>2 DEF Register, UnchangedServer, StoresOK, HandlersOK,
         ServerOK, NonceTypeOK, BaselineTypeOK, locals, nonceVars
<1>3. ASSUME NEW w \in Worker, NEW op \in {"attest", "enroll"},
             NEW n \in Nonce, NEW body \in Reports,
             Receive(w, op, n, body)
      PROVE  TypeInv'
  <2>1. [op |-> op, nonce |-> n, body |-> body] \in Request
    BY <1>3, ServerAssumption DEF Request
  <2>2. HandlersOK'
    BY <1>3, <2>1 DEF Receive, HandlersOK
  <2> QED
    BY <1>3, <2>2 DEF Receive, ReadOnly, UnchangedStores, UnchangedServer,
         StoresOK, ServerOK, NonceTypeOK, RegistryTypeOK, BaselineTypeOK,
         nonceVars
<1>4. ASSUME NEW w \in Worker, Handle(w) PROVE TypeInv'
  BY <1>4, HandleOK
<1>5. ASSUME NEW w \in Worker, DbError(w) PROVE TypeInv'
  <2>1. HandlersOK'
    BY <1>5, FinishOK DEF DbError
  <2> QED
    BY <1>5, <2>1 DEF DbError, UnchangedStores, StoresOK, ServerOK,
         NonceTypeOK, RegistryTypeOK, BaselineTypeOK, nonceVars
<1>6. ASSUME Crash PROVE TypeInv'
  <2>1. HandlersOK'
    BY <1>6 DEF Crash, HandlersOK
  <2>2. StoresOK'
    BY <1>6 DEF Crash, UnchangedStores, StoresOK, NonceTypeOK,
         RegistryTypeOK, BaselineTypeOK, nonceVars
  <2>3. up' \in BOOLEAN
    BY <1>6, Zenon DEF Crash
  <2>4. faults' = faults + 1 /\ policy' = policy /\ grants' = grants
    BY <1>6 DEF Crash
  <2>5. ServerOK'
    BY <2>3, <2>4 DEF ServerOK
  <2> QED
    BY <2>1, <2>2, <2>5
<1>7. ASSUME NEW p \in Policies, Restart(p) PROVE TypeInv'
  BY <1>7, ServerAssumption DEF Restart, UnchangedStores, StoresOK,
       HandlersOK, ServerOK, NonceTypeOK, RegistryTypeOK, BaselineTypeOK,
       nonceVars, locals
<1>8. ASSUME Tick PROVE TypeInv'
  BY <1>8 DEF Tick, UnchangedServer, StoresOK, HandlersOK, ServerOK,
       NonceTypeOK, RegistryTypeOK, BaselineTypeOK, locals
<1>9. ASSUME UNCHANGED vars PROVE TypeInv'
  BY <1>9 DEF vars, nonceVars, locals, StoresOK, HandlersOK, ServerOK,
       NonceTypeOK, RegistryTypeOK, BaselineTypeOK
<1> QED
  BY <1>1, <1>2, <1>3, <1>4, <1>5, <1>6, <1>7, <1>8, <1>9 DEF Next

LEMMA TypeInvInvariant == Spec => []TypeInv
BY TypeInvInit, TypeInvNext, PTL DEF Spec

(* Every variable keeps its type, whatever the interleaving and the faults. *)
THEOREM TypeCorrect == Spec => []TypeOK
<1>1. TypeInv => TypeOK
  BY DEF TypeInv, StoresOK, HandlersOK, ServerOK, TypeOK
<1> QED
  BY <1>1, TypeInvInvariant, PTL

-----------------------------------------------------------------------------
(***************************************************************************)
(* The nonce invariant.  NonceGrantedOnce alone is not inductive: a second *)
(* grant must be excluded while the first is being prepared.  So a nonce   *)
(* is in one place at a time: in the table, held by one verification, or   *)
(* granted.  Timeliness needs that rows carry their true expiry and that   *)
(* the time read by "stamp" lies between the challenge and now.            *)
(***************************************************************************)
RowsAreDated ==
    \A r \in activeNonces :
        Issued(r.nonce) /\ r.expires = issuedAt[r.nonce] + Lifetime

IssuedInThePast == \A n \in Nonce : issuedAt[n] <= clock

RequestsAnswerChallenges ==
    \A w \in Worker : pc[w] # Idle => Issued(req[w].nonce)

StampIsTimely ==
    \A w \in Worker : pc[w] = "consume" =>
        issuedAt[req[w].nonce] <= now[w] /\ now[w] <= clock

HeldByOne ==
    \A v, w \in Worker :
        (Holding(v) /\ Holding(w) /\ req[v].nonce = req[w].nonce) => v = w

GrantedIsSpent ==
    \A n \in Nonce : grants[n] > 0 =>
        /\ Issued(n) /\ ~IsActive(n)
        /\ \A w \in Worker : Holding(w) => req[w].nonce # n

NonceInv ==
    /\ RowsAreDated
    /\ IssuedInThePast
    /\ RequestsAnswerChallenges
    /\ StampIsTimely
    /\ EvidenceIsTimely
    /\ HeldNonceIsBurned
    /\ HeldByOne
    /\ GrantedIsSpent
    /\ NonceGrantedOnce

LEMMA NonceInvInit == Init => NonceInv
BY Labels DEF Init, NonceInit, NonceInv, RowsAreDated, IssuedInThePast, Never,
       RequestsAnswerChallenges, StampIsTimely, EvidenceIsTimely, Holding,
       HeldNonceIsBurned, HeldByOne, GrantedIsSpent, NonceGrantedOnce, Idle

(* A quiet step takes no nonce and gives no grant: handlers keep their      *)
(* request, none begins to hold a nonce, and a new time is the clock's.     *)
Quiet ==
    \A w \in Worker : pc'[w] # Idle =>
        /\ pc[w] # Idle
        /\ req'[w] = req[w]
        /\ pc'[w] \in Checking => pc[w] \in Checking /\ now'[w] = now[w]
        /\ pc'[w] = "consume" =>
               now'[w] = clock \/ (pc[w] = "consume" /\ now'[w] = now[w])

LEMMA QuietKeepsNonceInv ==
    ASSUME TypeInv, NonceInv, Quiet, UNCHANGED <<issuedAt, grants>>,
           activeNonces' \subseteq activeNonces,
           clock' \in Nat, clock <= clock'
    PROVE  NonceInv'
<1> USE DEF NonceInv, TypeInv, StoresOK, NonceTypeOK
<1> USE Labels
<1>1. RowsAreDated'
  BY DEF RowsAreDated, Issued
<1>2. IssuedInThePast'
  BY DEF IssuedInThePast, Never
<1>3. RequestsAnswerChallenges'
  BY DEF RequestsAnswerChallenges, Quiet, Issued
<1>4. \A w \in Worker :
         pc[w] # Idle => issuedAt[req[w].nonce] \in Int /\ now[w] \in Nat
  BY DEF HandlersOK, Request, Never
<1>5. StampIsTimely'
  BY <1>4 DEF StampIsTimely, Quiet, IssuedInThePast, HandlersOK, Request
<1>6. EvidenceIsTimely'
  BY <1>4 DEF EvidenceIsTimely, Quiet, Holding
<1>7. HeldNonceIsBurned'
  BY DEF HeldNonceIsBurned, Quiet, Holding, Issued, IsActive
<1>8. HeldByOne'
  BY DEF HeldByOne, Quiet, Holding
<1>9. GrantedIsSpent'
  BY DEF GrantedIsSpent, Quiet, Holding, Issued, IsActive
<1>10. NonceGrantedOnce'
  BY DEF NonceGrantedOnce
<1> QED
  BY <1>1, <1>2, <1>3, <1>5, <1>6, <1>7, <1>8, <1>9, <1>10

(* Handlers that return, pass on or reject are quiet, unless they pass on   *)
(* to the checks with a nonce just taken.                                   *)
LEMMA FinishIsQuiet ==
    ASSUME HandlersOK, NEW w \in Worker, Finish(w)
    PROVE  Quiet
BY DEF HandlersOK, Finish, Quiet

LEMMA ProceedIsQuiet ==
    ASSUME HandlersOK, NEW w \in Worker, pc[w] # Idle,
           NEW l \in Label \ {"consume"}, Proceed(w, l),
           l \in Checking => pc[w] \in Checking
    PROVE  Quiet
BY DEF HandlersOK, Proceed, locals, Quiet

LEMMA RejectIsQuiet ==
    ASSUME HandlersOK, NEW w \in Worker, pc[w] # Idle, Reject(w)
    PROVE  Quiet
<1>1. "restore" \in Label \ {"consume"} /\ "restore" \notin Checking
  BY DEF Label, Checking
<1> QED
  BY <1>1, FinishIsQuiet, ProceedIsQuiet DEF Reject

(***************************************************************************)
(* The kinds of steps, as far as nonces are concerned.                     *)
(***************************************************************************)
Takes(w) ==
    /\ pc[w] = "consume"
    /\ Recognised(req[w].nonce, now[w])
    /\ ConsumeNonce(req[w].nonce, now[w])
    /\ Proceed(w, "quote")
    /\ UNCHANGED <<clock, issuedAt, grants>>

Purges(w) ==
    /\ pc[w] = "consume"
    /\ activeNonces' = Unexpired(now[w])
    /\ Reject(w)
    /\ UNCHANGED <<clock, issuedAt, grants>>

Gives(w) ==
    /\ pc[w] \in Checking
    /\ CountGrant(w)
    /\ Finish(w)
    /\ UNCHANGED nonceVars

Idles == Quiet /\ UNCHANGED <<nonceVars, grants>>

(* The steps that are not quiet.                                            *)
LEMMA ChallengeKeepsNonceInv ==
    ASSUME TypeInv, NonceInv, NEW n \in Nonce, Challenge(n)
    PROVE  NonceInv'
<1> USE DEF NonceInv, TypeInv, StoresOK, NonceTypeOK
<1>1. /\ ~Issued(n)
      /\ activeNonces' = activeNonces
                         \cup {[nonce |-> n, expires |-> clock + Lifetime]}
      /\ issuedAt' = [issuedAt EXCEPT ![n] = clock]
      /\ UNCHANGED <<clock, pc, req, now, grants>>
  BY DEF Challenge, IssueNonce, locals
<1>2. \A m \in Nonce : Issued(m) => issuedAt'[m] = issuedAt[m] /\ Issued(m)'
  BY <1>1 DEF Issued
<1>3. \A m \in Nonce : Issued(m) /\ ~IsActive(m) => ~IsActive(m)'
  BY <1>1 DEF IsActive
<1>4. RowsAreDated'
  <2>1. ASSUME NEW r \in activeNonces'
        PROVE  Issued(r.nonce)' /\ r.expires = issuedAt'[r.nonce] + Lifetime
    <3>1. CASE r \in activeNonces
      BY <1>2, <3>1 DEF RowsAreDated, NonceRow
    <3>2. CASE r = [nonce |-> n, expires |-> clock + Lifetime]
      BY <1>1, <3>2 DEF Issued, Never
    <3> QED
      BY <1>1, <3>1, <3>2
  <2> QED
    BY <1>1, <2>1 DEF RowsAreDated
<1>5. IssuedInThePast'
  BY <1>1 DEF IssuedInThePast
<1>6. \A w \in Worker : pc[w] # Idle => /\ req[w].nonce \in Nonce
                                       /\ Issued(req[w].nonce)
  BY DEF RequestsAnswerChallenges, HandlersOK, Request
<1>7. RequestsAnswerChallenges' /\ StampIsTimely' /\ EvidenceIsTimely'
  BY <1>1, <1>2, <1>6, Labels
     DEF RequestsAnswerChallenges, StampIsTimely, EvidenceIsTimely, Holding,
         Idle
<1>8. HeldNonceIsBurned'
  BY <1>1, <1>2, <1>3, <1>6, Labels DEF HeldNonceIsBurned, Holding
<1>9. HeldByOne' /\ NonceGrantedOnce'
  BY <1>1 DEF HeldByOne, NonceGrantedOnce, Holding
<1>10. GrantedIsSpent'
  BY <1>1, <1>2, <1>3 DEF GrantedIsSpent, Holding
<1> QED
  BY <1>4, <1>5, <1>7, <1>8, <1>9, <1>10

LEMMA ReceiveKeepsNonceInv ==
    ASSUME TypeInv, NonceInv, NEW w \in Worker,
           NEW op \in {"attest", "enroll"}, NEW n \in Nonce,
           NEW body \in Reports,
           Receive(w, op, n, body)
    PROVE  NonceInv'
<1> USE DEF NonceInv, TypeInv, StoresOK, NonceTypeOK, HandlersOK
<1> DEFINE l == IF op = "enroll" THEN "save" ELSE "stamp"
<1>1. /\ Issued(n)
      /\ pc' = [pc EXCEPT ![w] = l]
      /\ req' = [req EXCEPT ![w] = [op |-> op, nonce |-> n,
                                    body |-> body]]
      /\ UNCHANGED <<now, clock, activeNonces, issuedAt, grants>>
  BY DEF Receive, ReadOnly, UnchangedStores, nonceVars
<1>2. l \in Label \ Checking /\ l # "consume"
  BY DEF Label, Checking
<1> HIDE DEF l
<1>3. \A v \in Worker : pc'[v] \in Checking \/ pc'[v] = "consume" =>
         v # w /\ pc[v] = pc'[v] /\ req'[v] = req[v] /\ now'[v] = now[v]
  BY <1>1, <1>2
<1>4. RowsAreDated' /\ IssuedInThePast' /\ NonceGrantedOnce'
  BY <1>1 DEF RowsAreDated, IssuedInThePast, NonceGrantedOnce, Issued
<1>5. RequestsAnswerChallenges'
  BY <1>1, <1>2 DEF RequestsAnswerChallenges, Issued
<1>6. StampIsTimely' /\ EvidenceIsTimely'
  BY <1>1, <1>3 DEF StampIsTimely, EvidenceIsTimely, Holding
<1>7. HeldNonceIsBurned'
  BY <1>1, <1>3 DEF HeldNonceIsBurned, Holding, Issued, IsActive
<1>8. HeldByOne'
  BY <1>1, <1>3 DEF HeldByOne, Holding
<1>9. GrantedIsSpent'
  BY <1>1, <1>3 DEF GrantedIsSpent, Holding, Issued, IsActive
<1> QED
  BY <1>4, <1>5, <1>6, <1>7, <1>8, <1>9

(* Taking a nonce moves it from the table to one handler.  It was in the    *)
(* table, so it was neither held nor granted; and its row had not expired   *)
(* at the time this handler read.                                           *)
LEMMA TakeKeepsNonceInv ==
    ASSUME TypeInv, NonceInv, NEW w \in Worker, Takes(w)
    PROVE  NonceInv'
<1> USE DEF NonceInv, TypeInv, StoresOK, NonceTypeOK, HandlersOK, Takes
<1> DEFINE n == req[w].nonce
<1>1. /\ pc' = [pc EXCEPT ![w] = "quote"]
      /\ UNCHANGED <<req, now, clock, issuedAt, grants>>
  BY DEF Proceed, locals
<1>2. n \in Nonce /\ now[w] \in Nat /\ pc[w] # Idle /\ Issued(n)
  BY DEF Idle, Request, RequestsAnswerChallenges
<1>3. activeNonces' = { r \in Unexpired(now[w]) : r.nonce # n }
  BY DEF ConsumeNonce
<1>4. activeNonces' \subseteq activeNonces /\ ~IsActive(n)'
  BY <1>1, <1>3 DEF Unexpired, IsActive
<1>5. PICK r \in activeNonces : r.nonce = n /\ r.expires >= now[w]
  BY DEF Recognised, Unexpired
<1>6. IsActive(n)
  BY <1>5 DEF IsActive
<1>7. issuedAt[n] \in Nat /\ issuedAt[n] <= now[w] /\ now[w] <= clock
  BY <1>2 DEF StampIsTimely, Issued
<1>8. now[w] <= issuedAt[n] + Lifetime
  BY <1>5, <1>7, LifetimeAssumption DEF RowsAreDated
<1>9. \A v \in Worker : pc'[v] \in Checking => v = w \/ pc[v] \in Checking
  BY <1>1
<1>10. \A v \in Worker : pc[v] \in Checking => req[v].nonce # n
  BY <1>6 DEF HeldNonceIsBurned, Holding
<1>11. RowsAreDated' /\ IssuedInThePast' /\ NonceGrantedOnce'
  BY <1>1, <1>4 DEF RowsAreDated, IssuedInThePast, NonceGrantedOnce, Issued
<1>12. RequestsAnswerChallenges' /\ StampIsTimely'
  BY <1>1, <1>2 DEF RequestsAnswerChallenges, StampIsTimely, Issued
<1>13. EvidenceIsTimely'
  <2>1. now[w] - issuedAt[n] \in 0..Lifetime
    BY <1>2, <1>7, <1>8, LifetimeAssumption
  <2> QED
    BY <1>1, <1>7, <1>9, <2>1 DEF EvidenceIsTimely, Holding
<1>14. HeldNonceIsBurned'
  BY <1>1, <1>2, <1>4, <1>9 DEF HeldNonceIsBurned, Holding, Issued, IsActive
<1>15. HeldByOne'
  BY <1>1, <1>9, <1>10 DEF HeldByOne, Holding
<1>16. GrantedIsSpent'
  BY <1>1, <1>4, <1>6, <1>9 DEF GrantedIsSpent, Holding, Issued, IsActive
<1> QED
  BY <1>11, <1>12, <1>13, <1>14, <1>15, <1>16

(* Granting moves the nonce from its only holder to the granted ones.       *)
LEMMA GrantKeepsNonceInv ==
    ASSUME TypeInv, NonceInv, NEW w \in Worker, Gives(w)
    PROVE  NonceInv'
<1> USE DEF NonceInv, TypeInv, StoresOK, NonceTypeOK, HandlersOK, Gives
<1> DEFINE n == req[w].nonce
<1>1. /\ pc' = [pc EXCEPT ![w] = Idle]
      /\ grants' = [grants EXCEPT ![n] = @ + 1]
      /\ UNCHANGED <<clock, issuedAt, activeNonces>>
      /\ \A v \in Worker \ {w} : req'[v] = req[v] /\ now'[v] = now[v]
  BY DEF CountGrant, Finish, nonceVars
<1>2. n \in Nonce /\ Issued(n) /\ ~IsActive(n)
  BY Labels DEF Request, HeldNonceIsBurned, Holding
<1>3. grants \in [Nonce -> Nat] /\ grants[n] = 0
  BY <1>2 DEF ServerOK, GrantedIsSpent, Holding
<1>4. \A v \in Worker : pc'[v] # Idle => v # w /\ pc[v] = pc'[v]
  BY <1>1
<1>5. \A v \in Worker : v # w /\ pc[v] \in Checking => req[v].nonce # n
  BY DEF HeldByOne, Holding
<1>6. RowsAreDated' /\ IssuedInThePast'
  BY <1>1 DEF RowsAreDated, IssuedInThePast, Issued
<1>7. RequestsAnswerChallenges' /\ StampIsTimely' /\ EvidenceIsTimely'
  BY <1>1, <1>4, Labels DEF RequestsAnswerChallenges, StampIsTimely,
     EvidenceIsTimely, Holding, Issued, Idle
<1>8. HeldNonceIsBurned' /\ HeldByOne'
  BY <1>1, <1>4, Labels
     DEF HeldNonceIsBurned, HeldByOne, Holding, Issued, IsActive
<1>9. GrantedIsSpent'
  BY <1>1, <1>2, <1>3, <1>4, <1>5, Labels
     DEF GrantedIsSpent, Holding, Issued, IsActive
<1>10. NonceGrantedOnce'
  BY <1>1, <1>2, <1>3 DEF NonceGrantedOnce
<1> QED
  BY <1>6, <1>7, <1>8, <1>9, <1>10

(* The second look at the time of a challenge finds nothing: the purge with *)
(* the same time went before it.                                            *)
LEMMA NeverExpired ==
    ASSUME TypeInv, NEW w \in Worker
    PROVE  ~Expired(req[w].nonce, now[w])
<1>1. now[w] \in Nat /\ activeNonces \subseteq NonceRow
  BY DEF TypeInv, StoresOK, NonceTypeOK, HandlersOK
<1>2. \A r \in Unexpired(now[w]) : r.expires \in Nat /\ r.expires >= now[w]
  BY <1>1 DEF Unexpired, NonceRow
<1> QED
  BY <1>1, <1>2 DEF Expired

(* A step of a handler takes a nonce, purges the table, gives a grant or    *)
(* has nothing to do with nonces but to stop holding one.                   *)
LEMMA HandleKinds ==
    ASSUME TypeInv, NEW w \in Worker, Handle(w)
    PROVE  Idles \/ Takes(w) \/ Purges(w) \/ Gives(w)
<1> USE DEF TypeInv
<1> USE Labels
<1>q. ASSUME Quiet, UNCHANGED nonceVars, UNCHANGED grants PROVE Idles
  BY <1>q DEF Idles
<1>r. ASSUME ReadOnly PROVE UNCHANGED nonceVars /\ UNCHANGED grants
  BY <1>r DEF ReadOnly, UnchangedStores, nonceVars
<1>1. CASE SaveRoot(w)
  <2>1. Quiet
    BY <1>1 DEF SaveRoot, At, HandlersOK, Quiet, Checking, Idle
  <2> QED
    BY <1>1, <1>q, <1>r, <2>1 DEF SaveRoot
<1>2. CASE DeactivateAll(w)
  <2>1. "stamp" \notin Checking /\ pc[w] # Idle
    BY <1>2 DEF DeactivateAll, At, Checking, Idle
  <2>2. Quiet
    BY <1>2, <2>1, ProceedIsQuiet DEF DeactivateAll
  <2> QED
    BY <1>2, <1>q, <2>2 DEF DeactivateAll
<1>3. CASE Stamp(w)
  <2>1. Quiet
    BY <1>3 DEF Stamp, At, HandlersOK, Quiet, Checking, Idle
  <2> QED
    BY <1>3, <1>q, <1>r, <2>1 DEF Stamp
<1>4. CASE Consume(w)
  BY <1>4, NeverExpired DEF Consume, At, Takes, Purges
<1>5. CASE VerifyQuote(w)
  <2> DEFINE l == IF policy.strict THEN "strict" ELSE "content"
  <2>1. pc[w] \in Checking /\ ReadOnly
    BY <1>5 DEF VerifyQuote, At, Checking
  <2>2. Reject(w) \/ (pc' = [pc EXCEPT ![w] = l] /\ UNCHANGED <<req, now>>)
    BY <1>5 DEF VerifyQuote
  <2>3. l # "consume"
    OBVIOUS
  <2> HIDE DEF l
  <2>4. Quiet
    BY <2>1, <2>2, <2>3, RejectIsQuiet DEF HandlersOK, Quiet
  <2> QED
    BY <1>q, <1>r, <2>1, <2>4
<1>6. CASE StrictCheck(w)
  <2>1. pc[w] \in Checking /\ (Proceed(w, "content") \/ Reject(w)) /\ ReadOnly
    BY <1>6 DEF StrictCheck, At, Checking
  <2>2. Quiet
    BY <2>1, ProceedIsQuiet, RejectIsQuiet DEF Checking
  <2> QED
    BY <1>q, <1>r, <2>1, <2>2
<1>7. CASE ContentCheck(w)
  <2>1. pc[w] \in Checking /\ (Proceed(w, "root") \/ Reject(w)) /\ ReadOnly
    BY <1>7 DEF ContentCheck, At, Checking
  <2>2. Quiet
    BY <2>1, ProceedIsQuiet, RejectIsQuiet DEF Checking
  <2> QED
    BY <1>q, <1>r, <2>1, <2>2
<1>8. CASE RootCheck(w)
  <2> DEFINE l == IF policy.pcr7 THEN "pcr7" ELSE "entries"
  <2>1. pc[w] \in Checking /\ (Proceed(w, l) \/ Reject(w)) /\ ReadOnly
    BY <1>8 DEF RootCheck, At, Checking
  <2>2. l \in Label \ {"consume"}
    BY DEF Checking
  <2> HIDE DEF l
  <2>3. Quiet
    BY <2>1, <2>2, ProceedIsQuiet, RejectIsQuiet
  <2> QED
    BY <1>q, <1>r, <2>1, <2>3
<1>9. CASE Pcr7Check(w)
  <2>1. pc[w] \in Checking /\ (Proceed(w, "entries") \/ Reject(w)) /\ ReadOnly
    BY <1>9 DEF Pcr7Check, At, Checking
  <2>2. Quiet
    BY <2>1, ProceedIsQuiet, RejectIsQuiet DEF Checking
  <2> QED
    BY <1>q, <1>r, <2>1, <2>2
<1>10. CASE EntriesCheck(w)
  <2>1. pc[w] \in Checking /\ UNCHANGED nonceVars
    BY <1>10 DEF EntriesCheck, UnchangedStores, nonceVars, At, Checking
  <2>2. CASE CountGrant(w) /\ Finish(w)
    BY <2>1, <2>2 DEF Gives
  <2>3. CASE (Proceed(w, "pin") \/ Reject(w)) /\ UNCHANGED grants
    <3>1. Quiet
      BY <2>1, <2>3, ProceedIsQuiet, RejectIsQuiet DEF Checking
    <3> QED
      BY <1>q, <2>1, <2>3, <3>1
  <2> QED
    BY <1>10, <2>2, <2>3 DEF EntriesCheck
<1>11. CASE Pin(w)
  <2>1. pc[w] \in Checking /\ UNCHANGED nonceVars /\ CountGrant(w) /\ Finish(w)
    BY <1>11 DEF Pin, At, Checking, nonceVars
  <2> QED
    BY <2>1 DEF Gives
<1>12. CASE Restore(w)
  <2>1. UNCHANGED nonceVars /\ UNCHANGED grants /\ Finish(w)
    BY <1>12 DEF Restore, nonceVars
  <2> QED
    BY <1>q, <2>1, FinishIsQuiet
<1> QED
  BY <1>1, <1>2, <1>3, <1>4, <1>5, <1>6, <1>7, <1>8, <1>9, <1>10, <1>11,
     <1>12 DEF Handle

LEMMA NonceInvNext == TypeInv /\ NonceInv /\ [Next]_vars => NonceInv'
<1> SUFFICES ASSUME TypeInv, NonceInv, [Next]_vars PROVE NonceInv'
  OBVIOUS
<1> USE DEF TypeInv, StoresOK, NonceTypeOK
<1>i. ASSUME UNCHANGED <<pc, req, now>> PROVE Quiet
  BY <1>i DEF Quiet
<1>1. ASSUME NEW n \in Nonce, Challenge(n) PROVE NonceInv'
  BY <1>1, ChallengeKeepsNonceInv
<1>2. ASSUME NEW r \in RegRequests, Register(r) PROVE NonceInv'
  BY <1>2, <1>i, QuietKeepsNonceInv DEF Register, nonceVars, locals
<1>3. ASSUME NEW w \in Worker, NEW op \in {"attest", "enroll"},
             NEW n \in Nonce, NEW body \in Reports,
             Receive(w, op, n, body)
      PROVE  NonceInv'
  BY <1>3, ReceiveKeepsNonceInv
<1>4. ASSUME NEW w \in Worker, Handle(w) PROVE NonceInv'
  <2>1. CASE Idles
    BY <2>1, QuietKeepsNonceInv DEF Idles, nonceVars
  <2>2. CASE Takes(w)
    BY <2>2, TakeKeepsNonceInv
  <2>3. CASE Purges(w)
    <3>1. activeNonces' \subseteq activeNonces /\ pc[w] # Idle
      BY <2>3 DEF Purges, Unexpired, Idle
    <3> QED
      BY <2>3, <3>1, RejectIsQuiet, QuietKeepsNonceInv DEF Purges
  <2>4. CASE Gives(w)
    BY <2>4, GrantKeepsNonceInv
  <2> QED
    BY <1>4, <2>1, <2>2, <2>3, <2>4, HandleKinds
<1>5. ASSUME NEW w \in Worker, DbError(w) PROVE NonceInv'
  BY <1>5, FinishIsQuiet, QuietKeepsNonceInv
     DEF DbError, UnchangedStores, nonceVars
<1>6. ASSUME Crash PROVE NonceInv'
  <2>1. Quiet
    BY <1>6 DEF Crash, Quiet
  <2> QED
    BY <1>6, <2>1, QuietKeepsNonceInv DEF Crash, UnchangedStores, nonceVars
<1>7. ASSUME NEW p \in Policies, Restart(p) PROVE NonceInv'
  BY <1>7, <1>i, QuietKeepsNonceInv
     DEF Restart, UnchangedStores, nonceVars, locals
<1>8. ASSUME Tick PROVE NonceInv'
  BY <1>8, <1>i, QuietKeepsNonceInv DEF Tick, locals
<1>9. ASSUME UNCHANGED vars PROVE NonceInv'
  BY <1>9, <1>i, QuietKeepsNonceInv DEF vars, nonceVars, locals
<1> QED
  BY <1>1, <1>2, <1>3, <1>4, <1>5, <1>6, <1>7, <1>8, <1>9 DEF Next

LEMMA NonceInvInvariant == Spec => [](TypeInv /\ NonceInv)
<1>1. Init => TypeInv /\ NonceInv
  BY TypeInvInit, NonceInvInit
<1>2. TypeInv /\ NonceInv /\ [Next]_vars => (TypeInv /\ NonceInv)'
  BY TypeInvNext, NonceInvNext
<1> QED
  BY <1>1, <1>2, PTL DEF Spec

(* One challenge yields at most one 200 answer: for any number of workers,  *)
(* however reports are delivered, and through crashes and database errors.  *)
THEOREM GrantedOnce == Spec => []NonceGrantedOnce
<1>1. NonceInv => NonceGrantedOnce
  BY DEF NonceInv
<1> QED
  BY <1>1, NonceInvInvariant, PTL

(* The nonce of a report under verification is out of the table.            *)
THEOREM BurnedFirst == Spec => []HeldNonceIsBurned
<1>1. NonceInv => HeldNonceIsBurned
  BY DEF NonceInv
<1> QED
  BY <1>1, NonceInvInvariant, PTL

(* Evidence that passes the nonce check is at most Lifetime old at the time *)
(* the check read, for any Lifetime and any interleaving with the clock.    *)
THEOREM TimelyEvidence == Spec => []EvidenceIsTimely
<1>1. NonceInv => EvidenceIsTimely
  BY DEF NonceInv
<1> QED
  BY <1>1, NonceInvInvariant, PTL

(* A challenge stays until it is taken or has expired, for any number of    *)
(* workers: a time read long ago purges less, never more, and no fault and  *)
(* no other request removes a row.                                          *)
LEMMA HandleKeepsChallenges ==
    ASSUME TypeInv, NonceInv, NEW w \in Worker, Handle(w),
           NEW r \in activeNonces \ activeNonces'
    PROVE  \/ r.expires < clock
           \/ pc[w] = "consume" /\ pc'[w] = "quote" /\ req[w].nonce = r.nonce
<1> USE DEF TypeInv
<1>1. CASE Idles \/ Gives(w)
  BY <1>1 DEF Idles, Gives, nonceVars
<1>2. CASE Takes(w) \/ Purges(w)
  <2>1. pc[w] = "consume" /\ now[w] <= clock
    BY <1>2 DEF Takes, Purges, NonceInv, StampIsTimely
  <2>2. now[w] \in Nat /\ clock \in Nat /\ r.expires \in Nat
    BY DEF StoresOK, NonceTypeOK, HandlersOK, NonceRow
  <2>3. CASE r \notin Unexpired(now[w])
    BY <2>1, <2>2, <2>3 DEF Unexpired
  <2>4. CASE r \in Unexpired(now[w])
    <3>1. Takes(w) /\ req[w].nonce = r.nonce
      BY <1>2, <2>4 DEF Takes, Purges, ConsumeNonce
    <3>2. pc'[w] = "quote"
      BY <3>1 DEF Takes, Proceed, HandlersOK
    <3> QED
      BY <2>1, <3>1, <3>2
  <2> QED
    BY <2>3, <2>4
<1> QED
  BY <1>1, <1>2, HandleKinds

THEOREM LastingChallenges == Spec => ChallengesLast
<1> DEFINE Kept ==
        \A r \in activeNonces \ activeNonces' :
            \/ r.expires < clock
            \/ \E w \in Worker : /\ pc[w] = "consume" /\ pc'[w] = "quote"
                                /\ req[w].nonce = r.nonce
<1>1. TypeInv /\ NonceInv /\ [Next]_vars => Kept
  <2> SUFFICES ASSUME TypeInv, NonceInv, [Next]_vars PROVE Kept
    OBVIOUS
  <2>1. ASSUME NEW w \in Worker, Handle(w) PROVE Kept
    BY <2>1, HandleKeepsChallenges
  <2>2. ASSUME NEW n \in Nonce, Challenge(n) PROVE Kept
    BY <2>2 DEF Challenge, IssueNonce
  <2>3. CASE UNCHANGED activeNonces
    BY <2>3
  <2> QED
    BY <2>1, <2>2, <2>3
       DEF Next, vars, nonceVars, Register, Receive, ReadOnly, DbError, Crash,
           Restart, Tick, UnchangedStores
<1>2. TypeInv /\ NonceInv /\ [Next]_vars => [Kept]_vars
  BY <1>1
<1> QED
  BY <1>2, NonceInvInvariant, PTL DEF Spec, ChallengesLast

-----------------------------------------------------------------------------
(***************************************************************************)
(* The baseline, with any number of workers, in the behaviours where       *)
(* nothing fails and enrolls take turns (SerialEnrolls), or where an       *)
(* enroll in flight keeps every other request out (ExclusiveEnrolls), as   *)
(* a lock around it would.  Nothing in the code takes turns: the runs      *)
(* enroll_overlap, enroll_window and enroll_crash show what is lost        *)
(* without the one, the other and the absence of faults.                   *)
(*                                                                         *)
(* An enroll that has deactivated the baseline leaves none in force, and   *)
(* its current_root is the root of the row to bring back, which is the     *)
(* last one: Restore picks that row even when older rows have its root.    *)
(***************************************************************************)
Enrolling(w) == pc[w] # Idle /\ req[w].op = "enroll"

SerialEnrolls ==
    /\ faults = 0
    /\ \A v, w \in Worker : Enrolling(v) /\ Enrolling(w) => v = w

ExclusiveEnrolls ==
    /\ faults = 0
    /\ \A v, w \in Worker : Enrolling(v) /\ pc[w] # Idle => v = w

LastInForce == baselines # << >> => ActiveIds = {Len(baselines)}

SavedRoot == IF baselines = << >> THEN NoRoot ELSE LastPinned.root

Verifying == Checking \cup {"stamp", "consume", "restore"}

Deactivated(w) == req[w].op = "enroll" /\ pc[w] \in Verifying

InForceInv ==
    IF \E w \in Worker : Deactivated(w) THEN ActiveIds = {} ELSE LastInForce

EnrollInv ==
    \A w \in Worker :
        /\ pc[w] \in {"save", "deactivate", "pin", "restore"}
               => req[w].op = "enroll"
        /\ (Deactivated(w) \/ pc[w] = "deactivate")
               => currentRoot[w] = SavedRoot
        /\ pc[w] = "restore" => baselines # << >>

\* What holds while enrolls take turns.
TurnsInv == up /\ InForceInv /\ EnrollInv

(* The rows, and what is in force among them.                               *)
LEMMA LastRow ==
    ASSUME BaselineTypeOK, baselines # << >>
    PROVE  /\ Len(baselines) \in Nat /\ Len(baselines) > 0
           /\ DOMAIN baselines = 1..Len(baselines)
           /\ LastPinned \in BaselineRow
           /\ LastPinned.root \in Root
<1>1. Len(baselines) \in Nat /\ DOMAIN baselines = 1..Len(baselines)
  BY LenProperties DEF BaselineTypeOK
<1>2. Len(baselines) > 0
  BY <1>1, EmptySeq DEF BaselineTypeOK
<1>3. LastPinned \in BaselineRow
  BY <1>1, <1>2, ElementOfSeq DEF LastPinned, BaselineTypeOK
<1> QED
  BY <1>1, <1>2, <1>3 DEF BaselineRow

LEMMA InForceIsActive ==
    ASSUME BaselineTypeOK, LastInForce
    PROVE  /\ ActiveRoot = SavedRoot
           /\ baselines # << >> => ActivePcr7 = LastPinned.pcr7
<1>1. CASE baselines = << >>
  BY <1>1 DEF ActiveRoot, SavedRoot, ActiveIds
<1>2. CASE baselines # << >>
  <2>1. ActiveIds = {Len(baselines)} /\ Len(baselines) \in Nat
    BY <1>2, LastRow DEF LastInForce
  <2>2. NewestActive = Len(baselines)
    BY <2>1 DEF NewestActive
  <2> QED
    BY <1>2, <2>1, <2>2 DEF ActiveRoot, ActivePcr7, SavedRoot, LastPinned
<1> QED
  BY <1>1, <1>2

LEMMA SavedRootIsNone ==
    ASSUME BaselineTypeOK
    PROVE  SavedRoot = NoRoot <=> baselines = << >>
BY LastRow, BaselineAssumption DEF SavedRoot

(* The three updates.                                                       *)
LEMMA DeactivateAllRows ==
    ASSUME BaselineTypeOK, baselines' = AllInactive
    PROVE  ActiveIds' = {} /\ SavedRoot' = SavedRoot
<1>1. /\ DOMAIN baselines' = DOMAIN baselines
      /\ \A i \in DOMAIN baselines :
             ~baselines'[i].active /\ baselines'[i].root = baselines[i].root
  <2>1. \A i \in DOMAIN baselines : baselines[i] \in BaselineRow
    BY LenProperties, ElementOfSeq DEF BaselineTypeOK
  <2> QED
    BY <2>1 DEF AllInactive, BaselineRow
<1>2. ActiveIds' = {}
  BY <1>1 DEF ActiveIds
<1>3. baselines' \in Seq(BaselineRow) /\ Len(baselines') = Len(baselines)
  <2>1. AllInactive \in Seq(BaselineRow)
    BY AllInactiveType
  <2> QED
    BY <1>1, <2>1, LenProperties DEF BaselineTypeOK
<1>4. SavedRoot' = SavedRoot
  <2>1. CASE baselines = << >>
    <3>1. baselines' = << >>
      BY <1>3, <2>1, EmptySeq
    <3> QED
      BY <2>1, <3>1 DEF SavedRoot
  <2>2. CASE baselines # << >>
    <3>1. Len(baselines) \in DOMAIN baselines /\ baselines' # << >>
      BY <1>3, <2>2, LastRow
    <3> QED
      BY <1>1, <1>3, <2>2, <3>1 DEF SavedRoot, LastPinned
  <2> QED
    BY <2>1, <2>2
<1> QED
  BY <1>2, <1>4

LEMMA PinPutsLastInForce ==
    ASSUME BaselineTypeOK, NEW r \in Root, NEW p \in Pcr7 \cup {NoPcr7},
           PinBaseline(r, p)
    PROVE  LastInForce'
<1> DEFINE new == [root |-> r, pcr7 |-> p, active |-> TRUE]
           n == Len(baselines)
<1>1. /\ AllInactive \in Seq(BaselineRow) /\ n \in Nat
      /\ DOMAIN AllInactive = 1..n /\ Len(AllInactive) = n
      /\ \A i \in 1..n : ~AllInactive[i].active
  <2>1. AllInactive \in Seq(BaselineRow)
    BY AllInactiveType
  <2>2. n \in Nat /\ DOMAIN baselines = 1..n
    BY LenProperties DEF BaselineTypeOK
  <2>3. \A i \in 1..n : baselines[i] \in BaselineRow
    BY <2>2, ElementOfSeq DEF BaselineTypeOK
  <2>4. DOMAIN AllInactive = 1..n /\ \A i \in 1..n : ~AllInactive[i].active
    BY <2>2, <2>3 DEF AllInactive, BaselineRow
  <2> QED
    BY <2>1, <2>2, <2>4, LenProperties
<1>2. new \in BaselineRow /\ new.active = TRUE
  BY DEF BaselineRow
<1>3. /\ DOMAIN baselines' = 1..n + 1 /\ Len(baselines') = n + 1
      /\ \A i \in 1..n : baselines'[i] = AllInactive[i]
      /\ baselines'[n + 1] = new
  <2> HIDE DEF new, n
  <2>1. baselines' = Append(AllInactive, new)
    BY DEF PinBaseline, new
  <2> QED
    BY <1>1, <1>2, <2>1, AppendProperties, LenProperties
<1> HIDE DEF new
<1>4. \A i \in DOMAIN baselines' : baselines'[i].active <=> i = n + 1
  BY <1>1, <1>2, <1>3
<1> QED
  BY <1>1, <1>3, <1>4 DEF LastInForce, ActiveIds

LEMMA RestorePutsLastInForce ==
    ASSUME BaselineTypeOK, baselines # << >>, ActiveIds = {},
           RestoreBaseline(SavedRoot)
    PROVE  LastInForce'
<1>n. PICK n \in Nat : n = Len(baselines)
  BY LastRow
<1>1. n > 0 /\ DOMAIN baselines = 1..n
  BY <1>n, LastRow
<1>2. ASSUME NEW i \in 1..n
      PROVE  IsNewestWithRoot(i, SavedRoot) <=> i = n
  <2>1. SavedRoot = baselines[n].root
    BY <1>n DEF SavedRoot, LastPinned
  <2>2. n \in DOMAIN baselines /\ \A j \in DOMAIN baselines : j <= n
    BY <1>1
  <2>3. n <= i <=> i = n
    OBVIOUS
  <2> QED
    BY <2>1, <2>2, <2>3 DEF IsNewestWithRoot
<1>3. \A i \in 1..n : baselines[i] \in BaselineRow /\ ~baselines[i].active
  BY <1>1, ElementOfSeq DEF ActiveIds, BaselineTypeOK
<1>4. /\ DOMAIN baselines' = 1..n
      /\ \A i \in 1..n : baselines'[i].active <=> i = n
  BY <1>1, <1>2, <1>3 DEF RestoreBaseline, BaselineRow
<1>5. Len(baselines') = n
  <2>1. BaselineTypeOK'
    BY RestoreType
  <2>2. Len(baselines') \in Nat /\ DOMAIN baselines' = 1..Len(baselines')
    BY <2>1, LenProperties DEF BaselineTypeOK
  <2> QED
    BY <1>1, <1>4, <2>2
<1>6. { i \in DOMAIN baselines' : baselines'[i].active } = {n}
  BY <1>1, <1>4
<1> QED
  BY <1>5, <1>6 DEF LastInForce, ActiveIds

(* Who has deactivated the baseline, or is about to, is enrolling.          *)
LEMMA BusyEnrolling ==
    ASSUME TypeInv, NEW w \in Worker
    PROVE  /\ Deactivated(w) => Enrolling(w)
           /\ pc[w] = "deactivate" /\ req[w].op = "enroll" => Enrolling(w)
BY DEF Deactivated, Enrolling, Verifying, Checking, Idle

(* A worker goes on to l, or rejects.                                       *)
LEMMA TurnsAdvance ==
    ASSUME TypeInv, TurnsInv, NEW w \in Worker, NEW l,
           pc[w] \in Verifying, l \in Checking \cup {"consume"},
           pc' = [pc EXCEPT ![w] = l], UNCHANGED <<req, currentRoot>>,
           UNCHANGED <<baselines, up>>,
           l = "pin" => req[w].op = "enroll"
    PROVE  TurnsInv'
<1> USE DEF TurnsInv, TypeInv, HandlersOK
<1>1. l \in Verifying /\ l \notin {"save", "deactivate", "restore"}
  BY DEF Verifying, Checking
<1>2. \A v \in Worker :
          /\ Deactivated(v)' <=> Deactivated(v)
          /\ v # w => pc'[v] = pc[v]
  BY <1>1 DEF Deactivated
<1>3. ActiveIds' = ActiveIds /\ LastInForce' = LastInForce
      /\ SavedRoot' = SavedRoot
  BY DEF ActiveIds, LastInForce, SavedRoot, LastPinned
<1>4. InForceInv'
  BY <1>2, <1>3 DEF InForceInv
<1>5. pc'[w] = l
  OBVIOUS
<1>6. EnrollInv'
  BY <1>1, <1>2, <1>3, <1>5 DEF EnrollInv
<1> QED
  BY <1>4, <1>6

LEMMA TurnsReject ==
    ASSUME TypeInv, TurnsInv, SerialEnrolls, NEW w \in Worker,
           pc[w] \in Verifying, Reject(w), UNCHANGED <<baselines, up>>
    PROVE  TurnsInv'
<1> USE DEF TurnsInv, TypeInv, HandlersOK, StoresOK
<1>1. ActiveIds' = ActiveIds /\ LastInForce' = LastInForce
      /\ SavedRoot' = SavedRoot
  BY DEF ActiveIds, LastInForce, SavedRoot, LastPinned
<1>2. CASE MustRestore(w) /\ Proceed(w, "restore")
  <2>1. /\ pc'[w] = "restore" /\ UNCHANGED <<req, currentRoot>>
        /\ \A v \in Worker : v # w => pc'[v] = pc[v]
    BY <1>2 DEF Proceed, locals
  <2>2. Deactivated(w) /\ Deactivated(w)'
    BY <1>2, <2>1 DEF MustRestore, Deactivated, Verifying
  <2>3. \A v \in Worker : Deactivated(v)' <=> Deactivated(v)
    BY <2>1, <2>2 DEF Deactivated
  <2>4. currentRoot[w] = SavedRoot /\ baselines # << >>
    BY <1>2, <2>2, SavedRootIsNone DEF EnrollInv, MustRestore
  <2>5. InForceInv'
    BY <1>1, <2>3 DEF InForceInv
  <2>6. EnrollInv'
    BY <1>1, <1>2, <2>1, <2>3, <2>4 DEF EnrollInv, MustRestore
  <2> QED
    BY <2>5, <2>6
<1>3. CASE ~MustRestore(w) /\ Finish(w)
  <2>1. /\ pc'[w] = Idle /\ Idle \notin Verifying
        /\ Idle \notin {"save", "deactivate", "pin", "restore"}
        /\ \A v \in Worker : v # w => /\ pc'[v] = pc[v] /\ req'[v] = req[v]
                                      /\ currentRoot'[v] = currentRoot[v]
    BY <1>3 DEF Finish, Verifying, Checking, Idle
  <2>2. ~Deactivated(w)' /\ \A v \in Worker :
            v # w => (Deactivated(v)' <=> Deactivated(v))
    BY <2>1 DEF Deactivated
  <2>3. InForceInv'
    <3>1. CASE Deactivated(w)
      <4>1. SavedRoot = NoRoot
        BY <1>3, <3>1 DEF EnrollInv, MustRestore, Deactivated
      <4>2. LastInForce
        BY <4>1, SavedRootIsNone DEF LastInForce
      <4>3. \A v \in Worker : ~Deactivated(v)'
        BY <2>2, <3>1, BusyEnrolling DEF SerialEnrolls
      <4> QED
        BY <1>1, <4>2, <4>3 DEF InForceInv
    <3>2. CASE ~Deactivated(w)
      BY <1>1, <2>2, <3>2 DEF InForceInv
    <3> QED
      BY <3>1, <3>2
  <2>4. EnrollInv'
    BY <1>1, <2>1, <2>2 DEF EnrollInv
  <2> QED
    BY <2>3, <2>4
<1> QED
  BY <1>2, <1>3 DEF Reject

(* An enroll answers, leaving the last row in force.                        *)
LEMMA TurnsAnswer ==
    ASSUME TypeInv, TurnsInv, SerialEnrolls, NEW w \in Worker, Enrolling(w),
           Finish(w), LastInForce', UNCHANGED up
    PROVE  TurnsInv'
<1>1. /\ pc'[w] = Idle /\ Idle \notin Verifying
      /\ Idle \notin {"save", "deactivate", "pin", "restore"}
      /\ \A v \in Worker : v # w => pc'[v] = pc[v] /\ req'[v] = req[v]
  BY DEF Finish, Verifying, Checking, Idle, TypeInv, HandlersOK
<1>2. \A v \in Worker : v # w => ~Enrolling(v)
  BY DEF SerialEnrolls
<1>3. \A v \in Worker : ~Deactivated(v)'
  BY <1>1, <1>2, BusyEnrolling DEF Deactivated
<1>4. ASSUME NEW v \in Worker, v # w
      PROVE  pc[v] \notin {"save", "deactivate", "pin", "restore"}
  BY <1>2, <1>4 DEF TurnsInv, EnrollInv, Enrolling, Idle
<1>5. EnrollInv'
  BY <1>1, <1>3, <1>4 DEF EnrollInv
<1> QED
  BY <1>3, <1>5 DEF TurnsInv, InForceInv

(* An attest answers: the baseline stays what it was.                       *)
LEMMA AttestAnswer ==
    ASSUME TypeInv, TurnsInv, NEW w \in Worker, ~Enrolling(w), Finish(w),
           UNCHANGED <<baselines, up>>
    PROVE  TurnsInv'
<1>1. /\ pc'[w] = Idle /\ Idle \notin Verifying
      /\ Idle \notin {"save", "deactivate", "pin", "restore"}
      /\ \A v \in Worker : v # w => /\ pc'[v] = pc[v] /\ req'[v] = req[v]
                                    /\ currentRoot'[v] = currentRoot[v]
  BY DEF Finish, Verifying, Checking, Idle, TypeInv, HandlersOK
<1>2. \A v \in Worker : Deactivated(v)' <=> Deactivated(v)
  BY <1>1, BusyEnrolling DEF Deactivated
<1>3. ActiveIds' = ActiveIds /\ LastInForce' = LastInForce
      /\ SavedRoot' = SavedRoot
  BY DEF ActiveIds, LastInForce, SavedRoot, LastPinned
<1>4. InForceInv'
  BY <1>2, <1>3 DEF TurnsInv, InForceInv
<1>5. EnrollInv'
  <2> SUFFICES ASSUME NEW v \in Worker
               PROVE  (/\ pc[v] \in {"save", "deactivate", "pin", "restore"}
                            => req[v].op = "enroll"
                       /\ (Deactivated(v) \/ pc[v] = "deactivate")
                            => currentRoot[v] = SavedRoot
                       /\ pc[v] = "restore" => baselines # << >>)'
    BY DEF EnrollInv
  <2>1. CASE v = w
    BY <1>1, <1>2, <2>1 DEF Deactivated
  <2>2. CASE v # w
    BY <1>1, <1>2, <1>3, <2>2 DEF TurnsInv, EnrollInv
  <2> QED
    BY <2>1, <2>2
<1> QED
  BY <1>4, <1>5 DEF TurnsInv

(* Steps that touch neither handlers nor baselines.                         *)
LEMMA TurnsStutter ==
    ASSUME TurnsInv, UNCHANGED <<pc, req, currentRoot, baselines, up>>
    PROVE  TurnsInv'
<1>1. ActiveIds' = ActiveIds /\ LastInForce' = LastInForce
      /\ SavedRoot' = SavedRoot
  BY DEF ActiveIds, LastInForce, SavedRoot, LastPinned
<1> QED
  BY <1>1 DEF TurnsInv, InForceInv, EnrollInv, Deactivated

LEMMA TurnsReceive ==
    ASSUME TypeInv, TurnsInv, NEW w \in Worker,
           NEW op \in {"attest", "enroll"}, NEW n, NEW body,
           Receive(w, op, n, body)
    PROVE  TurnsInv'
<1>1. /\ pc[w] = Idle /\ pc'[w] = (IF op = "enroll" THEN "save" ELSE "stamp")
      /\ req'[w].op = op
      /\ UNCHANGED <<baselines, up, currentRoot>>
      /\ \A v \in Worker : v # w => pc'[v] = pc[v] /\ req'[v] = req[v]
  BY DEF Receive, At, ReadOnly, UnchangedStores, UnchangedServer, TypeInv,
         HandlersOK
<1>2. ActiveIds' = ActiveIds /\ LastInForce' = LastInForce
      /\ SavedRoot' = SavedRoot
  BY <1>1 DEF ActiveIds, LastInForce, SavedRoot, LastPinned
<1>3. ~Deactivated(w) /\ ~Deactivated(w)'
  BY <1>1 DEF Deactivated, Verifying, Checking, Idle
<1>4. \A v \in Worker : Deactivated(v)' <=> Deactivated(v)
  BY <1>1, <1>3 DEF Deactivated
<1>5. InForceInv'
  BY <1>2, <1>4 DEF InForceInv, TurnsInv
<1>6. EnrollInv'
  BY <1>1, <1>2, <1>3, <1>4 DEF EnrollInv, TurnsInv
<1> QED
  BY <1>1, <1>5, <1>6 DEF TurnsInv

LEMMA TurnsHandle ==
    ASSUME TypeInv, TurnsInv, SerialEnrolls, NEW w \in Worker, Handle(w)
    PROVE  TurnsInv'
<1>r. ASSUME ReadOnly PROVE UNCHANGED <<baselines, up>>
  BY <1>r DEF ReadOnly, UnchangedStores, UnchangedServer
<1>p. ASSUME NEW l, Proceed(w, l)
      PROVE  pc' = [pc EXCEPT ![w] = l] /\ UNCHANGED <<req, currentRoot>>
  BY <1>p DEF Proceed, locals
<1>b. BaselineTypeOK
  BY DEF TypeInv, StoresOK
<1>o. ASSUME NEW l, pc' = [pc EXCEPT ![w] = l], UNCHANGED req
      PROVE  pc'[w] = l /\ \A v \in Worker : v # w => pc'[v] = pc[v]
  BY <1>o DEF TypeInv, HandlersOK
<1>e. ASSUME pc[w] \in {"save", "deactivate", "pin", "restore"}
      PROVE  /\ Enrolling(w)
             /\ \A v \in Worker : v # w => ~Deactivated(v)
  <2>1. Enrolling(w)
    BY <1>e DEF TurnsInv, EnrollInv, Enrolling, Idle
  <2> QED
    BY <2>1, BusyEnrolling DEF SerialEnrolls
<1>1. CASE SaveRoot(w)
  <2>1. /\ pc[w] = "save" /\ pc' = [pc EXCEPT ![w] = "deactivate"]
        /\ currentRoot' = [currentRoot EXCEPT ![w] = ActiveRoot]
        /\ UNCHANGED <<req, baselines, up>>
    BY <1>1, <1>r DEF SaveRoot, At
  <2>2. /\ pc'[w] = "deactivate" /\ currentRoot'[w] = ActiveRoot
        /\ \A v \in Worker : v # w => /\ pc'[v] = pc[v]
                                      /\ currentRoot'[v] = currentRoot[v]
    BY <2>1 DEF TypeInv, HandlersOK
  <2>3. ActiveIds' = ActiveIds /\ LastInForce' = LastInForce
        /\ SavedRoot' = SavedRoot
    BY <2>1 DEF ActiveIds, LastInForce, SavedRoot, LastPinned
  <2>4. \A v \in Worker : ~Deactivated(v) /\ ~Deactivated(v)'
    BY <1>e, <2>1, <2>2 DEF Deactivated, Verifying, Checking
  <2>5. LastInForce /\ ActiveRoot = SavedRoot
    BY <1>b, <2>4, InForceIsActive DEF TurnsInv, InForceInv
  <2>6. InForceInv' /\ EnrollInv'
    BY <1>e, <2>1, <2>2, <2>3, <2>4, <2>5
       DEF TurnsInv, InForceInv, EnrollInv, Enrolling
  <2> QED
    BY <2>1, <2>6 DEF TurnsInv
<1>2. CASE DeactivateAll(w)
  <2>1. /\ pc[w] = "deactivate" /\ pc' = [pc EXCEPT ![w] = "stamp"]
        /\ UNCHANGED <<req, currentRoot, up>>
        /\ baselines' = AllInactive
    BY <1>2, <1>p DEF DeactivateAll, At, UnchangedServer
  <2>2. pc'[w] = "stamp" /\ \A v \in Worker : v # w => pc'[v] = pc[v]
    BY <1>o, <2>1
  <2>3. ActiveIds' = {} /\ SavedRoot' = SavedRoot
    BY <1>b, <2>1, DeactivateAllRows
  <2>4. Deactivated(w)' /\ currentRoot[w] = SavedRoot
    BY <2>1, <2>2 DEF Deactivated, Verifying, TurnsInv, EnrollInv
  <2>5. InForceInv'
    BY <2>3, <2>4 DEF InForceInv
  <2>6. \A v \in Worker : v # w =>
            /\ ~Deactivated(v)'
            /\ pc[v] \notin {"save", "deactivate", "pin", "restore"}
    <3> SUFFICES ASSUME NEW v \in Worker, v # w
                 PROVE  /\ ~Deactivated(v)'
                        /\ pc[v] \notin {"save", "deactivate", "pin", "restore"}
      OBVIOUS
    <3>1. ~Enrolling(v)
      BY <1>e, <2>1 DEF SerialEnrolls
    <3> QED
      BY <2>1, <2>2, <3>1, BusyEnrolling
         DEF TurnsInv, EnrollInv, Enrolling, Idle, Deactivated
  <2>7. EnrollInv'
    BY <2>1, <2>2, <2>3, <2>4, <2>6 DEF EnrollInv, TurnsInv
  <2> QED
    BY <2>1, <2>5, <2>7 DEF TurnsInv
<1>3. CASE Stamp(w)
  <2>1. /\ pc[w] \in Verifying /\ pc' = [pc EXCEPT ![w] = "consume"]
        /\ UNCHANGED <<req, currentRoot, baselines, up>>
    BY <1>3, <1>r DEF Stamp, At, Verifying
  <2> QED
    BY <2>1, TurnsAdvance
<1>c. ASSUME pc[w] \in Verifying, UNCHANGED <<baselines, up>>,
             NEW l \in Checking \ {"pin"}, Proceed(w, l) \/ Reject(w)
      PROVE  TurnsInv'
  BY <1>c, <1>p, TurnsAdvance, TurnsReject
<1>v. {"consume", "quote", "strict", "content", "root", "pcr7", "entries"}
          \subseteq Verifying
  BY DEF Verifying, Checking
<1>l. {"quote", "content", "root", "entries"} \subseteq Checking \ {"pin"}
  BY DEF Checking
<1>4. CASE Consume(w)
  <2>1. /\ pc[w] = "consume" /\ UNCHANGED <<baselines, up>>
        /\ Proceed(w, "quote") \/ Reject(w)
    BY <1>4 DEF Consume, At, UnchangedServer
  <2> QED
    BY <1>c, <1>l, <1>v, <2>1
<1>5. CASE VerifyQuote(w)
  <2> DEFINE l == IF policy.strict THEN "strict" ELSE "content"
  <2>1. /\ pc[w] \in Verifying /\ UNCHANGED <<baselines, up>>
        /\ \/ pc' = [pc EXCEPT ![w] = l] /\ UNCHANGED <<req, currentRoot>>
           \/ Reject(w)
    BY <1>5, <1>r DEF VerifyQuote, At, Verifying, Checking
  <2>2. l \in Checking /\ l # "pin"
    BY DEF Checking
  <2> HIDE DEF l
  <2> QED
    BY <2>1, <2>2, TurnsAdvance, TurnsReject
<1>6. CASE StrictCheck(w)
  <2>1. pc[w] = "strict" /\ (Proceed(w, "content") \/ Reject(w))
    BY <1>6 DEF StrictCheck, At
  <2> QED
    BY <1>6, <1>c, <1>l, <1>r, <1>v, <2>1 DEF StrictCheck
<1>7. CASE ContentCheck(w)
  <2>1. pc[w] = "content" /\ (Proceed(w, "root") \/ Reject(w))
    BY <1>7 DEF ContentCheck, At
  <2> QED
    BY <1>7, <1>c, <1>l, <1>r, <1>v, <2>1 DEF ContentCheck
<1>8. CASE RootCheck(w)
  <2> DEFINE l == IF policy.pcr7 THEN "pcr7" ELSE "entries"
  <2>1. pc[w] = "root" /\ (Proceed(w, l) \/ Reject(w))
    BY <1>8 DEF RootCheck, At
  <2>2. l \in Checking \ {"pin"}
    BY DEF Checking
  <2> HIDE DEF l
  <2> QED
    BY <1>8, <1>c, <1>r, <1>v, <2>1, <2>2 DEF RootCheck
<1>9. CASE Pcr7Check(w)
  <2>1. pc[w] = "pcr7" /\ (Proceed(w, "entries") \/ Reject(w))
    BY <1>9 DEF Pcr7Check, At
  <2> QED
    BY <1>9, <1>c, <1>l, <1>r, <1>v, <2>1 DEF Pcr7Check
<1>10. CASE EntriesCheck(w)
  <2>1. /\ pc[w] = "entries" /\ UNCHANGED <<baselines, up>>
        /\ \/ req[w].op = "attest" /\ Finish(w)
           \/ req[w].op = "enroll" /\ Proceed(w, "pin")
           \/ Reject(w)
    BY <1>10 DEF EntriesCheck, At, UnchangedStores, UnchangedServer
  <2>2. CASE req[w].op = "attest" /\ Finish(w)
    BY <2>1, <2>2, AttestAnswer DEF Enrolling
  <2>3. CASE req[w].op = "enroll" /\ Proceed(w, "pin")
    <3>1. "pin" \in Checking
      BY DEF Checking
    <3> QED
      BY <1>p, <1>v, <2>1, <2>3, <3>1, TurnsAdvance
  <2> QED
    BY <1>v, <2>1, <2>2, <2>3, TurnsReject
<1>11. CASE Pin(w)
  <2>1. /\ PinBaseline(req[w].body.root, req[w].body.pcr7) /\ Finish(w)
        /\ UNCHANGED up /\ pc[w] = "pin"
    BY <1>11 DEF Pin, At, UnchangedServer
  <2>2. /\ req[w].body.root \in Root
        /\ req[w].body.pcr7 \in Pcr7 \cup {NoPcr7}
    BY <2>1 DEF TypeInv, HandlersOK, PastContent, Idle, Request, Report
  <2>3. LastInForce'
    BY <1>b, <2>1, <2>2, PinPutsLastInForce
  <2> QED
    BY <1>e, <2>1, <2>3, TurnsAnswer
<1>12. CASE Restore(w)
  <2>1. /\ pc[w] = "restore" /\ RestoreBaseline(currentRoot[w]) /\ Finish(w)
        /\ UNCHANGED up
    BY <1>12 DEF Restore, At, UnchangedServer
  <2>2. Deactivated(w) /\ baselines # << >>
    BY <2>1 DEF TurnsInv, EnrollInv, Deactivated, Verifying
  <2>3. ActiveIds = {} /\ currentRoot[w] = SavedRoot
    BY <2>2 DEF TurnsInv, InForceInv, EnrollInv
  <2>4. LastInForce'
    BY <1>b, <2>1, <2>2, <2>3, RestorePutsLastInForce
  <2> QED
    BY <1>e, <2>1, <2>4, TurnsAnswer
<1> QED
  BY <1>1, <1>2, <1>3, <1>4, <1>5, <1>6, <1>7, <1>8, <1>9, <1>10, <1>11,
     <1>12 DEF Handle

LEMMA TurnsInvNext ==
    ASSUME TypeInv, TurnsInv, SerialEnrolls, faults' = 0, [Next]_vars
    PROVE  TurnsInv'
<1>f. faults = 0
  BY DEF SerialEnrolls
<1>1. ASSUME NEW n \in Nonce, Challenge(n) PROVE TurnsInv'
  BY <1>1, TurnsStutter DEF Challenge, UnchangedServer, locals
<1>2. ASSUME NEW r \in RegRequests, Register(r) PROVE TurnsInv'
  BY <1>2, TurnsStutter DEF Register, UnchangedServer, locals
<1>3. ASSUME NEW w \in Worker, NEW op \in {"attest", "enroll"},
             NEW n \in Nonce, NEW body \in Reports, Receive(w, op, n, body)
      PROVE  TurnsInv'
  BY <1>3, TurnsReceive
<1>4. ASSUME NEW w \in Worker, Handle(w) PROVE TurnsInv'
  BY <1>4, TurnsHandle
<1>5. ASSUME NEW w \in Worker, DbError(w) PROVE FALSE
  BY <1>f, <1>5 DEF DbError
<1>6. ASSUME Crash PROVE FALSE
  BY <1>f, <1>6 DEF Crash
<1>7. ASSUME NEW p \in Policies, Restart(p) PROVE FALSE
  BY <1>7 DEF Restart, TurnsInv
<1>8. ASSUME Tick PROVE TurnsInv'
  BY <1>8, TurnsStutter DEF Tick, UnchangedServer, locals
<1>9. ASSUME UNCHANGED vars PROVE TurnsInv'
  BY <1>9, TurnsStutter DEF vars, locals
<1> QED
  BY <1>1, <1>2, <1>3, <1>4, <1>5, <1>6, <1>7, <1>8, <1>9 DEF Next

LEMMA TurnsInvInvariant == Spec /\ []SerialEnrolls => [](TypeInv /\ TurnsInv)
<1>1. Init => TypeInv /\ TurnsInv
  <2> SUFFICES ASSUME Init PROVE TurnsInv
    BY TypeInvInit
  <2>1. baselines = << >> /\ up /\ \A w \in Worker : pc[w] = Idle
    BY DEF Init, BaselineInit
  <2>2. \A w \in Worker : ~Deactivated(w)
    BY <2>1 DEF Deactivated, Verifying, Checking, Idle
  <2> QED
    BY <2>1, <2>2 DEF TurnsInv, InForceInv, EnrollInv, LastInForce, Idle
<1>2. TypeInv /\ TurnsInv /\ SerialEnrolls /\ SerialEnrolls' /\ [Next]_vars
        => (TypeInv /\ TurnsInv)'
  BY TypeInvNext, TurnsInvNext DEF SerialEnrolls
<1> QED
  BY <1>1, <1>2, PTL DEF Spec

(* Without faults and with enrolls that take turns, among any number of     *)
(* attests: once a baseline is pinned, exactly the last pinned one is in    *)
(* force whenever no enroll is being handled, however many enrolls were     *)
(* rejected in between (main.py:741-781).                                   *)
THEOREM SerialBaselineInForce ==
    Spec /\ []SerialEnrolls => []BaselineInForce
<1>1. TypeInv /\ TurnsInv => BaselineInForce
  <2> SUFFICES ASSUME TypeInv, TurnsInv, ~EnrollInFlight, baselines # << >>
               PROVE  ActiveIds = {Len(baselines)}
    BY DEF BaselineInForce
  <2>1. \A w \in Worker : ~Deactivated(w)
    BY BusyEnrolling DEF EnrollInFlight, Enrolling
  <2> QED
    BY <2>1 DEF TurnsInv, InForceInv, LastInForce
<1> QED
  BY <1>1, TurnsInvInvariant, PTL

(* A handler is moved by nothing but its own steps, until it is done.       *)
LEMMA HandlersMoveThemselves ==
    ASSUME TypeInv, [Next]_vars, NEW w \in Worker, pc[w] # Idle,
           pc'[w] # pc[w], pc'[w] # Idle \/ faults' = faults
    PROVE  Handle(w)
<1>p. pc \in [Worker -> Label] /\ faults \in Nat
  BY DEF TypeInv, HandlersOK, ServerOK
<1>1. ASSUME NEW v \in Worker, Handle(v) PROVE v = w
  <2>1. ASSUME NEW l, pc' = [pc EXCEPT ![v] = l] PROVE v = w
    BY <1>p, <2>1
  <2>2. ASSUME NEW l, Proceed(v, l) PROVE v = w
    BY <2>1, <2>2 DEF Proceed
  <2>3. ASSUME Finish(v) PROVE v = w
    BY <2>1, <2>3 DEF Finish
  <2>4. ASSUME Reject(v) PROVE v = w
    BY <2>2, <2>3, <2>4 DEF Reject
  <2> QED
    BY <1>1, <2>1, <2>2, <2>3, <2>4
       DEF Handle, SaveRoot, DeactivateAll, Stamp, Consume, VerifyQuote,
           StrictCheck, ContentCheck, RootCheck, Pcr7Check, EntriesCheck,
           Pin, Restore
<1>2. ASSUME NEW v \in Worker, NEW op \in {"attest", "enroll"},
             NEW n \in Nonce, NEW body \in Reports, Receive(v, op, n, body)
      PROVE  FALSE
  BY <1>p, <1>2 DEF Receive, At
<1>3. faults + 1 # faults
  BY <1>p
<1>4. ASSUME NEW v \in Worker, DbError(v) PROVE FALSE
  BY <1>p, <1>3, <1>4 DEF DbError, Finish
<1>5. ASSUME Crash PROVE FALSE
  BY <1>3, <1>5 DEF Crash
<1>6. ASSUME NEW n, Challenge(n) PROVE FALSE
  BY <1>6 DEF Challenge
<1>7. ASSUME NEW r, Register(r) PROVE FALSE
  BY <1>7 DEF Register
<1>8. ASSUME NEW p, Restart(p) PROVE FALSE
  BY <1>8 DEF Restart
<1> QED
  BY <1>1, <1>2, <1>4, <1>5, <1>6, <1>7, <1>8 DEF Next, Tick, vars

(* Without faults and with enrolls that take turns: an enroll passes the    *)
(* root check, whatever it reports and whatever is pinned (main.py:741).    *)
THEOREM SerialEnrollPasses ==
    Spec /\ []SerialEnrolls => EnrollIgnoresPin
<1>1. TypeInv /\ TurnsInv /\ SerialEnrolls /\ SerialEnrolls' /\ [Next]_vars =>
        \A w \in Worker :
          (up /\ pc[w] = "root" /\ req[w].op = "enroll" /\ pc'[w] # pc[w])
              => pc'[w] \in {"pcr7", "entries"}
  <2> SUFFICES ASSUME TypeInv, TurnsInv, faults' = faults, [Next]_vars,
                      NEW w \in Worker, up, pc[w] = "root",
                      req[w].op = "enroll", pc'[w] # pc[w]
               PROVE  pc'[w] \in {"pcr7", "entries"}
    BY DEF SerialEnrolls
  <2>1. Handle(w)
    BY HandlersMoveThemselves DEF Idle
  <2>2. RootCheck(w)
    BY <2>1 DEF Handle, SaveRoot, DeactivateAll, Stamp, Consume, VerifyQuote,
         StrictCheck, ContentCheck, Pcr7Check, EntriesCheck, Pin, Restore, At
  <2>3. Deactivated(w)
    BY DEF Deactivated, Verifying, Checking
  <2>4. RootMatches(req[w].body, ActiveRoot)
    BY <2>3 DEF TurnsInv, InForceInv, ActiveRoot, RootMatches
  <2>5. Proceed(w, IF policy.pcr7 THEN "pcr7" ELSE "entries")
    BY <2>2, <2>4 DEF RootCheck
  <2> QED
    BY <2>5 DEF Proceed, TypeInv, HandlersOK
<1> QED
  BY <1>1, TurnsInvInvariant, PTL DEF Spec, EnrollIgnoresPin

-----------------------------------------------------------------------------
(***************************************************************************)
(* Grants and the baseline, when an enroll in flight keeps every other     *)
(* request out: what an attest has compared with is still the last row.    *)
(***************************************************************************)
MatchesRoot(w) ==
    baselines # << >> => req[w].body.root = LastPinned.root

MatchesPcr7(w) ==
    (baselines # << >> /\ policy.pcr7)
        => LastPinned.pcr7 \in {NoPcr7, req[w].body.pcr7}

MatchInv ==
    \A w \in Worker :
        req[w].op = "attest" =>
            /\ pc[w] \in {"pcr7", "entries"} => MatchesRoot(w)
            /\ pc[w] = "entries" => MatchesPcr7(w)

LEMMA ExclusiveIsSerial == ExclusiveEnrolls => SerialEnrolls
BY DEF ExclusiveEnrolls, SerialEnrolls, Enrolling

(* A worker moves to l, which needs a match only after a comparison.        *)
LEMMA MatchKept ==
    ASSUME MatchInv, HandlersOK, UNCHANGED <<baselines, policy>>,
           NEW w \in Worker, NEW l, pc' = [pc EXCEPT ![w] = l],
           \A v \in Worker : v # w => req'[v] = req[v],
           l \in {"pcr7", "entries"} => UNCHANGED req,
           req[w].op = "attest" =>
               /\ l \in {"pcr7", "entries"} => MatchesRoot(w)
               /\ l = "entries" => MatchesPcr7(w)
    PROVE  MatchInv'
<1>1. pc'[w] = l /\ \A v \in Worker : v # w => pc'[v] = pc[v]
  BY DEF HandlersOK
<1>2. UNCHANGED LastPinned
  BY DEF LastPinned
<1> QED
  BY <1>1, <1>2 DEF MatchInv, MatchesRoot, MatchesPcr7

LEMMA MatchRejects ==
    ASSUME MatchInv, HandlersOK, UNCHANGED <<baselines, policy>>,
           NEW w \in Worker, Finish(w) \/ Reject(w)
    PROVE  MatchInv'
<1>1. ASSUME Finish(w) PROVE MatchInv'
  <2>1. pc' = [pc EXCEPT ![w] = Idle] /\ Idle \notin {"pcr7", "entries"}
    BY <1>1 DEF Finish, Idle
  <2>2. \A v \in Worker : v # w => req'[v] = req[v]
    BY <1>1 DEF Finish, HandlersOK
  <2> QED
    BY <2>1, <2>2, MatchKept
<1>2. ASSUME Proceed(w, "restore") PROVE MatchInv'
  BY <1>2, MatchKept DEF Proceed, locals
<1> QED
  BY <1>1, <1>2 DEF Reject

(* An enroll that changes the rows is alone, so there is nobody to match.   *)
LEMMA EnrollLeavesNobody ==
    ASSUME HandlersOK, ExclusiveEnrolls, NEW w \in Worker, Enrolling(w),
           NEW l, l \notin {"pcr7", "entries"}, pc' = [pc EXCEPT ![w] = l]
    PROVE  MatchInv'
<1>1. \A v \in Worker : v # w => pc[v] = Idle
  BY DEF ExclusiveEnrolls
<1>2. \A v \in Worker : pc'[v] \notin {"pcr7", "entries"}
  BY <1>1 DEF HandlersOK, Idle
<1> QED
  BY <1>2 DEF MatchInv

LEMMA MatchHandle ==
    ASSUME TypeInv, TurnsInv, MatchInv, ExclusiveEnrolls,
           NEW w \in Worker, Handle(w)
    PROVE  MatchInv'
<1>h. HandlersOK /\ BaselineTypeOK
  BY DEF TypeInv, StoresOK
<1>r. ASSUME ReadOnly PROVE UNCHANGED <<baselines, policy>>
  BY <1>r DEF ReadOnly, UnchangedStores, UnchangedServer
<1>m. ASSUME UNCHANGED <<baselines, policy, req>>, NEW l,
             l \notin {"pcr7", "entries"}, pc' = [pc EXCEPT ![w] = l]
      PROVE  MatchInv'
  BY <1>h, <1>m, MatchKept
<1>c. ASSUME UNCHANGED <<baselines, policy>>, NEW l,
             l \notin {"pcr7", "entries"}, Proceed(w, l) \/ Reject(w)
      PROVE  MatchInv'
  BY <1>c, <1>h, <1>m, MatchRejects DEF Proceed, locals
<1>e. ASSUME pc[w] \in {"save", "deactivate", "pin", "restore"}
      PROVE  Enrolling(w)
  BY <1>e DEF TurnsInv, EnrollInv, Enrolling, Idle
<1>a. ASSUME pc[w] # Idle, req[w].op = "attest" PROVE LastInForce
  <2>1. ASSUME NEW v \in Worker, Deactivated(v) PROVE FALSE
    <3>1. v = w
      BY <1>a, <2>1, BusyEnrolling DEF ExclusiveEnrolls
    <3> QED
      BY <1>a, <2>1, <3>1 DEF Deactivated
  <2> QED
    BY <2>1 DEF TurnsInv, InForceInv
<1>1. CASE SaveRoot(w)
  BY <1>1, <1>m, <1>r DEF SaveRoot
<1>2. CASE DeactivateAll(w)
  BY <1>2, <1>e, <1>h, EnrollLeavesNobody DEF DeactivateAll, At, Proceed
<1>3. CASE Stamp(w)
  BY <1>3, <1>m, <1>r DEF Stamp
<1>4. CASE Consume(w)
  <2>1. UNCHANGED <<baselines, policy>> /\ (Proceed(w, "quote") \/ Reject(w))
    BY <1>4 DEF Consume, UnchangedServer
  <2> QED
    BY <1>c, <2>1
<1>5. CASE VerifyQuote(w)
  <2>1. \/ Reject(w)
        \/ UNCHANGED req /\ pc' = [pc EXCEPT
               ![w] = IF policy.strict THEN "strict" ELSE "content"]
    BY <1>5 DEF VerifyQuote
  <2>2. CASE Reject(w)
    BY <1>5, <1>h, <1>r, <2>2, MatchRejects DEF VerifyQuote
  <2> QED
    BY <1>5, <1>m, <1>r, <2>1, <2>2 DEF VerifyQuote
<1>6. CASE StrictCheck(w)
  BY <1>6, <1>c, <1>r DEF StrictCheck
<1>7. CASE ContentCheck(w)
  BY <1>7, <1>c, <1>r DEF ContentCheck
<1>8. CASE RootCheck(w)
  <2> DEFINE l == IF policy.pcr7 THEN "pcr7" ELSE "entries"
  <2>1. /\ pc[w] = "root" /\ pc[w] # Idle /\ UNCHANGED <<baselines, policy>>
        /\ \/ Proceed(w, l) /\ RootMatches(req[w].body, ActiveRoot)
           \/ Reject(w)
    BY <1>8, <1>r DEF RootCheck, At, Idle
  <2>2. l = "entries" => MatchesPcr7(w)
    BY DEF MatchesPcr7
  <2>3. ASSUME RootMatches(req[w].body, ActiveRoot), req[w].op = "attest"
        PROVE  MatchesRoot(w)
    <3>1. LastInForce
      BY <1>a, <2>1, <2>3
    <3>2. ASSUME baselines # << >> PROVE req[w].body.root = LastPinned.root
      <4>1. ActiveRoot = LastPinned.root /\ LastPinned.root # NoRoot
        BY <1>h, <3>1, <3>2, InForceIsActive, LastRow, BaselineAssumption
           DEF SavedRoot
      <4> QED
        BY <2>3, <4>1 DEF RootMatches
    <3> QED
      BY <3>2 DEF MatchesRoot
  <2>4. Proceed(w, l) => pc' = [pc EXCEPT ![w] = l] /\ UNCHANGED req
    BY DEF Proceed, locals
  <2> HIDE DEF l
  <2>5. CASE Proceed(w, l) /\ RootMatches(req[w].body, ActiveRoot)
    BY <1>h, <2>1, <2>2, <2>3, <2>4, <2>5, MatchKept
  <2> QED
    BY <1>h, <2>1, <2>5, MatchRejects
<1>9. CASE Pcr7Check(w)
  <2>1. /\ pc[w] = "pcr7" /\ pc[w] # Idle /\ UNCHANGED <<baselines, policy>>
        /\ \/ Proceed(w, "entries") /\ Pcr7Matches(req[w].body, ActivePcr7)
           \/ Reject(w)
    BY <1>9, <1>r DEF Pcr7Check, At, Idle
  <2>2. req[w].op = "attest" => MatchesRoot(w)
    BY <2>1 DEF MatchInv
  <2>3. ASSUME Pcr7Matches(req[w].body, ActivePcr7), req[w].op = "attest"
        PROVE  MatchesPcr7(w)
    <3>1. LastInForce
      BY <1>a, <2>1, <2>3
    <3> QED
      BY <1>h, <2>3, <3>1, InForceIsActive DEF Pcr7Matches, MatchesPcr7
  <2>4. CASE Proceed(w, "entries") /\ Pcr7Matches(req[w].body, ActivePcr7)
    <3>1. pc' = [pc EXCEPT ![w] = "entries"] /\ UNCHANGED req
      BY <2>4 DEF Proceed, locals
    <3> QED
      BY <1>h, <2>1, <2>2, <2>3, <2>4, <3>1, MatchKept
  <2> QED
    BY <1>h, <2>1, <2>4, MatchRejects
<1>10. CASE EntriesCheck(w)
  <2>1. UNCHANGED <<baselines, policy>>
    BY <1>10 DEF EntriesCheck, UnchangedStores, UnchangedServer
  <2>2. Finish(w) \/ Proceed(w, "pin") \/ Reject(w)
    BY <1>10 DEF EntriesCheck
  <2> QED
    BY <1>c, <1>h, <2>1, <2>2, MatchRejects
<1>11. CASE Pin(w)
  BY <1>11, <1>e, <1>h, EnrollLeavesNobody DEF Pin, At, Finish, Idle
<1>12. CASE Restore(w)
  BY <1>12, <1>e, <1>h, EnrollLeavesNobody DEF Restore, At, Finish, Idle
<1> QED
  BY <1>1, <1>2, <1>3, <1>4, <1>5, <1>6, <1>7, <1>8, <1>9, <1>10, <1>11,
     <1>12 DEF Handle

LEMMA MatchNext ==
    ASSUME TypeInv, TurnsInv, MatchInv, ExclusiveEnrolls, [Next]_vars
    PROVE  MatchInv'
<1>h. HandlersOK
  BY DEF TypeInv
<1>s. ASSUME UNCHANGED <<pc, req, baselines, policy>> PROVE MatchInv'
  BY <1>s DEF MatchInv, MatchesRoot, MatchesPcr7, LastPinned
<1>1. ASSUME NEW w \in Worker, NEW op \in {"attest", "enroll"},
             NEW n \in Nonce, NEW body \in Reports, Receive(w, op, n, body)
      PROVE  MatchInv'
  <2>1. \E l : l \notin {"pcr7", "entries"} /\ pc' = [pc EXCEPT ![w] = l]
    BY <1>1 DEF Receive
  <2>2. /\ UNCHANGED <<baselines, policy>>
        /\ \A v \in Worker : v # w => req'[v] = req[v]
    BY <1>1, <1>h
       DEF Receive, ReadOnly, UnchangedStores, UnchangedServer, HandlersOK
  <2> QED
    BY <1>h, <2>1, <2>2, MatchKept
<1>2. ASSUME NEW w \in Worker, Handle(w) PROVE MatchInv'
  BY <1>2, MatchHandle
<1>3. ASSUME NEW w \in Worker, DbError(w) PROVE MatchInv'
  BY <1>3, <1>h, MatchRejects DEF DbError, UnchangedStores
<1>4. ASSUME Crash PROVE MatchInv'
  BY <1>4 DEF Crash, MatchInv, Idle
<1>5. ASSUME NEW p \in Policies, Restart(p) PROVE FALSE
  BY <1>5 DEF Restart, TurnsInv
<1>6. ASSUME NEW n \in Nonce, Challenge(n) PROVE MatchInv'
  BY <1>6, <1>s DEF Challenge, UnchangedServer, locals
<1>7. ASSUME NEW r \in RegRequests, Register(r) PROVE MatchInv'
  BY <1>7, <1>s DEF Register, UnchangedServer, locals
<1>8. ASSUME Tick PROVE MatchInv'
  BY <1>8, <1>s DEF Tick, UnchangedServer, locals
<1>9. ASSUME UNCHANGED vars PROVE MatchInv'
  BY <1>9, <1>s DEF vars, locals
<1> QED
  BY <1>1, <1>2, <1>3, <1>4, <1>5, <1>6, <1>7, <1>8, <1>9 DEF Next

LEMMA MatchInvariant ==
    Spec /\ []ExclusiveEnrolls => [](TypeInv /\ TurnsInv /\ MatchInv)
<1>1. Init => MatchInv
  BY DEF Init, MatchInv, Idle
<1>2. TypeInv /\ TurnsInv /\ MatchInv /\ ExclusiveEnrolls /\ [Next]_vars
        => MatchInv'
  BY MatchNext
<1> QED
  BY <1>1, <1>2, ExclusiveIsSerial, TurnsInvInvariant, PTL DEF Spec

(* Without faults and with enrolls that keep other requests out: an attest  *)
(* about to get its token matches the baseline pinned last, however many    *)
(* attests are handled at once (main.py:591-634).                           *)
THEOREM ExclusiveGrantsMatch ==
    Spec /\ []ExclusiveEnrolls => []GrantsMatchBaseline
<1>1. MatchInv => GrantsMatchBaseline
  BY DEF MatchInv, MatchesRoot, MatchesPcr7, GrantsMatchBaseline
<1> QED
  BY <1>1, MatchInvariant, PTL

-----------------------------------------------------------------------------
(***************************************************************************)
(* The strict policy, over any faults and restarts that do not change it:  *)
(* a row is marked verified under the same policy that reads it.           *)
(***************************************************************************)
StrictInv ==
    /\ \A w \in Worker : pc[w] = "strict" => policy.strict
    /\ policy.strict =>
           \A m \in Machine :
               EkVerified(enrolledMachines[m]) => enrolledMachines[m].ek = "x509"

LEMMA StrictInvNext ==
    ASSUME TypeInv, StrictInv, policy' = policy, [Next]_vars
    PROVE  StrictInv'
<1> USE DEF StrictInv
<1>p. pc \in [Worker -> Label]
  BY DEF TypeInv, HandlersOK
<1>k. ASSUME UNCHANGED enrolledMachines,
             \A w \in Worker : pc'[w] = "strict" =>
                 pc[w] = "strict" \/ policy.strict
      PROVE  StrictInv'
  BY <1>k DEF EkVerified
<1>1. ASSUME NEW r \in RegRequests, Register(r) PROVE StrictInv'
  <2>1. /\ r.ek # "none" => VerifyEkCert(r.ek, policy.strict)
        /\ enrolledMachines' =
               [enrolledMachines EXCEPT
                   ![r.machine] = [ak |-> r.ak, ek |-> r.ek,
                                   verified |-> r.ek # "none"]]
        /\ UNCHANGED pc
    BY <1>1 DEF Register, RegisterMachine
  <2>2. enrolledMachines \in [Machine -> MachineRow \cup {NoRow}]
    BY DEF TypeInv, StoresOK, RegistryTypeOK
  <2>3. ASSUME NEW m \in Machine, policy.strict, EkVerified(enrolledMachines'[m])
        PROVE  enrolledMachines'[m].ek = "x509"
    <3>1. CASE m = r.machine
      <4>1. enrolledMachines'[m] = [ak |-> r.ak, ek |-> r.ek,
                                    verified |-> r.ek # "none"]
        BY <2>1, <2>2, <3>1
      <4>2. enrolledMachines'[m].ek = r.ek
        BY <4>1
      <4>3. r.ek # "none"
        <5>1. CASE r.ek = "none"
          <6>1. enrolledMachines'[m] = [ak |-> r.ak, ek |-> r.ek,
                                        verified |-> FALSE]
            BY <4>1, <5>1
          <6> QED
            BY <2>3, <6>1 DEF EkVerified
        <5> QED
          BY <5>1
      <4> QED
        BY <2>1, <2>3, <4>2, <4>3 DEF VerifyEkCert
    <3>2. CASE m # r.machine
      <4>1. enrolledMachines'[m] = enrolledMachines[m]
        BY <2>1, <2>2, <3>2
      <4> QED
        BY <2>3, <4>1
    <3> QED
      BY <3>1, <3>2
  <2> QED
    BY <2>1, <2>3
<1>2. ASSUME NEW w \in Worker, NEW op \in {"attest", "enroll"},
             NEW n \in Nonce, NEW body \in Reports, Receive(w, op, n, body)
      PROVE  StrictInv'
  BY <1>p, <1>2, <1>k
     DEF Receive, ReadOnly, UnchangedStores, UnchangedServer
<1>3. ASSUME NEW w \in Worker, Handle(w) PROVE StrictInv'
  <2>1. UNCHANGED enrolledMachines
    BY <1>3 DEF Handle, SaveRoot, DeactivateAll, Stamp, Consume, VerifyQuote,
         StrictCheck, ContentCheck, RootCheck, Pcr7Check, EntriesCheck, Pin,
         Restore, ReadOnly, UnchangedStores, UnchangedServer
  <2>2. ASSUME NEW l, l # "strict", pc' = [pc EXCEPT ![w] = l]
        PROVE  StrictInv'
    BY <1>p, <1>k, <2>1, <2>2
  <2>3. ASSUME NEW l, l # "strict", Proceed(w, l) PROVE StrictInv'
    BY <2>2, <2>3 DEF Proceed
  <2>4. ASSUME Finish(w) PROVE StrictInv'
    BY <2>2, <2>4 DEF Finish, Idle
  <2>5. ASSUME Reject(w) PROVE StrictInv'
    BY <2>3, <2>4, <2>5 DEF Reject
  <2>6. CASE VerifyQuote(w)
    <3>1. Reject(w) \/ pc' = [pc EXCEPT
                                  ![w] = IF policy.strict THEN "strict"
                                         ELSE "content"]
      BY <2>6 DEF VerifyQuote
    <3> QED
      BY <1>p, <1>k, <2>1, <2>5, <3>1
  <2>7. CASE RootCheck(w)
    <3>1. Reject(w) \/ Proceed(w, "pcr7") \/ Proceed(w, "entries")
      BY <2>7 DEF RootCheck
    <3> QED
      BY <2>3, <2>5, <3>1
  <2> QED
    BY <1>3, <2>2, <2>3, <2>4, <2>5, <2>6, <2>7
       DEF Handle, SaveRoot, DeactivateAll, Stamp, Consume, StrictCheck,
           ContentCheck, Pcr7Check, EntriesCheck, Pin, Restore
<1>4. ASSUME NEW w \in Worker, DbError(w) PROVE StrictInv'
  BY <1>p, <1>4, <1>k DEF DbError, Finish, UnchangedStores, Idle
<1>5. ASSUME Crash PROVE StrictInv'
  BY <1>5, <1>k DEF Crash, UnchangedStores, Idle
<1>6. ASSUME UNCHANGED <<enrolledMachines, pc>> PROVE StrictInv'
  BY <1>6, <1>k
<1> QED
  BY <1>1, <1>2, <1>3, <1>4, <1>5, <1>6
     DEF Next, Challenge, Restart, Tick, UnchangedStores, vars

(* Under STRICT_EK_VERIFICATION, as long as the server is not restarted     *)
(* with another policy, a report passes only with an X.509 certificate on   *)
(* record for its machine, through crashes, database errors and restarts    *)
(* (main.py:96, 373-381).                                                   *)
THEOREM StrictSeesCertificate ==
    Spec /\ [][policy' = policy]_vars => StrictCheckSeesCertificate
<1>1. Init => StrictInv
  BY DEF Init, StrictInv, RegistryInit, EkVerified, Idle
<1>2. TypeInv /\ StrictInv /\ [Next]_vars /\ [policy' = policy]_vars
          => StrictInv'
  <2>1. UNCHANGED vars => policy' = policy
    BY DEF vars
  <2> QED
    BY <2>1, StrictInvNext
<1>3. TypeInv /\ StrictInv /\ [Next]_vars =>
        \A w \in Worker :
          (up /\ pc[w] = "strict" /\ pc'[w] = "content") =>
              LET r == GetEnrolledMachine(req[w].body.machine)
              IN  r # NoRow /\ r.ek = "x509"
  <2> SUFFICES ASSUME TypeInv, StrictInv, [Next]_vars, NEW w \in Worker,
                      up, pc[w] = "strict", pc'[w] = "content"
               PROVE  LET r == GetEnrolledMachine(req[w].body.machine)
                      IN  r # NoRow /\ r.ek = "x509"
    OBVIOUS
  <2> DEFINE r == GetEnrolledMachine(req[w].body.machine)
  <2>1. Handle(w)
    BY HandlersMoveThemselves DEF Idle
  <2>2. StrictCheck(w)
    BY <2>1 DEF Handle, SaveRoot, DeactivateAll, Stamp, Consume, VerifyQuote,
         ContentCheck, RootCheck, Pcr7Check, EntriesCheck, Pin, Restore, At
  <2>3. EkVerified(r)
    <3>1. ~Reject(w)
      BY DEF Reject, Proceed, Finish, Idle, TypeInv, HandlersOK
    <3> QED
      BY <2>2, <3>1 DEF StrictCheck
  <2>4. policy.strict
    BY DEF StrictInv
  <2> QED
    BY <2>3, <2>4 DEF EkVerified, GetEnrolledMachine, StrictInv
<1> QED
  BY <1>1, <1>2, <1>3, TypeInvInvariant, PTL
     DEF Spec, StrictCheckSeesCertificate

-----------------------------------------------------------------------------
(***************************************************************************)
(* Progress: the part of EveryRequestIsAnswered that is about steps and    *)
(* not about fairness.  Rank bounds the steps a handler has left.          *)
(***************************************************************************)
Rank(l) ==
    CASE l = "save"       -> 12  [] l = "content" -> 6
      [] l = "deactivate" -> 11  [] l = "root"    -> 5
      [] l = "stamp"      -> 10  [] l = "pcr7"    -> 4
      [] l = "consume"    -> 9   [] l = "entries" -> 3
      [] l = "quote"      -> 8   [] l = "pin"     -> 2
      [] l = "strict"     -> 7   [] l = "restore" -> 1
      [] OTHER            -> 0

(* Every step of a handler takes it nearer to its answer, a rejected        *)
(* enroll's way back included, and no step of anything else takes it back.  *)
HandlersOnlyAdvance ==
    [][/\ \A w \in Worker : Handle(w) => Rank(pc'[w]) < Rank(pc[w])
       /\ \A w \in Worker : pc[w] # Idle => Rank(pc'[w]) <= Rank(pc[w])]_vars

LEMMA Ranks ==
    /\ Rank("save") = 12 /\ Rank("deactivate") = 11 /\ Rank("stamp") = 10
    /\ Rank("consume") = 9 /\ Rank("quote") = 8 /\ Rank("strict") = 7
    /\ Rank("content") = 6 /\ Rank("root") = 5 /\ Rank("pcr7") = 4
    /\ Rank("entries") = 3 /\ Rank("pin") = 2 /\ Rank("restore") = 1
    /\ Rank(Idle) = 0
BY DEF Rank, Idle

LEMMA HandleAdvances ==
    ASSUME TypeInv, NEW w \in Worker, Handle(w)
    PROVE  Rank(pc'[w]) < Rank(pc[w])
<1>p. pc \in [Worker -> Label]
  BY DEF TypeInv, HandlersOK
<1>g. ASSUME NEW l, Proceed(w, l) PROVE pc'[w] = l
  BY <1>p, <1>g DEF Proceed
<1>f. ASSUME Finish(w) PROVE pc'[w] = Idle
  BY <1>p, <1>f DEF Finish
<1>j. ASSUME Reject(w) PROVE Rank(pc'[w]) \in {0, 1}
  BY <1>g, <1>f, <1>j, Ranks DEF Reject
<1>1. CASE SaveRoot(w)
  BY <1>p, <1>1, Ranks DEF SaveRoot, At
<1>2. CASE DeactivateAll(w)
  BY <1>g, <1>2, Ranks DEF DeactivateAll, At
<1>3. CASE Stamp(w)
  BY <1>p, <1>3, Ranks DEF Stamp, At
<1>4. CASE Consume(w)
  <2>1. pc[w] = "consume" /\ (Proceed(w, "quote") \/ Reject(w))
    BY <1>4 DEF Consume, At
  <2> QED
    BY <1>g, <1>j, <2>1, Ranks
<1>5. CASE VerifyQuote(w)
  <2>1. /\ pc[w] = "quote"
        /\ pc'[w] \in {"strict", "content"} \/ Reject(w)
    BY <1>p, <1>5 DEF VerifyQuote, At
  <2> QED
    BY <1>j, <2>1, Ranks
<1>6. CASE StrictCheck(w)
  <2>1. pc[w] = "strict" /\ (Proceed(w, "content") \/ Reject(w))
    BY <1>6 DEF StrictCheck, At
  <2> QED
    BY <1>g, <1>j, <2>1, Ranks
<1>7. CASE ContentCheck(w)
  <2>1. pc[w] = "content" /\ (Proceed(w, "root") \/ Reject(w))
    BY <1>7 DEF ContentCheck, At
  <2> QED
    BY <1>g, <1>j, <2>1, Ranks
<1>8. CASE RootCheck(w)
  <2>1. /\ pc[w] = "root"
        /\ Proceed(w, "pcr7") \/ Proceed(w, "entries") \/ Reject(w)
    BY <1>8 DEF RootCheck, At
  <2> QED
    BY <1>g, <1>j, <2>1, Ranks
<1>9. CASE Pcr7Check(w)
  <2>1. pc[w] = "pcr7" /\ (Proceed(w, "entries") \/ Reject(w))
    BY <1>9 DEF Pcr7Check, At
  <2> QED
    BY <1>g, <1>j, <2>1, Ranks
<1>10. CASE EntriesCheck(w)
  <2>1. /\ pc[w] = "entries"
        /\ Finish(w) \/ Proceed(w, "pin") \/ Reject(w)
    BY <1>10 DEF EntriesCheck, At
  <2> QED
    BY <1>f, <1>g, <1>j, <2>1, Ranks
<1>11. CASE Pin(w)
  BY <1>f, <1>11, Ranks DEF Pin, At
<1>12. CASE Restore(w)
  BY <1>f, <1>12, Ranks DEF Restore, At
<1> QED
  BY <1>1, <1>2, <1>3, <1>4, <1>5, <1>6, <1>7, <1>8, <1>9, <1>10, <1>11,
     <1>12 DEF Handle

LEMMA RankType == \A l \in Label : Rank(l) \in 0..12
BY Ranks DEF Label, Checking, Idle

(* With any number of workers, faults and restarts, a handler takes at most *)
(* twelve steps to its answer: no check and no rollback loops or goes back  *)
(* to an earlier one (_verify_report and enroll, main.py:525-633, 736-778). *)
THEOREM AnswerIsTwelveStepsAway == Spec => HandlersOnlyAdvance
<1>1. TypeInv /\ [Next]_vars =>
        \A w \in Worker : Handle(w) => Rank(pc'[w]) < Rank(pc[w])
  BY HandleAdvances
<1>2. TypeInv /\ TypeInv' /\ [Next]_vars =>
        \A w \in Worker : pc[w] # Idle => Rank(pc'[w]) <= Rank(pc[w])
  <2> SUFFICES ASSUME TypeInv, TypeInv', [Next]_vars, NEW w \in Worker,
                      pc[w] # Idle
               PROVE  Rank(pc'[w]) <= Rank(pc[w])
    OBVIOUS
  <2>1. Rank(pc[w]) \in 0..12 /\ Rank(pc'[w]) \in 0..12
    BY RankType DEF TypeInv, HandlersOK
  <2>2. CASE pc'[w] = pc[w]
    BY <2>1, <2>2
  <2>3. CASE pc'[w] = Idle
    BY <2>1, <2>3, Ranks
  <2>4. CASE pc'[w] # pc[w] /\ pc'[w] # Idle
    <3>1. Rank(pc'[w]) < Rank(pc[w])
      BY <2>4, HandlersMoveThemselves, HandleAdvances
    <3> QED
      BY <2>1, <3>1
  <2> QED
    BY <2>2, <2>3, <2>4
<1> QED
  BY <1>1, <1>2, TypeInvInvariant, PTL DEF Spec, HandlersOnlyAdvance

-----------------------------------------------------------------------------
(***************************************************************************)
(* The server implements ChallengeProtocol, for any numbers of workers,    *)
(* nonces, ticks and faults.  The argument: by the nonce invariant a held  *)
(* or granted nonce is out of the table and a nonce is held at most once,  *)
(* so each kind of step moves nonces along one arrow of the protocol.      *)
(***************************************************************************)
phase == [n \in Nonce |-> PhaseOf(n)]

(* What tells the phases of a nonce apart, and that they exclude another.   *)
LEMMA Phases ==
    ASSUME TypeInv, NonceInv, NEW n \in Nonce
    PROVE  /\ IsActive(n) => Issued(n) /\ ~IsHeld(n) /\ grants[n] = 0
           /\ IsHeld(n) => Issued(n) /\ grants[n] = 0
           /\ grants[n] > 0 => Issued(n)
<1>1. grants[n] \in Nat
  BY DEF TypeInv, ServerOK
<1>2. IsActive(n) => Issued(n)
  BY DEF NonceInv, RowsAreDated, IsActive
<1>3. IsHeld(n) => Issued(n) /\ ~IsActive(n)
  BY DEF NonceInv, HeldNonceIsBurned, IsHeld
<1>4. grants[n] > 0 => Issued(n) /\ ~IsActive(n) /\ ~IsHeld(n)
  BY DEF NonceInv, GrantedIsSpent, IsHeld
<1> QED
  BY <1>1, <1>2, <1>3, <1>4

-----------------------------------------------------------------------------
(***************************************************************************)
(* The arrows.                                                             *)
(***************************************************************************)
(* Handlers that stop holding drop their nonces.                            *)
LEMMA ReleasingDrops ==
    ASSUME TypeInv, NonceInv, UNCHANGED <<activeNonces, issuedAt, grants>>,
           \A w \in Worker : pc'[w] \in Checking =>
               pc[w] \in Checking /\ req'[w] = req[w]
    PROVE  Challenges!Next
<1> DEFINE S == { n \in Nonce : IsHeld(n) /\ ~IsHeld(n)' }
<1>1. \A n \in Nonce : /\ Issued(n)' = Issued(n)
                       /\ IsActive(n)' = IsActive(n)
                       /\ grants'[n] = grants[n]
                       /\ IsHeld(n)' => IsHeld(n)
  BY DEF Issued, IsActive, IsHeld, Holding
<1>2. ASSUME NEW n \in S PROVE PhaseOf(n) = "held"
  BY <1>2, Phases DEF PhaseOf
<1>3. ASSUME NEW n \in Nonce
      PROVE  PhaseOf(n)' = IF n \in S THEN "dead" ELSE PhaseOf(n)
  <2>1. CASE n \in S
    BY <1>1, <2>1, Phases DEF PhaseOf
  <2>2. CASE n \notin S
    BY <1>1, <2>2 DEF PhaseOf
  <2> QED
    BY <2>1, <2>2
<1> HIDE DEF S
<1>4. S \in SUBSET Nonce
  BY DEF S
<1>5. Challenges!Drop(S)
  BY <1>2, <1>3, <1>4 DEF Challenges!Drop, Challenges!InPhase
<1> QED
  BY <1>4, <1>5 DEF Challenges!Next

(* GET /challenge issues a fresh nonce.                                     *)
LEMMA ChallengeIssues ==
    ASSUME TypeInv, NonceInv, NEW n \in Nonce, Challenge(n)
    PROVE  Challenges!Issue(n)
<1>1. /\ ~Issued(n)
      /\ activeNonces' = activeNonces
                         \cup {[nonce |-> n, expires |-> clock + Lifetime]}
      /\ issuedAt' = [issuedAt EXCEPT ![n] = clock]
      /\ UNCHANGED <<pc, req, grants>>
  BY DEF Challenge, IssueNonce, locals
<1>2. Issued(n)' /\ IsActive(n)'
  <2>1. issuedAt'[n] = clock /\ clock \in Nat
    BY <1>1 DEF TypeInv, StoresOK, NonceTypeOK
  <2>2. Issued(n)'
    BY <2>1 DEF Issued, Never
  <2>3. [nonce |-> n, expires |-> clock + Lifetime] \in activeNonces'
    BY <1>1
  <2> QED
    BY <2>2, <2>3 DEF IsActive
<1>3. ASSUME NEW m \in Nonce \ {n}
      PROVE  /\ Issued(m)' = Issued(m)
             /\ IsActive(m)' = IsActive(m)
             /\ IsHeld(m)' = IsHeld(m)
             /\ grants'[m] = grants[m]
  BY <1>1 DEF Issued, IsActive, IsHeld, Holding, TypeInv, StoresOK,
              NonceTypeOK
<1>4. PhaseOf(n) = "fresh" /\ PhaseOf(n)' = "issued"
  BY <1>1, <1>2 DEF PhaseOf
<1>5. \A m \in Nonce \ {n} : PhaseOf(m)' = PhaseOf(m)
  BY <1>3 DEF PhaseOf
<1> QED
  BY <1>4, <1>5 DEF Challenges!Issue

(* A purge that finds nothing to hold lets challenges expire.               *)
LEMMA PurgingExpires ==
    ASSUME TypeInv, NonceInv, NEW w \in Worker, Purges(w)
    PROVE  Challenges!Next
<1> DEFINE S == { n \in Nonce : IsActive(n) /\ ~IsActive(n)' }
<1>1. activeNonces' \subseteq activeNonces
      /\ UNCHANGED <<issuedAt, grants>>
  BY DEF Purges, Unexpired
<1>2. \A v \in Worker : /\ pc'[v] \in Checking <=> pc[v] \in Checking
                        /\ pc[v] \in Checking => req'[v] = req[v]
  BY DEF Purges, Reject, Proceed, Finish, locals, Checking, Idle, TypeInv,
         HandlersOK
<1>3. \A n \in Nonce : /\ Issued(n)' = Issued(n)
                       /\ IsActive(n)' => IsActive(n)
                       /\ grants'[n] = grants[n]
                       /\ IsHeld(n)' = IsHeld(n)
  BY <1>1, <1>2 DEF Issued, IsActive, IsHeld, Holding
<1>4. ASSUME NEW n \in S PROVE PhaseOf(n) = "issued"
  BY <1>4, Phases DEF PhaseOf
<1>5. ASSUME NEW n \in Nonce
      PROVE  PhaseOf(n)' = IF n \in S THEN "dead" ELSE PhaseOf(n)
  <2>1. CASE n \in S
    <3>1. Issued(n) /\ ~IsHeld(n) /\ grants[n] = 0
      BY <2>1, Phases
    <3> QED
      BY <1>3, <2>1, <3>1 DEF PhaseOf
  <2>2. CASE n \notin S
    BY <1>3, <2>2 DEF PhaseOf
  <2> QED
    BY <2>1, <2>2
<1> HIDE DEF S
<1>6. S \in SUBSET Nonce
  BY DEF S
<1>7. Challenges!Expire(S)
  BY <1>4, <1>5, <1>6 DEF Challenges!Expire, Challenges!InPhase
<1> QED
  BY <1>6, <1>7 DEF Challenges!Next

(* Taking a nonce holds it, while the purge lets others expire.             *)
LEMMA TakingHolds ==
    ASSUME TypeInv, NonceInv, NEW w \in Worker, Takes(w)
    PROVE  Challenges!Next
<1>n. PICK n \in Nonce : n = req[w].nonce
  BY DEF Takes, TypeInv, HandlersOK, Request, Idle
<1> DEFINE S == { m \in Nonce : IsActive(m) /\ ~IsActive(m)' /\ m # n }
<1>1. /\ activeNonces' \subseteq activeNonces
      /\ pc[w] = "consume" /\ pc' = [pc EXCEPT ![w] = "quote"]
      /\ UNCHANGED <<issuedAt, grants, req>>
  BY DEF Takes, ConsumeNonce, Unexpired, Proceed, locals
<1>2. IsActive(n) /\ ~IsActive(n)'
  BY <1>n DEF Takes, Recognised, ConsumeNonce, Unexpired, IsActive
<1>3. /\ pc'[w] \in Checking /\ pc[w] \notin Checking
      /\ \A v \in Worker \ {w} : pc'[v] = pc[v]
  BY <1>1 DEF Checking, TypeInv, HandlersOK
<1>4. /\ IsHeld(n)'
      /\ \A m \in Nonce \ {n} : IsHeld(m)' = IsHeld(m)
  BY <1>n, <1>1, <1>3 DEF IsHeld, Holding
<1>5. \A m \in Nonce : /\ Issued(m)' = Issued(m)
                       /\ IsActive(m)' => IsActive(m)
                       /\ grants'[m] = grants[m]
  BY <1>1 DEF Issued, IsActive
<1>6. ASSUME NEW m \in S PROVE PhaseOf(m) = "issued" /\ m # n
  BY <1>6, Phases DEF PhaseOf
<1>7. Issued(n) /\ PhaseOf(n) = "issued" /\ PhaseOf(n)' = "held"
  <2>1. Issued(n)
    BY <1>2, Phases
  <2>2. PhaseOf(n) = "issued"
    BY <1>2, <2>1 DEF PhaseOf
  <2>3. Issued(n)'
    BY <1>2, <1>5, <2>1
  <2>4. PhaseOf(n)' = "held"
    BY <1>2, <1>4, <2>3 DEF PhaseOf
  <2> QED
    BY <2>1, <2>2, <2>4
<1>8. ASSUME NEW m \in Nonce \ {n}
      PROVE  PhaseOf(m)' = IF m \in S THEN "dead" ELSE PhaseOf(m)
  <2>1. CASE m \in S
    <3>1. Issued(m) /\ ~IsHeld(m) /\ grants[m] = 0 /\ ~IsActive(m)'
      BY <2>1, Phases
    <3>2. /\ Issued(m)' /\ grants'[m] = 0
          /\ IsHeld(m)' = IsHeld(m)
      BY <1>4, <1>5, <3>1
    <3> QED
      BY <2>1, <3>1, <3>2 DEF PhaseOf
  <2>2. CASE m \notin S
    <3>1. /\ Issued(m)' = Issued(m) /\ (IsActive(m)' <=> IsActive(m))
          /\ IsHeld(m)' = IsHeld(m) /\ grants'[m] = grants[m]
      BY <1>4, <1>5, <2>2 DEF IsActive
    <3> QED
      BY <3>1 DEF PhaseOf
  <2> QED
    BY <2>1, <2>2
<1>9. S \in SUBSET Nonce
  OBVIOUS
<1> HIDE DEF S
<1>10. Challenges!Hold(n, S)
  BY <1>2, <1>6, <1>7, <1>8, <1>9 DEF Challenges!Hold, Challenges!InPhase
<1> QED
  BY <1>2, <1>9, <1>10 DEF Challenges!Next

(* A grant ends the only verification that held the nonce.                  *)
LEMMA GivingGrants ==
    ASSUME TypeInv, NonceInv, NEW w \in Worker, Gives(w)
    PROVE  Challenges!Next
<1>n. PICK n \in Nonce : n = req[w].nonce
  BY Labels DEF Gives, TypeInv, HandlersOK, Request
<1>1. /\ pc[w] \in Checking
      /\ pc' = [pc EXCEPT ![w] = Idle]
      /\ req' = [req EXCEPT ![w] = NoRequest]
      /\ grants' = [grants EXCEPT ![n] = @ + 1]
      /\ UNCHANGED <<activeNonces, issuedAt>>
  BY <1>n DEF Gives, CountGrant, Finish, nonceVars
<1>2. IsHeld(n)
  BY <1>n, <1>1 DEF IsHeld, Holding
<1>3. /\ pc'[w] \notin Checking
      /\ \A v \in Worker \ {w} : pc'[v] = pc[v] /\ req'[v] = req[v]
  BY <1>1, Labels DEF TypeInv, HandlersOK
<1>4. ~IsHeld(n)'
  BY <1>n, <1>1, <1>3 DEF IsHeld, Holding, NonceInv, HeldByOne
<1>5. \A m \in Nonce \ {n} : IsHeld(m)' = IsHeld(m)
  BY <1>n, <1>1, <1>3 DEF IsHeld, Holding
<1>6. \A m \in Nonce : Issued(m)' = Issued(m) /\ IsActive(m)' = IsActive(m)
  BY <1>1 DEF Issued, IsActive
<1>7. /\ grants'[n] > 0
      /\ \A m \in Nonce \ {n} : grants'[m] = grants[m]
  BY <1>1, <1>2 DEF TypeInv, ServerOK
<1>8. Issued(n) /\ ~IsActive(n)
  BY <1>2, Phases
<1>9. PhaseOf(n) = "held"
  BY <1>2, <1>8 DEF PhaseOf
<1>10. PhaseOf(n)' = "granted"
  <2>1. Issued(n)' /\ ~IsActive(n)'
    BY <1>2, <1>6, <1>8
  <2> QED
    BY <1>4, <1>7, <2>1 DEF PhaseOf
<1>11. ASSUME NEW m \in Nonce \ {n} PROVE PhaseOf(m)' = PhaseOf(m)
  <2>1. /\ Issued(m)' = Issued(m) /\ IsActive(m)' = IsActive(m)
        /\ IsHeld(m)' = IsHeld(m) /\ grants'[m] = grants[m]
    BY <1>5, <1>6, <1>7
  <2> QED
    BY <2>1 DEF PhaseOf
<1>12. Challenges!Grant(n)
  BY <1>9, <1>10, <1>11 DEF Challenges!Grant
<1> QED
  BY <1>2, <1>12 DEF Challenges!Next

-----------------------------------------------------------------------------
(***************************************************************************)
(* The refinement.                                                         *)
(***************************************************************************)
LEMMA InitImplements == Init => Challenges!Init
<1> SUFFICES ASSUME Init, NEW n \in Nonce PROVE PhaseOf(n) = "fresh"
  BY DEF Challenges!Init
<1> QED
  BY DEF Init, NonceInit, PhaseOf, Issued

LEMMA StepImplements ==
    TypeInv /\ NonceInv /\ [Next]_vars
        => [Challenges!Next]_phase
<1> SUFFICES ASSUME TypeInv, NonceInv, [Next]_vars
             PROVE  Challenges!Next
  OBVIOUS
<1>q. ASSUME Quiet, UNCHANGED <<activeNonces, issuedAt, grants>>
      PROVE  Challenges!Next
  BY <1>q, ReleasingDrops, Labels DEF Quiet
<1>i. ASSUME UNCHANGED <<pc, req, activeNonces, issuedAt, grants>>
      PROVE  Challenges!Next
  BY <1>i, ReleasingDrops
<1>1. ASSUME NEW n \in Nonce, Challenge(n) PROVE Challenges!Next
  BY <1>1, ChallengeIssues DEF Challenges!Next
<1>2. ASSUME NEW r \in RegRequests, Register(r) PROVE Challenges!Next
  BY <1>2, <1>i DEF Register, nonceVars, locals
<1>3. ASSUME NEW w \in Worker, NEW op \in {"attest", "enroll"},
             NEW n \in Nonce, NEW body \in Reports,
             Receive(w, op, n, body)
      PROVE  Challenges!Next
  <2>1. "save" \notin Checking /\ "stamp" \notin Checking
    BY DEF Checking
  <2>2. UNCHANGED <<activeNonces, issuedAt, grants>>
    BY <1>3 DEF Receive, ReadOnly, UnchangedStores, nonceVars
  <2>3. \A v \in Worker : pc'[v] \in Checking =>
            pc[v] \in Checking /\ req'[v] = req[v]
    BY <1>3, <2>1 DEF Receive, TypeInv, HandlersOK
  <2> QED
    BY <2>2, <2>3, ReleasingDrops
<1>4. ASSUME NEW w \in Worker, Handle(w) PROVE Challenges!Next
  <2>1. CASE Idles
    BY <1>q, <2>1 DEF Idles, nonceVars
  <2> QED
    BY <1>4, <2>1, HandleKinds, TakingHolds, PurgingExpires, GivingGrants
<1>5. ASSUME NEW w \in Worker, DbError(w) PROVE Challenges!Next
  BY <1>5, <1>q, FinishIsQuiet DEF DbError, UnchangedStores, nonceVars, TypeInv
<1>6. ASSUME Crash PROVE Challenges!Next
  <2>1. Quiet
    BY <1>6 DEF Crash, Quiet
  <2> QED
    BY <1>6, <1>q, <2>1 DEF Crash, UnchangedStores, nonceVars
<1>7. ASSUME NEW p \in Policies, Restart(p) PROVE Challenges!Next
  BY <1>7, <1>i DEF Restart, UnchangedStores, nonceVars, locals
<1>8. ASSUME Tick PROVE Challenges!Next
  BY <1>8, <1>i DEF Tick, locals
<1>9. ASSUME UNCHANGED vars PROVE Challenges!Next
  BY <1>9, <1>i DEF vars, nonceVars, locals
<1> QED
  BY <1>1, <1>2, <1>3, <1>4, <1>5, <1>6, <1>7, <1>8, <1>9 DEF Next

(* Through every interleaving, crash and database error, the server's       *)
(* challenges behave as ChallengeProtocol says (_issue_nonce and            *)
(* _consume_nonce, main.py:199-240, with the handlers that call them).      *)
THEOREM ServerImplementsProtocol == Spec => ImplementsChallengeProtocol
<1>1. Init => Challenges!Init
  BY InitImplements
<1>2. TypeInv /\ NonceInv /\ [Next]_vars => [Challenges!Next]_phase
  BY StepImplements
<1>3. Spec => [](TypeInv /\ NonceInv)
  BY NonceInvInvariant
<1> QED
  BY <1>1, <1>2, <1>3, PTL
     DEF Spec, ImplementsChallengeProtocol, Challenges!Spec, phase

-----------------------------------------------------------------------------
(***************************************************************************)
(* The refinement of BaselineRegister.  Only a granted attest needs        *)
(* MatchInv; the rest is that no step but Pin changes what the last row    *)
(* says, and that a handler shows nothing before it answers.               *)
(***************************************************************************)
LEMMA SameRowsSamePinned ==
    ASSUME BaselineTypeOK, BaselineTypeOK',
           DOMAIN baselines' = DOMAIN baselines,
           \A i \in DOMAIN baselines :
               /\ baselines'[i].root = baselines[i].root
               /\ baselines'[i].pcr7 = baselines[i].pcr7
    PROVE  Pinned' = Pinned
<1>1. Len(baselines') = Len(baselines)
  BY LenProperties DEF BaselineTypeOK
<1>2. baselines' = << >> <=> baselines = << >>
  BY <1>1, EmptySeq DEF BaselineTypeOK
<1>3. ASSUME baselines # << >> PROVE Len(baselines) \in DOMAIN baselines
  BY <1>3, LastRow
<1> QED
  BY <1>1, <1>2, <1>3 DEF Pinned, LastPinned

LEMMA DeactivationKeepsPinned ==
    ASSUME BaselineTypeOK, baselines' = AllInactive
    PROVE  Pinned' = Pinned
<1>1. BaselineTypeOK'
  BY AllInactiveType DEF BaselineTypeOK
<1>2. \A i \in DOMAIN baselines : baselines[i] \in BaselineRow
  BY LenProperties, ElementOfSeq DEF BaselineTypeOK
<1>3. /\ DOMAIN baselines' = DOMAIN baselines
      /\ \A i \in DOMAIN baselines :
             /\ baselines'[i].root = baselines[i].root
             /\ baselines'[i].pcr7 = baselines[i].pcr7
  BY <1>2 DEF AllInactive, BaselineRow
<1> QED
  BY <1>1, <1>3, SameRowsSamePinned

LEMMA RestoreKeepsPinned ==
    ASSUME BaselineTypeOK, NEW r, RestoreBaseline(r)
    PROVE  Pinned' = Pinned
<1>1. BaselineTypeOK'
  BY RestoreType
<1>2. \A i \in DOMAIN baselines : baselines[i] \in BaselineRow
  BY LenProperties, ElementOfSeq DEF BaselineTypeOK
<1>3. /\ DOMAIN baselines' = DOMAIN baselines
      /\ \A i \in DOMAIN baselines :
             /\ baselines'[i].root = baselines[i].root
             /\ baselines'[i].pcr7 = baselines[i].pcr7
  BY <1>2 DEF RestoreBaseline, BaselineRow
<1> QED
  BY <1>1, <1>3, SameRowsSamePinned

LEMMA PinReplacesPinned ==
    ASSUME BaselineTypeOK, NEW r \in Root, NEW p \in Pcr7 \cup {NoPcr7},
           PinBaseline(r, p)
    PROVE  Pinned' = [root |-> r, pcr7 |-> p]
<1> DEFINE new == [root |-> r, pcr7 |-> p, active |-> TRUE]
<1>1. AllInactive \in Seq(BaselineRow) /\ new \in BaselineRow
  BY AllInactiveType DEF BaselineRow
<1>2. /\ baselines' = Append(AllInactive, new)
      /\ Len(AllInactive) \in Nat
  BY <1>1, LenProperties DEF PinBaseline
<1>3. new.root = r /\ new.pcr7 = p
  OBVIOUS
<1> HIDE DEF new
<1>4. /\ baselines' \in Seq(BaselineRow)
      /\ Len(baselines') = Len(AllInactive) + 1
      /\ baselines'[Len(AllInactive) + 1] = new
  BY <1>1, <1>2, AppendProperties
<1>5. baselines' # << >>
  BY <1>2, <1>4, EmptySeq
<1> QED
  BY <1>3, <1>4, <1>5 DEF Pinned, LastPinned

(* A handler that goes on shows nothing; one that answers without a grant   *)
(* is a refusal.                                                            *)
Silent == UNCHANGED <<Pinned, req, policy, grants>>

LEMMA ProceedIsSilent ==
    ASSUME NEW w, NEW l, Proceed(w, l), UNCHANGED <<Pinned, policy, grants>>
    PROVE  Silent
BY DEF Proceed, locals, Silent

LEMMA FinishRefuses ==
    ASSUME TypeInv, NEW w \in Worker, pc[w] # Idle, Finish(w),
           UNCHANGED <<Pinned, policy, grants>>
    PROVE  Baseline!Refuse(w)
<1>1. req[w] # NoRequest
  BY ServerAssumption DEF TypeInv, HandlersOK
<1> QED
  BY <1>1 DEF Finish, Baseline!Refuse, Baseline!Answer

LEMMA RejectRefuses ==
    ASSUME TypeInv, NEW w \in Worker, pc[w] # Idle, Reject(w),
           UNCHANGED <<Pinned, policy, grants>>
    PROVE  Silent \/ Baseline!Refuse(w)
BY ProceedIsSilent, FinishRefuses DEF Reject

(* An attest that passed its checks matches the last row.                   *)
LEMMA AttestMatches ==
    ASSUME TypeInv, MatchInv, NEW w \in Worker, pc[w] = "entries",
           req[w].op = "attest"
    PROVE  Baseline!Matches(req[w].body)
<1>1. MatchesRoot(w) /\ MatchesPcr7(w)
  BY DEF MatchInv
<1>2. Pinned # Baseline!NoBaseline => baselines # << >>
  BY DEF Pinned, Baseline!NoBaseline
<1>3. baselines # << >> =>
          Pinned = [root |-> LastPinned.root, pcr7 |-> LastPinned.pcr7]
  BY DEF Pinned
<1> QED
  BY <1>1, <1>2, <1>3 DEF Baseline!Matches, MatchesRoot, MatchesPcr7

LEMMA HandleImplementsRegister ==
    ASSUME TypeInv, TurnsInv, MatchInv, NEW w \in Worker, Handle(w)
    PROVE  Silent \/ Baseline!Next
<1>b. BaselineTypeOK
  BY DEF TypeInv, StoresOK
<1>u. ASSUME UNCHANGED baselines PROVE UNCHANGED Pinned
  BY <1>u DEF Pinned, LastPinned
<1>r. ASSUME ReadOnly PROVE UNCHANGED <<Pinned, policy, grants>>
  BY <1>r, <1>u DEF ReadOnly, UnchangedStores, UnchangedServer
<1>c. ASSUME ReadOnly, pc[w] # Idle, NEW l, Proceed(w, l) \/ Reject(w)
      PROVE  Silent \/ Baseline!Next
  BY <1>c, <1>r, ProceedIsSilent, RejectRefuses DEF Baseline!Next
<1>1. CASE SaveRoot(w)
  BY <1>1, <1>r DEF SaveRoot, Silent
<1>2. CASE DeactivateAll(w)
  BY <1>b, <1>2, DeactivationKeepsPinned, ProceedIsSilent
     DEF DeactivateAll, UnchangedServer
<1>3. CASE Stamp(w)
  BY <1>3, <1>r DEF Stamp, Silent
<1>4. CASE Consume(w)
  <2>1. UNCHANGED <<Pinned, policy, grants>> /\ pc[w] # Idle
    BY <1>4, <1>u DEF Consume, UnchangedServer, At, Idle
  <2>2. Proceed(w, "quote") \/ Reject(w)
    BY <1>4 DEF Consume
  <2> QED
    BY <2>1, <2>2, ProceedIsSilent, RejectRefuses DEF Baseline!Next
<1>5. CASE VerifyQuote(w)
  <2>1. UNCHANGED <<Pinned, policy, grants>> /\ pc[w] # Idle
    BY <1>5, <1>r DEF VerifyQuote, At, Idle
  <2>2. UNCHANGED req \/ Reject(w)
    BY <1>5 DEF VerifyQuote
  <2> QED
    BY <2>1, <2>2, RejectRefuses DEF Baseline!Next, Silent
<1>6. CASE StrictCheck(w)
  BY <1>6, <1>c DEF StrictCheck, At, Idle
<1>7. CASE ContentCheck(w)
  BY <1>7, <1>c DEF ContentCheck, At, Idle
<1>8. CASE RootCheck(w)
  BY <1>8, <1>c DEF RootCheck, At, Idle
<1>9. CASE Pcr7Check(w)
  BY <1>9, <1>c DEF Pcr7Check, At, Idle
<1>10. CASE EntriesCheck(w)
  <2>1. UNCHANGED <<Pinned, policy>> /\ pc[w] = "entries" /\ pc[w] # Idle
    BY <1>10, <1>u
       DEF EntriesCheck, UnchangedStores, UnchangedServer, At, Idle
  <2>2. CASE req[w].op = "attest" /\ CountGrant(w) /\ Finish(w)
    <3>1. Baseline!Matches(req[w].body)
      BY <2>1, <2>2, AttestMatches
    <3>2. req[w] # NoRequest
      BY <2>1, ServerAssumption DEF TypeInv, HandlersOK
    <3> QED
      BY <2>1, <2>2, <3>1, <3>2
         DEF Baseline!Next, Baseline!GrantAttest, Baseline!Answer, Finish,
             CountGrant
  <2>3. CASE Proceed(w, "pin") /\ UNCHANGED grants
    BY <2>1, <2>3, ProceedIsSilent
  <2>4. CASE Reject(w) /\ UNCHANGED grants
    BY <2>1, <2>4, RejectRefuses DEF Baseline!Next
  <2> QED
    BY <1>10, <2>2, <2>3, <2>4 DEF EntriesCheck
<1>11. CASE Pin(w)
  <2>1. /\ PinBaseline(req[w].body.root, req[w].body.pcr7)
        /\ CountGrant(w) /\ Finish(w) /\ UNCHANGED policy /\ pc[w] = "pin"
    BY <1>11 DEF Pin, At, UnchangedServer
  <2>2. /\ req[w] \in Request /\ req[w] # NoRequest
        /\ req[w].body.root \in Root
        /\ req[w].body.pcr7 \in Pcr7 \cup {NoPcr7}
    BY <2>1, ServerAssumption
       DEF TypeInv, HandlersOK, PastContent, Idle, Request, Report
  <2>3. req[w].op = "enroll"
    BY <2>1 DEF TurnsInv, EnrollInv
  <2>4. Pinned' = [root |-> req[w].body.root, pcr7 |-> req[w].body.pcr7]
    BY <1>b, <2>1, <2>2, PinReplacesPinned
  <2> QED
    BY <2>1, <2>2, <2>3, <2>4
       DEF Baseline!Next, Baseline!GrantEnroll, Baseline!Answer, Finish,
           CountGrant
<1>12. CASE Restore(w)
  <2>1. UNCHANGED <<Pinned, policy, grants>> /\ Finish(w) /\ pc[w] # Idle
    BY <1>b, <1>12, RestoreKeepsPinned DEF Restore, UnchangedServer, At, Idle
  <2> QED
    BY <2>1, FinishRefuses DEF Baseline!Next
<1> QED
  BY <1>1, <1>2, <1>3, <1>4, <1>5, <1>6, <1>7, <1>8, <1>9, <1>10, <1>11,
     <1>12 DEF Handle

LEMMA StepImplementsRegister ==
    TypeInv /\ TurnsInv /\ MatchInv /\ faults = 0 /\ faults' = 0 /\ [Next]_vars
        => [Baseline!Next]_(Baseline!vars)
<1> SUFFICES ASSUME TypeInv, TurnsInv, MatchInv, faults = 0, faults' = 0,
                    [Next]_vars
             PROVE  Silent \/ Baseline!Next
  BY DEF Silent, Baseline!vars
<1>u. ASSUME UNCHANGED <<baselines, req, policy, grants>> PROVE Silent
  BY <1>u DEF Silent, Pinned, LastPinned
<1>1. ASSUME NEW n \in Nonce, Challenge(n) PROVE Silent
  BY <1>1, <1>u DEF Challenge, UnchangedServer, locals
<1>2. ASSUME NEW r \in RegRequests, Register(r) PROVE Silent
  BY <1>2, <1>u DEF Register, UnchangedServer, locals
<1>3. ASSUME NEW w \in Worker, NEW op \in {"attest", "enroll"},
             NEW n \in Nonce, NEW body \in Reports, Receive(w, op, n, body)
      PROVE  Silent \/ Baseline!Next
  <2>1. UNCHANGED <<baselines, policy, grants>>
    BY <1>3 DEF Receive, ReadOnly, UnchangedStores, UnchangedServer
  <2>2. UNCHANGED Pinned
    BY <2>1 DEF Pinned, LastPinned
  <2>3. [op |-> op, nonce |-> n, body |-> body] \in Requests
    BY DEF Requests
  <2>4. pc[w] = Idle
    BY <1>3 DEF Receive, At
  <2>5. CASE req[w] = NoRequest
    BY <1>3, <2>1, <2>2, <2>3, <2>5
       DEF Receive, Baseline!Next, Baseline!Serve
  <2> QED
    BY <2>4, <2>5 DEF TypeInv, HandlersOK
<1>4. ASSUME NEW w \in Worker, Handle(w) PROVE Silent \/ Baseline!Next
  BY <1>4, HandleImplementsRegister
<1>5. ASSUME NEW w \in Worker, DbError(w) PROVE FALSE
  BY <1>5 DEF DbError
<1>6. ASSUME Crash PROVE FALSE
  BY <1>6 DEF Crash
<1>7. ASSUME NEW p \in Policies, Restart(p) PROVE FALSE
  BY <1>7 DEF Restart, TurnsInv
<1>8. ASSUME Tick PROVE Silent
  BY <1>8, <1>u DEF Tick, UnchangedServer, locals
<1>9. ASSUME UNCHANGED vars PROVE Silent
  BY <1>9, <1>u DEF vars, locals
<1> QED
  BY <1>1, <1>2, <1>3, <1>4, <1>5, <1>6, <1>7, <1>8, <1>9 DEF Next

(* Without faults and with enrolls that keep other requests out: the        *)
(* endpoints behave as one baseline that a granted enroll replaces at once, *)
(* a granted attest matches and a refusal leaves alone, however many        *)
(* attests are handled at once (attest and enroll, main.py:708-778).        *)
THEOREM ExclusiveServerIsRegister ==
    Spec /\ []ExclusiveEnrolls => ImplementsBaselineRegister
<1>1. Init => Baseline!Init
  BY DEF Init, BaselineInit, Baseline!Init, Baseline!NoBaseline, Pinned
<1>2. TypeInv /\ TurnsInv /\ MatchInv
        /\ ExclusiveEnrolls /\ ExclusiveEnrolls' /\ [Next]_vars
          => [Baseline!Next]_(Baseline!vars)
  BY StepImplementsRegister DEF ExclusiveEnrolls
<1> QED
  BY <1>1, <1>2, MatchInvariant, PTL
     DEF Spec, ImplementsBaselineRegister, Baseline!Spec

=============================================================================
