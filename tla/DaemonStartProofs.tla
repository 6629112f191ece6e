-------------------------- MODULE DaemonStartProofs --------------------------
(***************************************************************************)
(* Proofs about DaemonStart, for any number of runs, any TPM and either    *)
(* policy.                                                                 *)
(***************************************************************************)
EXTENDS DaemonStart, Naturals, TLAPS

\* The step of a run changes nothing of another run's place.
LEMMA OneRunMoves ==
    ASSUME NEW d \in Daemon, NEW s, GoTo(d, s), TypeOK
    PROVE  /\ pc'[d] = s
           /\ \A e \in Daemon : e # d => pc'[e] = pc[e]
BY DEF GoTo, TypeOK

-----------------------------------------------------------------------------
(* Types.                                                                   *)
LEMMA NextSourceIsStep ==
    ASSUME NEW s \in Source
    PROVE  AfterSource(s) \in {"nvEcc", "handle", "post"}
BY DEF Source, AfterSource

LEMMA RegistrationIsTyped ==
    ASSUME TypeOK, NEW r \in posted, ServerRegisters(r)
    PROVE  RegistryTypeOK'
<1>1. r[2] \in EkKind
  BY DEF TypeOK
<1>2. [ak |-> Ak, ek |-> r[2], verified |-> r[2] # "none"] \in MachineRow
  BY <1>1, DaemonAssumption DEF MachineRow
<1>3. QED
  BY <1>2, DaemonAssumption
     DEF ServerRegisters, RegisterMachine, RegistryTypeOK, TypeOK

LEMMA TypeStep ==
    ASSUME TypeOK, [Next]_vars
    PROVE  TypeOK'
<1> USE DEF TypeOK
<1>1. ASSUME NEW d \in Daemon, Unlink(d)
      PROVE  TypeOK'
  <2>1. overlapped' \in [Daemon -> BOOLEAN] /\ trailed' \in [Daemon -> BOOLEAN]
    BY <1>1, Zenon DEF Unlink
  <2>2. QED
    BY <1>1, <2>1 DEF Unlink, GoTo, Step, Registering, Rest, History, RegistryTypeOK
<1>2. ASSUME NEW d \in Daemon, Bind(d) \/ Listen(d) \/ Close(d) \/ ReadAk(d)
                               \/ Answer(d) \/ EkUnreadable(d)
      PROVE  TypeOK'
  BY <1>2 DEF Bind, Listen, Close, ReadAk, Answer, EkUnreadable, GoTo, Step,
              Registering, Rest, History, RegistryTypeOK
<1>3. ASSUME NEW d \in Daemon, StartFails(d) \/ UnlinkAtEnd(d) \/ Kill(d)
      PROVE  TypeOK'
  BY <1>3 DEF StartFails, UnlinkAtEnd, Kill, End, GoTo, Step, EkKind, Rest,
              RegistryTypeOK
<1>4. ASSUME NEW d \in Daemon, ReadEk(d)
      PROVE  TypeOK'
  <2>1. pc[d] \in Source /\ tpm[pc[d]] \in EkKind
    BY <1>4, DaemonAssumption DEF ReadEk
  <2>2. QED
    BY <1>4, <2>1, NextSourceIsStep
       DEF ReadEk, GoTo, Step, Registering, Rest, History, RegistryTypeOK
<1>5. ASSUME NEW d \in Daemon, Post(d)
      PROVE  TypeOK'
  BY <1>5 DEF Post, GoTo, Step, Registering, Rest, History, RegistryTypeOK
<1>6. ASSUME NEW r \in posted, ServerRegisters(r)
      PROVE  TypeOK'
  <2>1. success' \in [Daemon -> {"none", "sent", "heard"}]
    BY <1>6 DEF ServerRegisters
  <2>2. QED
    BY <1>6, <2>1, RegistrationIsTyped DEF ServerRegisters, History
<1>7. ASSUME NEW r \in posted, ServerRefuses(r)
      PROVE  TypeOK'
  BY <1>7 DEF ServerRefuses, Rest, History, RegistryTypeOK
<1>8. CASE UNCHANGED vars
  BY <1>8 DEF vars, RegistryTypeOK
<1>9. QED
  BY <1>1, <1>2, <1>3, <1>4, <1>5, <1>6, <1>7, <1>8
     DEF Next, Run, AutoRegister

LEMMA TypeInit == Init => TypeOK
BY DaemonAssumption
   DEF Init, TypeOK, Step, EkKind, RegistryInit, RegistryTypeOK

(* Every behaviour of the runs on a machine is well-typed.                  *)
THEOREM TypeCorrect == Spec => []TypeOK
BY TypeInit, TypeStep, PTL DEF Spec

-----------------------------------------------------------------------------
(***************************************************************************)
(* A run alone on the machine.  By itself LoneRunIsReachable does not say  *)
(* who may still unlink: a run that has not overlapped has no other beside *)
(* it.                                                                     *)
(***************************************************************************)
AloneIsAlone ==
    \A d, e \in Daemon :
        Alive(d) /\ ~overlapped[d] /\ Alive(e) => e = d

LoneInv == TypeOK /\ AloneIsAlone /\ LoneRunIsReachable

LEMMA LoneStep ==
    ASSUME LoneInv, [Next]_vars
    PROVE  LoneInv'
<1> USE DEF LoneInv, AloneIsAlone, LoneRunIsReachable, Alive
<1>0. TypeOK'
  BY TypeStep
<1>1. ASSUME NEW d \in Daemon, Unlink(d)
      PROVE  LoneInv'
  <2>1. pc[d] = "new" /\ pc'[d] = "bind" /\ path' = NoSocket
    BY <1>1, OneRunMoves DEF Unlink
  <2>2. \A e \in Daemon : e # d => pc'[e] = pc[e]
    BY <1>1, OneRunMoves DEF Unlink
  <2>3. ~overlapped'[d] => \A e \in Daemon : ~Alive(e)
    BY <1>1, Zenon DEF Unlink
  <2>4. \A e \in Daemon : e # d /\ Alive(e) => overlapped'[e]
    BY <1>1, Zenon DEF Unlink
  <2>5. \A e \in Daemon : Alive(e)' /\ ~overlapped'[e] => e = d
    BY <2>2, <2>4
  <2>6. AloneIsAlone'
    BY <2>2, <2>3, <2>5
  <2>7. QED
    BY <1>0, <2>1, <2>5, <2>6
<1>2. ASSUME NEW d \in Daemon, Bind(d)
      PROVE  LoneInv'
  <2>1. /\ pc[d] = "bind" /\ pc'[d] = "listen" /\ path' = d
        /\ overlapped' = overlapped
        /\ \A e \in Daemon : e # d => pc'[e] = pc[e]
    BY <1>2, OneRunMoves DEF Bind, History
  <2>2. QED
    BY <1>0, <2>1
<1>3. ASSUME NEW d \in Daemon,
             Listen(d) \/ AutoRegister(d) \/ Close(d)
      PROVE  LoneInv'
  <2>1. /\ pc[d] \notin {"new", "ended", "bind"}
        /\ pc'[d] \notin {"new", "ended", "bind"}
        /\ path' = path /\ overlapped' = overlapped
        /\ \A e \in Daemon : e # d => pc'[e] = pc[e]
    <3>1. CASE Listen(d) \/ Close(d) \/ ReadAk(d) \/ Answer(d)
      BY <3>1, OneRunMoves DEF Listen, Close, ReadAk, Answer, History
    <3>2. CASE EkUnreadable(d) \/ Post(d)
      BY <3>2, OneRunMoves DEF EkUnreadable, Post, Source, History
    <3>3. CASE ReadEk(d)
      BY <3>3, OneRunMoves, NextSourceIsStep DEF ReadEk, Source, History
    <3>4. QED
      BY <1>3, <3>1, <3>2, <3>3 DEF AutoRegister
  <2>2. QED
    BY <1>0, <2>1
<1>4. ASSUME NEW d \in Daemon, StartFails(d) \/ UnlinkAtEnd(d) \/ Kill(d)
      PROVE  LoneInv'
  <2>1. /\ pc'[d] = "ended"
        /\ \A e \in Daemon : e # d =>
               pc'[e] = pc[e] /\ overlapped'[e] = overlapped[e]
    BY <1>4, OneRunMoves DEF StartFails, UnlinkAtEnd, Kill, End, TypeOK
  <2>2. path' = path \/ Alive(d)
    BY <1>4 DEF StartFails, UnlinkAtEnd, Kill
  <2>3. CASE path' = path
    BY <1>0, <2>1, <2>3
  <2>4. CASE Alive(d)
    <3>1. ASSUME NEW e \in Daemon, Alive(e)', ~overlapped'[e]
          PROVE  FALSE
      <4>1. e # d /\ Alive(e) /\ ~overlapped[e]
        BY <2>1, <3>1
      <4>2. QED
        BY <2>4, <4>1
    <3>2. QED
      BY <1>0, <3>1
  <2>5. QED
    BY <2>2, <2>3, <2>4
<1>5. ASSUME NEW r \in posted, ServerRegisters(r) \/ ServerRefuses(r)
      PROVE  LoneInv'
  BY <1>0, <1>5 DEF ServerRegisters, ServerRefuses, History
<1>6. CASE UNCHANGED vars
  BY <1>0, <1>6 DEF vars
<1>7. QED
  BY <1>1, <1>2, <1>3, <1>4, <1>5, <1>6 DEF Next, Run

LEMMA LoneInit == Init => LoneInv
BY TypeInit DEF Init, LoneInv, AloneIsAlone, LoneRunIsReachable, Alive

(* Whatever earlier runs left behind, a run that is alone can bind and is   *)
(* the one clients reach until it ends (shim.py:459, 487).                  *)
THEOREM LoneRunReachable == Spec => []LoneRunIsReachable
<1>1. Init => LoneInv
  BY LoneInit
<1>2. LoneInv => LoneRunIsReachable
  BY DEF LoneInv
<1>3. QED
  BY <1>1, <1>2, LoneStep, PTL DEF Spec

-----------------------------------------------------------------------------
(***************************************************************************)
(* What a run that heard of success may rely on.  A request may outlive    *)
(* its run, and the row is that of the request which arrived last; so the  *)
(* invariant says whose requests can still arrive: of a run that has been  *)
(* alone from the start, with nothing under way before it, only its own,   *)
(* with the EK it found.                                                   *)
(***************************************************************************)
Posted == {"answer", "serve", "closing"}

Untroubled(d) == ~overlapped[d] /\ ~trailed[d]

OwnRow(d) ==
    /\ enrolledMachines[MachineId] =
           [ak |-> Ak, ek |-> ek[d], verified |-> ek[d] # "none"]
    /\ strict => ek[d] \in {"none", "x509"}

SuccessAfterPost == \A d \in Daemon : success[d] # "none" => pc[d] \in Posted

PostedByStarted ==
    \A r \in posted :
        \/ pc[r[1]] = "ended"
        \/ pc[r[1]] \in Posted /\ r[2] = ek[r[1]]

OnlyOwnPosted ==
    \A d \in Daemon, r \in posted : Alive(d) /\ Untroubled(d) => r[1] = d

SuccessMeansOwnRow ==
    \A d \in Daemon : success[d] # "none" /\ Untroubled(d) => OwnRow(d)

StandsInv ==
    /\ LoneInv
    /\ SuccessAfterPost
    /\ PostedByStarted
    /\ OnlyOwnPosted
    /\ SuccessMeansOwnRow

(* Steps of a run's registration: its place and its EK move, and nobody     *)
(* else's; what it heard may become success only if success was sent.       *)
LEMMA StandsWhileRunning ==
    ASSUME StandsInv, LoneInv', NEW d \in Daemon,
           \A e \in Daemon : e # d => pc'[e] = pc[e] /\ ek'[e] = ek[e],
           \A e \in Daemon : success'[e] = "none" \/ success[e] # "none",
           Alive(d), Alive(d)',
           pc[d] \in Posted => pc'[d] \in Posted /\ ek'[d] = ek[d],
           \/ UNCHANGED posted
           \/ /\ posted' = posted \cup {<<d, ek[d]>>}
              /\ pc'[d] = "answer" /\ ek'[d] = ek[d],
           UNCHANGED <<History, Rest>>
    PROVE  StandsInv'
<1> USE DEF StandsInv
<1>1. SuccessAfterPost'
  BY DEF SuccessAfterPost
<1>2. PostedByStarted'
  <2>1. ASSUME NEW r \in posted
        PROVE  \/ pc'[r[1]] = "ended"
               \/ pc'[r[1]] \in Posted /\ r[2] = ek'[r[1]]
    BY <2>1 DEF PostedByStarted, LoneInv, TypeOK, Alive
  <2>2. QED
    BY <2>1 DEF PostedByStarted, Posted
<1>3. OnlyOwnPosted'
  <2> SUFFICES ASSUME NEW e \in Daemon, NEW r \in posted',
                      Alive(e)', Untroubled(e)'
               PROVE  r[1] = e
    BY DEF OnlyOwnPosted
  <2>1. Alive(e) /\ Untroubled(e)
    BY DEF Alive, Untroubled, History
  <2>2. e = d
    BY <2>1 DEF LoneInv, AloneIsAlone, Untroubled
  <2>3. QED
    BY <2>1, <2>2 DEF OnlyOwnPosted
<1>4. SuccessMeansOwnRow'
  <2> SUFFICES ASSUME NEW e \in Daemon, success'[e] # "none", Untroubled(e)'
               PROVE  OwnRow(e)'
    BY DEF SuccessMeansOwnRow
  <2>1. success[e] # "none" /\ Untroubled(e)
    BY DEF Untroubled, History
  <2>2. ek'[e] = ek[e]
    BY <2>1 DEF SuccessAfterPost
  <2>3. OwnRow(e)
    BY <2>1 DEF SuccessMeansOwnRow
  <2>4. QED
    BY <2>2, <2>3 DEF OwnRow, Rest
<1>5. QED
  BY <1>1, <1>2, <1>3, <1>4

(* A run that starts meets nobody, or is marked; the living are marked too. *)
LEMMA StandsAtStart ==
    ASSUME StandsInv, LoneInv', NEW d \in Daemon, Unlink(d)
    PROVE  StandsInv'
<1> USE DEF StandsInv
<1>1. pc[d] = "new" /\ pc'[d] = "bind" /\ trailed'[d] = (posted # {})
  BY OneRunMoves DEF Unlink, LoneInv, TypeOK
<1>2. /\ \A e \in Daemon : e # d => pc'[e] = pc[e] /\ trailed'[e] = trailed[e]
      /\ UNCHANGED <<ek, posted, success, Rest>>
  BY OneRunMoves DEF Unlink, LoneInv, TypeOK
<1>3. \A e \in Daemon : e # d => (~Alive(e) \/ overlapped'[e])
  BY Zenon DEF Unlink
<1>4. \A e \in Daemon : e # d => (overlapped[e] => overlapped'[e])
  BY Zenon DEF Unlink
<1>5. success[d] = "none"
  BY <1>1 DEF SuccessAfterPost, Posted
<1>6. SuccessAfterPost'
  BY <1>2, <1>5 DEF SuccessAfterPost
<1>7. PostedByStarted'
  <2> SUFFICES ASSUME NEW r \in posted
               PROVE  \/ pc'[r[1]] = "ended"
                      \/ pc'[r[1]] \in Posted /\ r[2] = ek'[r[1]]
    BY <1>2 DEF PostedByStarted
  <2>1. r[1] \in Daemon /\ r[1] # d
    BY <1>1 DEF PostedByStarted, Posted, LoneInv, TypeOK
  <2>2. QED
    BY <1>2, <2>1 DEF PostedByStarted
<1>8. OnlyOwnPosted'
  BY <1>1, <1>2, <1>3 DEF OnlyOwnPosted, Alive, Untroubled
<1>9. SuccessMeansOwnRow'
  BY <1>2, <1>4, <1>5 DEF SuccessMeansOwnRow, Untroubled, OwnRow, Rest
<1>10. QED
  BY <1>6, <1>7, <1>8, <1>9

(* What ends takes its own success along and leaves the others theirs.      *)
LEMMA StandsAtEnd ==
    ASSUME StandsInv, LoneInv', NEW d \in Daemon, End(d)
    PROVE  StandsInv'
<1> USE DEF StandsInv
<1>1. pc'[d] = "ended" /\ success'[d] = "none"
  BY OneRunMoves DEF End, LoneInv, TypeOK
<1>2. \A e \in Daemon : e # d => /\ pc'[e] = pc[e] /\ ek'[e] = ek[e]
                                /\ success'[e] = success[e]
                                /\ overlapped'[e] = overlapped[e]
                                /\ trailed'[e] = trailed[e]
  BY OneRunMoves DEF End, LoneInv, TypeOK
<1>3. UNCHANGED <<posted, Rest>>
  BY DEF End
<1>4. SuccessAfterPost'
  BY <1>1, <1>2 DEF SuccessAfterPost
<1>5. PostedByStarted'
  BY <1>1, <1>2, <1>3 DEF PostedByStarted, LoneInv, TypeOK
<1>6. OnlyOwnPosted'
  BY <1>1, <1>2, <1>3 DEF OnlyOwnPosted, Alive, Untroubled
<1>7. SuccessMeansOwnRow'
  BY <1>1, <1>2, <1>3 DEF SuccessMeansOwnRow, Untroubled, OwnRow, Rest
<1>8. QED
  BY <1>4, <1>5, <1>6, <1>7

(* An arrival sets the row, and for whom it matters it is its own.          *)
LEMMA StandsAtArrival ==
    ASSUME StandsInv, LoneInv', NEW r \in posted, ServerRegisters(r)
    PROVE  StandsInv'
<1> USE DEF StandsInv
<1>1. /\ UNCHANGED <<pc, ek, strict, History>>
      /\ posted' \subseteq posted
      /\ \A d \in Daemon :
             success'[d] # "none" => \/ success[d] # "none"
                                     \/ d = r[1] /\ pc[d] = "answer"
  BY DEF ServerRegisters
<1>2. enrolledMachines'[MachineId] =
          [ak |-> Ak, ek |-> r[2], verified |-> r[2] # "none"]
  BY DaemonAssumption
     DEF ServerRegisters, RegisterMachine, LoneInv, TypeOK, RegistryTypeOK
<1>3. strict => r[2] \in {"none", "x509"}
  BY DEF ServerRegisters, RegisterMachine, VerifyEkCert
<1>4. SuccessAfterPost'
  BY <1>1 DEF SuccessAfterPost, Posted
<1>5. PostedByStarted' /\ OnlyOwnPosted'
  BY <1>1 DEF PostedByStarted, OnlyOwnPosted, Alive, Untroubled, History
<1>6. SuccessMeansOwnRow'
  <2> SUFFICES ASSUME NEW d \in Daemon, success'[d] # "none", Untroubled(d)'
               PROVE  OwnRow(d)'
    BY DEF SuccessMeansOwnRow
  <2>1. pc[d] \in Posted /\ Untroubled(d)
    BY <1>1 DEF SuccessAfterPost, Posted, Untroubled, History
  <2>2. r[1] = d
    BY <2>1 DEF OnlyOwnPosted, Alive, Posted
  <2>3. r[2] = ek[d]
    BY <2>1, <2>2 DEF PostedByStarted, Posted
  <2>4. QED
    BY <1>1, <1>2, <1>3, <2>3 DEF OwnRow
<1>7. QED
  BY <1>4, <1>5, <1>6

LEMMA StandsStep ==
    ASSUME StandsInv, [Next]_vars
    PROVE  StandsInv'
<1> USE DEF StandsInv
<1>0. LoneInv' /\ TypeOK
  BY LoneStep DEF LoneInv
<1>1. ASSUME NEW d \in Daemon, Unlink(d) PROVE StandsInv'
  BY <1>0, <1>1, StandsAtStart
<1>2. ASSUME NEW d \in Daemon, StartFails(d) \/ UnlinkAtEnd(d) \/ Kill(d)
      PROVE  StandsInv'
  BY <1>0, <1>2, StandsAtEnd DEF StartFails, UnlinkAtEnd, Kill
<1>3. ASSUME NEW d \in Daemon, Bind(d) \/ Listen(d) \/ AutoRegister(d) \/ Close(d)
      PROVE  StandsInv'
  <2> DEFINE Safe ==
        /\ \A e \in Daemon : e # d => pc'[e] = pc[e] /\ ek'[e] = ek[e]
        /\ \A e \in Daemon : success'[e] = "none" \/ success[e] # "none"
        /\ Alive(d) /\ Alive(d)'
        /\ pc[d] \in Posted => pc'[d] \in Posted /\ ek'[d] = ek[d]
        /\ \/ UNCHANGED posted
           \/ /\ posted' = posted \cup {<<d, ek[d]>>}
              /\ pc'[d] = "answer" /\ ek'[d] = ek[d]
        /\ UNCHANGED <<History, Rest>>
  <2>1. CASE Bind(d) \/ Listen(d) \/ Close(d) \/ ReadAk(d) \/ EkUnreadable(d)
    <3>1. Safe
      BY <1>0, <2>1, OneRunMoves
         DEF Bind, Listen, Close, ReadAk, EkUnreadable, Alive, Posted, Source
    <3>2. QED
      BY <1>0, <3>1, StandsWhileRunning
  <2>2. CASE ReadEk(d)
    <3>1. Safe
      BY <1>0, <2>2, OneRunMoves, NextSourceIsStep
         DEF ReadEk, Alive, Posted, Source, TypeOK
    <3>2. QED
      BY <1>0, <3>1, StandsWhileRunning
  <2>3. CASE Post(d)
    <3>1. Safe
      BY <1>0, <2>3, OneRunMoves DEF Post, Alive, Posted
    <3>2. QED
      BY <1>0, <3>1, StandsWhileRunning
  <2>4. CASE Answer(d)
    <3>1. Safe
      BY <1>0, <2>4, OneRunMoves DEF Answer, Alive, Posted, TypeOK
    <3>2. QED
      BY <1>0, <3>1, StandsWhileRunning
  <2>5. QED
    BY <1>3, <2>1, <2>2, <2>3, <2>4 DEF AutoRegister
<1>4. ASSUME NEW r \in posted, ServerRegisters(r) PROVE StandsInv'
  BY <1>0, <1>4, StandsAtArrival
<1>5. ASSUME NEW r \in posted, ServerRefuses(r) PROVE StandsInv'
  BY <1>0, <1>5
     DEF ServerRefuses, History, Rest, SuccessAfterPost, PostedByStarted,
         OnlyOwnPosted, SuccessMeansOwnRow, Untroubled, OwnRow, Alive
<1>6. CASE UNCHANGED vars
  BY <1>0, <1>6
     DEF vars, SuccessAfterPost, PostedByStarted,
         OnlyOwnPosted, SuccessMeansOwnRow, Untroubled, OwnRow, Alive
<1>7. QED
  BY <1>1, <1>2, <1>3, <1>4, <1>5, <1>6 DEF Next, Run

(* What a run was told the registry holds stays there until the run ends,   *)
(* unless another run was beside it or an older registration under way.     *)
THEOREM RegistrationsStand == Spec => []RegistrationStands
<1>1. Init => StandsInv
  BY LoneInit
     DEF Init, StandsInv, SuccessAfterPost, PostedByStarted, OnlyOwnPosted,
         SuccessMeansOwnRow
<1>2. StandsInv => RegistrationStands
  BY DEF StandsInv, SuccessMeansOwnRow, OwnRow, Untroubled, RegistrationStands
<1>3. QED
  BY <1>1, <1>2, StandsStep, PTL DEF Spec

-----------------------------------------------------------------------------
(***************************************************************************)
(* Progress: the part of RegistrationEnds that is about steps and not      *)
(* about fairness.  StepsLeft bounds what registration still has to do.    *)
(***************************************************************************)
StepsLeft(s) ==
    CASE s = "ak"     -> 6  [] s = "handle" -> 3
      [] s = "nvRsa"  -> 5  [] s = "post"   -> 2
      [] s = "nvEcc"  -> 4  [] s = "answer" -> 1
      [] OTHER        -> 0

(* Every step of a registration takes it nearer to the loop that serves,    *)
(* and nothing takes a run that registers back.                             *)
RegistrationOnlyAdvances ==
    [][/\ \A d \in Daemon :
              AutoRegister(d) => StepsLeft(pc'[d]) < StepsLeft(pc[d])
       /\ \A d \in Daemon :
              pc[d] \in Registering => StepsLeft(pc'[d]) <= StepsLeft(pc[d])]_vars

LEMMA StepsLeftValues ==
    /\ StepsLeft("ak") = 6 /\ StepsLeft("nvRsa") = 5 /\ StepsLeft("nvEcc") = 4
    /\ StepsLeft("handle") = 3 /\ StepsLeft("post") = 2
    /\ StepsLeft("answer") = 1 /\ StepsLeft("serve") = 0
    /\ StepsLeft("closing") = 0 /\ StepsLeft("ended") = 0
BY DEF StepsLeft

LEMMA RegistrationAdvances ==
    ASSUME TypeOK, NEW d \in Daemon, AutoRegister(d)
    PROVE  StepsLeft(pc'[d]) < StepsLeft(pc[d])
<1>g. ASSUME NEW s, GoTo(d, s) PROVE pc'[d] = s
  BY <1>g, OneRunMoves
<1>1. CASE ReadAk(d)
  BY <1>g, <1>1, StepsLeftValues DEF ReadAk
<1>2. CASE ReadEk(d)
  <2>1. pc[d] \in Source /\ pc'[d] \in {"post", AfterSource(pc[d])}
    BY <1>g, <1>2 DEF ReadEk
  <2> QED
    BY <2>1, StepsLeftValues DEF Source, AfterSource
<1>3. CASE EkUnreadable(d)
  BY <1>g, <1>3, StepsLeftValues DEF EkUnreadable, Source
<1>4. CASE Post(d)
  BY <1>g, <1>4, StepsLeftValues DEF Post
<1>5. CASE Answer(d)
  BY <1>g, <1>5, StepsLeftValues DEF Answer
<1> QED
  BY <1>1, <1>2, <1>3, <1>4, <1>5 DEF AutoRegister

LEMMA RegisteringMoves ==
    ASSUME TypeOK, [Next]_vars, NEW d \in Daemon, pc[d] \in Registering,
           pc'[d] # pc[d]
    PROVE  AutoRegister(d) \/ pc'[d] = "ended"
<1>1. ASSUME NEW e \in Daemon, Run(e) PROVE e = d
  BY <1>1, OneRunMoves
     DEF Run, AutoRegister, Unlink, Bind, Listen, StartFails, ReadAk, ReadEk,
         EkUnreadable, Post, Answer, Close, UnlinkAtEnd, Kill, End
<1>2. ASSUME NEW r \in posted, ServerRegisters(r) \/ ServerRefuses(r)
      PROVE  FALSE
  BY <1>2 DEF ServerRegisters, ServerRefuses
<1>3. Run(d)
  BY <1>1, <1>2 DEF Next, vars
<1>4. ASSUME End(d) PROVE pc'[d] = "ended"
  BY <1>4, OneRunMoves DEF End
<1> QED
  BY <1>3, <1>4
     DEF Run, Unlink, Bind, Listen, StartFails, Close, UnlinkAtEnd, Kill,
         Registering, Source

(* Whatever the TPM answers and the server does, a registration is at most  *)
(* six steps from the loop: the search for an EK tries every place once,    *)
(* and the request is posted once (_auto_register, shim.py:136-200).        *)
THEOREM ServiceIsSixStepsAway == Spec => RegistrationOnlyAdvances
<1>1. TypeOK /\ [Next]_vars =>
        \A d \in Daemon :
            AutoRegister(d) => StepsLeft(pc'[d]) < StepsLeft(pc[d])
  BY RegistrationAdvances
<1>2. TypeOK /\ [Next]_vars =>
        \A d \in Daemon :
            pc[d] \in Registering => StepsLeft(pc'[d]) <= StepsLeft(pc[d])
  <2> SUFFICES ASSUME TypeOK, [Next]_vars, NEW d \in Daemon,
                      pc[d] \in Registering
               PROVE  StepsLeft(pc'[d]) <= StepsLeft(pc[d])
    OBVIOUS
  <2>1. StepsLeft(pc[d]) \in 1..6
    BY StepsLeftValues DEF Registering, Source
  <2>2. CASE pc'[d] = pc[d]
    BY <2>1, <2>2
  <2>3. CASE pc'[d] = "ended"
    BY <2>1, <2>3, StepsLeftValues
  <2>4. CASE pc'[d] # pc[d] /\ AutoRegister(d)
    <3>1. pc'[d] \in {"ak", "nvRsa", "nvEcc", "handle", "post", "answer", "serve"}
      BY <2>4, OneRunMoves
         DEF AutoRegister, ReadAk, ReadEk, EkUnreadable, Post, Answer,
             AfterSource, Source
    <3> QED
      BY <2>1, <2>4, <3>1, RegistrationAdvances, StepsLeftValues
  <2> QED
    BY <2>2, <2>3, <2>4, RegisteringMoves
<1> QED
  BY <1>1, <1>2, TypeCorrect, PTL DEF Spec, RegistrationOnlyAdvances

=============================================================================
