----------------------------- MODULE ShimProofs -----------------------------
(***************************************************************************)
(* The daemon is fail-closed for any number of connections, challenges,    *)
(* kills and restarts, and any length of the listen queue.                 *)
(***************************************************************************)
EXTENDS Shim, TLAPS

Serving == {"read", "challenge", "collect", "post", "verdict"}

\* A client in line has not been answered, cut off or refused.
Unanswered == Waiting \cup {"gone"}

Queued(c) == \E i \in 1..Len(queue) : queue[i] = c

(***************************************************************************)
(* Why a grant is never shown to the wrong client: a connection is served  *)
(* once.  The queue has no connection twice and never the one being        *)
(* served; who is in line has no answer; and a challenge that a connection *)
(* holds is not fresh, so the next Issue cannot return it again.           *)
(***************************************************************************)
LineInv ==
    /\ pc \in Serving <=> cur # None
    /\ pc = "down" => queue = << >>
    /\ cur # None => client[cur] \in Unanswered
    /\ \A i \in 1..Len(queue) : /\ queue[i] # cur
                                /\ client[queue[i]] \in Unanswered
    /\ \A i, j \in 1..Len(queue) : queue[i] = queue[j] => i = j
    /\ \A c \in Conn : client[c] \in Waiting => c = cur \/ Queued(c)

NonceInv ==
    /\ pc \in {"collect", "post", "verdict"} => nonceOf[cur] # None
    /\ \A c \in Conn : nonceOf[c] # None => phase[nonceOf[c]] # "fresh"
    /\ OneConnectionPerChallenge
    /\ ValidMeansGranted

ShimInv == TypeOK /\ LineInv /\ NonceInv

-----------------------------------------------------------------------------
LEMMA ShimInit == Init => ShimInv
<1> SUFFICES ASSUME Init PROVE ShimInv
    OBVIOUS
<1> USE DEF Init
<1>1. TypeOK
    BY MaxKillsAssumption DEF TypeOK, Step, Server!TypeOK, Server!Init, Server!Phase
<1>2. LineInv
    BY DEF LineInv, Serving, Waiting
<1>3. NonceInv
    BY DEF NonceInv, OneConnectionPerChallenge, ValidMeansGranted
<1> QED BY <1>1, <1>2, <1>3 DEF ShimInv

(* Whatever the server does, a challenge is never fresh again and a grant   *)
(* is never taken back.                                                     *)
LEMMA PhaseMoves ==
    ASSUME Server!TypeOK, [Server!Next]_phase
    PROVE  /\ (Server!TypeOK)'
           /\ \A n \in Nonce : /\ phase[n] # "fresh" => phase'[n] # "fresh"
                               /\ phase[n] = "granted" => phase'[n] = "granted"
<1> USE DEF Server!TypeOK, Server!Phase, Server!InPhase
<1>1. CASE \E n \in Nonce : Server!Issue(n)
    BY <1>1 DEF Server!Issue
<1>2. CASE \E n \in Nonce : Server!Grant(n)
    BY <1>2 DEF Server!Grant
<1>3. CASE \E S \in SUBSET Nonce : Server!Expire(S)
    BY <1>3 DEF Server!Expire
<1>4. CASE \E S \in SUBSET Nonce : Server!Drop(S)
    BY <1>4 DEF Server!Drop
<1>5. CASE \E n \in Nonce, S \in SUBSET Nonce : Server!Hold(n, S)
    BY <1>5 DEF Server!Hold
<1>6. CASE UNCHANGED phase
    BY <1>6
<1> QED BY <1>1, <1>2, <1>3, <1>4, <1>5, <1>6 DEF Server!Next

(* The shim sees of the server what ChallengeProtocol promises.             *)
LEMMA ServerStep == ASSUME Next PROVE [Server!Next]_phase
<1> SUFFICES \/ UNCHANGED phase
             \/ \E n \in Nonce : Server!Issue(n) \/ Server!Grant(n)
             \/ \E S \in SUBSET Nonce : Server!Expire(S) \/ Server!Drop(S)
             \/ \E n \in Nonce, S \in SUBSET Nonce : Server!Hold(n, S)
    BY DEF Server!Next
<1>1. CASE Daemon
    BY <1>1 DEF Daemon, Start, Serve, ReadFails, BadHandshake, Kill, Register,
                Accept, ReadHandshake, FetchChallenge, ChallengeFails, Collect,
                CollectFails, Post, PostFails, Verdict, Uncaught, Close, Down,
                serverVars
<1>2. CASE Decide
    <2>1. ASSUME NEW n \in Nonce, ServerDrops(n)
          PROVE  Server!Drop({n}) /\ {n} \in SUBSET Nonce
        BY <2>1 DEF ServerDrops
    <2>2. ASSUME NEW n \in Nonce, ServerHolds(n)
          PROVE  \E S \in SUBSET Nonce : Server!Hold(n, S)
        BY <2>2 DEF ServerHolds, Server!InPhase
    <2>3. ASSUME ServerExpires
          PROVE  \E S \in SUBSET Nonce : Server!Expire(S)
        BY <2>3 DEF ServerExpires, Server!InPhase
    <2> QED BY <1>2, <2>1, <2>2, <2>3 DEF Decide, ServerGrants, ServerRefuses
<1>3. CASE \E c \in Conn : Enter(c) \/ Proceed(c)
    BY <1>3 DEF Enter, Proceed, Connect, Refused, SendHandshake, GiveUp,
                serverVars
<1> QED BY <1>1, <1>2, <1>3 DEF Next

(* A step that fetches no challenge keeps NonceInv if who turns valid has   *)
(* been granted.                                                            *)
LEMMA NonceKept ==
    ASSUME TypeOK, NonceInv, [Server!Next]_phase, UNCHANGED nonceOf,
           pc' \in {"collect", "post", "verdict"} => nonceOf[cur'] # None,
           \A c \in Conn : client'[c] = "valid" =>
               \/ client[c] = "valid"
               \/ nonceOf[c] # None /\ phase[nonceOf[c]] = "granted"
    PROVE  NonceInv'
<1>1. \A c \in Conn : nonceOf[c] # None => nonceOf[c] \in Nonce
    BY DEF TypeOK
<1>2. \A n \in Nonce : /\ phase[n] # "fresh" => phase'[n] # "fresh"
                       /\ phase[n] = "granted" => phase'[n] = "granted"
    BY PhaseMoves DEF TypeOK
<1> QED BY <1>1, <1>2 DEF NonceInv, OneConnectionPerChallenge, ValidMeansGranted

(* A connection that is closed has ended, with what was sent or without.    *)
LEMMA ClosedEnds ==
    ASSUME TypeOK, NEW c \in Conn, NEW s \in Ended
    PROVE  /\ Closed(c, s) \in ({"new"} \cup Ended) \ Waiting
           /\ Closed(c, s) = "valid" => s = "valid" \/ client[c] = "valid"
           /\ client[c] \in {"new"} \cup Ended => Closed(c, s) = client[c]
<1>1. client[c] \in {"new"} \cup Waiting \cup Ended
    BY DEF TypeOK
<1> QED BY <1>1 DEF Closed, Waiting, Ended

(* The connection being served is closed: nobody else's place changes.      *)
LEMMA Closing ==
    ASSUME ShimInv, NEW s \in Ended, Close(s), pc \in Serving,
           posted' \subseteq Nonce, [Server!Next]_phase, UNCHANGED kills,
           s = "valid" => nonceOf[cur] # None /\ phase[nonceOf[cur]] = "granted"
    PROVE  ShimInv'
<1> USE DEF ShimInv
<1>1. cur \in Conn /\ cur # None
    BY NoneAssumption DEF LineInv, TypeOK
<1>2. /\ pc' = "accept" /\ cur' = None
      /\ UNCHANGED <<queue, nonceOf>>
    BY DEF Close
<1>3. /\ client' \in [Conn -> {"new"} \cup Waiting \cup Ended]
      /\ \A c \in Conn \ {cur} : client'[c] = client[c]
      /\ client'[cur] \notin Waiting
      /\ client'[cur] = "valid" => s = "valid" \/ client[cur] = "valid"
    BY <1>1, ClosedEnds DEF Close, Become, TypeOK
<1>4. TypeOK'
    BY <1>2, <1>3, PhaseMoves DEF TypeOK, Step
<1>5. LineInv'
    <2>1. \A i \in 1..Len(queue) :
              queue[i] \in Conn \ {cur} /\ queue[i] # None
        BY NoneAssumption DEF LineInv, TypeOK
    <2>2. \A c \in Conn : client'[c] \in Waiting => Queued(c)
        BY <1>1, <1>3 DEF LineInv
    <2> QED BY <1>2, <1>3, <2>1, <2>2 DEF LineInv, Serving, Queued
<1>6. NonceInv'
    BY <1>1, <1>2, <1>3, NonceKept
<1> QED BY <1>4, <1>5, <1>6

(* The daemon ends: nobody is left in line.                                 *)
LEMMA Ending ==
    ASSUME ShimInv, Down, UNCHANGED posted, [Server!Next]_phase,
           kills' \in 0..MaxKills
    PROVE  ShimInv'
<1> USE DEF ShimInv
<1>1. pc' = "down" /\ cur' = None /\ queue' = << >> /\ UNCHANGED nonceOf
    BY DEF Down
<1>2. /\ client' \in [Conn -> {"new"} \cup Waiting \cup Ended]
      /\ \A c \in Conn : /\ client'[c] \notin Waiting
                         /\ client'[c] = "valid" => client[c] = "valid"
    <2>1. "cut" \in Ended /\ "cut" # "valid"
        BY DEF Ended
    <2> QED BY <2>1, ClosedEnds DEF Down
<1>3. TypeOK'
    BY <1>1, <1>2, PhaseMoves DEF TypeOK, Step
<1>4. LineInv'
    BY <1>1, <1>2 DEF LineInv, Serving
<1>5. NonceInv'
    BY <1>1, <1>2, NonceKept
<1> QED BY <1>3, <1>4, <1>5

(* A step that moves the daemon through the handling of one connection.     *)
LEMMA Going ==
    ASSUME ShimInv, UNCHANGED <<cur, queue, client, nonceOf, kills>>,
           pc # "down", pc' \in Step \ {"down"},
           pc' \in Serving <=> pc \in Serving,
           pc' \in {"collect", "post", "verdict"} => nonceOf[cur] # None,
           posted' \subseteq Nonce, [Server!Next]_phase
    PROVE  ShimInv'
<1> USE DEF ShimInv
<1>1. TypeOK'
    BY PhaseMoves DEF TypeOK
<1>2. LineInv'
    BY DEF LineInv, Queued
<1>3. NonceInv'
    BY NonceKept
<1> QED BY <1>1, <1>2, <1>3

LEMMA DaemonKeeps ==
    ASSUME ShimInv, Daemon, [Server!Next]_phase
    PROVE  ShimInv'
<1> USE DEF ShimInv
<1>1. CASE Start
    <2>1. pc' = "register" /\ pc = "down"
          /\ UNCHANGED <<cur, queue, client, nonceOf, posted, phase, kills>>
        BY <1>1 DEF Start, serverVars
    <2>2. TypeOK'
        BY <2>1, PhaseMoves DEF TypeOK, Step
    <2>3. LineInv'
        BY <2>1 DEF LineInv, Serving, Queued
    <2>4. NonceInv'
        BY <2>1, NonceKept
    <2> QED BY <2>2, <2>3, <2>4
<1>2. CASE Register
    BY <1>2, Going DEF Register, Step, Serving, serverVars, TypeOK
<1>3. CASE ReadHandshake
    BY <1>3, Going DEF ReadHandshake, Step, Serving, serverVars, TypeOK
<1>4. CASE Collect
    BY <1>4, Going DEF Collect, Step, Serving, serverVars, TypeOK, NonceInv
<1>5. CASE Post
    <2>1. nonceOf[cur] \in Nonce
        BY <1>5, NoneAssumption DEF Post, TypeOK, NonceInv, LineInv, Serving
    <2> QED BY <1>5, <2>1, Going DEF Post, Step, Serving, TypeOK, NonceInv
<1>6. CASE ReadFails
    BY <1>6, Closing DEF ReadFails, Ended, Serving, Close, serverVars, TypeOK
<1>7. CASE ChallengeFails
    BY <1>7, Closing DEF ChallengeFails, Ended, Serving, Close, serverVars, TypeOK
<1>8. CASE CollectFails
    BY <1>8, Closing DEF CollectFails, Ended, Serving, Close, serverVars, TypeOK
<1>9. CASE PostFails
    BY <1>9, Closing DEF PostFails, Ended, Serving, Close, serverVars, TypeOK
<1>10. CASE Verdict
    <2> DEFINE answer == IF phase[nonceOf[cur]] = "granted" THEN "valid"
                         ELSE "invalid"
    <2>1. pc = "verdict" /\ Close(answer)
        BY <1>10 DEF Verdict
    <2>2. answer \in Ended /\ pc \in Serving
        BY <2>1 DEF Ended, Serving
    <2>3. answer = "valid" => nonceOf[cur] # None /\ phase[nonceOf[cur]] = "granted"
        BY <2>1 DEF NonceInv
    <2>4. posted' \subseteq Nonce /\ UNCHANGED kills
        BY <2>1 DEF Close, serverVars, TypeOK
    <2> HIDE DEF answer
    <2> QED BY <2>1, <2>2, <2>3, <2>4, Closing
<1>11. CASE Uncaught
    BY <1>11, Ending DEF Uncaught, TypeOK
<1>12. CASE BadHandshake
    BY <1>12, Ending DEF BadHandshake, serverVars, TypeOK
<1>13. CASE Kill
    BY <1>13, Ending, MaxKillsAssumption DEF Kill, serverVars, TypeOK
<1>14. CASE Accept
    <2>1. /\ pc = "accept" /\ pc' = "read" /\ queue # << >>
          /\ cur' = Head(queue) /\ queue' = Tail(queue)
          /\ UNCHANGED <<client, nonceOf, posted, phase, kills>>
        BY <1>14 DEF Accept, serverVars
    <2>2. /\ Len(queue) \in Nat \ {0}
          /\ cur' \in Conn /\ cur' = queue[1]
          /\ queue' \in Seq(Conn) /\ Len(queue') = Len(queue) - 1
          /\ \A i \in 1..Len(queue') : queue'[i] = queue[i + 1]
        BY <2>1 DEF TypeOK
    <2>3. TypeOK'
        BY <2>1, <2>2, PhaseMoves DEF TypeOK, Step
    <2>4. cur = None
        BY <2>1 DEF LineInv, Serving
    <2>5. /\ cur' # None
          /\ client[cur'] \in Unanswered
          /\ \A i \in 1..Len(queue') : /\ queue'[i] # cur'
                                       /\ client[queue'[i]] \in Unanswered
          /\ \A i, j \in 1..Len(queue') : queue'[i] = queue'[j] => i = j
        BY <2>2, NoneAssumption DEF LineInv
    <2>6. ASSUME NEW c \in Conn, client[c] \in Waiting, c # cur'
          PROVE  \E i \in 1..Len(queue') : queue'[i] = c
        <3>1. c # None
            BY NoneAssumption
        <3>2. PICK i \in 1..Len(queue) : queue[i] = c
            BY <2>4, <2>6, <3>1 DEF LineInv, Queued
        <3>3. i - 1 \in 1..Len(queue') /\ queue'[i - 1] = c
            BY <2>2, <2>6, <3>2
        <3> QED BY <3>3
    <2>7. LineInv'
        BY <2>1, <2>5, <2>6 DEF LineInv, Serving, Queued
    <2>8. NonceInv'
        BY <2>1, NonceKept
    <2> QED BY <2>3, <2>7, <2>8
<1>15. CASE FetchChallenge
    <2>1. PICK n \in Nonce : /\ phase[n] = "fresh"
                             /\ phase' = [phase EXCEPT ![n] = "issued"]
                             /\ nonceOf' = [nonceOf EXCEPT ![cur] = n]
        BY <1>15 DEF FetchChallenge, Server!Issue
    <2>2. /\ pc = "challenge" /\ pc' = "collect"
          /\ UNCHANGED <<cur, queue, client, posted, kills>>
        BY <1>15 DEF FetchChallenge
    <2>3. cur \in Conn /\ client[cur] # "valid" /\ n # None
        BY <2>2, NoneAssumption DEF LineInv, Serving, TypeOK, Unanswered, Waiting
    <2>4. phase \in [Nonce -> Server!Phase]
        BY DEF TypeOK, Server!TypeOK
    <2>5. TypeOK'
        BY <2>1, <2>2, <2>3, <2>4, PhaseMoves DEF TypeOK, Step
    <2>6. LineInv'
        BY <2>2 DEF LineInv, Serving, Queued
    <2>7. /\ nonceOf'[cur] = n /\ phase'[n] = "issued"
          /\ \A c \in Conn \ {cur} : /\ nonceOf'[c] = nonceOf[c]
                                     /\ nonceOf[c] # n
          /\ \A m \in Nonce \ {n} : phase'[m] = phase[m]
        BY <2>1, <2>3, <2>4 DEF TypeOK, NonceInv
    <2>8. \A c \in Conn : nonceOf[c] # None => nonceOf[c] \in Nonce
        BY DEF TypeOK
    <2>9. NonceInv'
        BY <2>2, <2>3, <2>7, <2>8
           DEF NonceInv, OneConnectionPerChallenge, ValidMeansGranted
    <2> QED BY <2>5, <2>6, <2>9
<1> QED BY <1>1, <1>2, <1>3, <1>4, <1>5, <1>6, <1>7, <1>8, <1>9, <1>10, <1>11,
           <1>12, <1>13, <1>14, <1>15 DEF Daemon, Serve

LEMMA ServerKeeps ==
    ASSUME ShimInv, Decide, [Server!Next]_phase
    PROVE  ShimInv'
<1> USE DEF ShimInv
<1>1. UNCHANGED <<pc, cur, queue, nonceOf, client, kills>>
    BY DEF Decide, ServerHolds, ServerGrants, ServerRefuses, ServerDrops,
           ServerExpires, shimVars
<1>2. posted' \subseteq posted
    BY DEF Decide, ServerHolds, ServerGrants, ServerRefuses, ServerDrops,
           ServerExpires
<1>3. TypeOK'
    BY <1>1, <1>2, PhaseMoves DEF TypeOK
<1>4. LineInv'
    BY <1>1 DEF LineInv, Queued
<1>5. NonceInv'
    BY <1>1, NonceKept DEF NonceInv
<1> QED BY <1>3, <1>4, <1>5

LEMMA ClientKeeps ==
    ASSUME ShimInv, NEW c \in Conn, Enter(c) \/ Proceed(c), [Server!Next]_phase
    PROVE  ShimInv'
<1> USE DEF ShimInv
<1>1. CASE Connect(c)
    <2>1. /\ client[c] = "new" /\ pc # "down"
          /\ queue' = Append(queue, c)
          /\ UNCHANGED <<pc, cur, nonceOf, posted, phase, kills>>
        BY <1>1 DEF Connect, serverVars
    <2>2. /\ client' \in [Conn -> {"new"} \cup Waiting \cup Ended]
          /\ client'[c] = "connected"
          /\ \A d \in Conn \ {c} : client'[d] = client[d]
        BY <1>1 DEF Connect, Become, TypeOK, Waiting, Ended
    <2>3. /\ queue' \in Seq(Conn) /\ Len(queue) \in Nat
          /\ Len(queue') = Len(queue) + 1 /\ queue'[Len(queue) + 1] = c
          /\ \A i \in 1..Len(queue) : queue'[i] = queue[i] /\ queue[i] \in Conn
        BY <2>1 DEF TypeOK
    <2>4. TypeOK'
        BY <2>1, <2>2, <2>3, PhaseMoves DEF TypeOK
    <2>5. /\ c # cur
          /\ \A i \in 1..Len(queue) : queue[i] # c
        BY <2>1, NoneAssumption DEF LineInv, Unanswered, Waiting
    <2>6. /\ cur # None => client'[cur] \in Unanswered
          /\ \A i \in 1..Len(queue') : /\ queue'[i] # cur
                                       /\ client'[queue'[i]] \in Unanswered
          /\ \A i, j \in 1..Len(queue') : queue'[i] = queue'[j] => i = j
        BY <2>2, <2>3, <2>5 DEF LineInv, Unanswered, Waiting, TypeOK
    <2>7. ASSUME NEW d \in Conn, client'[d] \in Waiting, d # cur
          PROVE  \E i \in 1..Len(queue') : queue'[i] = d
        <3>1. CASE d = c
            BY <2>3, <3>1
        <3>2. CASE d # c
            <4>1. PICK i \in 1..Len(queue) : queue[i] = d
                BY <2>2, <2>7, <3>2 DEF LineInv, Queued
            <4> QED BY <2>3, <4>1
        <3> QED BY <3>1, <3>2
    <2>8. LineInv'
        BY <2>1, <2>6, <2>7 DEF LineInv, Queued
    <2>9. NonceInv'
        <3>1. \A d \in Conn : client'[d] = "valid" => client[d] = "valid"
            BY <2>2
        <3> QED BY <2>1, <3>1, NonceKept DEF NonceInv
    <2> QED BY <2>4, <2>8, <2>9
<1>2. CASE Refused(c) \/ SendHandshake(c) \/ GiveUp(c)
    <2>1. UNCHANGED <<pc, cur, queue, nonceOf, posted, phase, kills>>
        BY <1>2 DEF Refused, SendHandshake, GiveUp, shimVars, serverVars
    <2>2. PICK s \in {"refused", "sent", "gone"} :
              /\ client' = [client EXCEPT ![c] = s]
              /\ client[c] \in Waiting => s \in Unanswered
              /\ client[c] \notin Waiting => client[c] = "new" /\ s = "refused"
        BY <1>2 DEF Refused, SendHandshake, GiveUp, Become, Waiting, Unanswered
    <2>3. /\ client' \in [Conn -> {"new"} \cup Waiting \cup Ended]
          /\ client'[c] = s
          /\ \A d \in Conn \ {c} : client'[d] = client[d]
        BY <2>2 DEF TypeOK, Waiting, Ended
    <2>4. TypeOK'
        BY <2>1, <2>3, PhaseMoves DEF TypeOK
    <2>5. \A d \in Conn : /\ client[d] \in Unanswered => client'[d] \in Unanswered
                          /\ client'[d] \in Waiting => client[d] \in Waiting
                          /\ client'[d] = "valid" => client[d] = "valid"
        BY <2>2, <2>3 DEF Unanswered, Waiting
    <2>6. /\ cur # None => cur \in Conn
          /\ \A i \in 1..Len(queue) : queue[i] \in Conn
        BY DEF TypeOK
    <2>7. LineInv'
        BY <2>1, <2>5, <2>6 DEF LineInv, Queued
    <2>8. NonceInv'
        BY <2>1, <2>5, NonceKept DEF NonceInv
    <2> QED BY <2>4, <2>7, <2>8
<1> QED BY <1>1, <1>2 DEF Enter, Proceed

LEMMA ShimNext == ShimInv /\ [Next]_vars => ShimInv'
<1> SUFFICES ASSUME ShimInv, [Next]_vars PROVE ShimInv'
    OBVIOUS
<1>1. CASE Next
    BY <1>1, ServerStep, DaemonKeeps, ServerKeeps, ClientKeeps DEF Next
<1>2. CASE UNCHANGED vars
    <2>1. UNCHANGED <<pc, cur, queue, client, nonceOf, posted, phase, kills>>
        BY <1>2 DEF vars
    <2>2. TypeOK'
        BY <2>1, PhaseMoves DEF ShimInv, TypeOK
    <2>3. LineInv'
        BY <2>1 DEF ShimInv, LineInv, Queued
    <2>4. NonceInv'
        BY <2>1, NonceKept DEF ShimInv, NonceInv
    <2> QED BY <2>2, <2>3, <2>4 DEF ShimInv
<1> QED BY <1>1, <1>2

LEMMA ShimInvariant == Spec => []ShimInv
BY ShimInit, ShimNext, PTL DEF Spec

-----------------------------------------------------------------------------
(* Fail-closed: nobody is told "valid" without a grant for the challenge    *)
(* of his own connection, for any number of kills, restarts and failures.   *)
THEOREM FailClosed == Spec => []ValidMeansGranted
<1>1. ShimInv => ValidMeansGranted
    BY DEF ShimInv, NonceInv
<1> QED BY <1>1, ShimInvariant, PTL

(* No two connections ever share a challenge.                               *)
THEOREM OwnChallenge == Spec => []OneConnectionPerChallenge
<1>1. ShimInv => OneConnectionPerChallenge
    BY DEF ShimInv, NonceInv
<1> QED BY <1>1, ShimInvariant, PTL

(* Who waits is queued once or served, and the daemon is up.                *)
THEOREM NobodyForgotten == Spec => []WaitingIsQueued
<1>1. ASSUME ShimInv, NEW c \in Conn, client[c] \in Waiting
      PROVE  pc # "down" /\ ((c = cur) # (c \in { queue[i] : i \in DOMAIN queue }))
    <2>1. DOMAIN queue = 1..Len(queue)
        BY <1>1 DEF ShimInv, TypeOK
    <2>2. c = cur => ~(c \in { queue[i] : i \in 1..Len(queue) })
        BY <1>1 DEF ShimInv, LineInv
    <2>3. c # cur => c \in { queue[i] : i \in 1..Len(queue) }
        BY <1>1 DEF ShimInv, LineInv, Queued
    <2>4. pc # "down"
        <3>1. CASE c = cur
            BY <1>1, <3>1, NoneAssumption DEF ShimInv, LineInv, Serving
        <3>2. CASE c # cur
            <4>1. PICK i \in 1..Len(queue) : queue[i] = c
                BY <1>1, <3>2 DEF ShimInv, LineInv, Queued
            <4>2. queue # << >>
                BY <4>1
            <4> QED BY <1>1, <4>2 DEF ShimInv, LineInv
        <3> QED BY <3>1, <3>2
    <2> QED BY <2>1, <2>2, <2>3, <2>4
<1>2. ShimInv => WaitingIsQueued
    BY <1>1 DEF WaitingIsQueued
<1> QED BY <1>2, ShimInvariant, PTL

(* Every variable of the daemon keeps its type.                             *)
THEOREM ShimTypeCorrect == Spec => []TypeOK
<1>1. ShimInv => TypeOK
    BY DEF ShimInv
<1> QED BY <1>1, ShimInvariant, PTL

=============================================================================
