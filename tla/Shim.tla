-------------------------------- MODULE Shim --------------------------------
(***************************************************************************)
(* The daemon of phase3/shim.py between its clients (eac_hook.c,           *)
(* eos_bridge.py, mock_eac_client.c) and the attestation server, of which  *)
(* it sees what ChallengeProtocol promises.  One thread accepts a          *)
(* connection, serves it to the end and accepts the next; the others wait  *)
(* in the listen queue.  The exceptions it does not catch end the daemon.  *)
(***************************************************************************)
EXTENDS Integers, Sequences, FiniteSets

CONSTANTS
    Conn,       \* connections, each one call of a client
    Patient,    \* those whose connect() waits for room in the listen queue
    Nonce,
    None,
    Backlog,    \* connections the kernel queues
    MaxKills    \* bound: times the daemon is stopped from outside

ASSUME PatientAssumption == Patient \subseteq Conn
ASSUME NoneAssumption == None \notin Conn \cup Nonce
ASSUME BacklogAssumption == Backlog \in Nat \ {0}
ASSUME MaxKillsAssumption == MaxKills \in Nat

VARIABLES
    pc,         \* where the daemon is
    cur,        \* the connection it serves
    queue,      \* connections it has not accepted
    client,     \* how far the client of each connection is
    nonceOf,    \* the challenge fetched for each connection
    posted,     \* challenges with a report the server has not decided
    phase,      \* the challenges, as the server keeps them
    kills

shimVars == <<pc, cur, queue, nonceOf>>
serverVars == <<posted, phase>>
vars == <<pc, cur, queue, client, nonceOf, posted, phase, kills>>

Server == INSTANCE ChallengeProtocol

Step == {"down", "register", "accept", "read", "challenge", "collect",
         "post", "verdict"}

\* A client that waits is connected or has sent its handshake; it ends
\* with an answer, cut off without one, refused, or gone by itself; broken
\* is the connection that was closed before its client wrote to it.
Waiting == {"connected", "sent"}
Ended   == {"valid", "invalid", "cut", "broken", "refused", "gone"}

TypeOK ==
    /\ pc \in Step
    /\ cur \in Conn \cup {None}
    /\ queue \in Seq(Conn)
    /\ client \in [Conn -> {"new"} \cup Waiting \cup Ended]
    /\ nonceOf \in [Conn -> Nonce \cup {None}]
    /\ posted \subseteq Nonce
    /\ Server!TypeOK
    /\ kills \in 0..MaxKills

Init ==
    /\ pc = "down"
    /\ cur = None
    /\ queue = << >>
    /\ client = [c \in Conn |-> "new"]
    /\ nonceOf = [c \in Conn |-> None]
    /\ posted = {}
    /\ Server!Init
    /\ kills = 0

-----------------------------------------------------------------------------
(***************************************************************************)
(* Clients.                                                                *)
(***************************************************************************)
Become(c, s) == client' = [client EXCEPT ![c] = s]

Connect(c) ==
    /\ client[c] = "new"
    /\ pc # "down"
    /\ Len(queue) < Backlog
    /\ queue' = Append(queue, c)
    /\ Become(c, "connected")
    /\ UNCHANGED <<pc, cur, nonceOf, serverVars, kills>>

\* Nobody listens; or the listen queue is full, and the socket does not
\* wait: one with a timeout of Python's gets EAGAIN, whatever the timeout.
Refused(c) ==
    /\ client[c] = "new"
    /\ \/ pc = "down"
       \/ c \notin Patient /\ Len(queue) >= Backlog
    /\ Become(c, "refused")
    /\ UNCHANGED <<shimVars, serverVars, kills>>

\* write() and shutdown(SHUT_WR)
SendHandshake(c) ==
    /\ client[c] = "connected"
    /\ Become(c, "sent")
    /\ UNCHANGED <<shimVars, serverVars, kills>>

\* The receive timeout passes, or the client dies: it closes its end.
GiveUp(c) ==
    /\ client[c] \in Waiting
    /\ Become(c, "gone")
    /\ UNCHANGED <<shimVars, serverVars, kills>>

-----------------------------------------------------------------------------
(***************************************************************************)
(* The daemon.                                                             *)
(***************************************************************************)
\* run_server up to listen(): clients may connect from here on.
Start ==
    /\ pc = "down"
    /\ pc' = "register"
    /\ UNCHANGED <<cur, queue, client, nonceOf, serverVars, kills>>

\* _auto_register (DaemonStart)
Register ==
    /\ pc = "register"
    /\ pc' = "accept"
    /\ UNCHANGED <<cur, queue, client, nonceOf, serverVars, kills>>

Accept ==
    /\ pc = "accept"
    /\ queue # << >>
    /\ cur' = Head(queue)
    /\ queue' = Tail(queue)
    /\ pc' = "read"
    /\ UNCHANGED <<client, nonceOf, serverVars, kills>>

\* A reader that waits for the client's message, not for the end of it:
ReadMessage ==
    /\ pc = "read"
    /\ client[cur] = "sent"
    /\ pc' = "challenge"
    /\ UNCHANGED <<cur, queue, client, nonceOf, serverVars, kills>>

\* The handshake ends when the client closes its side; what it says does
\* not matter ("proceeding anyway").
ReadHandshake ==
    /\ pc = "read"
    /\ client[cur] # "connected"
    /\ pc' = "challenge"
    /\ UNCHANGED <<cur, queue, client, nonceOf, serverVars, kills>>

\* What becomes of a client whose connection is closed, with s sent to it
\* before; one that has gone gets nothing.
Closed(c, s) ==
    CASE client[c] = "sent"      -> s
      [] client[c] = "connected" -> "broken"
      [] OTHER                   -> client[c]

\* A handler that returns and leaves its connection open:
LeaveOpen(s) ==
    /\ client' = [client EXCEPT ![cur] =
                     IF @ \in Waiting /\ s = "valid" THEN s ELSE @]
    /\ cur' = None
    /\ pc' = "accept"
    /\ UNCHANGED <<queue, nonceOf, serverVars, kills>>

\* _send_response and close()
Close(s) ==
    /\ Become(cur, Closed(cur, s))
    /\ cur' = None
    /\ pc' = "accept"
    /\ UNCHANGED <<queue, nonceOf, serverVars, kills>>

\* recv() raises OSError: closed without an answer.
ReadFails == pc = "read" /\ Close("cut")

\* A challenge that is fetched once and used while it lives:
FetchOrReuse ==
    /\ pc = "challenge"
    /\ \E n \in Nonce :
        /\ \/ Server!Issue(n)
           \/ phase[n] = "issued" /\ UNCHANGED phase
        /\ nonceOf' = [nonceOf EXCEPT ![cur] = n]
    /\ pc' = "collect"
    /\ UNCHANGED <<cur, queue, client, posted, kills>>

\* _get_challenge
FetchChallenge ==
    /\ pc = "challenge"
    /\ \E n \in Nonce :
        /\ Server!Issue(n)
        /\ nonceOf' = [nonceOf EXCEPT ![cur] = n]
    /\ pc' = "collect"
    /\ UNCHANGED <<cur, queue, client, posted, kills>>

\* A handler that goes on without a challenge:
GoOnWithout ==
    /\ pc = "challenge"
    /\ pc' = "collect"
    /\ UNCHANGED <<cur, queue, client, nonceOf, serverVars, kills>>

\* The server cannot be reached, or answers with an error or no nonce.
ChallengeFails == pc = "challenge" /\ Close("invalid")

\* _collect_report_incremental (ShimCollect)
Collect ==
    /\ pc = "collect"
    /\ pc' = "post"
    /\ UNCHANGED <<cur, queue, client, nonceOf, serverVars, kills>>

CollectFails == pc = "collect" /\ Close("invalid")

\* _post_report: the request is out.
Post ==
    /\ pc = "post"
    /\ posted' = posted \cup {nonceOf[cur]}
    /\ pc' = "verdict"
    /\ UNCHANGED <<cur, queue, client, nonceOf, phase, kills>>

PostFails == pc = "post" /\ Close("invalid")

\* A shim that takes a nonce under verification for an accepted one:
EarlyVerdict ==
    /\ pc = "verdict"
    /\ \/ nonceOf[cur] \notin posted
       \/ phase[nonceOf[cur]] = "held"
    /\ Close(IF phase[nonceOf[cur]] \in {"held", "granted"}
             THEN "valid" ELSE "invalid")

\* The server has decided and its answer arrives; error answers are
\* answers that are not valid.
Verdict ==
    /\ pc = "verdict"
    /\ nonceOf[cur] \notin posted
    /\ Close(IF phase[nonceOf[cur]] = "granted" THEN "valid" ELSE "invalid")

\* The process ends: every connection is closed and the socket unlinked.
Down ==
    /\ pc' = "down"
    /\ cur' = None
    /\ queue' = << >>
    /\ client' = [c \in Conn |-> Closed(c, "cut")]
    /\ UNCHANGED nonceOf

\* Nobody catches them: timeouts and resets after a request was sent are no
\* URLError, a missing command is no RuntimeError, and what is raised while
\* the registration reads the body of an HTTP error.  The server may have
\* issued a challenge that never arrives.
Uncaught ==
    /\ pc \in {"register", "challenge", "collect", "verdict"}
    /\ Down
    /\ \/ UNCHANGED phase
       \/ pc = "challenge" /\ \E n \in Nonce : Server!Issue(n)
    /\ UNCHANGED <<posted, kills>>

\* A handshake that is JSON but no object has no get().
BadHandshake ==
    /\ pc = "read"
    /\ client[cur] # "connected"
    /\ Down
    /\ UNCHANGED <<serverVars, kills>>

Kill ==
    /\ pc # "down"
    /\ kills < MaxKills
    /\ kills' = kills + 1
    /\ Down
    /\ UNCHANGED serverVars

-----------------------------------------------------------------------------
(***************************************************************************)
(* The server, which goes on with a posted report when the daemon that     *)
(* posted it has given up.                                                 *)
(***************************************************************************)
ServerHolds(n) ==
    /\ n \in posted
    /\ \E S \in SUBSET Server!InPhase("issued") : Server!Hold(n, S)
    /\ UNCHANGED <<shimVars, client, posted, kills>>

ServerGrants(n) ==
    /\ n \in posted
    /\ Server!Grant(n)
    /\ posted' = posted \ {n}
    /\ UNCHANGED <<shimVars, client, kills>>

\* An error before the nonce is taken, or a nonce that is not active.
ServerRefuses(n) ==
    /\ n \in posted
    /\ phase[n] # "held"
    /\ posted' = posted \ {n}
    /\ UNCHANGED <<shimVars, client, phase, kills>>

ServerDrops(n) ==
    /\ n \in posted
    /\ phase[n] = "held"
    /\ Server!Drop({n})
    /\ posted' = posted \ {n}
    /\ UNCHANGED <<shimVars, client, kills>>

ServerExpires ==
    /\ \E S \in SUBSET Server!InPhase("issued") : S # {} /\ Server!Expire(S)
    /\ UNCHANGED <<shimVars, client, posted, kills>>

-----------------------------------------------------------------------------
Serve ==
    \/ Register \/ Accept \/ ReadHandshake
    \/ FetchChallenge \/ ChallengeFails \/ Collect \/ CollectFails
    \/ Post \/ PostFails \/ Verdict \/ Uncaught

\* What happens on the client's side of c once connect() is called.
Enter(c)   == Connect(c) \/ Refused(c)
Proceed(c) == SendHandshake(c) \/ GiveUp(c)

Daemon == Start \/ Serve \/ ReadFails \/ BadHandshake \/ Kill

Decide ==
    \/ \E n \in Nonce : \/ ServerHolds(n) \/ ServerGrants(n)
                        \/ ServerRefuses(n) \/ ServerDrops(n)
    \/ ServerExpires

Next ==
    \/ Daemon \/ Decide
    \/ \E c \in Conn : Enter(c) \/ Proceed(c)

Spec == Init /\ [][Next]_vars

-----------------------------------------------------------------------------
(* Fail-closed: a client is told "valid" only when the server has granted   *)
(* the challenge fetched for its own connection.                            *)
ValidMeansGranted ==
    \A c \in Conn : client[c] = "valid" =>
        nonceOf[c] # None /\ phase[nonceOf[c]] = "granted"

(* Daemon and server agree whose report it is: a challenge is fetched for   *)
(* one connection, over restarts too, so that a late grant for a client     *)
(* that was cut off lets nobody else in.                                    *)
OneConnectionPerChallenge ==
    \A c, d \in Conn : c # d /\ nonceOf[c] # None => nonceOf[c] # nonceOf[d]

(* No connection falls between the loop and the queue: who waits is queued  *)
(* once or being served, by a daemon that is up.                            *)
WaitingIsQueued ==
    \A c \in Conn : client[c] \in Waiting =>
        /\ pc # "down"
        /\ (c = cur) # (c \in { queue[i] : i \in DOMAIN queue })

=============================================================================
