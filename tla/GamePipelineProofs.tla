------------------------- MODULE GamePipelineProofs -------------------------
(***************************************************************************)
(* No event and no player gets through without grants of their own,        *)
(* whether the hook is preloaded or not and however long the queue, for    *)
(* any number of challenges and restarts.                                  *)
(***************************************************************************)
EXTENDS GamePipeline, ShimProofs

(* Each step of the pipeline is one of the shim or leaves the shim's state. *)
LEMMA PipelineStep ==
    ASSUME ShimInv, [PipelineNext]_pipelineVars
    PROVE  [Next]_vars
<1>1. CASE PipelineNext
    <2>1. CASE Quit
        <3>1. Direct \in Conn
            BY ConnAssumption
        <3>2. client' = [client EXCEPT ![Direct] =
                             IF @ \in Waiting THEN "gone" ELSE @]
            BY <2>1 DEF Quit
        <3>3. UNCHANGED <<shimVars, serverVars, kills>>
            BY <2>1 DEF Quit
        <3>4. CASE client[Direct] \in Waiting
            BY <3>1, <3>2, <3>3, <3>4 DEF GiveUp, Become, Proceed, Next
        <3>5. CASE client[Direct] \notin Waiting
            <4>1. client' = client
                BY <3>1, <3>2, <3>5 DEF ShimInv, TypeOK
            <4> QED BY <3>3, <4>1 DEF vars, shimVars, serverVars
        <3> QED BY <3>4, <3>5
    <2>2. CASE Daemon \/ Decide \/ \E c \in Conn : Proceed(c)
        BY <2>2 DEF Next
    <2>3. CASE \E c \in Conn : Query(c)
        BY <2>3 DEF Query, Next
    <2>4. CASE \E g \in Game : Eos(g)
        BY <2>4 DEF Eos, BeginSession, NoLibrary, AddNotifyHooked,
                    AddNotifyStub, RegisterHook, AbortRegistration, Forward,
                    Block, Sigpipe
    <2>5. CASE DemoThread \/ PressEnter
        BY <2>5 DEF DemoThread, WriteValid, WriteDone, PressEnter
    <2> QED BY <1>1, <2>1, <2>2, <2>3, <2>4, <2>5 DEF PipelineNext
<1>2. CASE UNCHANGED pipelineVars
    BY <1>2 DEF pipelineVars
<1> QED BY <1>1, <1>2

(* A client that has its answer keeps it.                                   *)
LEMMA AnswersStay ==
    ASSUME ShimInv, [Next]_vars, NEW c \in Conn, client[c] \in Ended
    PROVE  client'[c] = client[c]
<1> USE DEF ShimInv
<1>1. ASSUME NEW s, Close(s), pc \in Serving
      PROVE  client'[c] = client[c]
    BY <1>1 DEF Close, Closed, Become, TypeOK, Ended
<1>2. ASSUME Down
      PROVE  client'[c] = client[c]
    BY <1>2 DEF Down, Closed, Ended
<1>3. CASE Daemon
    <2>1. CASE Start \/ Register \/ Accept \/ ReadHandshake \/ FetchChallenge
               \/ Collect \/ Post
        BY <2>1 DEF Start, Register, Accept, ReadHandshake, FetchChallenge,
                    Collect, Post
    <2>2. CASE ReadFails \/ ChallengeFails \/ CollectFails \/ PostFails \/ Verdict
        BY <1>1, <2>2 DEF ReadFails, ChallengeFails, CollectFails, PostFails,
                          Verdict, Serving
    <2>3. CASE Uncaught \/ BadHandshake \/ Kill
        BY <1>2, <2>3 DEF Uncaught, BadHandshake, Kill
    <2> QED BY <1>3, <2>1, <2>2, <2>3 DEF Daemon, Serve
<1>4. CASE Decide
    BY <1>4 DEF Decide, ServerHolds, ServerGrants, ServerRefuses, ServerDrops,
                ServerExpires
<1>5. CASE \E d \in Conn : Enter(d) \/ Proceed(d)
    BY <1>5 DEF Enter, Proceed, Connect, Refused, SendHandshake, GiveUp,
                Become, TypeOK, Waiting, Ended
<1>6. CASE UNCHANGED vars
    BY <1>6 DEF vars
<1> QED BY <1>3, <1>4, <1>5, <1>6 DEF Next

-----------------------------------------------------------------------------
(***************************************************************************)
(* What the threads know of answers they got: whoever is at the event has  *)
(* an approved probe, and a demo that has not quit writes what it was told *)
(* before it says that it is done.                                         *)
(***************************************************************************)
HookInv ==
    \A g \in Game :
        /\ stage[g] = "event" => Approved(Probe(g))
        /\ delivered[g] = "asked" => Approved(Probe(g)) /\ Approved(Event(g))

DemoInv ==
    /\ result.done => stage[Demo] = "done"
    /\ result.valid => Approved(Direct)
    /\ stage[Demo] \in {"write", "done"} /\ screen # "quit" =>
           client[Direct] \in Ended /\ (Approved(Direct) => result.valid)
    /\ screen = "play" => Approved(Direct)
    /\ screen = "denied" => client[Direct] \in Ended /\ ~Approved(Direct)

PipelineInv == ShimInv /\ GamesTypeOK /\ HookInv /\ DemoInv

LEMMA PipelineInvInit == PipelineInit => PipelineInv
<1> SUFFICES ASSUME PipelineInit PROVE PipelineInv
    OBVIOUS
<1>1. ShimInv
    BY ShimInit DEF PipelineInit
<1>2. GamesTypeOK
    BY DEF PipelineInit, GamesTypeOK, Stage
<1>3. HookInv /\ DemoInv
    BY DEF PipelineInit, HookInv, DemoInv, Game, Demo
<1> QED BY <1>1, <1>2, <1>3 DEF PipelineInv

(* Steps of the shim and its clients: answers stay.                         *)
LEMMA ShimSteps ==
    ASSUME PipelineInv, [Next]_vars, UNCHANGED gameVars
    PROVE  PipelineInv'
<1>1. ShimInv'
    BY ShimNext DEF PipelineInv
<1>2. \A c \in Conn : client[c] \in Ended => client'[c] = client[c]
    BY AnswersStay DEF PipelineInv
<1>3. Direct \in Conn /\ \A g \in Game : Probe(g) \in Conn /\ Event(g) \in Conn
    BY ConnAssumption
<1>4. \A c \in Conn : Approved(c) => Approved(c)'
    BY <1>2 DEF Approved, Ended
<1>5. \A c \in Conn : client[c] \in Ended =>
          client'[c] \in Ended /\ (Approved(c)' <=> Approved(c))
    BY <1>2 DEF Approved
<1>6. GamesTypeOK'
    BY DEF PipelineInv, GamesTypeOK, gameVars
<1>7. HookInv'
    BY <1>3, <1>4 DEF PipelineInv, HookInv, gameVars, Probe, Event
<1>8. DemoInv'
    BY <1>3, <1>4, <1>5 DEF PipelineInv, DemoInv, gameVars
<1> QED BY <1>1, <1>6, <1>7, <1>8 DEF PipelineInv

LEMMA EosSteps ==
    ASSUME PipelineInv, NEW g \in Game, Eos(g)
    PROVE  PipelineInv'
<1> USE DEF PipelineInv
<1>1. UNCHANGED <<vars, result, screen>>
    BY DEF Eos, BeginSession, NoLibrary, AddNotifyHooked, AddNotifyStub,
           RegisterHook, AbortRegistration, Forward, Block, Sigpipe
<1>2. UNCHANGED <<pc, cur, queue, client, nonceOf, posted, phase, kills>>
    BY <1>1 DEF vars
<1>3. ShimInv'
    BY <1>1, ShimNext
<1>4. PICK s \in {"notify", "probe", "event", "direct", "done", "killed"} :
          /\ stage' = [stage EXCEPT ![g] = s]
          /\ s = "event" => Approved(Probe(g))
          /\ s = "done" => g # Demo
          /\ stage[g] \in {"begin", "notify", "probe", "event"}
    BY DEF Eos, BeginSession, NoLibrary, AddNotifyHooked, AddNotifyStub,
           RegisterHook, AbortRegistration, Forward, Block, Sigpipe, GoTo, AfterNotify
<1>5. PICK d \in {"no", "asked", "unasked"} :
          /\ delivered' = [delivered EXCEPT ![g] = d]
          /\ d = "asked" => \/ delivered[g] = "asked"
                            \/ Approved(Probe(g)) /\ Approved(Event(g))
    <2>1. CASE Forward(g)
        BY <2>1 DEF Forward, HookInv, GamesTypeOK
    <2>2. CASE AddNotifyStub(g)
        BY <2>2 DEF AddNotifyStub
    <2>3. CASE UNCHANGED delivered
        BY <2>3 DEF GamesTypeOK
    <2> QED BY <2>1, <2>2, <2>3 DEF Eos, BeginSession, NoLibrary,
              AddNotifyHooked, RegisterHook, AbortRegistration, Block,
              Sigpipe
<1>6. /\ hooked' \in [Game -> BOOLEAN]
      /\ runtime' \in [Game -> {"none", "hook", "game"}]
    BY DEF Eos, BeginSession, NoLibrary, AddNotifyHooked, AddNotifyStub,
           RegisterHook, AbortRegistration, Forward, Block, Sigpipe, GamesTypeOK
<1>7. /\ stage' \in [Game -> Stage] /\ stage'[g] = s
      /\ \A h \in Game \ {g} : stage'[h] = stage[h]
    BY <1>4 DEF GamesTypeOK, Stage
<1>8. /\ delivered' \in [Game -> {"no", "asked", "unasked"}] /\ delivered'[g] = d
      /\ \A h \in Game \ {g} : delivered'[h] = delivered[h]
    BY <1>5 DEF GamesTypeOK
<1>9. GamesTypeOK'
    BY <1>1, <1>6, <1>7, <1>8 DEF GamesTypeOK
<1>10. HookInv'
    BY <1>2, <1>4, <1>5, <1>7, <1>8 DEF HookInv, Approved
<1>11. DemoInv'
    <2>1. Demo \in Game
        BY DEF Game
    <2>2. CASE g = Demo
        <3>1. stage[Demo] # "done" /\ stage'[Demo] \notin {"write", "done"}
            BY <1>4, <1>7, <2>2
        <3> QED BY <1>1, <1>2, <3>1 DEF DemoInv, Approved
    <2>3. CASE g # Demo
        <3>1. stage'[Demo] = stage[Demo]
            BY <1>7, <2>1, <2>3
        <3> QED BY <1>1, <1>2, <3>1 DEF DemoInv, Approved
    <2> QED BY <2>2, <2>3
<1> QED BY <1>3, <1>9, <1>10, <1>11

(* What the threads of the demo do after the EOS calls.                     *)
LEMMA DemoSteps ==
    ASSUME PipelineInv, DemoThread \/ PressEnter
    PROVE  PipelineInv'
<1> USE DEF PipelineInv
<1>1. UNCHANGED <<vars, hooked, runtime, delivered>>
    BY DEF DemoThread, WriteValid, WriteDone, PressEnter
<1>2. UNCHANGED <<pc, cur, queue, client, nonceOf, posted, phase, kills>>
    BY <1>1 DEF vars
<1>3. ShimInv'
    BY <1>1, ShimNext
<1>4. Demo \in Game /\ stage \in [Game -> Stage]
    BY DEF Game, GamesTypeOK
<1>5. CASE WriteValid
    <2>1. /\ stage[Demo] = "direct" /\ client[Direct] \in Ended
          /\ result' = [result EXCEPT !.valid = Approved(Direct)]
          /\ stage' = [stage EXCEPT ![Demo] = "write"]
          /\ UNCHANGED screen
        BY <1>5 DEF WriteValid, GoTo
    <2>2. /\ stage' \in [Game -> Stage] /\ stage'[Demo] = "write"
          /\ \A h \in Game \ {Demo} : stage'[h] = stage[h]
        BY <1>4, <2>1 DEF Stage
    <2>3. Approved(Direct) \in BOOLEAN
        BY DEF Approved
    <2>4. /\ result' \in [done : BOOLEAN, valid : BOOLEAN]
          /\ result'.done = result.done
          /\ result'.valid = Approved(Direct)
        BY <2>1, <2>3 DEF GamesTypeOK
    <2>5. GamesTypeOK'
        BY <1>1, <2>1, <2>2, <2>4 DEF GamesTypeOK
    <2>6. HookInv'
        BY <1>1, <1>2, <2>2 DEF HookInv, Approved
    <2>7. Approved(Direct)' <=> Approved(Direct)
        BY <1>2 DEF Approved
    <2>8. DemoInv'
        BY <1>2, <2>1, <2>2, <2>4, <2>7 DEF DemoInv
    <2> QED BY <1>3, <2>5, <2>6, <2>8
<1>6. CASE WriteDone
    <2>1. /\ stage[Demo] = "write"
          /\ result' = [result EXCEPT !.done = TRUE]
          /\ stage' = [stage EXCEPT ![Demo] = "done"]
          /\ UNCHANGED screen
        BY <1>6 DEF WriteDone, GoTo
    <2>2. /\ stage' \in [Game -> Stage] /\ stage'[Demo] = "done"
          /\ \A h \in Game \ {Demo} : stage'[h] = stage[h]
        BY <1>4, <2>1 DEF Stage
    <2>3. /\ result' \in [done : BOOLEAN, valid : BOOLEAN]
          /\ result'.done
          /\ result'.valid = result.valid
        BY <2>1 DEF GamesTypeOK
    <2>4. GamesTypeOK'
        BY <1>1, <2>1, <2>2, <2>3 DEF GamesTypeOK
    <2>5. HookInv'
        BY <1>1, <1>2, <2>2 DEF HookInv, Approved
    <2>6. Approved(Direct)' <=> Approved(Direct)
        BY <1>2 DEF Approved
    <2>7. DemoInv'
        BY <1>2, <2>1, <2>2, <2>3, <2>6 DEF DemoInv
    <2> QED BY <1>3, <2>4, <2>5, <2>7
<1>7. CASE PressEnter
    <2>1. /\ result.done /\ screen = "gate"
          /\ screen' = IF result.valid THEN "play" ELSE "denied"
          /\ UNCHANGED <<stage, result>>
        BY <1>7 DEF PressEnter
    <2>2. GamesTypeOK'
        BY <1>1, <2>1 DEF GamesTypeOK
    <2>3. HookInv'
        BY <1>1, <1>2, <2>1 DEF HookInv, Approved
    <2>4. Approved(Direct)' <=> Approved(Direct)
        BY <1>2 DEF Approved
    <2>5. client[Direct] \in Ended /\ (Approved(Direct) <=> result.valid)
        BY <2>1 DEF DemoInv
    <2>6. DemoInv'
        BY <1>2, <2>1, <2>4, <2>5 DEF DemoInv
    <2> QED BY <1>3, <2>2, <2>3, <2>6
<1> QED BY <1>5, <1>6, <1>7 DEF DemoThread

LEMMA QuitStep ==
    ASSUME PipelineInv, Quit
    PROVE  PipelineInv'
<1> USE DEF PipelineInv
<1>1. [Next]_vars
    BY PipelineStep DEF PipelineNext
<1>2. ShimInv'
    BY <1>1, ShimNext
<1>3. /\ screen = "gate" /\ screen' = "quit"
      /\ stage' = [stage EXCEPT ![Demo] = "done"]
      /\ UNCHANGED <<hooked, runtime, delivered, result>>
    BY DEF Quit, GoTo
<1>4. /\ stage' \in [Game -> Stage] /\ stage'[Demo] = "done"
      /\ \A h \in Game \ {Demo} : stage'[h] = stage[h]
    BY <1>3 DEF GamesTypeOK, Stage, Game
<1>5. Direct \in Conn /\ \A g \in Game : Probe(g) \in Conn /\ Event(g) \in Conn
    BY ConnAssumption
<1>6. \A c \in Conn : client[c] = "valid" => client'[c] = "valid"
    BY <1>1, AnswersStay DEF Ended
<1>7. GamesTypeOK'
    BY <1>3, <1>4 DEF GamesTypeOK
<1>8. HookInv'
    <2>1. \A c \in Conn : Approved(c) => Approved(c)'
        BY <1>6 DEF Approved
    <2> QED BY <1>3, <1>4, <1>5, <2>1 DEF HookInv, Probe, Event
<1>9. DemoInv'
    <2>1. Approved(Direct) => Approved(Direct)'
        BY <1>5, <1>6 DEF Approved
    <2> QED BY <1>3, <1>4, <2>1 DEF DemoInv
<1> QED BY <1>2, <1>7, <1>8, <1>9

LEMMA PipelineInvNext ==
    PipelineInv /\ [PipelineNext]_pipelineVars => PipelineInv'
<1> SUFFICES ASSUME PipelineInv, [PipelineNext]_pipelineVars
             PROVE  PipelineInv'
    OBVIOUS
<1>1. [Next]_vars
    BY PipelineStep DEF PipelineInv
<1>2. CASE UNCHANGED gameVars
    BY <1>1, <1>2, ShimSteps
<1>3. CASE \E g \in Game : Eos(g)
    BY <1>3, EosSteps
<1>4. CASE DemoThread \/ PressEnter
    BY <1>4, DemoSteps
<1>5. CASE Quit
    BY <1>5, QuitStep
<1> QED BY <1>2, <1>3, <1>4, <1>5 DEF PipelineNext, Query, pipelineVars

LEMMA PipelineInvariant == PipelineSpec => []PipelineInv
BY PipelineInvInit, PipelineInvNext, PTL DEF PipelineSpec

-----------------------------------------------------------------------------
(* The pipeline's behaviours are the shim's, so that what is proved of the  *)
(* daemon with arbitrary clients holds in front of these games.             *)
THEOREM PipelineImplementsShim == PipelineSpec => Spec
<1>1. PipelineInit => Init
    BY DEF PipelineInit
<1>2. PipelineInv /\ [PipelineNext]_pipelineVars => [Next]_vars
    BY PipelineStep DEF PipelineInv
<1> QED BY <1>1, <1>2, PipelineInvariant, PTL DEF PipelineSpec, Spec

(* The variables of the daemon, its clients and the games keep their types. *)
THEOREM PipelineTypeCorrect == PipelineSpec => []PipelineTypeOK
<1>1. PipelineInv => PipelineTypeOK
    BY DEF PipelineInv, ShimInv, PipelineTypeOK
<1> QED BY <1>1, PipelineInvariant, PTL

(* An event that the hook forwards was paid for with two challenges that    *)
(* the server granted, one for the session and one for the event.           *)
THEOREM TwoGrants == PipelineSpec => []ForwardedMeansTwoGrants
<1>1. ASSUME PipelineInv, NEW g \in Game, delivered[g] = "asked"
      PROVE  /\ nonceOf[Probe(g)] # nonceOf[Event(g)]
             /\ nonceOf[Probe(g)] \in Server!InPhase("granted")
             /\ nonceOf[Event(g)] \in Server!InPhase("granted")
    <2>1. Probe(g) \in Conn /\ Event(g) \in Conn /\ Probe(g) # Event(g)
        BY ConnAssumption DEF Probe, Event
    <2>2. client[Probe(g)] = "valid" /\ client[Event(g)] = "valid"
        BY <1>1 DEF PipelineInv, HookInv, Approved
    <2>3. \A c \in Conn : client[c] = "valid" =>
              /\ nonceOf[c] # None /\ nonceOf[c] \in Nonce
              /\ phase[nonceOf[c]] = "granted"
        BY <1>1 DEF PipelineInv, ShimInv, NonceInv, ValidMeansGranted, TypeOK
    <2>4. nonceOf[Probe(g)] # nonceOf[Event(g)]
        BY <1>1, <2>1, <2>2, <2>3
           DEF PipelineInv, ShimInv, NonceInv, OneConnectionPerChallenge
    <2> QED BY <2>1, <2>2, <2>3, <2>4 DEF Server!InPhase
<1>2. PipelineInv => ForwardedMeansTwoGrants
    BY <1>1 DEF ForwardedMeansTwoGrants
<1> QED BY <1>2, PipelineInvariant, PTL

(* The demo's gate opens only on a grant for the demo's own query, whatever *)
(* the other thread was doing when the key was pressed.                     *)
THEOREM PlayIsGranted == PipelineSpec => []PlayMeansGranted
<1>1. ASSUME PipelineInv, screen = "play"
      PROVE  nonceOf[Direct] \in Server!InPhase("granted")
    <2>1. Direct \in Conn /\ client[Direct] = "valid"
        BY <1>1, ConnAssumption DEF PipelineInv, DemoInv, Approved
    <2> QED BY <1>1, <2>1 DEF PipelineInv, ShimInv, NonceInv, ValidMeansGranted,
                              TypeOK, Server!InPhase
<1>2. PipelineInv => PlayMeansGranted
    BY <1>1 DEF PlayMeansGranted
<1> QED BY <1>2, PipelineInvariant, PTL

(* Nobody whom the shim let in is turned away at the gate.                  *)
THEOREM DeniedJustly == PipelineSpec => []DenialIsDeserved
<1>1. PipelineInv => DenialIsDeserved
    BY DEF PipelineInv, DemoInv, Approved, DenialIsDeserved
<1> QED BY <1>1, PipelineInvariant, PTL

=============================================================================
