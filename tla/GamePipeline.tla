---------------------------- MODULE GamePipeline ----------------------------
(***************************************************************************)
(* Two games in front of the shim.  The native game (fake_game.c) looks    *)
(* the EOS functions up in the global scope, so that the preloaded hook    *)
(* (eac_hook.c) is called; the demo game (eos_bridge.py) takes them from   *)
(* libeos_sdk.so itself, queries the shim on its own connection and shows  *)
(* the result (game.py).  The EOS runtime is eos_stub.c, which fires one   *)
(* event when a callback is registered.  A call of the hook, of the stub   *)
(* or of a callback is synchronous: a game has one thread for them.        *)
(***************************************************************************)
EXTENDS Shim

CONSTANT Preloaded      \* LD_PRELOAD=eac_hook.so (run_game.sh without --no-hook)

Native == "native"
Demo   == "demo"
Game   == {Native, Demo}

\* Every query has a connection of its own.
Probe(g)  == <<g, "probe">>     \* the hook, at AddNotifyMessageToServer
Event(g)  == <<g, "event">>     \* the hook, for a message event
Direct    == <<Demo, "direct">> \* _query_shim_direct

ASSUME PreloadedAssumption == Preloaded \in BOOLEAN
ASSUME ConnAssumption ==
    /\ Conn = { Probe(g) : g \in Game } \cup { Event(g) : g \in Game }
              \cup {Direct}
    /\ Patient = Conn \ {Direct}

VARIABLES
    stage,      \* where the EOS calls of each game are
    hooked,     \* g_game_callback: the hook has the game's callback
    runtime,    \* the callback registered with the EOS runtime, and whose
    delivered,  \* how the event reached the game's callback, if it did
    result,     \* _result of eos_bridge.py
    screen      \* the demo's main thread

gameVars == <<stage, hooked, runtime, delivered, result, screen>>
pipelineVars == <<vars, gameVars>>

Stage == {"begin", "notify", "probe", "event", "direct", "write", "done",
          "killed"}

GamesTypeOK ==
    /\ stage \in [Game -> Stage]
    /\ hooked \in [Game -> BOOLEAN]
    /\ runtime \in [Game -> {"none", "hook", "game"}]
    /\ delivered \in [Game -> {"no", "asked", "unasked"}]
    /\ result \in [done : BOOLEAN, valid : BOOLEAN]
    /\ screen \in {"gate", "play", "denied", "quit"}

\* The variables of the daemon, its clients and the games keep their types.
PipelineTypeOK == TypeOK /\ GamesTypeOK

PipelineInit ==
    /\ Init
    /\ stage = [g \in Game |-> "begin"]
    /\ hooked = [g \in Game |-> FALSE]
    /\ runtime = [g \in Game |-> "none"]
    /\ delivered = [g \in Game |-> "no"]
    /\ result = [done |-> FALSE, valid |-> FALSE]
    /\ screen = "gate"

-----------------------------------------------------------------------------
(***************************************************************************)
(* The EOS calls of a game.                                                *)
(***************************************************************************)
\* dlsym(RTLD_DEFAULT, ...) finds the preloaded hook first; a symbol taken
\* from the handle of libeos_sdk.so, as ctypes does, is the stub's.
Intercepts(g) == Preloaded /\ g = Native

\* After AddNotifyMessageToServer the native game is through; the demo
\* queries the shim itself.
AfterNotify(g) == IF g = Demo THEN "direct" ELSE "done"

GoTo(g, s) == stage' = [stage EXCEPT ![g] = s]

\* BeginSession: the player's name, in the hook and in the stub.
BeginSession(g) ==
    /\ stage[g] = "begin"
    /\ GoTo(g, "notify")
    /\ UNCHANGED <<vars, hooked, runtime, delivered, result, screen>>

\* libeos_sdk.so cannot be loaded.
NoLibrary(g) ==
    /\ stage[g] = "begin"
    /\ GoTo(g, AfterNotify(g))
    /\ UNCHANGED <<vars, hooked, runtime, delivered, result, screen>>

\* AddNotifyMessageToServer of the hook: the callback is kept, and the
\* probe is sent.
AddNotifyHooked(g) ==
    /\ stage[g] = "notify"
    /\ Intercepts(g)
    /\ hooked' = [hooked EXCEPT ![g] = TRUE]
    /\ GoTo(g, "probe")
    /\ UNCHANGED <<vars, runtime, delivered, result, screen>>

\* AddNotifyMessageToServer of the stub: the callback is fired at once.
AddNotifyStub(g) ==
    /\ stage[g] = "notify"
    /\ ~Intercepts(g)
    /\ runtime' = [runtime EXCEPT ![g] = "game"]
    /\ delivered' = [delivered EXCEPT ![g] = "unasked"]
    /\ GoTo(g, AfterNotify(g))
    /\ UNCHANGED <<vars, hooked, result, screen>>

\* shim_query returns 1 for an answer that says valid, and 0 for everything
\* else it lives to see: write() to a connection that was closed meanwhile
\* raises SIGPIPE, which a native game does not catch and Python ignores.
Approved(c) == client[c] = "valid"
Denied(c)   == client[c] \in Ended \ {"valid", "broken"}

Sigpipe(g) ==
    /\ \/ stage[g] = "probe" /\ client[Probe(g)] = "broken"
       \/ stage[g] = "event" /\ client[Event(g)] = "broken"
    /\ GoTo(g, "killed")
    /\ UNCHANGED <<vars, hooked, runtime, delivered, result, screen>>

\* A hook that registers its callback before it looks at the answer:
RegisterAnyway(g) ==
    /\ stage[g] = "probe"
    /\ client[Probe(g)] \in Ended
    /\ runtime' = [runtime EXCEPT ![g] = "hook"]
    /\ GoTo(g, "event")
    /\ UNCHANGED <<vars, hooked, delivered, result, screen>>

\* The probe is approved: hook_callback is registered, and fired by the stub.
RegisterHook(g) ==
    /\ stage[g] = "probe"
    /\ Approved(Probe(g))
    /\ runtime' = [runtime EXCEPT ![g] = "hook"]
    /\ GoTo(g, "event")
    /\ UNCHANGED <<vars, hooked, delivered, result, screen>>

\* A hook that knows refusals and no failures:
AbortOnRefusal(g) ==
    /\ stage[g] = "probe"
    /\ client[Probe(g)] = "invalid"
    /\ GoTo(g, AfterNotify(g))
    /\ UNCHANGED <<vars, hooked, runtime, delivered, result, screen>>

\* It is not, or no socket can be made to ask, or the runtime's function is
\* not found: nothing is registered.
AbortRegistration(g) ==
    /\ stage[g] = "probe"
    /\ client[Probe(g)] = "new" \/ Approved(Probe(g)) \/ Denied(Probe(g))
    /\ GoTo(g, AfterNotify(g))
    /\ UNCHANGED <<vars, hooked, runtime, delivered, result, screen>>

\* hook_callback when the shim approves.
Forward(g) ==
    /\ stage[g] = "event"
    /\ Approved(Event(g))
    /\ delivered' = [delivered EXCEPT ![g] = IF hooked[g] THEN "asked" ELSE @]
    /\ GoTo(g, AfterNotify(g))
    /\ UNCHANGED <<vars, hooked, runtime, result, screen>>

\* hook_callback when it does not; or the message is too long for the
\* buffer, or there is no memory or no socket, before the shim is asked.
Block(g) ==
    /\ stage[g] = "event"
    /\ client[Event(g)] = "new" \/ Denied(Event(g))
    /\ GoTo(g, AfterNotify(g))
    /\ UNCHANGED <<vars, hooked, runtime, delivered, result, screen>>

-----------------------------------------------------------------------------
(***************************************************************************)
(* The demo: a thread that queries and writes _result field by field, and  *)
(* the main thread, which reads it when a key is pressed.                  *)
(***************************************************************************)
\* A thread that keeps the field of a connection that was cut, which is none:
WriteAnswer ==
    /\ stage[Demo] = "direct"
    /\ client[Direct] \in Ended
    /\ result' = [result EXCEPT !.valid = IF client[Direct] = "cut" THEN None
                                         ELSE Approved(Direct)]
    /\ GoTo(Demo, "write")
    /\ UNCHANGED <<vars, hooked, runtime, delivered, screen>>

\* A thread that says it is done before it says with what:
WriteDoneFirst ==
    /\ stage[Demo] = "direct"
    /\ client[Direct] \in Ended
    /\ result' = [result EXCEPT !.done = TRUE]
    /\ GoTo(Demo, "write")
    /\ UNCHANGED <<vars, hooked, runtime, delivered, screen>>

\* valid comes first (reason and token follow), and done last.
WriteValid ==
    /\ stage[Demo] = "direct"
    /\ client[Direct] \in Ended
    /\ result' = [result EXCEPT !.valid = Approved(Direct)]
    /\ GoTo(Demo, "write")
    /\ UNCHANGED <<vars, hooked, runtime, delivered, screen>>

WriteDone ==
    /\ stage[Demo] = "write"
    /\ result' = [result EXCEPT !.done = TRUE]
    /\ GoTo(Demo, "done")
    /\ UNCHANGED <<vars, hooked, runtime, delivered, screen>>

\* A main thread that starts the game whatever was answered:
PlayWhenDone ==
    /\ screen = "gate"
    /\ result.done
    /\ screen' = "play"
    /\ UNCHANGED <<vars, stage, hooked, runtime, delivered, result>>

\* ENTER once the thread is done; before, the key does nothing.
PressEnter ==
    /\ screen = "gate"
    /\ result.done
    /\ screen' = IF result.valid THEN "play" ELSE "denied"
    /\ UNCHANGED <<vars, stage, hooked, runtime, delivered, result>>

\* ESC, or the window is closed: the process ends, and a connection with it.
Quit ==
    /\ screen = "gate"
    /\ screen' = "quit"
    /\ GoTo(Demo, "done")
    /\ client' = [client EXCEPT ![Direct] = IF @ \in Waiting THEN "gone" ELSE @]
    /\ UNCHANGED <<shimVars, serverVars, kills,
                   hooked, runtime, delivered, result>>

-----------------------------------------------------------------------------
\* A query is made where the game's thread is.
Queries(c) ==
    \/ \E g \in Game : \/ c = Probe(g) /\ stage[g] = "probe"
                       \/ c = Event(g) /\ stage[g] = "event"
    \/ c = Direct /\ stage[Demo] = "direct"

Query(c) == Queries(c) /\ Enter(c) /\ UNCHANGED gameVars

Eos(g) ==
    \/ BeginSession(g) \/ NoLibrary(g)
    \/ AddNotifyHooked(g) \/ AddNotifyStub(g)
    \/ RegisterHook(g) \/ AbortRegistration(g) \/ Forward(g) \/ Block(g)
    \/ Sigpipe(g)

DemoThread == WriteValid \/ WriteDone

PipelineNext ==
    \/ (Daemon \/ Decide \/ \E c \in Conn : Proceed(c)) /\ UNCHANGED gameVars
    \/ \E c \in Conn : Query(c)
    \/ \E g \in Game : Eos(g)
    \/ DemoThread \/ PressEnter \/ Quit

PipelineSpec == PipelineInit /\ [][PipelineNext]_pipelineVars

\* One thread of a game makes its EOS calls and its queries.
Thread(g) ==
    \/ Eos(g)
    \/ \E c \in Conn : /\ c[1] = g
                       /\ Query(c) \/ (SendHandshake(c) /\ UNCHANGED gameVars)
    \/ g = Demo /\ DemoThread

(***************************************************************************)
(* The daemon's calls end: urlopen has a timeout, subprocesses are taken   *)
(* to end; recv() has no timeout and ends with the client's side, not of   *)
(* itself.  The games' threads run, and so a client that has connected     *)
(* sends.  Nothing is asked of the server, of impatient clients, of keys   *)
(* or of who starts the daemon.                                            *)
(***************************************************************************)
PipelineFairSpec ==
    /\ PipelineSpec
    /\ WF_pipelineVars(Serve /\ UNCHANGED gameVars)
    /\ \A g \in Game : WF_pipelineVars(Thread(g))

-----------------------------------------------------------------------------
(* The hook lets an event through to the game only when the shim approved   *)
(* the session and then the event, each with a challenge of its own that    *)
(* the server granted.                                                      *)
ForwardedMeansTwoGrants ==
    \A g \in Game : delivered[g] = "asked" =>
        LET p == nonceOf[Probe(g)]
            e == nonceOf[Event(g)]
        IN  p # e /\ {p, e} \subseteq Server!InPhase("granted")

(* The demo plays only on a grant for its own query.                        *)
PlayMeansGranted ==
    screen = "play" => nonceOf[Direct] \in Server!InPhase("granted")

(* The main thread never turns away a player whom the shim let in: done is  *)
(* the last field the other thread writes.                                  *)
DenialIsDeserved ==
    screen = "denied" => client[Direct] # "valid"

(* Fail-closed is not fail-stuck: the games' threads come through their     *)
(* queries, whatever happens to daemon and server.  The loop does not hang  *)
(* on a connection, a client gone by then included, the listen queue        *)
(* starves nobody, and who is cut off or refused is not asked again.  Only   *)
(* a native game may die instead, of a connection closed before it wrote.   *)
GamesComeThrough ==
    /\ stage[Native] = "begin" ~> stage[Native] \in {"done", "killed"}
    /\ stage[Demo] = "begin" ~> stage[Demo] = "done"

=============================================================================
