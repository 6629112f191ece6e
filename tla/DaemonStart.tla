----------------------------- MODULE DaemonStart -----------------------------
(***************************************************************************)
(* run_server of phase3/shim.py from its start to its end, for every run   *)
(* of the program on one machine: the runs share the name of the socket,   *)
(* the TPM and the machine's row in the server's registry.  A run          *)
(*                                                                         *)
(*    unlink -> bind -> chmod, listen -> _auto_register -> serve           *)
(*                                         -> close -> unlink              *)
(*                                                                         *)
(* can be killed anywhere, and only between "serve" and its end does it    *)
(* clean up.  Nothing keeps two runs from overlapping, and they may be of  *)
(* different users: SOCKET_PATH is in /tmp, where nobody removes or chmods *)
(* another user's file.  What a run does with a connection is module Shim. *)
(***************************************************************************)
EXTENDS Registry

CONSTANTS
    Daemon,     \* the runs of the program
    NoSocket,   \* nothing exists at SOCKET_PATH
    EkSources,  \* what a TPM may hold at the three places read_ek_cert tries
    MachineId,  \* MACHINE_ID
    Ak          \* the attestation key of the TPM

\* Two indices in NV memory, then the persistent handle of the EK.
Source == {"nvRsa", "nvEcc", "handle"}

ASSUME DaemonAssumption ==
    /\ NoSocket \notin Daemon
    /\ EkSources \subseteq [Source -> EkKind]
    /\ MachineId \in Machine
    /\ Ak \in Key

VARIABLES
    pc,         \* where each run is
    path,       \* the run whose socket SOCKET_PATH names
    ek,         \* local of _auto_register: ek_cert_b64
    posted,     \* registrations the server has not decided: run and EK
    success,    \* the 200 for each run: none, on its way, or heard
    tpm,        \* what the TPM holds, a member of EkSources
    strict,     \* STRICT_EK_VERIFICATION of the server
    overlapped, \* history: the run has not been alone all the time
    trailed     \* history: an earlier run's registration was under way

vars == <<pc, path, ek, posted, success, tpm, strict, overlapped, trailed,
          enrolledMachines>>

Registering == {"ak", "nvRsa", "nvEcc", "handle", "post", "answer"}

Step == Registering \cup {"new", "bind", "listen", "serve", "closing", "ended"}

TypeOK ==
    /\ pc \in [Daemon -> Step]
    /\ path \in Daemon \cup {NoSocket}
    /\ ek \in [Daemon -> EkKind]
    /\ posted \subseteq Daemon \X EkKind
    /\ success \in [Daemon -> {"none", "sent", "heard"}]
    /\ tpm \in EkSources
    /\ strict \in BOOLEAN
    /\ overlapped \in [Daemon -> BOOLEAN]
    /\ trailed \in [Daemon -> BOOLEAN]
    /\ RegistryTypeOK

Init ==
    /\ pc = [d \in Daemon |-> "new"]
    /\ path = NoSocket
    /\ ek = [d \in Daemon |-> "none"]
    /\ posted = {}
    /\ success = [d \in Daemon |-> "none"]
    /\ tpm \in EkSources
    /\ strict \in BOOLEAN
    /\ overlapped = [d \in Daemon |-> FALSE]
    /\ trailed = [d \in Daemon |-> FALSE]
    /\ RegistryInit

-----------------------------------------------------------------------------
Alive(d) == pc[d] \notin {"new", "ended"}

GoTo(d, s) == pc' = [pc EXCEPT ![d] = s]

Rest == <<tpm, strict, enrolledMachines>>

History == <<overlapped, trailed>>

\* The process ends, and its locals with it.
End(d) ==
    /\ GoTo(d, "ended")
    /\ ek' = [ek EXCEPT ![d] = "none"]
    /\ success' = [success EXCEPT ![d] = "none"]
    /\ overlapped' = [overlapped EXCEPT ![d] = FALSE]
    /\ trailed' = [trailed EXCEPT ![d] = FALSE]
    /\ UNCHANGED <<posted, Rest>>

\* The program starts, and removes what it finds at the path.
Unlink(d) ==
    /\ pc[d] = "new"
    /\ GoTo(d, "bind")
    /\ path' = NoSocket
    /\ overlapped' =
           [e \in Daemon |->
               \/ overlapped[e]
               \/ e # d /\ Alive(e)
               \/ e = d /\ \E other \in Daemon : Alive(other)]
    /\ trailed' = [trailed EXCEPT ![d] = posted # {}]
    /\ UNCHANGED <<ek, posted, success, Rest>>

\* A bind that comes before the unlink:
BindThenUnlink(d) ==
    /\ pc[d] = "bind"
    /\ GoTo(d, "listen")
    /\ path' = NoSocket
    /\ UNCHANGED <<ek, posted, success, History, Rest>>

Bind(d) ==
    /\ pc[d] = "bind"
    /\ path = NoSocket
    /\ GoTo(d, "listen")
    /\ path' = d
    /\ UNCHANGED <<ek, posted, success, History, Rest>>

\* Before serve nothing is cleaned up: the file to remove is another user's,
\* bind() finds a file, chmod() finds none or another user's, there is no room
\* for the temporary directory of the AK, or the body of an HTTP error breaks
\* off, which is read where nothing is caught.
StartFails(d) ==
    /\ \/ pc[d] \in {"new", "bind"} /\ path # NoSocket
       \/ pc[d] = "listen" /\ path # d
       \/ pc[d] \in {"ak", "answer"}
    /\ End(d)
    /\ UNCHANGED path

\* chmod(), of whatever is at the path, and listen().
Listen(d) ==
    /\ pc[d] = "listen"
    /\ path # NoSocket
    /\ GoTo(d, "ak")
    /\ UNCHANGED <<path, ek, posted, success, History, Rest>>

-----------------------------------------------------------------------------
(***************************************************************************)
(* _auto_register.                                                         *)
(***************************************************************************)
\* _read_ak_pub_b64; without the key nothing is registered.
ReadAk(d) ==
    /\ pc[d] = "ak"
    /\ \/ GoTo(d, "nvRsa")
       \/ GoTo(d, "serve")
    /\ UNCHANGED <<path, ek, posted, success, History, Rest>>

\* A search that does not end with the request:
AfterSourceForgetful(s) ==
    CASE s = "nvRsa"  -> "nvEcc"
      [] s = "nvEcc"  -> "handle"
      [] s = "handle" -> "none"

\* The place to look next, and after the last the request without an EK.
AfterSource(s) ==
    CASE s = "nvRsa"  -> "nvEcc"
      [] s = "nvEcc"  -> "handle"
      [] s = "handle" -> "post"

\* read_ek_cert, one command of the TPM at a time: the first that succeeds
\* gives the answer.  A command may fail though there is something to read.
ReadEk(d) ==
    /\ pc[d] \in Source
    /\ \/ /\ tpm[pc[d]] # "none"
          /\ ek' = [ek EXCEPT ![d] = tpm[pc[d]]]
          /\ GoTo(d, "post")
       \/ /\ GoTo(d, AfterSource(pc[d]))
          /\ UNCHANGED ek
    /\ UNCHANGED <<path, posted, success, History, Rest>>

\* An exception anywhere in it is the same as no EK.
EkUnreadable(d) ==
    /\ pc[d] \in Source
    /\ GoTo(d, "post")
    /\ UNCHANGED <<path, ek, posted, success, History, Rest>>

\* POST /register, if the server can be reached.
Post(d) ==
    /\ pc[d] = "post"
    /\ \/ GoTo(d, "answer") /\ posted' = posted \cup {<<d, ek[d]>>}
       \/ GoTo(d, "serve") /\ UNCHANGED posted
    /\ UNCHANGED <<path, ek, success, History, Rest>>

\* A registration that waits until it is decided:
WaitForAnswer(d) ==
    /\ pc[d] = "answer"
    /\ \A r \in posted : r[1] # d
    /\ GoTo(d, "serve")
    /\ UNCHANGED <<path, ek, posted, success, History, Rest>>

\* An answer, an error or the timeout: the run goes on, and the request may
\* still be on its way.
Answer(d) ==
    /\ pc[d] = "answer"
    /\ GoTo(d, "serve")
    /\ \/ success[d] = "sent" /\ success' = [success EXCEPT ![d] = "heard"]
       \/ success' = [success EXCEPT ![d] = "none"]
    /\ UNCHANGED <<path, ek, posted, History, Rest>>

-----------------------------------------------------------------------------
\* KeyboardInterrupt, or an exception of _handle_client: the finally clause
\* closes the socket and then unlinks the path, whoever's socket it names by
\* now; another user's file stays.
Close(d) ==
    /\ pc[d] = "serve"
    /\ GoTo(d, "closing")
    /\ UNCHANGED <<path, ek, posted, success, History, Rest>>

UnlinkAtEnd(d) ==
    /\ pc[d] = "closing"
    /\ End(d)
    /\ \/ path' = NoSocket
       \/ path \notin {d, NoSocket} /\ UNCHANGED path

\* A signal; before serve, Ctrl-C too.  The file stays.
Kill(d) ==
    /\ Alive(d)
    /\ End(d)
    /\ UNCHANGED path

\* The server handles a request, of a run that waits, has given up or ended.
\* The endpoint takes the same machine id from anybody; here only the runs of
\* one machine use it.
ServerRegisters(r) ==
    /\ r \in posted
    /\ RegisterMachine(MachineId, Ak, r[2], strict)
    /\ posted' = posted \ {r}
    /\ success' = [d \in Daemon |->
                      IF d = r[1] /\ pc[d] = "answer"
                      THEN "sent" ELSE success[d]]
    /\ UNCHANGED <<pc, path, ek, tpm, strict, History>>

\* It refuses the EK, or fails, or the request is lost.
ServerRefuses(r) ==
    /\ r \in posted
    /\ posted' = posted \ {r}
    /\ UNCHANGED <<pc, path, ek, success, History, Rest>>

-----------------------------------------------------------------------------
AutoRegister(d) ==
    \/ ReadAk(d) \/ ReadEk(d) \/ EkUnreadable(d) \/ Post(d) \/ Answer(d)

Run(d) ==
    \/ Unlink(d) \/ Bind(d) \/ Listen(d) \/ StartFails(d)
    \/ AutoRegister(d)
    \/ Close(d) \/ UnlinkAtEnd(d) \/ Kill(d)

Next ==
    \/ \E d \in Daemon : Run(d)
    \/ \E r \in posted : ServerRegisters(r) \/ ServerRefuses(r)

Spec == Init /\ [][Next]_vars

\* The commands of the TPM end, and urlopen has a timeout.
FairSpec == Spec /\ \A d \in Daemon : WF_vars(AutoRegister(d))

-----------------------------------------------------------------------------
(* "Remove stale socket file from a previous run" (shim.py:459): whatever   *)
(* earlier runs left behind, killed or not, a run which could remove it and *)
(* during which no other was running can bind, and is the one that the path *)
(* names until it ends.                                                     *)
LoneRunIsReachable ==
    \A d \in Daemon : Alive(d) /\ ~overlapped[d] =>
        path = IF pc[d] = "bind" THEN NoSocket ELSE d

(* "If registration succeeds, the server stores the AK key and EK cert"     *)
(* (shim.py:140): for a run that has heard of success, the registry holds   *)
(* the EK which this run read, until the run ends.  Beside another run, or  *)
(* behind a registration that was under way when it started, the row may be *)
(* replaced by a later arrival (shim.py:181).                               *)
RegistrationStands ==
    \A d \in Daemon :
        (success[d] = "heard" /\ ~overlapped[d] /\ ~trailed[d]) =>
            /\ enrolledMachines[MachineId] =
                   [ak |-> Ak, ek |-> ek[d], verified |-> ek[d] # "none"]
            /\ strict => ek[d] \in {"none", "x509"}

(* "Logs a warning (but does NOT abort)" (shim.py:145): whatever becomes of *)
(* the TPM and the server, registration comes to an end; only a signal, a   *)
(* full disk or an error answer that breaks off keeps the run from serving. *)
RegistrationEnds ==
    \A d \in Daemon :
        pc[d] \in Registering ~> pc[d] \in {"serve", "closing", "ended"}

=============================================================================
