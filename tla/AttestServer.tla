---------------------------- MODULE AttestServer ----------------------------
(***************************************************************************)
(* server/main.py: the FastAPI service over its SQLite database.           *)
(*                                                                         *)
(* The endpoints are plain (sync) functions, so the framework runs each    *)
(* request on a thread of its pool: Worker is that pool.  A handler is a   *)
(* chain of short database transactions, each opened and committed by its  *)
(* own "with _db()", and here each transaction is one step.  Between the   *)
(* steps of one handler any step of another may happen.                    *)
(*                                                                         *)
(*    enroll:   save -> deactivate -+                                      *)
(*                                  v                                      *)
(*    attest: --------------------> stamp -> consume -> quote              *)
(*       -> [strict] -> content -> root -> [pcr7] -> entries -> [pin]      *)
(*                                                                         *)
(* and, from any failed check of an enroll, restore.  The tables survive a *)
(* crash; the handlers do not.                                             *)
(***************************************************************************)
EXTENDS NonceStore, Registry, BaselineStore

CONSTANTS
    Worker,         \* threads of the pool
    BadRoot,        \* an ima_merkle_root that is not 64 hex digits
    NoRequest,      \* a worker's request when it has none
    Reports,        \* the report bodies clients may send
    RegRequests,    \* the bodies of POST /register clients may send
    Policies,       \* the environment settings the server is started with
    MaxClock,       \* bound: ticks
    MaxFaults       \* bound: crashes and database errors

(***************************************************************************)
(* What the checks tell apart in a report.  key signed the quote and is    *)
(* bound to the report's nonce, which the agent passes as qualifying data; *)
(* pcrs says whether the map is empty or has an all-zero digest, in PCR 10 *)
(* only or elsewhere; pcr7 is NoPcr7 when the map has no entry "7".        *)
(***************************************************************************)
Report == [machine : Machine \cup {NoMachine},
           key     : Key,
           quoted  : BOOLEAN,
           pcrs    : {"good", "zero10", "zeroOther", "empty"},
           pcr7    : Pcr7 \cup {NoPcr7},
           boot    : BOOLEAN,
           root    : Root \cup {BadRoot},
           leaves  : Nat]

RegRequest == [machine : Machine, ak : Key, ek : EkKind]

Policy == [strict : BOOLEAN, pcr7 : BOOLEAN, minEntries : Nat]

Request == [op : {"attest", "enroll"}, nonce : Nonce, body : Report]

ASSUME ServerAssumption ==
    /\ Reports \subseteq Report
    /\ RegRequests \subseteq RegRequest
    /\ Policies \subseteq Policy
    /\ BadRoot \notin Root
    /\ NoRequest \notin Request
    /\ MaxClock \in Nat
    /\ MaxFaults \in Nat

VARIABLES
    up,             \* the process is running
    policy,         \* STRICT_EK_VERIFICATION and the other settings
    pc,             \* the transaction each worker is about to run
    req,            \* local: the request being handled
    currentRoot,    \* local of enroll: current_root
    now,            \* local of _consume_nonce: now
    row,            \* local of _verify_quote_signature: row
    grants,         \* history: 200 answers to /attest and /enroll per nonce
    faults          \* history: faults so far

locals == <<req, currentRoot, now, row>>

vars == <<nonceVars, enrolledMachines, baselines,
          up, policy, pc, locals, grants, faults>>

Idle == "idle"

\* The checks that follow a successful _consume_nonce.
Checking == {"quote", "strict", "content", "root", "pcr7", "entries", "pin"}

Label == Checking
         \cup {Idle, "save", "deactivate", "stamp", "consume", "restore"}

TypeOK ==
    /\ NonceTypeOK
    /\ RegistryTypeOK
    /\ BaselineTypeOK
    /\ up \in BOOLEAN
    /\ policy \in Policy
    /\ pc \in [Worker -> Label]
    /\ req \in [Worker -> Request \cup {NoRequest}]
    /\ currentRoot \in [Worker -> Root \cup {NoRoot}]
    /\ now \in [Worker -> Nat]
    /\ row \in [Worker -> MachineRow \cup {NoRow}]
    /\ grants \in [Nonce -> Nat]
    /\ faults \in Nat

Init ==
    /\ NonceInit
    /\ RegistryInit
    /\ BaselineInit
    /\ up = TRUE
    /\ policy \in Policies
    /\ pc = [w \in Worker |-> Idle]
    /\ req = [w \in Worker |-> NoRequest]
    /\ currentRoot = [w \in Worker |-> NoRoot]
    /\ now = [w \in Worker |-> 0]
    /\ row = [w \in Worker |-> NoRow]
    /\ grants = [n \in Nonce |-> 0]
    /\ faults = 0

-----------------------------------------------------------------------------
(***************************************************************************)
(* Control flow of a handler.                                              *)
(***************************************************************************)
At(w, label) == up /\ pc[w] = label

Proceed(w, label) ==
    /\ pc' = [pc EXCEPT ![w] = label]
    /\ UNCHANGED locals

\* The handler returns or raises; its locals are gone.
Finish(w) ==
    /\ pc' = [pc EXCEPT ![w] = Idle]
    /\ req' = [req EXCEPT ![w] = NoRequest]
    /\ currentRoot' = [currentRoot EXCEPT ![w] = NoRoot]
    /\ now' = [now EXCEPT ![w] = 0]
    /\ row' = [row EXCEPT ![w] = NoRow]

\* An enroll that found a baseline in force at "save" must put it back.
MustRestore(w) == req[w].op = "enroll" /\ currentRoot[w] # NoRoot

\* A check that starts over whenever it fails:
RetryForever(w) == Proceed(w, "stamp")

\* _verify_report returned a reason.
Reject(w) ==
    \/ MustRestore(w) /\ Proceed(w, "restore")
    \/ ~MustRestore(w) /\ Finish(w)

UnchangedStores == UNCHANGED <<nonceVars, enrolledMachines, baselines>>

UnchangedServer == UNCHANGED <<up, policy, faults>>

\* A step of a handler that only reads the database.
ReadOnly == UnchangedStores /\ UnchangedServer /\ UNCHANGED grants

-----------------------------------------------------------------------------
(***************************************************************************)
(* Requests.  A report may be delivered late, out of order and twice.  A   *)
(* nonce nobody issued is not in the table and fares like one that is      *)
(* spent.  The timestamp of a report is never read.                        *)
(***************************************************************************)
Receive(w, op, n, body) ==
    /\ At(w, Idle)
    /\ Issued(n)
    /\ pc' = [pc EXCEPT ![w] = IF op = "enroll" THEN "save" ELSE "stamp"]
    /\ req' = [req EXCEPT ![w] = [op |-> op, nonce |-> n, body |-> body]]
    /\ UNCHANGED <<currentRoot, now, row>>
    /\ ReadOnly

\* GET /challenge
Challenge(n) ==
    /\ up
    /\ IssueNonce(n)
    /\ UNCHANGED <<clock, enrolledMachines, baselines, pc, locals, grants>>
    /\ UnchangedServer

\* POST /register
Register(r) ==
    /\ up
    /\ RegisterMachine(r.machine, r.ak, r.ek, policy.strict)
    /\ UNCHANGED <<nonceVars, baselines, pc, locals, grants>>
    /\ UnchangedServer

-----------------------------------------------------------------------------
(***************************************************************************)
(* enroll, before the verification.                                        *)
(***************************************************************************)
SaveRoot(w) ==
    /\ At(w, "save")
    /\ pc' = [pc EXCEPT ![w] = "deactivate"]
    /\ currentRoot' = [currentRoot EXCEPT ![w] = ActiveRoot]
    /\ UNCHANGED <<req, now, row>>
    /\ ReadOnly

\* An enroll that verifies against the baseline it is about to replace:
DeactivateNothing(w) ==
    At(w, "deactivate") /\ Proceed(w, "stamp") /\ ReadOnly

DeactivateAll(w) ==
    /\ At(w, "deactivate")
    /\ baselines' = AllInactive
    /\ Proceed(w, "stamp")
    /\ UNCHANGED <<nonceVars, enrolledMachines, grants>>
    /\ UnchangedServer

(***************************************************************************)
(* _verify_report.  1: the nonce.  The time is read before the transaction *)
(* that uses it, and looked at again after it, against the row that is now *)
(* deleted.                                                                *)
(***************************************************************************)
Stamp(w) ==
    /\ At(w, "stamp")
    /\ pc' = [pc EXCEPT ![w] = "consume"]
    /\ now' = [now EXCEPT ![w] = clock]
    /\ UNCHANGED <<req, currentRoot, row>>
    /\ ReadOnly

Consume(w) ==
    /\ At(w, "consume")
    /\ \/ /\ Recognised(req[w].nonce, now[w])
          /\ ConsumeNonce(req[w].nonce, now[w])
          /\ IF Expired(req[w].nonce, now[w])
             THEN Reject(w)
             ELSE Proceed(w, "quote")
       \/ /\ ~Recognised(req[w].nonce, now[w])
          /\ activeNonces' = Unexpired(now[w])
          /\ Reject(w)
    /\ UNCHANGED <<clock, issuedAt, enrolledMachines, baselines, grants>>
    /\ UnchangedServer

(***************************************************************************)
(* 2: the quote, checked against the key of the row this step reads.  The  *)
(* tools and temporary files may fail; an exception is a failed check,     *)
(* unless there is not even the temporary directory (DbError).             *)
(***************************************************************************)
QuoteVerifies(w, r) == req[w].body.quoted /\ req[w].body.key = QuoteKey(r)

VerifyQuote(w) ==
    /\ At(w, "quote")
    /\ LET r == GetEnrolledMachine(req[w].body.machine)
       IN  \/ /\ QuoteVerifies(w, r)
              /\ pc' = [pc EXCEPT
                            ![w] = IF policy.strict THEN "strict" ELSE "content"]
              /\ row' = [row EXCEPT ![w] = r]
              /\ UNCHANGED <<req, currentRoot, now>>
           \/ Reject(w)
    /\ ReadOnly

\* 2b: STRICT_EK_VERIFICATION reads the row again.
EkVerified(r) == r # NoRow /\ r.verified

StrictCheck(w) ==
    /\ At(w, "strict")
    /\ LET ok == EkVerified(GetEnrolledMachine(req[w].body.machine))
       IN  \/ ok /\ Proceed(w, "content")
           \/ ~ok /\ Reject(w)
    /\ ReadOnly

(***************************************************************************)
(* 3, 4, 5: the PCR map, boot_aggregate and the form of the Merkle root.   *)
(* A registered machine may have an all-zero PCR 10 and no boot_aggregate. *)
(***************************************************************************)
\* Checks that take any string for a Merkle root:
AnyRootForm(body, enrolled) ==
    /\ body.pcrs \in {"good"} \cup (IF enrolled THEN {"zero10"} ELSE {})
    /\ body.boot \/ enrolled
    /\ body.leaves > 0

ContentOK(body, enrolled) ==
    /\ body.pcrs \in {"good"} \cup (IF enrolled THEN {"zero10"} ELSE {})
    /\ body.boot \/ enrolled
    /\ body.root # BadRoot
    /\ body.leaves > 0

ContentCheck(w) ==
    /\ At(w, "content")
    /\ LET body == req[w].body
           ok   == ContentOK(body, GetEnrolledMachine(body.machine) # NoRow)
       IN  \/ ok /\ Proceed(w, "root")
           \/ ~ok /\ Reject(w)
    /\ ReadOnly

\* 6: the root, when a baseline is in force.
\* A comparison that was lost:
AnyRootMatches(body, pinned) == TRUE

RootMatches(body, pinned) == pinned = NoRoot \/ body.root = pinned

RootCheck(w) ==
    /\ At(w, "root")
    /\ LET ok == RootMatches(req[w].body, ActiveRoot)
       IN  \/ /\ ok
              /\ Proceed(w, IF policy.pcr7 THEN "pcr7" ELSE "entries")
           \/ ~ok /\ Reject(w)
    /\ ReadOnly

\* 7: REQUIRE_PCR7_PINNING, when the baseline in force has a PCR 7.
Pcr7Matches(body, pinned) == pinned = NoPcr7 \/ body.pcr7 = pinned

Pcr7Check(w) ==
    /\ At(w, "pcr7")
    /\ LET ok == Pcr7Matches(req[w].body, ActivePcr7)
       IN  \/ ok /\ Proceed(w, "entries")
           \/ ~ok /\ Reject(w)
    /\ ReadOnly

CountGrant(w) == grants' = [grants EXCEPT ![req[w].nonce] = @ + 1]

\* 8: REQUIRE_IMA_MINIMUM_ENTRIES; then attest answers with a token.
EntriesCheck(w) ==
    /\ At(w, "entries")
    /\ LET ok == req[w].body.leaves >= policy.minEntries
       IN  \/ /\ ok /\ req[w].op = "attest"
              /\ CountGrant(w)
              /\ Finish(w)
           \/ /\ ok /\ req[w].op = "enroll"
              /\ Proceed(w, "pin")
              /\ UNCHANGED grants
           \/ /\ ~ok
              /\ Reject(w)
              /\ UNCHANGED grants
    /\ UnchangedStores
    /\ UnchangedServer

-----------------------------------------------------------------------------
(***************************************************************************)
(* enroll, after the verification.                                         *)
(***************************************************************************)
Pin(w) ==
    /\ At(w, "pin")
    /\ PinBaseline(req[w].body.root, req[w].body.pcr7)
    /\ CountGrant(w)
    /\ Finish(w)
    /\ UNCHANGED <<nonceVars, enrolledMachines>>
    /\ UnchangedServer

Restore(w) ==
    /\ At(w, "restore")
    /\ RestoreBaseline(currentRoot[w])
    /\ Finish(w)
    /\ UNCHANGED <<nonceVars, enrolledMachines, grants>>
    /\ UnchangedServer

Handle(w) ==
    \/ SaveRoot(w) \/ DeactivateAll(w) \/ Stamp(w) \/ Consume(w)
    \/ VerifyQuote(w) \/ StrictCheck(w) \/ ContentCheck(w)
    \/ RootCheck(w) \/ Pcr7Check(w) \/ EntriesCheck(w)
    \/ Pin(w) \/ Restore(w)

-----------------------------------------------------------------------------
(***************************************************************************)
(* Faults: sqlite3 raises (the database is locked or the disk is full):    *)
(* the transaction rolls back and nothing catches the exception.  Inside   *)
(* VerifyQuote it is caught and is a failed check, but mkdtemp() and       *)
(* chmod() come before the try.                                            *)
(***************************************************************************)
MayRaise(w) ==
    /\ pc[w] \notin {Idle, "stamp", "entries"}
    /\ pc[w] \in {"strict", "content"} => req[w].body.machine # NoMachine
    /\ pc[w] = "content" => req[w].body.pcrs # "empty"

DbError(w) ==
    /\ up
    /\ MayRaise(w)
    /\ faults < MaxFaults
    /\ faults' = faults + 1
    /\ Finish(w)
    /\ UnchangedStores
    /\ UNCHANGED <<up, policy, grants>>

Crash ==
    /\ up
    /\ faults < MaxFaults
    /\ faults' = faults + 1
    /\ up' = FALSE
    /\ pc' = [w \in Worker |-> Idle]
    /\ req' = [w \in Worker |-> NoRequest]
    /\ currentRoot' = [w \in Worker |-> NoRoot]
    /\ now' = [w \in Worker |-> 0]
    /\ row' = [w \in Worker |-> NoRow]
    /\ UnchangedStores
    /\ UNCHANGED <<policy, grants>>

\* _lifespan runs _init_db, whose CREATE IF NOT EXISTS keeps the tables.
Restart(p) ==
    /\ ~up
    /\ up' = TRUE
    /\ policy' = p
    /\ UnchangedStores
    /\ UNCHANGED <<pc, locals, grants, faults>>

Tick ==
    /\ clock < MaxClock
    /\ clock' = clock + 1
    /\ UNCHANGED <<activeNonces, issuedAt, enrolledMachines, baselines,
                   pc, locals, grants>>
    /\ UnchangedServer

Next ==
    \/ \E n \in Nonce : Challenge(n)
    \/ \E r \in RegRequests : Register(r)
    \/ \E w \in Worker, op \in {"attest", "enroll"}, n \in Nonce,
          body \in Reports : Receive(w, op, n, body)
    \/ \E w \in Worker : Handle(w)
    \/ \E w \in Worker : DbError(w)
    \/ Crash
    \/ \E p \in Policies : Restart(p)
    \/ Tick

Spec == Init /\ [][Next]_vars

(***************************************************************************)
(* A handler that is running goes on running: its transactions and the two *)
(* tpm2 subprocesses return.  Nothing is assumed of clients.               *)
(***************************************************************************)
FairSpec == Spec /\ \A w \in Worker : WF_vars(Handle(w))

-----------------------------------------------------------------------------
(***************************************************************************)
(* Properties that hold under every interleaving and every fault.          *)
(***************************************************************************)
Holding(w) == pc[w] \in Checking

(* "A nonce is burned on every call" (main.py:537): while the checks of a   *)
(* report run, no other request can be recognised with its nonce.           *)
HeldNonceIsBurned ==
    \A w \in Worker : Holding(w) =>
        Issued(req[w].nonce) /\ ~IsActive(req[w].nonce)

(* Single use: one challenge never yields two 200 answers, however often    *)
(* and to whichever endpoint reports with it are delivered.                 *)
NonceGrantedOnce == \A n \in Nonce : grants[n] <= 1

(* A challenge is good for as long as the server said: its row goes only    *)
(* when a handler takes it for its own report, or once it has expired.  A   *)
(* purge with a time read long before takes no newer challenge, the tick    *)
(* expires_at itself is still in time, and a transaction that was rolled    *)
(* back has taken nothing (main.py:206-224, 656).                           *)
ChallengesLast ==
    [][\A r \in activeNonces \ activeNonces' :
          \/ r.expires < clock
          \/ \E w \in Worker : /\ pc[w] = "consume" /\ pc'[w] = "quote"
                              /\ req[w].nonce = r.nonce]_vars

(* The evidence of a granted report is no older than the challenge          *)
(* lifetime at the time the handler read: the quote answers a challenge     *)
(* issued within Lifetime (main.py:89, 206-224).                            *)
EvidenceIsTimely ==
    \A w \in Worker : Holding(w) =>
        /\ now[w] <= clock
        /\ now[w] - issuedAt[req[w].nonce] \in 0..Lifetime

-----------------------------------------------------------------------------
(***************************************************************************)
(* Properties of the baseline.  Every row was pinned by a granted enroll,  *)
(* so the last row is the baseline the administrator pinned last.          *)
(***************************************************************************)
EnrollInFlight == \E w \in Worker : pc[w] # Idle /\ req[w].op = "enroll"

LastPinned == baselines[Len(baselines)]

(* Once a baseline is pinned, exactly the last pinned one is in force       *)
(* whenever no enroll is being handled: a rejected enroll put it back.      *)
BaselineInForce ==
    (up /\ ~EnrollInFlight /\ baselines # << >>)
        => ActiveIds = {Len(baselines)}

(* An attest about to get its token matches the baseline pinned last, in    *)
(* the root and, under the policy, in PCR 7 when the baseline has one.      *)
GrantsMatchBaseline ==
    \A w \in Worker :
        (pc[w] = "entries" /\ req[w].op = "attest" /\ baselines # << >>) =>
            /\ req[w].body.root = LastPinned.root
            /\ policy.pcr7 => LastPinned.pcr7 \in {NoPcr7, req[w].body.pcr7}

(* "Future reports must match this root" (README.md:202): once a baseline   *)
(* is pinned, no attest passes the root check with another root.            *)
RootCheckEnforced ==
    [][\A w \in Worker :
          (/\ pc[w] = "root" /\ req[w].op = "attest" /\ baselines # << >>
           /\ pc'[w] \in {"pcr7", "entries"})
              => req[w].body.root = LastPinned.root]_vars

(* "ignores the current pinned root so initial enrollment always succeeds"  *)
(* (main.py:741): an enroll is never rejected by the root check.            *)
EnrollIgnoresPin ==
    [][\A w \in Worker :
          (up /\ pc[w] = "root" /\ req[w].op = "enroll" /\ pc'[w] # pc[w])
              => pc'[w] \in {"pcr7", "entries"}]_vars

-----------------------------------------------------------------------------
(***************************************************************************)
(* Properties of the policies and of the documented checks.                *)
(***************************************************************************)
(* STRICT_EK_VERIFICATION rejects machines "with no verified hardware EK    *)
(* certificate" (main.py:96): a report passes the strict check only while   *)
(* its machine is registered with an X.509 certificate, whatever was        *)
(* registered for it before.                                                *)
StrictCheckSeesCertificate ==
    [][\A w \in Worker :
          (up /\ pc[w] = "strict" /\ pc'[w] = "content") =>
              LET r == GetEnrolledMachine(req[w].body.machine)
              IN  r # NoRow /\ r.ek = "x509"]_vars

(* Every request is answered, if its threads run: no check, and no path     *)
(* back from a failed enroll, leaves a handler waiting or looping.          *)
EveryRequestIsAnswered ==
    \A w \in Worker : pc[w] # Idle ~> pc[w] = Idle

=============================================================================
