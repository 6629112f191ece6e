# tpm-attest: a verification project

TLA+ models of the attestation server, the shim daemon from its start to its
end, the IMA log and its Merkle tree, the report agent, and the games in front
of them and behind their gate, with the TLC runs that check them on small
instances and the TLAPS proofs that hold for every instance.

    tlc -workers 2 -config GamePipeline.cfg MCGamePipeline.tla     # a run
    tlapm ShimProofs.tla                                           # a proof

Line numbers are of the repository's source. `PROJECT.json` maps every modelled
definition to its lines.

## 1. The system

    game ── EOS call ──> eac_hook.so ──┐ unix socket           HTTP
    demo game ── _query_shim_direct ───┴──────────> shim.py ─────────> main.py
                                                     │  │                │
                              tpm2_pcrread, tpm2_quote  │             SQLite
                                        kernel's IMA log (ima_reader)

| component | state | operations | hard about it |
|---|---|---|---|
| **Attestation server** `server/main.py` | tables `active_nonces`, `enrolled_machines`, `baselines`; environment policy | `GET /challenge`, `POST /register`, `/attest`, `/enroll` | sync handlers run on a thread pool, each a chain of separate SQLite transactions; a crash or a database error may end a handler between any two; tables outlive the process |
| **Shim, start** `phase3/shim.py:109-200, 457-489` | the file at `SOCKET_PATH`; locals of `_auto_register`; the machine's row at the server | unlink, bind, listen, read AK and EK, `POST /register`, clean up | nothing keeps two runs apart; a killed run leaves its file; a registration may arrive after its run has ended |
| **Shim, daemon** `phase3/shim.py` | the listening socket and its queue, the connection being served | accept, handshake, fetch challenge, collect, post, reply | one thread for all; some failures are answered and some end the process; the server may decide after the shim has given up |
| **Shim, collection** `phase3/shim.py:207-285` | `_IMA_LEAF_CACHE`, `_IMA_LINE_OFFSET` | `_collect_report_incremental` | five subprocesses in turn while the log grows; cache updated before the quote that may fail; a cache and an offset that count different things |
| **IMA reader, Merkle tree** `agent/ima_reader.py` | none (pure) | parse, read from an offset, count, hash leaves, build full and incremental tree, inclusion proof | odd layers, positions over batches, lines that do not parse |
| **Hook** `phase3/eac_hook.c` | `g_game_callback`, the runtime's registered callback | the three EOS functions, `hook_callback` | the runtime fires events inside the registration; which library a lookup finds |
| **Games** `phase3/fake_game.c`, `demo_game/` | `_result`, the gate | EOS calls; a query thread beside the main thread | `_result` is written field by field while it is read |
| **Report agent** `agent/report.py`, `agent/pcr_reader.py` | none | `generate_report`: PCRs, summary, log and tree, quote | the log grows between its subprocesses; the shim re-implements it with a cache |
| **Demo game's play** `demo_game/game.py:117-238, 351-506` | player, enemies, wave, scores | spawn, strikes, shots, rams, waves, death, retry | many collisions in one frame, and death is asked for once a frame |

What makes them correct: a challenge is good for one 200 answer, in time, and
never again (server, 2.1); the baseline in force is the one enrolled last;
nobody is told "valid" without a grant for his own challenge, and everybody who
asks gets through to an answer (shim, 2.3); a report leaves out no entry that
its PCR 10 covers, and is the report the agent would have made (collection, 2.2);
the root determines the log (Merkle, 2.2); no event and no player passes the
hook or the gate without grants (2.4); a run that was alone can be reached, and
what it was told the registry holds stays there (start, 2.3); a hit costs one
point, a wave is paid for and enemies come one at a time (play, 2.5).

## 2. Modules

    NonceStore  Registry  BaselineStore       ImaLog ──> Merkle ──> MerkleCheck
          └────────┼──────────┘                 │          │
              AttestServer                      │          │        └──> MerkleProofs
                   │                            │          │               ··> NatRecursion
            AttestRefinement ──> AttestServer-  │          └──> ShimCollect ──> ShimCollectProofs
                   │   :  :        Proofs       │                  :  │
                   │   :  ··> BaselineRegister  └──> ReportAgent <··  └──> MCShimCollect
            MCAttestServer :
                       ··> ChallengeProtocol    Registry ──> DaemonStart
                           :                                      └──> MC..., ...Proofs
                         Shim ──> ShimProofs
                           │          │             DemoGame ──> MC..., ...Proofs
                     GamePipeline ──> GamePipelineProofs
                           └──> MCGamePipeline

(──> is EXTENDS, ··> INSTANCE; ShimCollectProofs also takes an instance of
MerkleProofs, for the log of the collector.)

### 2.1 The server

`NonceStore`, `Registry` and `BaselineStore` are the three tables, each with the
transactions on it. `AttestServer` is the service: `Worker` is the thread pool,
`pc[w]` the next transaction of the request that worker `w` handles, and each
`with _db()` block is one action, because SQLite makes it atomic and releases
the lock between two of them. `_verify_report` reads the machine's row three
times (464, 555, 566) and the active baseline twice (596, 607), and so does the
model. The time that `_consume_nonce` compares with is read before its
transaction, so `Stamp` is a step of its own; `Consume` purges, looks the row up,
deletes it, and compares the time once more, as the code does. `Crash` and `DbError`
(which stands for `mkdtemp` and `chmod` at 448-449 too) end handlers; the tables stay. `Restart` may change the policy.

A report is abstracted to what the checks tell apart: who signed it, whether
the quote covers the nonce, four kinds of PCR map, PCR 7, `boot_aggregate`, root
and leaf count. What a client sends as EK is nothing, too short, an X.509 certificate, a
raw key, or junk of four bytes or more; the code does not tell the last two apart
(`VerifyEkCert`, main.py:359-369).

`ChallengeProtocol` is what the server promises of a challenge, without tables
or threads: fresh, issued, held by one verification, granted or dead, and never
back. `AttestRefinement` reads the phase of every nonce off the server's state
and claims `Challenges!Spec`, which `attest_nonces` checks and
`ServerImplementsProtocol` proves. `Shim` uses the same module as its environment, so
that server and shim are checked against one contract from both sides.

`BaselineRegister` is what `/attest` and `/enroll` promise about the baseline, without
rows, flags or rollbacks: one value; a granted enroll replaces it at once, a granted
attest matches it, a refusal leaves it. The refinement reads that value off the
last row, also while an enroll has taken it out of force (`Pinned`). The server
keeps the promise only where enrolls are kept apart from other requests; the
`enroll_*` runs show where it does not.

### 2.2 The log and its collection

`ImaLog` has the log as a sequence of lines, some of which `_parse_line` rejects,
and the three readers. `read_ima_log(start_line)` counts *raw* lines,
`read_ima_log_line_count` and the shim's offset count lines that *parse*
(142, 149-161; shim.py:255, 267); the model keeps this. SHA-256 is injective:
a digest is its pre-image, tagged, for the pre-image of a leaf is never two digests in
a row. `Merkle` is the tree as the code builds it: its loops are functions of the number
of rounds (`Layers`, `Path`), so that they can be reasoned about. `MerkleCheck` grows
every short log and compares with a definition by position.

`ShimCollect` is one daemon's sequence of collections with every subprocess call
as a step, `Measure` between any two, `Fail` at any of them, `RestartShim` and
`Reboot`. The value of PCR 10 is the number of lines extended into it when it
was read. `Covers` and the other invariants do not depend on how long the log
is; the run bounds it with a state constraint. The module builds on `Merkle`:
`RootTellsTheLog` goes from the one string that the server compares, the root of a report, back to
the log it stands for.

`ReportAgent` is `generate_report`, which keeps nothing and reads the whole log every
time. `ShimCollect` takes an instance of it (`Agent`: the leaves of the call in progress
are those of the cache it will report) and `ActsAsAgent` says that each step of the
incremental collection is the agent's step or none, wherever the cache was empty
at the call or the log parses.

### 2.3 The daemon

`Shim` is `run_server` and `_handle_client`. The exceptions are sorted as Python
sorts them: what `_handle_client` catches is answered, `RuntimeError` (into which
`URLError` is turned) for the challenge and the POST, `RuntimeError` and `ValueError` for
the collection (`ChallengeFails`, `CollectFails`, `PostFails`), an `OSError` of `recv` closes the
connection without an answer (`ReadFails`), and what nothing catches ends the
daemon (`Uncaught`, `BadHandshake`): a timeout or reset while `urlopen` waits for the
response is no `URLError`, a challenge that is not JSON a `ValueError` which nothing
catches there, a missing `sudo` no `RuntimeError`, and a handshake that is
a JSON list has no `get`. `Down` closes the served and the queued connections. A
posted report stays with the server, which may grant it after the shim, or its
timeout, is gone. Clients connect when there is room in the queue; those whose
sockets have a Python timeout do not wait for it (`Patient`: such a `connect()`
gets EAGAIN at once). `Start` may bring the daemon back, or nobody does. A connection
that the daemon closes before its client wrote to it is "broken": `write()` raises SIGPIPE.

`DaemonStart` is `run_server` around that loop, for a set of runs which share the path,
the TPM and the machine's row. Before "serve" nothing is cleaned up (`StartFails`,
`Kill`); after it the `finally` clause closes and then unlinks, whatever is there. The
runs may be of different users: in `/tmp` one cannot remove or chmod the other's file, so
`Unlink`, `Listen` and `UnlinkAtEnd` may fail on it. `read_ek_cert` is one TPM command at
a time, each of which may fail; what it reads is sent as it is. `posted` holds
registrations which the server may still decide when their run has given up or
ended, `success` the 200 on its way back or heard; `RegisterMachine` is the server's own
definition, in `Registry`. The module is about one machine: `/register` asks nobody who he
is, and a client elsewhere that names the same machine replaces the row as a late
request does. `Shim`'s `Start` is what a lone run of `DaemonStart` gives it
(`LoneRunIsReachable`).

### 2.4 The games

`GamePipeline` extends `Shim`: its connections are the queries of the two games.
`Intercepts` is the linker's rule: `fake_game.c` looks the EOS functions up with
`RTLD_DEFAULT` and meets the preloaded hook; `ctypes.CDLL(...)` looks them up in the
handle of `libeos_sdk.so`, where a preloaded library is not searched. One action
per step of the hook (`AddNotifyHooked`, `RegisterHook`, `AbortRegistration`, `Forward`, `Block`),
of the stub, of the demo's query thread (`WriteValid`, `WriteDone`) and of the
main thread (`PressEnter`, `Quit`). A native game without a handler for SIGPIPE is
ended by it ("killed"); the demo, in Python, gets an exception.

### 2.5 The play

`DemoGame` is the loop behind the gate. A frame is three loops, over bullets, shots
and bodies, and each collision is a step. `EndFrame` is what follows them: the next
wave, the high score, and the only question whether the player lives. `spawnCd` goes on
below 0 while an enemy waits for room, as `spawn_cd` does. Where
things fly is left open (any live enemy may be struck, ram or leave), so whatever
holds, holds for every geometry.

## 3. Runs

| run | question | finds |
|---|---|---|
| `attest_nonces` | Are challenges single-use and timely, and do they last until used or expired, with two handlers, duplicated and late reports, a moving clock and a fault? Does the server implement `ChallengeProtocol`? | pass |
| `attest_sequential` | With one handler and no faults: is the baseline in force the last one enrolled, do grants match it, does the strict policy see a certificate, is every request answered? Do the endpoints implement `BaselineRegister`? | pass |
| `enroll_window` | "Future reports must match this root" (README.md:202), with two handlers | violated: an `/attest` passes while an enroll has deactivated the baseline |
| `enroll_crash` | The same baseline after one fault | violated: no baseline is in force any more |
| `enroll_overlap` | The same with two handlers and no fault | violated: an enroll saves the root that another has deactivated, or restores an older one beside the pinned one |
| `strict_restart` | Strict mode accepts only verified certificates (main.py:96), over a change of policy | violated: `ek_verified` outlives the policy it was computed under, and says nothing of what it was computed from: bytes that are neither certificate nor key pass |
| `merkle` | Tree, incremental tree, inclusion proofs and injectivity of the root, on all logs up to eight entries | pass |
| `shim_collect` | Do reports leave anything out? Does a report's root tell the log? Is the cache a full rebuild on a log that parses, and the collection the agent's `generate_report`? | pass |
| `shim_rebuild` | The same rebuild claim for every log (ima_reader.py:123-126) | violated: after one line that does not parse, an entry is read twice |
| `game_pipeline` | Does anything or anybody pass without grants, is a connection forgotten, does every game come through? | pass |
| `daemon_start` | Can a run that was alone be reached, does the registry keep what a run was told it holds, does registration end? | pass |
| `demo_game` | What may a frame of many collisions cost, are waves paid for, is the screen bounded, do enemies come one at a time, does the best score stand? | pass |

Every property of a passing run has a mutant of the code's definition that
breaks it (`PROJECT.json`, "mutants"); the mutants stand in the modules just before
the definition they change, introduced by a line that ends with a colon.

### Bounds, and why they are enough

- **Two workers, two nonces, one fault, clock 0..2, lifetime 1** (`attest_nonces`).
  Single use is a matter of two handlers and one nonce; the second nonce lets
  an expiry of one meet a verification of the other. With lifetime 1 and clock
  2 a challenge can be used at once, at the boundary and too late. One fault of each kind
  at every point; what is in the report does not matter there, so there is one.
  Symmetry only permutes the workers, and no liveness is checked under it.
- **One worker, every kind of report, registration and policy**
  (`attest_sequential`): the baseline properties are false with two workers
  (`enroll_window`) and with faults (`enroll_crash`); without either they hold.
  Two challenges give an enroll and what follows it.
- **Logs of up to eight entries from two** (`merkle`): layers of every parity up to
  depth 3, odd in two rounds (5 leaves) or in the last (7) included, and a full
  tree.
- **Four lines, two entries** (`shim_collect`): a malformed line before, between and
  after two collections. The entries are symmetric: nothing in the collector tells
  two of them apart, and no liveness is checked. `RootTellsTheLog` compares with every
  log of at most that length.
- **Backlog 1, three queries, two challenges, one kill** (`game_pipeline`): one
  connection served, one queued and one that finds the queue full; two challenges
  are what two grants take, and with both spent there is a query that gets none.
  `Uncaught` and `BadHandshake` are not bounded, so the daemon may go down at
  every call.
- **Two runs, two TPMs** (`daemon_start`): one run leaves a file or a registration
  behind, starts beside the other, or follows it; the theorems are about any number. One
  TPM holds a certificate at the first index and something too short at the second, the
  other only junk at the second; both have the key itself. Any read may fail, so every
  kind of EK and none is sent. There is no other bound.
- **Two points of life, three waves, 500 points, four slots** (`demo_game`): the first
  hit and the last; waves with targets 2, 3 and 4; one slot more than the
  second wave may fill. Two frames of invincibility are the fewest that span a
  frame without a hit, and two between enemies tell a spawn that catches up from one
  that does not. Wave, score and the frames an enemy is overdue are bounded by a state
  constraint. Slots are
  symmetric: no action tells them apart, and there is no liveness property.

### Fairness

`attest_sequential`: `EveryRequestIsAnswered` assumes weak fairness of each handler's
steps, that is, that threads are scheduled and SQLite answers.

`game_pipeline`: `PipelineFairSpec` assumes that the daemon's loop runs and that the
games' threads run. The daemon's calls end because `urlopen` has a timeout and
subprocesses are taken to end. `recv` has no timeout: it ends when the client closes its
side, and a client that has connected does so because its thread runs (a client
that connects and stays silent is outside the assumption, and does block
everybody; see the hazards). Nothing is assumed of the server (a `Verdict` comes
because the timeout, `Uncaught`, is always possible), of whoever restarts the
daemon, of clients' patience, or of the keyboard.

`daemon_start`: weak fairness of each run's `AutoRegister`. The commands of the TPM
are taken to end (they have no timeout in the code); the POST has one. The server may
never decide, and `Kill` may always come.

`GamesComeThrough` has two parts under one fairness: the demo's query comes to its
end, and the native game, hooked, comes through both of its calls or is killed by
SIGPIPE.

`CHECK_DEADLOCK FALSE` stands where the system really stops: games that are
through, runs that have ended, and logs at their bound.

## 4. Proofs

All for arbitrary constants.

| theorem | of | states |
|---|---|---|
| `TypeCorrect`, `GrantedOnce`, `BurnedFirst`, `TimelyEvidence`, `LastingChallenges` | AttestServerProofs | types; a challenge yields at most one 200 answer; a nonce under verification is out of the table; its evidence is in time; a challenge goes only when it is taken or has expired |
| `SerialBaselineInForce`, `SerialEnrollPasses` | AttestServerProofs | any number of attests, enrolls that take turns, no fault (`SerialEnrolls`): the baseline pinned last is in force; the root check rejects no enroll |
| `ExclusiveGrantsMatch`, `ExclusiveServerIsRegister` | AttestServerProofs | any number of attests, enrolls that keep other requests out, no fault (`ExclusiveEnrolls`): grants match the baseline pinned last; the endpoints implement `BaselineRegister` |
| `StrictSeesCertificate` | AttestServerProofs | as long as the policy stays, through crashes, database errors and restarts, any number of workers: the strict check passes only on a certificate |
| `ServerImplementsProtocol` | AttestServerProofs | the server implements `ChallengeProtocol`, with any faults |
| `AnswerIsTwelveStepsAway` | AttestServerProofs | every step of a handler lowers a bound on the steps it has left; nothing raises it |
| `TreeIsAlwaysBalanced`, `IncrementalIsAlwaysFull`, `ProofAlwaysLeadsToRoot` | MerkleProofs | for logs of any length: the reduction gives the tree defined by position; staged builds give the full tree; every proof leads from its leaf to the root |
| `RootIsInjective`, `RootAlwaysDeterminesLog` | MerkleProofs | logs of any lengths with the same root are the same log, although odd layers repeat a node |
| `RootTellsEveryLog`, `RootTellsShortLogs` | ShimCollectProofs | if a report's root is that of some log, of any length, every entry that its PCR 10 covers is in that log and every entry of the log was measured |
| `CollectTypeCorrect`, `CacheNumbered`, `NothingLost` | ShimCollectProofs | types; the offset is the number of leaves, each hashed with its position; no entry covered by the reported PCR 10 is left out |
| `RebuildOnCleanLogs`, `ShimActsAsAgent` | ShimCollectProofs | on a log that parses, a report's leaves are a full rebuild of it; the collection acts as `generate_report` |
| `ShimTypeCorrect`, `FailClosed`, `OwnChallenge`, `NobodyForgotten` | ShimProofs | types; "valid" only on a grant for one's own challenge; no challenge is shared; who waits is queued once or served |
| `PipelineImplementsShim` | GamePipelineProofs | the pipeline's behaviours are the shim's |
| `PipelineTypeCorrect`, `TwoGrants`, `PlayIsGranted`, `DeniedJustly` | GamePipelineProofs | types of the daemon, its clients, the server and the games; two grants behind a forwarded event; a grant behind an opened gate; nobody let in is turned away |
| `TypeCorrect`, `LoneRunReachable`, `RegistrationsStand` | DaemonStartProofs | types; a run that was alone owns the path; what an untroubled run was told the registry holds stays there |
| `ServiceIsSixStepsAway` | DaemonStartProofs | every step of a registration lowers a bound on the steps it has left; nothing raises it |
| `GameTypeCorrect`, `HitsSpaced`, `WavesPaid`, `CrowdBounded`, `SpawnsSpaced`, `BestStands` | DemoGameProofs | types (life never below 0); hits are spaced; waves are paid for; the screen is bounded; enemies are spaced; the best score stands |

The first section of `ShimCollectProofs` has the lemmas about the log (every position
that parses has a rank, so every entry that parses is read). `NatRecursion` has what
the Merkle proofs need of the naturals: induction over *sets* of numbers, and that
a function defined by recursion on them exists and satisfies its equation.

**The server.** Single use is not inductive by itself. `NonceInv` says
that a nonce is in one place at a time (in the table, held by one verification,
or granted) and that rows and handlers carry true times. Only `Consume` creates a
holder, and it takes the row away in the same transaction; only the last step
of a holder counts a grant. All other steps are "quiet" (`QuietKeepsNonceInv`): they
create neither rows nor holders. `NonceInv` also says that the time a handler read is not
ahead of the clock: so what its purge takes has expired, and the rest of the table stays
(`ChallengesLast`). The time may lie behind, without a bound: a handler that waits for
the database takes a challenge which has expired meanwhile. Timeliness is relative to
the time read (`EvidenceIsTimely`).

The refinement uses the same invariant. `HandleKinds` sorts the steps of a handler by
what they do to nonces: take one, purge some, give one, or leave them. Since a
nonce is in one place at a time, each kind is one arrow of `ChallengeProtocol`: issued
to held, issued to dead, held to granted or dead, or a stutter; a crash kills what
is held.

The baseline theorems do not bound the workers. They are about the behaviours
in which nothing fails and enrolls take turns (`[]SerialEnrolls`) or keep
everybody else out (`[]ExclusiveEnrolls`), which is what a lock around `enroll` would
give. `TurnsInv`: while no enroll has deactivated the rows, the last pinned row is the
only active one (`InForceInv`); inside an enroll nothing is active, and what it saved is that
row (`EnrollInv`). `SavedRoot` goes by root and not by id, and still brings back the last row,
for `Restore` picks the newest row with that root. With exclusive enrolls, a
handler past the root and PCR 7 checks matches the last row until it answers
(`MatchInv`); the refinement of `BaselineRegister` needs `MatchInv` for granted attests, and for
all other steps only that nothing but `Pin` changes what the last row says. Each
hypothesis is needed: `enroll_overlap` has overlapping enrolls and loses the baseline,
`enroll_window` has one enroll beside an attest and grants a report that does not match,
`enroll_crash` has one fault.

For `StrictSeesCertificate` it is enough that the policy does not change: a row is
marked verified under the same policy that reads it. `strict_restart` shows that a change is
fatal.

**The collection.** The offset goes wrong after a malformed line (`shim_rebuild`),
and yet nothing is lost. `CoverInv` says why: the offset never passes the end of the
log, and what precedes it is in the cache. An offset that is too small only
makes the shim read lines again, and a flush starts over. Two lemmas carry it:
reading from an offset yields every entry that parses after it, and no more
leaves than lines. On a clean log the offset counts lines as well as leaves, so the
cache is `LeafHashes` of the log's prefix: appending what follows gives `LeafHashes`
of the longer prefix (`RebuildOnCleanLogs`), and that is what the agent reads
(`ShimActsAsAgent`).

**The tree.** After `k` rounds, layer `k` of a log of `n` entries has as many nodes as
there are blocks of `2^k` positions, and its `i`-th node is the balanced tree over the `i`-th
block, positions beyond `n` counting as the last leaf (`TreeIsAlwaysBalanced`). For
injectivity, suppose two logs have one root. The leftmost path of the root, which ends
at a tagged leaf, gives the depth of both trees. Then go down: if layer `k + 1` is
the same in both, layer `k` is the same once padded, and since leaves carry their
positions the nodes of a layer are distinct, so only padding can end in two equal
nodes; hence the layers have one width too. At layer 0 the leaves, and with them
the entries, are the same. The prover has no induction over operators, so each
induction is over the set of the rounds (or positions) for which the claim holds,
and recursive functions are unfolded by an instance of `NatRecursion`.

`RootTellsEveryLog` puts the two together: `ReportInv` says that the leaves of a report
carry their positions and entries that were measured, `CoverInv` that all which PCR 10
covers is among them; `RootIsInjective` says that a log with the same root has these entries,
in this order.

**The daemon.** A grant is shown to the right client because a connection is served
once. `LineInv`: nobody is queued twice or queued while served, and who is in line
has no answer yet. `NonceInv` of ShimProofs: a challenge some connection holds is not fresh,
so `Issue` cannot hand it out again, and grants are not taken back
(`PhaseMoves`, a lemma about `ChallengeProtocol` alone).

**The games.** `PipelineStep` shows that every step of the pipeline is a step of `Shim`
or leaves its variables alone, so all of `ShimInv` carries over. `AnswersStay` (an answer
is final) turns "the probe was approved when the hook looked" into "it is
approved", and `DemoInv` orders the fields of `_result`.

**The start.** `overlapped` is the history of having company. A run without it is the
only one alive, so nobody else can unlink or bind. `trailed` is the history of having
started while an earlier registration was under way. For a run with neither,
`StandsInv` says that every request still on its way is its own, with the EK it found
(`OnlyOwnPosted`, `PostedByStarted`), so whatever arrives writes the row which it was told
of. Both hypotheses are needed: with either, the request that arrives last
decides, and a read that failed makes it a weaker one.

**The play.** `calm` counts the frames since the last hit; `calm + invincible` is
always `Invincibility`, so a hit that counts finds `calm` full. Waves:
every kill pays 100 or more, and a new wave resets `killed` only after the target is met.
`lull` counts the frames since an enemy came; what it lacks to `MinDelay` is still on
`spawnCd`.

Assumptions on constants are the named ASSUMEs of the modules: sentinel values
are not ordinary values, bounds are naturals, and the pipeline's connections are
the five queries. The `Serial...` and `Exclusive...` theorems and `StrictSeesCertificate` state
what they assume of the behaviour in the theorem.

**Only model-checked:** liveness (`EveryRequestIsAnswered`, `GamesComeThrough`,
`RegistrationEnds`), which is beyond the prover (it has no rule for ENABLED and fairness).
Of the first and the last, the half that does not rest on fairness is proved:
`AnswerIsTwelveStepsAway` and `ServiceIsSixStepsAway` bound the steps that are left.
Every other property of a passing run is stated by a theorem. That the baseline is
lost *without* the hypotheses is shown by the violating runs.

## 5. Not modelled, and why

- Cryptography, TPM, certificate parsing, HTTP, JSON: outcomes only. Hashes and
  quotes do not collide.
- `agent/report.py` and `agent/pcr_reader.py` beyond the moment of each read: digests,
  layout and argument checks. The `python -m agent.report` examples of the README
  post a nonce that the server never issued, which in the model is a nonce not
  in the table.
- The hook's string handling (`parse_json_bool`, `bytes_to_hex`), the player's name,
  `ReceiveMessageFromServer`: no state a property reads.
- A second `AddNotifyMessageToServer`, which would replace the callback of the approved
  registration before it is probed (eac_hook.c:276): no program of the repository
  makes one.
- The demo's positions, bullets in flight, shooting cooldowns, drawing and sound.
- The launch script, build files, tests and the paper: read as statements only.

Disagreements found by reading, which no run is needed for:

- README.md:170 and 508 promise freshness within 60 seconds; no code compares a
  report's time, and the nonce lives 120 s (main.py:87).
- shim.py:41-42 says every failure is answered `{valid: false, reason}`; a timeout while
  `_post_report` waits (shim.py:332) is no `URLError`, nothing catches it, and the daemon
  ends (`Uncaught`; the client then finds its connection closed).
- shim.py:145 says that registration "does NOT abort" the daemon; `exc.read()` in its
  handler of HTTP errors (190) stands outside any `try`, and may raise
  (`StartFails` at "answer").
- eos_bridge.py:2, 61 and demo_game/README.md:13 say that calls through ctypes are
  intercepted; a lookup in the handle of `CDLL` (eos_bridge.py:62) does not search a
  preloaded library (`Intercepts`), so only the direct query guards the demo.
- main.py:741 says that enroll "ignores the current pinned root so initial enrollment
  always succeeds"; its root check (596) may meet a baseline which another enroll has
  pinned since the deactivation. `EnrollIgnoresPin` under the constants of
  `EnrollOverlap.cfg` shows it, by the gap that `enroll_window` shows already.

Observations outside the runs: the expiry test at main.py:226-232 finds nothing, for the
purge before it compares with the same time (`NeverExpired` in AttestServerProofs);
README.md:171 and 173 do
not say that registered machines are exempt from the PCR 10 and
`boot_aggregate` checks (main.py:566-593); README.md:509 says that AK keys are held
in memory, while they are in `enrolled_machines`; README.md:213 names
`generate_report()` where the daemon runs the incremental collector; a file name
in the log that is not UTF-8 makes every collection fail, closed.

## 6. Order of the work, and what is left

The order was: challenges and verification on the server (the core), baselines
and policies, the log and its collection, the daemon, the games, the daemon's start
and the play, and each part's theorems after its runs; then the refinements
(server to protocol and to register, collection to agent,
pipeline to shim), and the tree and what a root tells.

Left, most important first:

1. `Shim` over `AttestServer` in place of its contract, on the smallest instance. The proof of
   `ServerImplementsProtocol` and `Shim`'s use of `ChallengeProtocol` meet in the middle already.
2. Repeated `AddNotifyMessageToServer` in `GamePipeline`.
3. The half of `GamesComeThrough` that does not rest on fairness: a bound on the steps
   which a query, the daemon and the server together have left.
