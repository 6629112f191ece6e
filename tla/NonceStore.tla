----------------------------- MODULE NonceStore -----------------------------
(***************************************************************************)
(* The table active_nonces of server/main.py and the two transactions on   *)
(* it: _issue_nonce (GET /challenge) and _consume_nonce (the first check   *)
(* of every POST /attest and POST /enroll).                                *)
(*                                                                         *)
(* Time is a clock in ticks; Lifetime is _CHALLENGE_LIFETIME_SECONDS in    *)
(* the same unit.  Nonces are 256-bit random values: a value that was      *)
(* issued once is never drawn again.                                       *)
(***************************************************************************)
EXTENDS Integers

CONSTANTS
    Nonce,      \* the nonces the server can draw
    Lifetime    \* ticks an unused nonce stays valid

ASSUME LifetimeAssumption == Lifetime \in Nat

VARIABLES
    clock,          \* datetime.now(tz=timezone.utc)
    activeNonces,   \* the rows of the table active_nonces
    issuedAt        \* history: when each nonce was issued, or Never

nonceVars == <<clock, activeNonces, issuedAt>>

Never == -1

NonceRow == [nonce : Nonce, expires : Nat]

NonceTypeOK ==
    /\ clock \in Nat
    /\ activeNonces \subseteq NonceRow
    /\ issuedAt \in [Nonce -> Nat \cup {Never}]

NonceInit ==
    /\ clock = 0
    /\ activeNonces = {}
    /\ issuedAt = [n \in Nonce |-> Never]

Issued(n) == issuedAt[n] # Never

IsActive(n) == \E r \in activeNonces : r.nonce = n

(***************************************************************************)
(* _issue_nonce: draw, compute expires_at, INSERT.                         *)
(***************************************************************************)
\* A challenge that is given a tick too much:
IssueForLonger(n) ==
    /\ ~Issued(n)
    /\ activeNonces' = activeNonces
                         \cup {[nonce |-> n, expires |-> clock + Lifetime + 1]}
    /\ issuedAt' = [issuedAt EXCEPT ![n] = clock]

IssueNonce(n) ==
    /\ ~Issued(n)
    /\ activeNonces' = activeNonces
                         \cup {[nonce |-> n, expires |-> clock + Lifetime]}
    /\ issuedAt' = [issuedAt EXCEPT ![n] = clock]

\* What the lazy purge (DELETE ... WHERE expires_at < now) leaves.
\* A purge that takes a row in its last tick:
UnexpiredStrictly(now) == { r \in activeNonces : r.expires > now }

Unexpired(now) == { r \in activeNonces : r.expires >= now }

\* The row the SELECT of _consume_nonce finds in the purged table.
Recognised(n, now) == \E r \in Unexpired(now) : r.nonce = n

(***************************************************************************)
(* _consume_nonce is one transaction, opened by the DELETE of the purge,   *)
(* so SQLite holds the write lock from the purge to the commit: purge,     *)
(* SELECT and DELETE are one step.  The purge is committed also when the   *)
(* nonce is not recognised.  now was read before the transaction began.    *)
(***************************************************************************)
\* A consume without the final DELETE:
ConsumeKeepingRow(n, now) == activeNonces' = Unexpired(now)

ConsumeNonce(n, now) ==
    activeNonces' = { r \in Unexpired(now) : r.nonce # n }

\* The second look at expires_at, in the row the SELECT found.
Expired(n, now) == \E r \in Unexpired(now) : r.nonce = n /\ now > r.expires

=============================================================================
