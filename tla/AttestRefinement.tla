-------------------------- MODULE AttestRefinement --------------------------
(***************************************************************************)
(* The server implements ChallengeProtocol: the phase of a nonce is read   *)
(* off the table, the handlers' progress and the answers given.  Serving   *)
(* one request at a time it implements BaselineRegister: the baseline is   *)
(* the last row, also while an enroll has taken it out of force.           *)
(***************************************************************************)
EXTENDS AttestServer

IsHeld(n) == \E w \in Worker : Holding(w) /\ req[w].nonce = n

PhaseOf(n) ==
    CASE ~Issued(n)                          -> "fresh"
      [] Issued(n) /\ IsActive(n)            -> "issued"
      [] Issued(n) /\ ~IsActive(n) /\ IsHeld(n) -> "held"
      [] Issued(n) /\ ~IsActive(n) /\ ~IsHeld(n) /\ grants[n] > 0 -> "granted"
      [] OTHER                               -> "dead"

Challenges == INSTANCE ChallengeProtocol
                  WITH phase <- [n \in Nonce |-> PhaseOf(n)]

(* Every behaviour of the server, with its concurrency, crashes and         *)
(* database errors, is one of ChallengeProtocol: a nonce is never reissued, *)
(* reactivated, shared by two verifications or granted twice.               *)
ImplementsChallengeProtocol == Challenges!Spec

-----------------------------------------------------------------------------
Requests == [op : {"attest", "enroll"}, nonce : Nonce, body : Reports]

Pinned ==
    IF baselines = << >>
    THEN [root |-> NoRoot, pcr7 |-> NoPcr7]
    ELSE [root |-> LastPinned.root, pcr7 |-> LastPinned.pcr7]

Baseline == INSTANCE BaselineRegister WITH baseline <- Pinned

(* While one request is handled at a time and nothing fails, the endpoints  *)
(* behave as if each did its work at once, when it answers, on a single     *)
(* baseline: the deactivation and the rollback of enroll (main.py:741-781)  *)
(* never show in what a later request is granted.                           *)
ImplementsBaselineRegister == Baseline!Spec

=============================================================================
