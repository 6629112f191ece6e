-------------------------- MODULE BaselineRegister --------------------------
(***************************************************************************)
(* What /attest and /enroll promise an administrator, without rows, flags, *)
(* transactions or rollbacks: there is one baseline; a granted enroll      *)
(* replaces all of it at once; a granted attest matches it; and a refused  *)
(* request, of either kind, leaves it as it was.                           *)
(***************************************************************************)
EXTENDS Naturals

CONSTANTS
    Worker,     \* the requests being served
    Nonce,      \* the challenges requests answer
    Requests,   \* the requests clients may send: op, nonce and body
    Policies,   \* the settings of the server; pcr7 says whether PCR 7 counts
    NoRequest, NoRoot, NoPcr7

VARIABLES
    baseline,   \* its root and PCR 7
    req,        \* the request each worker serves
    policy,
    grants      \* 200 answers per challenge

NoBaseline == [root |-> NoRoot, pcr7 |-> NoPcr7]

vars == <<baseline, req, policy, grants>>

Init ==
    /\ baseline = NoBaseline
    /\ req = [w \in Worker |-> NoRequest]
    /\ policy \in Policies
    /\ grants = [n \in Nonce |-> 0]

Serve(w, r) ==
    /\ req[w] = NoRequest
    /\ req' = [req EXCEPT ![w] = r]
    /\ UNCHANGED <<baseline, policy, grants>>

Matches(body) ==
    baseline # NoBaseline =>
        /\ body.root = baseline.root
        /\ policy.pcr7 => baseline.pcr7 \in {NoPcr7, body.pcr7}

Answer(w) ==
    /\ req[w] # NoRequest
    /\ req' = [req EXCEPT ![w] = NoRequest]
    /\ UNCHANGED policy

GrantAttest(w) ==
    /\ Answer(w)
    /\ req[w].op = "attest"
    /\ Matches(req[w].body)
    /\ grants' = [grants EXCEPT ![req[w].nonce] = @ + 1]
    /\ UNCHANGED baseline

GrantEnroll(w) ==
    /\ Answer(w)
    /\ req[w].op = "enroll"
    /\ baseline' = [root |-> req[w].body.root, pcr7 |-> req[w].body.pcr7]
    /\ grants' = [grants EXCEPT ![req[w].nonce] = @ + 1]

Refuse(w) == Answer(w) /\ UNCHANGED <<baseline, grants>>

Next ==
    \E w \in Worker :
        \/ \E r \in Requests : Serve(w, r)
        \/ GrantAttest(w) \/ GrantEnroll(w) \/ Refuse(w)

Spec == Init /\ [][Next]_vars

=============================================================================
