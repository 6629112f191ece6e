--------------------------- MODULE MCAttestServer ---------------------------
(***************************************************************************)
(* Values for the runs of AttestServer and AttestRefinement.  A run picks  *)
(* the reports, registrations and policies its question needs; the number  *)
(* of workers, nonces, ticks and faults is in its cfg.                     *)
(***************************************************************************)
EXTENDS AttestRefinement, TLC

CONSTANTS w1, w2, n1, n2, m1, k1, k2, rootA, rootB, p7, q7

\* A report that passes every check of an unregistered machine.
Clean == [machine |-> NoMachine, key |-> k1, quoted |-> TRUE,
          pcrs |-> "good", pcr7 |-> p7, boot |-> TRUE,
          root |-> rootA, leaves |-> 2]

Lax    == [strict |-> FALSE, pcr7 |-> FALSE, minEntries |-> 0]
Strict == [Lax EXCEPT !.strict = TRUE]

LaxOnly     == {Lax}
LaxOrStrict == {Lax, Strict}
NoRegistrations == {}

\* Nonce and fault runs: what is in the report does not matter, the tools fail.
OneReport == {Clean}

\* Window run: the clean system and another one.
OtherRoot == [Clean EXCEPT !.root = rootB, !.pcr7 = q7]
TwoSystems == {Clean, OtherRoot}

\* Sequential run: reports that pass or fail at each check, from machine m1 and
\* from a machine without an id, under each policy; m1 has its AK registered
\* with a certificate, a raw EK key, bytes that are neither, or none.
OfMachine(k) == [Clean EXCEPT !.machine = m1, !.key = k]
ServerReports ==
    {Clean, OtherRoot, [Clean EXCEPT !.pcr7 = NoPcr7], [Clean EXCEPT !.pcr7 = q7],
     [Clean EXCEPT !.root = BadRoot], [Clean EXCEPT !.leaves = 1],
     OfMachine(k2),
     [OfMachine(k2) EXCEPT !.pcrs = "zero10", !.boot = FALSE]}
ServerPolicies ==
    {Lax, Strict, [Lax EXCEPT !.pcr7 = TRUE, !.minEntries = 2]}
AnyEk == { [machine |-> m1, ak |-> k2, ek |-> e] : e \in EkKind }

\* Strict run: the AK of m1 is registered with bytes that are neither a
\* certificate nor a key.
JunkOnly == { [machine |-> m1, ak |-> k1, ek |-> "junk"] }
MachineReports == {OfMachine(k1)}

Symmetric == Permutations({w1, w2})

=============================================================================
