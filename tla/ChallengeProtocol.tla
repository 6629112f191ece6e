-------------------------- MODULE ChallengeProtocol --------------------------
(***************************************************************************)
(* What the server promises of its challenges, without tables, threads,    *)
(* clocks or faults: a nonce is fresh until it is issued, an issued nonce  *)
(* is held by at most one verification or dies unused, and a held nonce is *)
(* granted once or dropped.  No nonce ever goes back.                      *)
(***************************************************************************)
CONSTANT Nonce

VARIABLE phase

Phase == {"fresh", "issued", "held", "granted", "dead"}

TypeOK == phase \in [Nonce -> Phase]

Init == phase = [n \in Nonce |-> "fresh"]

InPhase(p) == { n \in Nonce : phase[n] = p }

Issue(n) ==
    /\ phase[n] = "fresh"
    /\ phase' = [phase EXCEPT ![n] = "issued"]

\* Challenges die of age when the store is next used, whoever uses it.
Expire(S) ==
    /\ S \subseteq InPhase("issued")
    /\ phase' = [n \in Nonce |-> IF n \in S THEN "dead" ELSE phase[n]]

\* A verification takes the nonce n, while those in S die of age.
Hold(n, S) ==
    /\ phase[n] = "issued"
    /\ S \subseteq InPhase("issued") \ {n}
    /\ phase' = [m \in Nonce |-> IF m = n THEN "held"
                                 ELSE IF m \in S THEN "dead" ELSE phase[m]]

\* Verifications fail, one at a time or all together.
Drop(S) ==
    /\ S \subseteq InPhase("held")
    /\ phase' = [n \in Nonce |-> IF n \in S THEN "dead" ELSE phase[n]]

Grant(n) ==
    /\ phase[n] = "held"
    /\ phase' = [phase EXCEPT ![n] = "granted"]

Next ==
    \/ \E n \in Nonce : Issue(n) \/ Grant(n)
    \/ \E S \in SUBSET Nonce : Expire(S) \/ Drop(S)
    \/ \E n \in Nonce, S \in SUBSET Nonce : Hold(n, S)

Spec == Init /\ [][Next]_phase

=============================================================================
