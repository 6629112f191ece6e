----------------------------- MODULE MCDemoGame -----------------------------
(***************************************************************************)
(* Short games of DemoGame.                                                *)
(***************************************************************************)
EXTENDS DemoGame, TLC

CONSTANTS
    MaxWave,    \* bound: waves
    MaxScore,   \* bound: points
    MaxOverdue  \* bound: frames an enemy waits for room

GamesAreShort ==
    wave <= MaxWave /\ score <= MaxScore /\ spawnCd >= -MaxOverdue

\* No action tells one slot from another.
Symmetric == Permutations(Slot)

=============================================================================
