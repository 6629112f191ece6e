------------------------------ MODULE DemoGame ------------------------------
(***************************************************************************)
(* The game behind the gate: the game loop of demo_game/game.py.  A frame  *)
(* is three loops, over the bullets that strike enemies, the shots that    *)
(* meet the player and the enemies that ram him, and every collision is a  *)
(* step.  Where things fly is left open: any live enemy may be struck,     *)
(* ram or leave the screen, and a shot fired earlier may arrive.  The      *)
(* player's bullets have no state of their own, since one that strikes     *)
(* stays in its loop and may strike the next enemy too.                    *)
(***************************************************************************)
EXTENDS Integers, FiniteSets

CONSTANTS
    MaxHp,          \* 3
    Invincibility,  \* frames after a hit in which hits do not count: 90
    Crowd,          \* enemies at once, beside one for each wave: 6
    FirstTarget,    \* kills that end the first wave: 8
    TargetStep,     \* how many more the next wave takes: 4
    FirstDelay,     \* frames to the first enemy: 80
    DelayStep,      \* how many fewer each wave waits for the next: 8
    MinDelay,       \* but at least 20
    Slot,           \* places for enemies
    Kind            \* 0, drone, 1, cruiser, and 2, bomber

ASSUME PlayerAssumption == {MaxHp, Invincibility} \subseteq Nat \ {0}
ASSUME GoalAssumption   == Crowd \in Nat /\ FirstTarget \in Nat \ {0}
                           /\ TargetStep \in Nat
ASSUME DelayAssumption  == {FirstDelay, DelayStep, MinDelay} \subseteq Nat
ASSUME SlotAssumption   == IsFiniteSet(Slot)
ASSUME KindAssumption   == Kind \subseteq 0..2

VARIABLES
    pc,             \* the loop of the frame, or the screen between games
    hp, invincible, \* of the player
    enemies,        \* the slots that hold an enemy
    health, kind,   \* of the enemy in each slot
    spawnCd,        \* frames to the next enemy; below 0 when it is overdue
    killed, wave, waveTarget,
    score, highscore,
    calm,           \* history: frames since the player lost a point, up to
                    \* Invincibility
    lull            \* history: frames since an enemy came, up to MinDelay

player == <<hp, invincible, calm>>
field  == <<enemies, health, kind, spawnCd, lull>>
goal   == <<killed, wave, waveTarget>>
vars   == <<pc, player, field, goal, score, highscore>>

Loop == {"bullets", "shots", "bodies"}

TypeOK ==
    /\ pc \in {"frame", "over", "quit"} \cup Loop
    /\ hp \in 0..MaxHp
    /\ invincible \in 0..Invincibility
    /\ enemies \subseteq Slot
    /\ health \in [Slot -> 0..3] /\ kind \in [Slot -> 0..2]
    /\ spawnCd \in Int
    /\ killed \in Nat /\ wave \in Nat \ {0} /\ waveTarget \in Nat \ {0}
    /\ score \in Nat /\ highscore \in Nat
    /\ calm \in 0..Invincibility /\ lull \in 0..MinDelay

\* Enemy.__init__
Toughness(k) == CASE k = 0 -> 1 [] k = 1 -> 3 [] k = 2 -> 2
Worth(k)     == CASE k = 0 -> 100 [] k = 1 -> 300 [] k = 2 -> 200

\* A game begins, at first or after R.
NewGame ==
    /\ pc' = "frame"
    /\ hp' = MaxHp /\ invincible' = 0 /\ calm' = Invincibility
    /\ enemies' = {} /\ health' = [s \in Slot |-> 0]
    /\ kind' = [s \in Slot |-> 0] /\ spawnCd' = FirstDelay /\ lull' = MinDelay
    /\ killed' = 0 /\ wave' = 1 /\ waveTarget' = FirstTarget
    /\ score' = 0

Init ==
    /\ pc = "frame"
    /\ hp = MaxHp /\ invincible = 0 /\ calm = Invincibility
    /\ enemies = {} /\ health = [s \in Slot |-> 0]
    /\ kind = [s \in Slot |-> 0] /\ spawnCd = FirstDelay /\ lull = MinDelay
    /\ killed = 0 /\ wave = 1 /\ waveTarget = FirstTarget
    /\ score = 0 /\ highscore = 0

-----------------------------------------------------------------------------
Minus1(n) == IF n > 0 THEN n - 1 ELSE 0

Delay == LET d == FirstDelay - wave * DelayStep
         IN  IF d < MinDelay THEN MinDelay ELSE d

\* An enemy comes, and the next is due after so many frames.
Arrive(there, delay) ==
    /\ \E s \in Slot \ enemies, k \in Kind :
          /\ there = enemies \cup {s}
          /\ health' = [health EXCEPT ![s] = Toughness(k)]
          /\ kind' = [kind EXCEPT ![s] = k]
    /\ spawnCd' = delay
    /\ lull' = 0

\* Nobody comes; an enemy that is overdue waits for room, and longer overdue.
Wait(there) ==
    /\ there = enemies
    /\ spawnCd' = spawnCd - 1
    /\ lull' = IF lull < MinDelay THEN lull + 1 ELSE lull
    /\ UNCHANGED <<health, kind>>

IsDue == spawnCd - 1 <= 0

HasRoom == Cardinality(enemies) < Crowd + wave

\* A spawn that looks at the clock only:
SpawnWhenDue(there) == IF IsDue THEN Arrive(there, Delay) ELSE Wait(there)

\* A spawn that makes up for the frames it waited:
SpawnCatchingUp(there) ==
    IF IsDue /\ HasRoom THEN Arrive(there, spawnCd - 1 + Delay)
                         ELSE Wait(there)

Spawn(there) ==
    IF IsDue /\ HasRoom THEN Arrive(there, Delay) ELSE Wait(there)

\* The player moves, an enemy comes, and some leave at the bottom.
BeginFrame ==
    /\ pc = "frame"
    /\ pc' = "bullets"
    /\ invincible' = Minus1(invincible)
    /\ calm' = IF calm < Invincibility THEN calm + 1 ELSE calm
    /\ \E there \in SUBSET Slot :
        /\ Spawn(there)
        /\ enemies' \in SUBSET there
    /\ UNCHANGED <<hp, goal, score, highscore>>

\* A bullet strikes an enemy; the last point of an enemy scores.
Strike(e) ==
    /\ pc = "bullets"
    /\ e \in enemies
    /\ health' = [health EXCEPT ![e] = @ - 1]
    /\ IF health[e] <= 1
       THEN /\ enemies' = enemies \ {e}
            /\ killed' = killed + 1
            /\ score' = score + Worth(kind[e])
       ELSE UNCHANGED <<enemies, killed, score>>
    /\ UNCHANGED <<pc, player, kind, spawnCd, lull, wave, waveTarget, highscore>>

\* A hit that spares a dying player the frames of invincibility:
HitToDeath ==
    IF invincible > 0 THEN UNCHANGED player
    ELSE /\ hp' = hp - 1
         /\ invincible' = IF hp = 1 THEN 0 ELSE Invincibility
         /\ calm' = 0

\* Player.hit
Hit ==
    IF invincible > 0 THEN UNCHANGED player
    ELSE /\ hp' = hp - 1
         /\ invincible' = Invincibility
         /\ calm' = 0

\* Whether the player is alive was asked before the two loops: the rest of
\* them hits a player who has died in them.
Shot ==
    /\ pc = "shots"
    /\ Hit
    /\ UNCHANGED <<pc, field, goal, score, highscore>>

Ram(e) ==
    /\ pc = "bodies"
    /\ e \in enemies
    /\ Hit
    /\ enemies' = enemies \ {e}
    /\ UNCHANGED <<pc, health, kind, spawnCd, lull, goal, score, highscore>>

NextLoop ==
    /\ \/ pc = "bullets" /\ pc' = "shots"
       \/ pc = "shots" /\ pc' = "bodies"
    /\ UNCHANGED <<player, field, goal, score, highscore>>

\* A wave whose kills count again in the next:
AdvanceKeepingKills ==
    IF killed >= waveTarget
    THEN /\ wave' = wave + 1
         /\ waveTarget' = waveTarget + TargetStep
         /\ UNCHANGED killed
    ELSE UNCHANGED goal

\* Kills beyond the target do not count for the next wave.
AdvanceWave ==
    IF killed >= waveTarget
    THEN /\ wave' = wave + 1
         /\ killed' = 0
         /\ waveTarget' = waveTarget + TargetStep
    ELSE UNCHANGED goal

\* A high score that is the last one:
KeepLastScore == highscore' = score

KeepBestScore == highscore' = IF score > highscore THEN score ELSE highscore

EndFrame ==
    /\ pc = "bodies"
    /\ AdvanceWave
    /\ KeepBestScore
    /\ pc' = IF hp > 0 THEN "frame" ELSE "over"
    /\ UNCHANGED <<player, field, score>>

\* R on the game-over screen.
Retry ==
    /\ pc = "over"
    /\ NewGame
    /\ UNCHANGED highscore

\* ESC, or the window is closed; keys are read between frames.
Quit ==
    /\ pc \in {"frame", "over"}
    /\ pc' = "quit"
    /\ UNCHANGED <<player, field, goal, score, highscore>>

Next ==
    \/ BeginFrame \/ Shot \/ NextLoop \/ EndFrame \/ Retry \/ Quit
    \/ \E e \in Slot : Strike(e) \/ Ram(e)

Spec == Init /\ [][Next]_vars

-----------------------------------------------------------------------------
(* A hit is followed by Invincibility frames that cost nothing, however     *)
(* many shots and enemies meet the player in one frame and in which order;  *)
(* and the dead lose nothing more (TypeOK: hp never falls below 0).         *)
HitsAreSpaced ==
    [][hp' < hp => calm = Invincibility]_vars

(* Waves are paid for: whoever is in wave w has killed what the waves       *)
(* before it asked for, each more than the last, at 100 points or more, in  *)
(* this game.  (The number of those kills is doubled here, to be an         *)
(* integer as it stands.)                                                   *)
WavesAreEarned ==
    2 * score >= 100 * (2 * killed
                        + (wave - 1) * (2 * FirstTarget
                                        + (wave - 2) * TargetStep))

(* The screen never holds more enemies than the wave allows, over kills,    *)
(* waves and new games.                                                     *)
CrowdIsBounded == Cardinality(enemies) <= Crowd + wave

(* Enemies come one at a time: after each there are MinDelay frames to the  *)
(* next, also when it had to wait for room and its frames went below 0      *)
(* (game.py:412-415).                                                       *)
SpawnsAreSpaced ==
    [][(pc = "frame" /\ pc' = "bullets" /\ lull' = 0)
          => lull + 1 >= MinDelay]_vars

(* The best score survives the game that made it, and every later game.     *)
BestScoreStands ==
    [][/\ highscore' >= highscore
       /\ score' < score => highscore' >= score]_vars

=============================================================================
