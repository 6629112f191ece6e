--------------------------- MODULE DemoGameProofs ---------------------------
(***************************************************************************)
(* The game loop for every number of points, frames, kills and enemies.    *)
(***************************************************************************)
EXTENDS DemoGame, FiniteSetTheorems, TLAPS

(***************************************************************************)
(* The player.  Frames of invincibility and frames of calm complete each   *)
(* other, and who has no point left is invincible to the end of the frame, *)
(* which is the last.                                                      *)
(***************************************************************************)
PlayerInv ==
    /\ TypeOK
    /\ invincible + calm = Invincibility
    /\ hp = 0 => invincible > 0 /\ pc \notin {"frame", "bullets"}
    /\ \A e \in enemies : health[e] > 0

LEMMA PlayerInit == Init => PlayerInv
BY PlayerAssumption, GoalAssumption, DelayAssumption
   DEF Init, PlayerInv, TypeOK

LEMMA HitKeeps ==
    ASSUME PlayerInv, Hit
    PROVE  /\ hp' \in 0..MaxHp
           /\ invincible' \in 0..Invincibility /\ calm' \in 0..Invincibility
           /\ invincible' + calm' = Invincibility
           /\ hp' = 0 => invincible' > 0
           /\ hp' < hp => calm = Invincibility
<1>1. CASE invincible > 0
    BY <1>1, PlayerAssumption DEF Hit, player, PlayerInv, TypeOK
<1>2. CASE ~(invincible > 0)
    BY <1>2, PlayerAssumption DEF Hit, PlayerInv, TypeOK
<1> QED BY <1>1, <1>2

LEMMA DelayType == PlayerInv => Delay \in Nat /\ Delay >= MinDelay
BY DelayAssumption DEF Delay, PlayerInv, TypeOK

LEMMA SpawnKeeps ==
    ASSUME PlayerInv, NEW there \in SUBSET Slot, Spawn(there)
    PROVE  /\ health' \in [Slot -> 0..3] /\ kind' \in [Slot -> 0..2]
           /\ spawnCd' \in Int /\ lull' \in 0..MinDelay
           /\ \A e \in there : health'[e] > 0
<1>1. \A k \in Kind : k \in 0..2 /\ Toughness(k) \in 1..3
    BY KindAssumption DEF Toughness
<1>2. CASE Arrive(there, Delay)
    <2>1. PICK s \in Slot, k \in Kind :
              /\ there = enemies \cup {s}
              /\ health' = [health EXCEPT ![s] = Toughness(k)]
              /\ kind' = [kind EXCEPT ![s] = k]
        BY <1>2 DEF Arrive
    <2>2. Toughness(k) \in 1..3 /\ k \in 0..2
        BY <1>1
    <2>3. spawnCd' \in Int /\ lull' \in 0..MinDelay
        BY <1>2, DelayType, DelayAssumption DEF Arrive
    <2> QED BY <2>1, <2>2, <2>3 DEF PlayerInv, TypeOK
<1>3. CASE Wait(there)
    BY <1>3, DelayAssumption DEF Wait, PlayerInv, TypeOK
<1> QED BY <1>2, <1>3 DEF Spawn

LEMMA AdvanceKeeps ==
    ASSUME TypeOK, AdvanceWave
    PROVE  killed' \in Nat /\ wave' \in Nat \ {0} /\ waveTarget' \in Nat \ {0}
BY GoalAssumption DEF AdvanceWave, TypeOK, goal

LEMMA PlayerNext == PlayerInv /\ [Next]_vars => PlayerInv'
<1> SUFFICES ASSUME PlayerInv, [Next]_vars
             PROVE  PlayerInv'
    OBVIOUS
<1>0. TypeOK
    BY DEF PlayerInv
<1>1. CASE BeginFrame
    <2>1. PICK there \in SUBSET Slot : Spawn(there) /\ enemies' \in SUBSET there
        BY <1>1 DEF BeginFrame
    <2>2. /\ health' \in [Slot -> 0..3] /\ kind' \in [Slot -> 0..2]
          /\ spawnCd' \in Int /\ lull' \in 0..MinDelay
          /\ \A e \in there : health'[e] > 0
        BY <2>1, SpawnKeeps
    <2>3. /\ invincible' \in 0..Invincibility /\ calm' \in 0..Invincibility
          /\ invincible' + calm' = Invincibility
        BY <1>1, PlayerAssumption DEF BeginFrame, Minus1, PlayerInv, TypeOK
    <2>4. /\ pc = "frame" /\ pc' = "bullets" /\ hp' = hp
          /\ UNCHANGED <<killed, wave, waveTarget, score, highscore>>
        BY <1>1 DEF BeginFrame, goal
    <2>5. TypeOK'
        BY <1>0, <2>1, <2>2, <2>3, <2>4 DEF TypeOK, Loop
    <2> QED BY <2>1, <2>2, <2>3, <2>4, <2>5 DEF PlayerInv
<1>2. ASSUME NEW e \in Slot, Strike(e)
      PROVE  PlayerInv'
    <2>1. /\ e \in enemies /\ health[e] > 0
          /\ health' = [health EXCEPT ![e] = health[e] - 1]
          /\ UNCHANGED <<pc, hp, invincible, calm, kind, spawnCd, lull,
                         wave, waveTarget, highscore>>
        BY <1>2 DEF Strike, PlayerInv, player
    <2>2. Worth(kind[e]) \in Nat
        BY <1>0 DEF TypeOK, Worth
    <2>3. /\ enemies' \subseteq enemies
          /\ killed' \in Nat /\ score' \in Nat
          /\ health[e] <= 1 => e \notin enemies'
        BY <1>0, <1>2, <2>2 DEF Strike, TypeOK
    <2>4. /\ health' \in [Slot -> 0..3]
          /\ \A d \in enemies' : health'[d] > 0
        BY <1>0, <2>1, <2>3 DEF PlayerInv, TypeOK
    <2>5. TypeOK'
        BY <1>0, <2>1, <2>3, <2>4 DEF TypeOK
    <2> QED BY <2>1, <2>4, <2>5 DEF PlayerInv
<1>3. CASE Shot
    <2>1. /\ pc = "shots"
          /\ UNCHANGED <<pc, enemies, health, kind, spawnCd, lull, killed, wave,
                         waveTarget, score, highscore>>
        BY <1>3 DEF Shot, field, goal
    <2> QED BY <1>3, <2>1, HitKeeps DEF Shot, PlayerInv, TypeOK
<1>4. ASSUME NEW e \in Slot, Ram(e)
      PROVE  PlayerInv'
    <2>1. /\ pc = "bodies" /\ enemies' = enemies \ {e}
          /\ UNCHANGED <<pc, health, kind, spawnCd, lull, killed, wave,
                         waveTarget, score, highscore>>
        BY <1>4 DEF Ram, goal
    <2> QED BY <1>4, <2>1, HitKeeps DEF Ram, PlayerInv, TypeOK
<1>5. CASE NextLoop
    BY <1>5 DEF NextLoop, player, field, goal, PlayerInv, TypeOK, Loop
<1>6. CASE EndFrame
    <2>1. killed' \in Nat /\ wave' \in Nat \ {0} /\ waveTarget' \in Nat \ {0}
        BY <1>0, <1>6, AdvanceKeeps DEF EndFrame
    <2>2. highscore' \in Nat
        BY <1>0, <1>6 DEF EndFrame, KeepBestScore, TypeOK
    <2>3. /\ pc' = IF hp > 0 THEN "frame" ELSE "over"
          /\ UNCHANGED <<hp, invincible, calm, enemies, health, kind, spawnCd,
                         lull, score>>
        BY <1>6 DEF EndFrame, player, field
    <2> QED BY <2>1, <2>2, <2>3 DEF PlayerInv, TypeOK
<1>7. CASE Retry
    BY <1>0, <1>7, PlayerAssumption, GoalAssumption, DelayAssumption
       DEF Retry, NewGame, PlayerInv, TypeOK
<1>8. CASE Quit
    BY <1>8 DEF Quit, player, field, goal, PlayerInv, TypeOK
<1>9. CASE UNCHANGED vars
    BY <1>9 DEF vars, player, field, goal, PlayerInv, TypeOK
<1> QED BY <1>1, <1>2, <1>3, <1>4, <1>5, <1>6, <1>7, <1>8, <1>9 DEF Next

LEMMA PlayerInvariant == Spec => []PlayerInv
BY PlayerInit, PlayerNext, PTL DEF Spec

(* The variables of the game keep their types; hp in particular never falls *)
(* below 0, whatever the last frame holds.                                  *)
THEOREM GameTypeCorrect == Spec => []TypeOK
<1>1. PlayerInv => TypeOK
    BY DEF PlayerInv
<1> QED BY <1>1, PlayerInvariant, PTL

(* Hits are Invincibility frames apart.                                     *)
THEOREM HitsSpaced == Spec => HitsAreSpaced
<1>1. PlayerInv /\ [Next]_vars => [hp' < hp => calm = Invincibility]_vars
    <2> SUFFICES ASSUME PlayerInv, [Next]_vars, hp' < hp
                 PROVE  calm = Invincibility
        OBVIOUS
    <2>1. hp \in Nat
        BY DEF PlayerInv, TypeOK
    <2>2. CASE Shot \/ \E e \in Slot : Ram(e)
        BY <2>2, HitKeeps DEF Shot, Ram
    <2>3. CASE \/ BeginFrame \/ NextLoop \/ EndFrame \/ Quit
               \/ \E e \in Slot : Strike(e)
               \/ UNCHANGED vars
        <3>1. hp' = hp
            BY <2>3 DEF BeginFrame, NextLoop, EndFrame, Quit, Strike, vars, player
        <3> QED BY <2>1, <3>1
    <2>4. CASE Retry
        BY <2>4, PlayerAssumption DEF Retry, NewGame, PlayerInv, TypeOK
    <2> QED BY <2>2, <2>3, <2>4 DEF Next
<1> QED BY <1>1, PlayerInvariant, PTL DEF Spec, HitsAreSpaced

-----------------------------------------------------------------------------
(***************************************************************************)
(* Waves.                                                                  *)
(***************************************************************************)
Earlier(w) == (w - 1) * (2 * FirstTarget + (w - 2) * TargetStep)

WaveInv ==
    /\ waveTarget = FirstTarget + (wave - 1) * TargetStep
    /\ WavesAreEarned

\* What one wave more asks for.
LEMMA OneWaveMore ==
    ASSUME NEW w \in Nat \ {0}
    PROVE  Earlier(w + 1) = Earlier(w) + 2 * (FirstTarget + (w - 1) * TargetStep)
<1> DEFINE v == w - 1
           F == FirstTarget
           T == TargetStep
<1>1. v \in Nat /\ F \in Int /\ T \in Int
    BY GoalAssumption
<1>2. Earlier(w) = v * (2 * F + (v - 1) * T)
    BY <1>1 DEF Earlier
<1>3. Earlier(w + 1) = (v + 1) * (2 * F + v * T)
    BY <1>1 DEF Earlier
<1> HIDE DEF v, F, T
<1>4. (v + 1) * (2 * F + v * T) = v * (2 * F + (v - 1) * T) + 2 * (F + v * T)
    BY <1>1
<1> QED BY <1>2, <1>3, <1>4 DEF v, F, T

LEMMA EarlierInt ==
    ASSUME NEW w \in Nat \ {0}
    PROVE  Earlier(w) \in Int /\ (w - 1) * TargetStep \in Int
BY GoalAssumption DEF Earlier

LEMMA WaveInit == Init => WaveInv
BY GoalAssumption DEF Init, WaveInv, WavesAreEarned

LEMMA WaveNext == PlayerInv /\ WaveInv /\ [Next]_vars => WaveInv'
<1> SUFFICES ASSUME PlayerInv, WaveInv, [Next]_vars
             PROVE  WaveInv'
    OBVIOUS
<1>0. /\ killed \in Nat /\ wave \in Nat \ {0} /\ waveTarget \in Nat
      /\ score \in Nat
    BY DEF PlayerInv, TypeOK
<1>1. 2 * score >= 100 * (2 * killed + Earlier(wave))
    BY DEF WaveInv, WavesAreEarned, Earlier
<1>2. ASSUME UNCHANGED <<killed, wave, waveTarget, score>>
      PROVE  WaveInv'
    BY <1>2 DEF WaveInv, WavesAreEarned
<1>3. ASSUME NEW e \in Slot, Strike(e)
      PROVE  WaveInv'
    <2>1. wave' = wave /\ waveTarget' = waveTarget
        BY <1>3 DEF Strike
    <2>2. CASE health[e] <= 1
        <3>1. Worth(kind[e]) \in {100, 300, 200}
            BY DEF PlayerInv, TypeOK, Worth
        <3>2. killed' = killed + 1 /\ score' = score + Worth(kind[e])
            BY <1>3, <2>2 DEF Strike
        <3>3. 2 * score' >= 100 * (2 * killed' + Earlier(wave))
            BY <1>0, <1>1, <3>1, <3>2, EarlierInt
        <3> QED BY <2>1, <3>3 DEF WaveInv, WavesAreEarned, Earlier
    <2>3. CASE ~(health[e] <= 1)
        BY <1>2, <1>3, <2>1, <2>3 DEF Strike
    <2> QED BY <2>2, <2>3
<1>4. CASE EndFrame
    <2>1. CASE killed >= waveTarget
        <3>1. /\ wave' = wave + 1 /\ killed' = 0 /\ score' = score
              /\ waveTarget' = waveTarget + TargetStep
            BY <1>4, <2>1 DEF EndFrame, AdvanceWave
        <3>2. Earlier(wave + 1) = Earlier(wave) + 2 * waveTarget
            BY <1>0, OneWaveMore DEF WaveInv
        <3>3. 2 * score' >= 100 * (2 * killed' + Earlier(wave'))
            BY <1>0, <1>1, <2>1, <3>1, <3>2, EarlierInt
        <3>4. waveTarget' = FirstTarget + (wave' - 1) * TargetStep
            <4>1. wave * TargetStep = (wave - 1) * TargetStep + TargetStep
                BY <1>0, GoalAssumption
            <4>2. wave' - 1 = wave
                BY <1>0, <3>1
            <4> QED BY <1>0, <3>1, <4>1, <4>2, EarlierInt, GoalAssumption
                    DEF WaveInv
        <3> QED BY <3>3, <3>4 DEF WaveInv, WavesAreEarned, Earlier
    <2>2. CASE ~(killed >= waveTarget)
        BY <1>2, <1>4, <2>2 DEF EndFrame, AdvanceWave, goal
    <2> QED BY <2>1, <2>2
<1>5. CASE Retry
    <2>1. killed' = 0 /\ wave' = 1 /\ waveTarget' = FirstTarget /\ score' = 0
        BY <1>5 DEF Retry, NewGame
    <2> QED BY <2>1, GoalAssumption DEF WaveInv, WavesAreEarned
<1>6. CASE \/ BeginFrame \/ Shot \/ NextLoop \/ Quit \/ UNCHANGED vars
           \/ \E e \in Slot : Ram(e)
    BY <1>2, <1>6 DEF BeginFrame, Shot, NextLoop, Quit, Ram, vars, goal
<1> QED BY <1>3, <1>4, <1>5, <1>6 DEF Next

(* Whoever is in a wave has paid for the waves before it.                   *)
THEOREM WavesPaid == Spec => []WavesAreEarned
<1>1. WaveInv => WavesAreEarned
    BY DEF WaveInv
<1> QED BY <1>1, WaveInit, WaveNext, PlayerInvariant, PTL DEF Spec

-----------------------------------------------------------------------------
(***************************************************************************)
(* The crowd, and the high score.                                          *)
(***************************************************************************)
LEMMA CrowdNext == PlayerInv /\ CrowdIsBounded /\ [Next]_vars => CrowdIsBounded'
<1> SUFFICES ASSUME PlayerInv, CrowdIsBounded, [Next]_vars
             PROVE  CrowdIsBounded'
    OBVIOUS
<1>0. /\ enemies \subseteq Slot /\ wave \in Nat /\ Crowd \in Nat
      /\ IsFiniteSet(enemies) /\ Cardinality(enemies) \in Nat
    BY SlotAssumption, GoalAssumption, FS_Subset, FS_CardinalityType
       DEF PlayerInv, TypeOK
<1>1. ASSUME enemies' \subseteq enemies, wave' \in Nat, wave' >= wave
      PROVE  CrowdIsBounded'
    <2>1. Cardinality(enemies') <= Cardinality(enemies)
          /\ Cardinality(enemies') \in Nat
        BY <1>0, <1>1, FS_Subset, FS_CardinalityType
    <2> QED BY <1>0, <1>1, <2>1 DEF CrowdIsBounded
<1>2. CASE BeginFrame
    <2>1. PICK there \in SUBSET Slot : Spawn(there) /\ enemies' \in SUBSET there
        BY <1>2 DEF BeginFrame
    <2>2. IsFiniteSet(there) /\ Cardinality(there) <= Crowd + wave
        <3>1. CASE IsDue /\ HasRoom
            <4>1. PICK s \in Slot \ enemies : there = enemies \cup {s}
                BY <2>1, <3>1 DEF Spawn, Arrive
            <4>2. Cardinality(there) = Cardinality(enemies) + 1
                BY <1>0, <4>1, FS_AddElement
            <4> QED BY <1>0, <3>1, <4>1, <4>2, FS_AddElement DEF HasRoom
        <3>2. CASE ~(IsDue /\ HasRoom)
            BY <1>0, <2>1, <3>2 DEF Spawn, Wait, CrowdIsBounded
        <3> QED BY <3>1, <3>2
    <2>3. Cardinality(enemies') <= Cardinality(there)
          /\ Cardinality(enemies') \in Nat /\ Cardinality(there) \in Nat
        BY <2>1, <2>2, FS_Subset, FS_CardinalityType
    <2>4. wave' = wave
        BY <1>2 DEF BeginFrame, goal
    <2> QED BY <1>0, <2>2, <2>3, <2>4 DEF CrowdIsBounded
<1>3. CASE EndFrame
    <2>1. enemies' = enemies /\ (wave' = wave \/ wave' = wave + 1)
        BY <1>3 DEF EndFrame, AdvanceWave, field, goal
    <2> QED BY <1>0, <1>1, <2>1
<1>4. CASE Retry
    <2>1. enemies' = {} /\ wave' = 1
        BY <1>4 DEF Retry, NewGame
    <2> QED BY <1>0, <2>1, FS_EmptySet DEF CrowdIsBounded
<1>5. CASE \/ Shot \/ NextLoop \/ Quit \/ UNCHANGED vars
           \/ \E e \in Slot : Strike(e) \/ Ram(e)
    <2>1. enemies' \subseteq enemies /\ wave' = wave
        BY <1>5 DEF Shot, NextLoop, Quit, Strike, Ram, vars, goal, field
    <2> QED BY <1>0, <1>1, <2>1
<1> QED BY <1>2, <1>3, <1>4, <1>5 DEF Next

(* Enemies come only where the wave has room, and no kill, wave or new game *)
(* makes the screen too full.                                               *)
THEOREM CrowdBounded == Spec => []CrowdIsBounded
<1>1. Init => CrowdIsBounded
    BY GoalAssumption, FS_EmptySet DEF Init, CrowdIsBounded
<1> QED BY <1>1, CrowdNext, PlayerInvariant, PTL DEF Spec

(***************************************************************************)
(* The frames between enemies: what is missing to MinDelay is still on the *)
(* clock.                                                                  *)
(***************************************************************************)
ClockInv == lull < MinDelay => spawnCd >= MinDelay - lull

LEMMA ClockNext ==
    PlayerInv /\ ClockInv /\ [Next]_vars =>
        /\ ClockInv'
        /\ [(pc = "frame" /\ pc' = "bullets" /\ lull' = 0)
              => lull + 1 >= MinDelay]_vars
<1> SUFFICES ASSUME PlayerInv, ClockInv, [Next]_vars
             PROVE  /\ ClockInv'
                    /\ (pc = "frame" /\ pc' = "bullets" /\ lull' = 0)
                          => lull + 1 >= MinDelay
    OBVIOUS
<1>0. /\ spawnCd \in Int /\ lull \in 0..MinDelay /\ MinDelay \in Nat
      /\ FirstDelay \in Nat
    BY DelayAssumption DEF PlayerInv, TypeOK
<1>1. CASE BeginFrame
    <2>1. PICK there \in SUBSET Slot : Spawn(there)
        BY <1>1 DEF BeginFrame
    <2>2. CASE IsDue /\ Arrive(there, Delay)
        BY <1>0, <2>2, DelayType DEF IsDue, Arrive, ClockInv
    <2>3. CASE Wait(there)
        BY <1>0, <2>3 DEF Wait, ClockInv
    <2> QED BY <2>1, <2>2, <2>3 DEF Spawn
<1>2. CASE Retry
    BY <1>0, <1>2 DEF Retry, NewGame, ClockInv
<1>3. CASE \/ Shot \/ NextLoop \/ EndFrame \/ Quit \/ UNCHANGED vars
           \/ \E e \in Slot : Strike(e) \/ Ram(e)
    <2>1. /\ spawnCd' = spawnCd /\ lull' = lull
          /\ pc = "frame" => pc' # "bullets"
        BY <1>3 DEF Shot, NextLoop, EndFrame, Quit, Strike, Ram, vars, field
    <2> QED BY <2>1 DEF ClockInv
<1> QED BY <1>1, <1>2, <1>3 DEF Next

(* No two enemies come within MinDelay frames, however long one had to wait *)
(* for room before it came.                                                 *)
THEOREM SpawnsSpaced == Spec => SpawnsAreSpaced
<1>1. Init => ClockInv
    BY DelayAssumption DEF Init, ClockInv
<1> QED BY <1>1, ClockNext, PlayerInvariant, PTL DEF Spec, SpawnsAreSpaced

BestInv == pc = "over" => highscore >= score

LEMMA BestNext ==
    PlayerInv /\ BestInv /\ [Next]_vars =>
        /\ BestInv'
        /\ [/\ highscore' >= highscore
            /\ score' < score => highscore' >= score]_vars
<1> SUFFICES ASSUME PlayerInv, BestInv, [Next]_vars
             PROVE  /\ BestInv'
                    /\ highscore' >= highscore
                    /\ score' < score => highscore' >= score
    OBVIOUS
<1>0. score \in Nat /\ highscore \in Nat
    BY DEF PlayerInv, TypeOK
<1>1. CASE EndFrame
    BY <1>0, <1>1 DEF EndFrame, KeepBestScore, BestInv
<1>2. CASE Retry
    BY <1>0, <1>2 DEF Retry, NewGame, BestInv
<1>3. ASSUME NEW e \in Slot, Strike(e)
      PROVE  /\ BestInv' /\ highscore' = highscore
             /\ score' \in Nat /\ score' >= score
    <2>1. Worth(kind[e]) \in Nat
        BY DEF PlayerInv, TypeOK, Worth
    <2> QED BY <1>0, <1>3, <2>1 DEF Strike, BestInv
<1>4. CASE \/ BeginFrame \/ Shot \/ NextLoop \/ Quit \/ UNCHANGED vars
           \/ \E e \in Slot : Ram(e)
    <2>1. /\ highscore' = highscore /\ score' = score
          /\ pc' = "over" => pc = "over"
        BY <1>4 DEF BeginFrame, Shot, NextLoop, Quit, Ram, vars
    <2> QED BY <1>0, <2>1 DEF BestInv
<1> QED BY <1>0, <1>1, <1>2, <1>3, <1>4 DEF Next

(* No game and no retry takes the best score away.                          *)
THEOREM BestStands == Spec => BestScoreStands
<1>1. Init => BestInv
    BY DEF Init, BestInv
<1> QED BY <1>1, BestNext, PlayerInvariant, PTL DEF Spec, BestScoreStands

=============================================================================
