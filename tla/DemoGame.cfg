\* Two points, two kinds that differ in toughness, waves of two, three and
\* more kills, and a slot more than the second wave has room for.  Two frames
\* of invincibility are the fewest that span a frame with no hit in it; so are
\* two frames between enemies.
SPECIFICATION Spec
CONSTANTS
    MaxHp = 2
    Invincibility = 2
    Crowd = 1
    FirstTarget = 2
    TargetStep = 1
    FirstDelay = 4
    DelayStep = 1
    MinDelay = 2
    Slot = {s1, s2, s3, s4}
    Kind = {0, 2}
    MaxWave = 3
    MaxScore = 500
    MaxOverdue = 2
CONSTRAINT GamesAreShort
SYMMETRY Symmetric
CHECK_DEADLOCK FALSE
INVARIANTS
    TypeOK
    WavesAreEarned
    CrowdIsBounded
PROPERTIES
    HitsAreSpaced
    SpawnsAreSpaced
    BestScoreStands
