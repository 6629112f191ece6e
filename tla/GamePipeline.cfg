\* Three connections, at most two at a time: one served, one queued.  Two
\* challenges: one for each approval of the hook, or one of them left with
\* the server when its connection was cut off; the third connection may
\* find none.  The daemon may be killed once, die of exceptions at any
\* call, and be started again whenever it is down.  Games end: no deadlock.
SPECIFICATION PipelineFairSpec
CONSTANTS
    Conn <- MCConn
    Patient <- MCPatient
    Nonce = {n1, n2}
    None = None
    Backlog = 1
    MaxKills = 1
    Preloaded = TRUE
INVARIANTS
    PipelineTypeOK
    ValidMeansGranted
    OneConnectionPerChallenge
    WaitingIsQueued
    ForwardedMeansTwoGrants
    PlayMeansGranted
    DenialIsDeserved
PROPERTIES
    GamesComeThrough
CHECK_DEADLOCK FALSE
