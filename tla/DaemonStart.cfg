\* Two runs: one can leave a file or a registration behind, start beside the
\* other, or follow it.
SPECIFICATION FairSpec
CONSTANTS
    d1 = d1
    d2 = d2
    m1 = m1
    k1 = k1
    NoMachine = NoMachine
    NoKey = NoKey
    NoRow = NoRow
    NoSocket = NoSocket
    Machine = {m1}
    Key = {k1}
    ServerKey = NoKey
    Daemon = {d1, d2}
    MachineId = m1
    Ak = k1
    EkSources <- SomeTpms
CHECK_DEADLOCK FALSE
INVARIANTS
    TypeOK
    LoneRunIsReachable
    RegistrationStands
PROPERTY
    RegistrationEnds
