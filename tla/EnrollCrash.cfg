SPECIFICATION Spec
CONSTANTS
    m1 = m1
    k1 = k1
    k2 = k2
    rootA = rootA
    rootB = rootB
    p7 = p7
    q7 = q7
    w1 = w1
    w2 = w2
    n1 = n1
    n2 = n2
    NoMachine = NoMachine
    NoKey = NoKey
    NoRow = NoRow
    NoRoot = NoRoot
    NoPcr7 = NoPcr7
    BadRoot = BadRoot
    NoRequest = NoRequest
    Machine = {m1}
    Key = {k1, k2}
    ServerKey = k1
    Root = {rootA, rootB}
    Pcr7 = {p7, q7}
    Worker = {w1}
    Nonce = {n1, n2}
    Lifetime = 1
    Reports <- OneReport
    RegRequests <- NoRegistrations
    Policies <- LaxOnly
    MaxClock = 1
    MaxFaults = 1
INVARIANT
    BaselineInForce
