CONSTANTS
    r1 = r1
    r2 = r2
    r3 = r3
    s1 = s1
    s2 = s2
    P1 = P1
    P2 = P2
    g1 = g1
    g2 = g2
    Sessions = {s1, s2}
    Profiles = {P1, P2}
    Groups = {g1, g2}
    Unregistered = Unregistered
    Handshakes <- MCHandshakes
    Scenarios = {x1, x2}
    Runtimes = {r1, r2, r3}
    SessionOf <- MCSessionOf
    Agreed <- MCAgreed
    GroupOf <- MCGroupOf
    MaxLease <- MCMaxLease
    MaxTime = 3
    Absent = Absent
SPECIFICATION FairSpec
CHECK_DEADLOCK FALSE
INVARIANTS
    OneLiveLease
    OnlyAuthorizedIsRegistered
    TaskIsAgreed
    OneTaskPerContract
PROPERTIES
    FailClosed
    EveryRuntimeEnds
