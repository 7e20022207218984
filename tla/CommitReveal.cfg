CONSTANTS
    s1 = s1
    s2 = s2
    a1 = a1
    a2 = a2
    b1 = b1
    b2 = b2
    SessionIds = {s1, s2}
    Agents = {a1, a2}
    Bindings = {b1, b2}
    Reveals <- MCReveals
    Altered <- MCAltered
    MaxTime = 2
    MaxVerified = 2
SPECIFICATION Spec
INVARIANTS
    TypeOK
    CommitmentHeldOnce
    TranscriptsMatchSessions
PROPERTIES
    BoundBeforeReveal
    DecisionIsFinal
