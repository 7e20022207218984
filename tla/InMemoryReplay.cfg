CONSTANTS
    s1 = s1
    s2 = s2
    c1 = c1
    h1 = h1
    k1 = k1
    k2 = k2
    SessionIds = {s1, s2}
    Commitments = {c1}
    TranscriptHashes = {h1}
    ContractIds = {k1, k2}
    MaxTime = 3
    MaxGrants = 2
SPECIFICATION Spec
INVARIANTS
    TypeOK
    NoEarlyReplay
    LiveLeaseOnRecord
PROPERTY
    ReplayMemoryIsPermanent
