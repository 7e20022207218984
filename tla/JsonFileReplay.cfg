CONSTANTS
    a = a
    s1 = s1
    s2 = s2
    c1 = c1
    x1 = x1
    k1 = k1
    Absent = Absent
    Torn = Torn
    Handles = {a}
    SessionIds = {s1, s2}
    Commitments = {c1}
    TranscriptHashes = {x1}
    ContractIds = {k1}
    MaxTime = 2
    MaxGrants = 2
    MaxFailures = 1
SPECIFICATION Spec
INVARIANTS
    AcknowledgedIsDurable
PROPERTIES
    FileNeverForgets
    AcceptsEachKeyOnce
