CONSTANTS
    c1 = c1
    c2 = c2
    s1 = s1
    s2 = s2
    Commits = {c1, c2}
    Environments = {e1, e2}
    Observations = {o1, o2}
    GivenNames = {n1}
    ScheduleOf <- MCScheduleOf
    Conduct <- MCConduct
    Absent = Absent
SPECIFICATION Spec
SYMMETRY MCSymmetry
INVARIANTS
    EvidenceUnderRegistration
PROPERTIES
    FrozenBetweenRuns
