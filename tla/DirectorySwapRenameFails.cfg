CONSTANTS
    Variants = {"registration"}
    Faults = {"raised"}
    MaxVersions = 2
    Absent = Absent
SPECIFICATION SwapSpec
CHECK_DEADLOCK FALSE
INVARIANT
    OldOrNew
