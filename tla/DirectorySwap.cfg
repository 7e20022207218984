CONSTANTS
    Variants <- AllVariants
    Faults <- AllFaults
    MaxVersions = 6
    Absent = Absent
SPECIFICATION SwapSpec
CHECK_DEADLOCK FALSE
INVARIANTS
    EvidenceOldOrNew
    NothingOlderReturns
