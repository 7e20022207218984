CONSTANT
    Timeouts <- AllTimeouts
SPECIFICATION FairProbeSpec
CHECK_DEADLOCK FALSE
INVARIANTS
    ProbeEndIsExplained
PROPERTY
    EventuallyQuiet
