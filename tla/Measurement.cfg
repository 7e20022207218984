CONSTANTS
    None = None
    MaxLevel = 3
    MaxDeaths = 1
    Campaigns <- MCSchedules
    Profiles = {1, 2, 3}
    Conflicts <- MCConflicts
    RejectionCodes <- MCCodes
SPECIFICATION FairMeasureSpec
CHECK_DEADLOCK FALSE
INVARIANTS
    TrialIsAccounted
    NoFailureIsHidden
PROPERTIES
    TrialReturns
