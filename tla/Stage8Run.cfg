CONSTANTS
    o1 = o1
    o2 = o2
    o3 = o3
    r1 = r1
    Absent = Absent
    Empty = Empty
    Torn = Torn
    a = a
    b = b
    Schedule <- MCLongSchedule
    KindOf <- MCKindOf
    Runners = {r1}
    MayFail = {o2}
    CrashPoints <- Steps
    TornWrites = TRUE
    MaxCrashes = 3
SPECIFICATION FairSpec
INVARIANTS
    CompleteIsSound
    DerivedIsCurrent
PROPERTIES
    NothingIsRewritten
    IntactIsCompleted
