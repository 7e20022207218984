CONSTANTS
    None = None
    Profiles = {1, 2, 3}
    Registries <- MCRegistries
    ScenarioIds <- MCIds
    FeasibleIds = {"public"}
    InfeasibleCount = 2
    FeasibleCount = 1
    CaseCount = 15
    MaxUnknown = 2
SPECIFICATION Spec
CHECK_DEADLOCK FALSE
INVARIANTS
    ConflictIsMinimal
    PublishedChainIsBound
    ReportedRejectionsHappen
