CONSTANTS
    alice = alice
    bob = bob
    c = c
    q = q
    m1 = m1
    m2 = m2
    n1 = n1
    n2 = n2
    x1 = x1
    g1 = g1
    g2 = g2
    g3 = g3
    Threats = {c, q}
    Calls = 2
    Catalog <- MCCatalog
    Agents = {alice, bob}
    Modes = {m1, m2}
    Networks = {n1, n2}
    Classes = {x1}
    Inputs <- MCInputs
    Unit = 2
    GroupOf <- MCGroupOf
    CatalogHash = 7
    Blocks = 12
    Evidences <- MCEvidences
    PreferenceFiles <- MCPreferenceFiles
    ExpectedCommon = {1, 2, 3}
    ExpectedFrontier = {1, 2}
SPECIFICATION StageSpec
CHECK_DEADLOCK FALSE
INVARIANTS
    SafeSetIsExact
    CoreIsIrreducible
    MonotoneInTask
    SelectionIsFair
    StructuralIsUnanimous
