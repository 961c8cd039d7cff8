CONSTANTS
    Nodes = {"s","s.x","s.g","end","q.init"}
    Plans = {"p","q"}
    Root = "-"
    Plan <- GatedPlan
    Kind <- GatedKind
    Parent <- GatedParent
    DependsOn <- GatedDeps
    Rank <- GatedRank
    Inputs <- QAfterP
    Calls = {c1, c2}
    MaxFaults = 1
    Faults = {"check", "lag"}
    MaxOps = 0
    Ops = {"approve", "retry"}
    OperatorReports <- NoReports
    MaxRetries = 9
    Defers = {}
    Forgets = FALSE
SPECIFICATION FairSpec
INVARIANTS
    ClosedAfterChildren
    NothingReadyWhenQuiet
PROPERTIES
    PlansFinish
CHECK_DEADLOCK FALSE
