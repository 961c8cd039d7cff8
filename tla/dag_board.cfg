CONSTANTS
    Nodes = {"g","s","s.x","ci"}
    Plans = {"p"}
    Root = "-"
    Plan <- OnePlan
    Kind <- BoardKind
    Parent <- BoardParent
    DependsOn <- BoardDeps
    Rank <- BoardRank
    Inputs <- NoInputs
    Calls = {c1, c2}
    MaxFaults = 2
    Faults = {"crash", "spawn", "wait", "agent"}
    MaxOps = 1
    Ops = {"approve", "report", "pause"}
    OperatorReports <- BoardReports
    MaxRetries = 1
    Defers = {"p"}
    Forgets = TRUE
SPECIFICATION Spec
SYMMETRY SomeCalls
INVARIANTS
    StartedInOrder
    StartsAreEarned
PROPERTIES
    FollowsBoard
CHECK_DEADLOCK FALSE
