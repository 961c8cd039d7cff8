CONSTANTS
    Tasks = {1, 2, 3}
    PhaseOf <- ForkPhase
    Needs <- ForkNeeds
    Checked = {}
    AutoAdvance = FALSE
    AutoMode = TRUE
    Defers = FALSE
    Calls = {1, 2}
    Events = {}
    MaxEvents = 0
    Touched = {}
SPECIFICATION Spec
INVARIANTS
    OneAgentPerPlan
CHECK_DEADLOCK FALSE
