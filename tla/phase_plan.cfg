CONSTANTS
    Tasks = {1, 2, 3}
    PhaseOf <- JoinPhase
    Needs <- NoNeeds
    Checked = {1}
    AutoAdvance = FALSE
    AutoMode = TRUE
    Defers = TRUE
    Calls = {1, 2}
    Events = {"start", "lag", "verdict", "merge", "mute", "failed", "complete",
              "reopen", "server"}
    MaxEvents = 1
    Touched = {2}
SPECIFICATION FairSpec
INVARIANTS
    OneAgentPerTask
    NoClaimLeaks
    NothingStartableWhenQuiet
PROPERTIES
    ClaimsAreEarned
    PlanFinishes
CHECK_DEADLOCK FALSE
