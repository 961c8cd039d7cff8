CONSTANTS
    Tasks = {1, 2}
    Defers = TRUE
    Gate = TRUE
    Recipe = TRUE
    Worktrees = TRUE
    CiConfigured = TRUE
    Cap = 2
    Runs = {1, 2}
    Helpers = {1, 2}
    Events = {"gate", "git", "conflict", "red", "stall", "leftover", "crash",
              "off", "flush", "server"}
    MaxEvents = 3
SPECIFICATION FairSpec
INVARIANTS
    AttemptsWithinCap
    NobodyIsForgotten
PROPERTIES
    OwnBranchLandsChecked
    EveryBranchSettles
CHECK_DEADLOCK FALSE
