CONSTANTS
    Merges = {m1, m2}
    Workflows = {tests, docs}
    Blocking = {tests}
    MaxAttempts = 2
    Events = {"bump", "slow", "held", "refused", "conflict", "red", "odd", "late",
              "off", "server"}
    MaxEvents = 1
SPECIFICATION FairSpec
INVARIANTS
    LockIsKept
    VerdictsAreTrue
    OneRowPerCommit
PROPERTIES
    RowsSettle
    MergesAreDecided
    PushesGetTheLock
CHECK_DEADLOCK FALSE
