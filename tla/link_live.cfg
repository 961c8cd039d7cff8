CONSTANTS
    MaxConn = 3
    MaxEvents = 0
    MaxCommands = 1
    MaxFaults = 1
    FaultKinds = {"server", "link"}
    Drift = FALSE
    AuthReport = FALSE
SPECIFICATION FairSpec
INVARIANTS
    CommandAtMostOnce
PROPERTIES
    CommandsAreMail
    RunnerEndsUpReachable
    CommandsGetAcked
CHECK_DEADLOCK FALSE
