CONSTANTS
    MaxConn = 2
    MaxEvents = 1
    MaxCommands = 0
    MaxFaults = 1
    FaultKinds = {"link"}
    Drift = FALSE
    AuthReport = FALSE
SPECIFICATION FairSpec
PROPERTY HeldEventIsHandled
CHECK_DEADLOCK FALSE
