CONSTANTS
    MaxConn = 2
    MaxEvents = 1
    MaxCommands = 0
    MaxFaults = 1
    FaultKinds = {"link", "runner", "server"}
    Drift = TRUE
    AuthReport = FALSE
SPECIFICATION Spec
INVARIANTS
    EventAtMostOnce
PROPERTIES
    EventsAreMail
CHECK_DEADLOCK FALSE
