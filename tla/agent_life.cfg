\* One terminal agent with two faults and one kill.
CONSTANTS
    MaxFaults = 2
    Faults = {"server", "daemon", "start", "wedge"}
    MaxKills = 1
SPECIFICATION FairSpec
INVARIANTS
    HandedOverOnce
    CrashIsNoCompletion
PROPERTIES
    HandedOverWhenDone
    CleanExitReachesAutoMode
    RunningSettles
CHECK_DEADLOCK FALSE
