CONSTANTS
    a = a
    b = b
    Agents = {a, b}
    Hooked = {a}
    Worktrees = FALSE
    Handlers = {1, 2, 3}
    Serves <- HookedAndPolled
    Watchers = {1, 2}
    MaxPolls = 2
    Events = {"prompt", "silent", "git", "lost", "pause", "resume",
              "mess", "server"}
    MaxEvents = 1
SPECIFICATION FairSpec
INVARIANTS
    ExitOnce
    OneWatcher
PROPERTIES
    CheckedExitIsCommitted
    DirtyPauseLifts
    IdleAgentsLeave
CHECK_DEADLOCK FALSE
