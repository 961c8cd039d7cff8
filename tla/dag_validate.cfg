CONSTANTS
    Ids <- SomeIds
    Plans <- SmallPlans
SPECIFICATION Spec
INVARIANTS
    OrderIsTopological
    VerdictIsRight
    CyclesAreNamed
CHECK_DEADLOCK FALSE
