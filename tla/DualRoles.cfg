SPECIFICATION Spec
CONSTANTS
    Keys = {1, 2}
    Configs <- MCConfigs
    MaxTime = 5
    MaxEvents = 4
INVARIANTS
    TimelineDecides
    DecidedInTime
    ShiftedByHold
\* The clock is bounded.
CHECK_DEADLOCK FALSE
