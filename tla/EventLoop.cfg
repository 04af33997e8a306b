SPECIFICATION FairSpec
CONSTANTS
    Events = {0, 1, 2}
    MaxTime = 3
    Posts = {TRUE}
INVARIANTS
    NextIsEarliest
    SleepsUntilNextEvent
    NeverSleepsOnWork
PROPERTIES
    KeepsAlarms
    WorkIsDone
    AlarmsRing
