SPECIFICATION FairSpec
CONSTANTS
    Available = {"bt", "uart"}
    Synced = {"Reset", "Backlight", "PowerMode", "ModuleState", "ModuleGone"}
    MaxChanges = 2
    MaxBoth = 1
CONSTRAINT
    Explored
INVARIANTS
    NothingForgotten
    SleepsWhenDone
PROPERTIES
    Converges
\* Once the world changes no more, everyone sleeps.
CHECK_DEADLOCK FALSE
