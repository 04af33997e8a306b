SPECIFICATION Spec
CONSTANTS
    Keys = {1, 2}
    DualKeys = {}
    ShortcutKeys = {}
    MacroKeys = {1}
    BufferSize = 2
    MaxFill = 1
    KeystrokeDelay = TRUE
    Pointer = FALSE
    Scanner = "interrupt"
INVARIANTS
    NothingLost
PROPERTIES
    InOrder
    EveryEventActedOn
\* Nobody need press a key.
CHECK_DEADLOCK FALSE
