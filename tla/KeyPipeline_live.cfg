SPECIFICATION FairSpec
CONSTANTS
    Keys = {1, 2}
    DualKeys = {1}
    ShortcutKeys = {1, 2}
    MacroKeys = {}
    BufferSize = 3
    MaxFill = 2
    KeystrokeDelay = FALSE
    Pointer = TRUE
    Scanner = "mainLoop"
INVARIANTS
    SleepsForAReason
PROPERTIES
    ModifiersFirst
    DualRoleFirst
    NoKeyStuck
\* Nobody need press a key.
CHECK_DEADLOCK FALSE
