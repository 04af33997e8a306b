SPECIFICATION Spec
CONSTANTS
    Commands <- ControlCommands
    MaxCommands = 6
    MACRO_SCOPE_STATE_POOL_SIZE = 3
    Careful = TRUE
INVARIANTS
    ScopesMatchBlocks
PROPERTIES
    KeepsBlocks
