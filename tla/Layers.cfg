SPECIFICATION Spec
CONSTANTS
    Layers = {0, 1, 2, 8}
    Keymaps = {1, 2}
    Keys = {1, 2}
    Actions <- MCActions
    Macros = {m1, m2}
    Targets <- MCTargets
    LAYER_STACK_SIZE = 4
    MaxCommands = 2
INVARIANTS
    NoStuckLayer
PROPERTIES
    StackKept
