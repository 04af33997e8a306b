SPECIFICATION Spec
CONSTANTS
    PoolSize = 3
    Retries = 10
    Producers = {1}
    Swapping = {}
    MaxUnread = 2
INVARIANTS
    NeverPanics
\* Nobody need send a message, and k_panic stops the device.
CHECK_DEADLOCK FALSE
