SPECIFICATION FairSpec
CONSTANTS
    Modules = {"cluster", "trackball"}
    Old = {"trackball"}
    KeyCount <- ModuleKeys
    Handshake <- ShortHandshake
    Timeout = 2
    MaxInFlight = 1
    MaxChanges = 3
INVARIANTS
    KeysOfKnownModule
    NoGhostKeys
PROPERTIES
    StaysListed
    GoneIsReported
    ModuleBecomesKnown
\* A stranded poller leaves nothing to do.
CHECK_DEADLOCK FALSE
