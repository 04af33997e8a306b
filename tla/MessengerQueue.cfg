SPECIFICATION FairSpec
CONSTANTS
    PoolSize = 3
    Retries = 10
    Producers = {1, 2}
    Swapping = {2}
    MaxUnread = 2
INVARIANTS
    NothingLeaks
    PanicsOnlyAfterRace
PROPERTIES
    MailboxKept
    MessagesReceived
\* Nobody need send a message, and k_panic stops the device.
CHECK_DEADLOCK FALSE
