SPECIFICATION Spec
CONSTANTS
    MACRO_STATE_POOL_SIZE = 3
    MaxBatchSize = 2
    Commands <- CooperativeCommands
    TailCalls = FALSE
    Answers = {"ok", "empty"}
INVARIANTS
    RunQueueIntact
    AwakeAreScheduled
    SleepersHaveWakers
    EngineRequested
    CallersWait
