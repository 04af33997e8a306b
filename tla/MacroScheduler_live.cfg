SPECIFICATION FairSpec
CONSTANTS
    MACRO_STATE_POOL_SIZE = 2
    MaxBatchSize = 2
    Commands <- CommandKinds
    TailCalls = TRUE
    Answers = {"ok", "empty", "noScope"}
PROPERTIES CyclesEnd TimeSleepersWake EveryoneRuns
