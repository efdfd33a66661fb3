CONSTANTS
    MAX_TASK_NUM = 4
    MaxThreads = 4
    CALC_STREAM_NUMBER = 1
    KB = 2
    MaxPktSize = 2
    Sizes = {0, 2, 3}
    Amounts = {0, 1}
    RxSize = 1
    MaxBytes = 1
    Mix <- MCMix
SPECIFICATION FairSpec
CHECK_DEADLOCK FALSE
INVARIANTS
    RunningTasksKeepTheirSlot
    StreamsAreExclusive
    CountsAgree
PROPERTIES
    QuitEndsStreams
    ExitedIsRecycled
