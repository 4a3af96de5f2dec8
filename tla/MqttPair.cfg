SPECIFICATION FairSpec
CONSTANTS
    NUM_SUBS = 1
    NUM_PUBS = 1
    MAX_ITER = 2
    QOS = 1
    MayFail = FALSE
    MayLose = FALSE
    MaxMsgs = 4
    MaxKills = 2
    MaxToken = 3
INVARIANTS TokenVisible SamplesComplete SemaphoresAlive
PROPERTIES Terminates StopAndWaitHolds
CHECK_DEADLOCK FALSE
