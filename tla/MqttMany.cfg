SPECIFICATION Spec
CONSTANTS
    NUM_SUBS = 2
    NUM_PUBS = 2
    MAX_ITER = 1
    QOS = 1
    MayFail = TRUE
    MayLose = TRUE
    MaxMsgs = 2
    MaxKills = 0
    MaxToken = 3
INVARIANTS HandoverExclusive PostAfterDelivery
CHECK_DEADLOCK FALSE
