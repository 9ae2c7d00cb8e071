CONSTANTS
    MsgTypes = {"ADD", "DELETE"}
    MaxQty = 1
    MaxSeq = 3
    REPLAY_CAPACITY = 1
    ServerLag = 0
    MaxCuts = 0
    FaultyServer = FALSE
SPECIFICATION FairSpec
PROPERTY RecoveryEnds
CHECK_DEADLOCK FALSE
