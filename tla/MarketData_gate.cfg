CONSTANTS
    MsgTypes = {"ADD"}
    MaxQty = 1
    MaxSeq = 3
    REPLAY_CAPACITY = 1
    ServerLag = 0
    MaxCuts = 1
    FaultyServer = FALSE
SPECIFICATION Spec
INVARIANT SynchronizedOnSnapshot
CHECK_DEADLOCK FALSE
