CONSTANTS
    MsgTypes = {"ADD", "EXECUTE", "REPLACE"}
    MaxQty = 1
    MaxSeq = 3
    REPLAY_CAPACITY = 1
    ServerLag = 1
    MaxCuts = 1
    FaultyServer = TRUE
    QueueCapacity = 4
SPECIFICATION FairPathSpec
INVARIANTS TypeOK NoGapReachesEngine RecoveryStateConsistent ReplayQueueExact EngineBookExact PipelineContiguous
PROPERTIES ImplementsStream EngineCatchesUp RecoveryEndsOrWedges
CHECK_DEADLOCK FALSE
