SPECIFICATION FairSpec
CONSTANTS
    MAXCALLS = 4
    MAXTIME = 3
    STARTUP = 1
    RETRANSMIT_DELAY = 1
    CALL_TIMEOUT = 1
    CALL_RETRIES = 0
    NFS_TICK = 1
    XID_STEP = 2
    NETCAP = 1
    MAXLOSS = 1
    MAXREFUSED = 1
INVARIANTS
    QueueHasOwners
PROPERTIES
    RefinesRemoteCall
    CallsEnd
CHECK_DEADLOCK FALSE
