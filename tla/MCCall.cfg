SPECIFICATION FairSpec
CONSTANTS
    s1 = s1
    s2 = s2
    s3 = s3
    NoThread = NoThread
    Senders <- MCSenders
    MaxCalls = 2
    MaxIncoming = 1
INVARIANTS
    PendingFinished
    HangupInCallSafe
    SenderHasItsResources
    OneReader
PROPERTIES
    BlockOnCallOutlastsCall
    HangupCompletes
    RemoteEndUnblocks
\* The user need not start another call, and an undefined state has no successor.
CHECK_DEADLOCK FALSE
