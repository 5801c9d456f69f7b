SPECIFICATION FairSpec
CONSTANTS
    s1 = s1
    s2 = s2
    s3 = s3
    NoThread = NoThread
    Senders <- MCTwoSenders
    MaxCalls = 1
    MaxIncoming = 0
PROPERTY StopReturns
CHECK_DEADLOCK FALSE
