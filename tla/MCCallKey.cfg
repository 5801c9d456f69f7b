SPECIFICATION Spec
CONSTANTS
    s1 = s1
    s2 = s2
    s3 = s3
    NoThread = NoThread
    Senders <- MCTwoSenders
    MaxCalls = 2
    MaxIncoming = 0
INVARIANT CurrentKey
CHECK_DEADLOCK FALSE
