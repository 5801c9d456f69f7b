\* A program stops when it has cleaned up.
SPECIFICATION ProgramSpec
CONSTANTS
    MaxIncoming = 3
    MaxDevices = 2
    MaxPackets = 2
INVARIANTS
    PendingFinished
    UnregisteredAtExit
    ShutsDownLast
PROPERTIES
    TerminateEnds
    
CHECK_DEADLOCK FALSE
