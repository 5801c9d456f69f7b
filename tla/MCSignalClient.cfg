SPECIFICATION FairSpec
CONSTANTS
    Pairs = {potato}
    Cut = pot
    ClientTicks = 1
    IdleTicks = 2
INVARIANTS
    CompletedHasCandidates
    ClosedOnce
PROPERTY ProgramEnds
CHECK_DEADLOCK FALSE
