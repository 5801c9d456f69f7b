\* A program stops when its test is over.
SPECIFICATION TestsSpec
CONSTANTS
    Stray = 1
    MaxStray = 3
INVARIANTS
    ChecksAfterExchange
    SuccessIsSpotless
    VerifiedIsSpotless
    ReleasedOnce
PROPERTY TestEnds
CHECK_DEADLOCK FALSE
