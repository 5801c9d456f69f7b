\* The calls of a run come to an end.
SPECIFICATION LibSpec
CONSTANTS
    MaxDevices = 2
    ChannelCount = 1
    MaxCalls = 2
    MaxSetups = 2
    Handles = {1, 2, 3}
INVARIANTS
    CallbackHasAll
    ListReleasedOnce
    OpensBeforeRelease
    OpenPortHasOwner
CHECK_DEADLOCK FALSE
