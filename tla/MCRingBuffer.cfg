SPECIFICATION FairSpec
CONSTANTS
    N = 4
    MaxRequest = 5
    MaxAccepted = 10
INVARIANTS TypeOK NoTornElement AvailableIsExact
PROPERTIES ImplementsFifo EveryElementDelivered
