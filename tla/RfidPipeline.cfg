SPECIFICATION FairSpec
CONSTANTS
    a1 = a1
    a2 = a2
    a3 = a3
    a4 = a4
    d1 = d1
    itemA = itemA
    itemD = itemD
    z1 = z1
    z2 = z2
    NoZone = NoZone
    Event = {a1, a3}
    Epc = {itemA}
    Zone = {z1, z2}
    EpcOf <- MCEpcOf
    ZoneOf <- MCZoneOf
    ObservedAt <- MCObservedAt
    ConfirmationReads = 1
    Window = 2
    MaxEventIds = 1
    MaxEpcs = 1
    Batch = {b1, b2}
    Requests <- RetriedRequests
    DeviceStates = {FALSE}
    Time = {3}
    TooFarAhead = {}
    MaxAttempts = 2
    MaxRestarts = 1
    MaxReplays = 2
CHECK_DEADLOCK FALSE
INVARIANTS
    TypeOK
    LedgerMatchesOutbox
    BatchesTellTheTruth
PROPERTIES
    ProcessedIsFinal
    EveryEventSettles
