SPECIFICATION Spec
CONSTANTS
    a1 = a1
    a2 = a2
    a3 = a3
    a4 = a4
    d1 = d1
    itemA = itemA
    itemD = itemD
    z1 = z1
    z2 = z2
    NoZone = NoZone
    Event = {a2, a3, a4, d1}
    Epc = {itemA, itemD}
    Zone = {z1, z2}
    EpcOf <- MCEpcOf
    ZoneOf <- MCZoneOf
    ObservedAt <- MCObservedAt
    ConfirmationReads = 2
    Window = 1
    MaxEventIds = 1
    MaxEpcs = 1
    Batch = {b1}
    Requests <- WholeRequests
    DeviceStates = {TRUE}
    Time = {1}
    TooFarAhead = {}
    MaxAttempts = 2
    MaxRestarts = 1
    MaxReplays = 1
CHECK_DEADLOCK FALSE
INVARIANTS
    NeverItsOwnDuplicate
    RestoreUndoes
    LocationIsConfirmed
PROPERTY MovesFollowTheNewestEvidence
