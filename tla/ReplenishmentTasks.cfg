SPECIFICATION Spec
CONSTANTS
    picker = picker
    manager = manager
    NoUser = NoUser
    NoTask = NoTask
    Task = {1, 2}
    User = {picker, manager}
    Manager = {manager}
    Guessing = {picker}
    Move = {m1, m2}
    MinFloor = 1
    TargetFloor = 2
    MaxStock = 1
    VerificationWindow = 1
    MaxFutureSkew = 2
    MaxTime = 1
    MaxVersion = 5
    MaxAhead = 1
SYMMETRY Symmetry
CHECK_DEADLOCK FALSE
INVARIANTS
    TypeOK
    VerifiedByEvidence
PROPERTIES
    ImplementsTaskBoard
    ClaimsWhatWasSeen
