SPECIFICATION Spec
CONSTANTS
    e1 = e1
    e2 = e2
    s1 = s1
    s2 = s2
    front = front
    remote = remote
    Epc = {e1, e2}
    Store = {s1, s2}
    Bucket = {front, remote}
    StoreOf <- MCStoreOf
    NoLocation = NoLocation
    MaxVersion = 2
    MaxAttempts = 2
    RebuildOutlastsRetries = TRUE
INVARIANT DrainedProjectionExact
