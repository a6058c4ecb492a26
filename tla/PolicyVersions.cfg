SPECIFICATION FairSpec
CONSTANTS
    s1 = s1
    k1 = k1
    y1 = y1
    g1 = g1
    m1 = m1
    m2 = m2
    Null = Null
    Client = {c1, c2}
    Policy = {p1, p2}
    MaxVersions = 2
    Store = {s1}
    Sku = {k1}
    Style = {y1}
    Category = {g1}
    Size = {m1, m2}
    Priority <- Ranks
    RuleLists <- Lists
INVARIANTS
    TypeOK
    UnambiguousSelection
    DiscoveryShowsWhatIsEvaluated
    ClonedNumberIsFree
PROPERTIES
    ActiveVersionsImmutable
    RequestsEnd
